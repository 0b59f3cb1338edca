------------------------------- MODULE Tally --------------------------------
(* What the echo server promises about numbers: one counter for every client  *)
(* address it has heard of, counting that client's requests and no other's.    *)
EXTENDS Naturals

CONSTANTS
    Keys,           \* client addresses
    CounterMod      \* 2^32: the counters are uint32_t

VARIABLE tally      \* a function from the addresses heard of to their counters

TallyInit == tally = [k \in {} |-> 0]

Counted(k) == IF k \in DOMAIN tally THEN (tally[k] + 1) % CounterMod ELSE 1

Count(k) ==
    tally' = [x \in DOMAIN tally \cup {k} |-> IF x = k THEN Counted(k) ELSE tally[x]]

Forget(k) == tally' = [x \in DOMAIN tally \ {k} |-> tally[x]]

TallyNext == \E k \in Keys : Count(k) \/ Forget(k)

TallySpec == TallyInit /\ [][TallyNext]_tally
=============================================================================
