---------------------------- MODULE ClientTable -----------------------------
(* src/echo_raw/src/client_table.c: the hash table in which the echo server     *)
(* keeps a counter for every client.  A bucket is a singly linked list; it is    *)
(* modelled as the sequence of its nodes, first node first.                      *)
EXTENDS Naturals, Sequences

CONSTANTS
    Keys,           \* rawudp_client_key_t: address and port of a client
    Buckets,        \* 0 .. nb-1
    HashKey,        \* hash_key(k) % nb, as a function
    CounterMod      \* 2^32

ASSUME ClientTableAssumption ==
    /\ HashKey \in [Keys -> Buckets]
    /\ CounterMod \in Nat \ {0, 1}

VARIABLE buckets

Node == [key : Keys, counter : 0 .. CounterMod - 1]

TableTypeOK == buckets \in [Buckets -> Seq(Node)]

\* rawudp_ct_create()
CtInit == buckets = [b \in Buckets |-> <<>>]

Chain(k) == buckets[HashKey[k]]

\* (Mutant: only the first node is looked at.)
First(k) == Chain(k) # <<>> /\ Chain(k)[1].key = k
Present(k) == \E i \in DOMAIN Chain(k) : Chain(k)[i].key = k

\* Where the walk along the chain stops.
Place(k) == CHOOSE i \in DOMAIN Chain(k) :
              /\ Chain(k)[i].key = k
              /\ \A j \in 1 .. i - 1 : Chain(k)[j].key # k

\* The counter that rawudp_ct_next() stores in the node and hands out.
\* (Mutants: the counter of a known key is not incremented; it does not wrap.)
NoStep(n) == n
Wider(n) == n + 1
Step(n) == (n + 1) % CounterMod

Issued(k) == IF Present(k) THEN Step(Chain(k)[Place(k)].counter) ELSE 1

\* rawudp_ct_next(): count in the node of the key, or put a new node in front.
CtNext(k) ==
    buckets' = [buckets EXCEPT ![HashKey[k]] =
                  IF Present(k)
                  THEN [@ EXCEPT ![Place(k)] = [key |-> k, counter |-> Issued(k)]]
                  ELSE <<[key |-> k, counter |-> Issued(k)]>> \o @]

\* (Mutant: the first node is unlinked with everything behind it.)
CutAt(s, i) == SubSeq(s, 1, i - 1)
Unlinked(s, i) == SubSeq(s, 1, i - 1) \o SubSeq(s, i + 1, Len(s))

\* rawudp_ct_reset(): take the node of the key out of its list.
CtReset(k) ==
    buckets' = [buckets EXCEPT ![HashKey[k]] =
                  IF Present(k) THEN Unlinked(@, Place(k)) ELSE @]

CtStep == \E k \in Keys : CtNext(k) \/ CtReset(k)

TableSpec == CtInit /\ [][CtStep]_buckets

-----------------------------------------------------------------------------
\* The table holds one node for a key at most, in the bucket of its hash: what a
\* walk finds first is all there is, and a key taken out is out.
OneNodePerKey ==
    \A b \in Buckets : \A i, j \in DOMAIN buckets[b] :
      /\ HashKey[buckets[b][i].key] = b
      /\ buckets[b][i].key = buckets[b][j].key => i = j

\* The table is an implementation of one counter per key: keys that collide do
\* not disturb each other, wherever in the list a node is updated or unlinked.
Counters == [k \in {x \in Keys : Present(x)} |-> Chain(k)[Place(k)].counter]

T == INSTANCE Tally WITH tally <- Counters

ImplementsTally == T!TallySpec
=============================================================================
