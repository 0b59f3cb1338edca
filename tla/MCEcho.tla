------------------------------- MODULE MCEcho --------------------------------
(* Model checking of Echo.  Two hosts; the addresses of the clients are one of    *)
(* the functions below, and all addresses share one bucket of the table.          *)
EXTENDS Echo, TLC

CONSTANTS a, b, here, there

At(host, port) == [host |-> host, port |-> port]

ServerAddress == At(here, 7)

\* Clients on another host, with ports of their own.
TwoPorts == [c \in Clients |-> At(there, c)]

Symmetry == Permutations(Clients)

\* A packet is duplicated or a client is stopped, not both.
OneFault == faults.dup + faults.interrupt <= 1

\* One client there; one on the server's host, where it hears also the requests.
OneIsHere == (a :> At(there, 1)) @@ (b :> At(here, 1))

\* One client there; one with the server's host and port.
OneIsServer == (a :> At(there, 1)) @@ (b :> At(here, 7))

\* Two clients that picked the same port of one host.
SamePort == (a :> At(there, 1)) @@ (b :> At(there, 1))

OneBucket == {0}
AllCollide == [k \in Keys |-> 0]
=============================================================================
