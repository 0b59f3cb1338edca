------------------------------ MODULE MCShmChat ------------------------------
(* Model checking of ShmChat: clients are interchangeable in the safety runs.  *)
EXTENDS ShmChat, TLC

Symmetry == Permutations(Clients)

\* The safety properties promise nothing once a lock_sem() has failed or a server
\* was started over attached clients.  What follows is explored for the types: by
\* one user's line and the notices, without kills and restarts.
Explored ==
    broken => kills = 0 /\ starts = 1 /\ \E c \in Clients : lines[c] = 0
=============================================================================
