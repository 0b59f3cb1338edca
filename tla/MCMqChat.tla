------------------------------ MODULE MCMqChat ------------------------------
(* Model checking of MqChat: clients are interchangeable in the safety runs.   *)
EXTENDS MqChat, TLC

Symmetry == Permutations(Clients)

\* A state may have at most one killed client, whose queue has kept its name, and
\* two of the users may have typed a line.
Explored ==
    /\ Cardinality({c \in Clients : cpc[c] = "gone" /\ linked[c]}) <= 1
    /\ \E c \in Clients : lines[c] = 0
=============================================================================
