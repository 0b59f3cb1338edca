-------------------------------- MODULE Fleet --------------------------------
(* What the taxi controller promises of its drivers, whatever the sockets,     *)
(* the event loops and the timers do: a cab joins once, is hired only while it *)
(* is free, comes due when its task timer fires, is released only when it is   *)
(* due, and never comes back once it left.  TaxiControl implements it.         *)

CONSTANT Cabs

VARIABLE cab       \* the state of each cab

CabStates == {"none", "free", "hired", "due", "gone"}

FleetInit == cab = [c \in Cabs |-> "none"]

Becomes(c, from, to) ==
    /\ cab[c] \in from
    /\ cab' = [cab EXCEPT ![c] = to]

Join(c)    == Becomes(c, {"none"}, "free")
Hire(c)    == Becomes(c, {"free"}, "hired")
Due(c)     == Becomes(c, {"hired"}, "due")
Release(c) == Becomes(c, {"due"}, "free")
Leave(c)   == Becomes(c, {"free", "hired", "due"}, "gone")

FleetNext == \E c \in Cabs : Join(c) \/ Hire(c) \/ Due(c) \/ Release(c) \/ Leave(c)

\* A hired cab comes due, and a due cab is released, unless it leaves.
FleetFairness == \A c \in Cabs : WF_cab(Due(c)) /\ WF_cab(Release(c))

FleetSafety == FleetInit /\ [][FleetNext]_cab

FleetSpec == FleetSafety /\ FleetFairness
==============================================================================
