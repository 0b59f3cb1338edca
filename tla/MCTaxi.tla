------------------------------- MODULE MCTaxi -------------------------------
(* Model checking of TaxiControl: pids are interchangeable in the safety runs. *)
EXTENDS TaxiControl, TLC

Symmetry == Permutations(Pids)

Glibc    == {"none"}                  \* behind pfds[] calloc() left zeroes
AnyAlloc == {"none", "in", "hup"}     \* any allocator
=============================================================================
