-------------------------------- MODULE Arrays ---------------------------------
(* src/massives/massives.c: the two items of its menu that go through an array in an *)
(* order of their own: ulitka(), a square filled as a spiral, one side per step, and  *)
(* reverse_output(), an array turned round while it is printed.                       *)
EXTENDS Integers, Sequences, FiniteSets, SequencesExt

CONSTANTS
    Sizes,              \* what may be typed for N
    Elements            \* what may be typed for an element

ASSUME ArraysAssumption == Sizes \subseteq Int

VARIABLES
    aitem,              \* "ulitka" or "reverse"
    asize,              \* N
    matrix,             \* ulitka: the elements written, a function on <<row, column>>
    top, bottom, left, right,
    aside,              \* ulitka: the next of the four loops
    anum,               \* ulitka: num, the number written next; reverse: i
    array, typed,       \* reverse: the array, and what was typed
    aout                \* reverse: what was printed

aVars == <<aitem, asize, matrix, top, bottom, left, right, aside, anum, array, typed, aout>>
spiralVars == <<matrix, top, bottom, left, right, aside>>

ArraysTypeOK ==
    /\ aitem \in {"ulitka", "reverse"} /\ asize \in Sizes /\ aside \in 1 .. 4 /\ anum \in Nat
    /\ {top, bottom, left, right} \subseteq 0 .. asize
    /\ DOMAIN array = DOMAIN typed /\ Len(aout) <= asize

\* A size below 1 is a message and the end.
ArraysInit ==
    /\ aitem \in {"ulitka", "reverse"} /\ asize \in {n \in Sizes : n > 0}
    /\ matrix = [p \in {} |-> 0] /\ top = 0 /\ bottom = asize /\ left = 0 /\ right = asize
    /\ aside = 1 /\ anum = (IF aitem = "ulitka" THEN 1 ELSE 0)
    /\ typed \in IF aitem = "ulitka" THEN {<<>>} ELSE [0 .. asize - 1 -> Elements]
    /\ array = typed /\ aout = <<>>

\* The cells of the four loops, in their order.
\* (Mutant: the third loop takes the last column, which the second has filled, again.)
CornerTwice ==
    CASE aside = 1 -> [k \in 1 .. right - left |-> <<top, left + k - 1>>]
      [] aside = 2 -> [k \in 1 .. bottom - top |-> <<top + k - 1, right - 1>>]
      [] aside = 3 -> [k \in 1 .. right - left + 1 |-> <<bottom - 1, right - k + 1>>]
      [] aside = 4 -> [k \in 1 .. bottom - top |-> <<bottom - k, left>>]
SideCells ==
    CASE aside = 1 -> [k \in 1 .. right - left |-> <<top, left + k - 1>>]
      [] aside = 2 -> [k \in 1 .. bottom - top |-> <<top + k - 1, right - 1>>]
      [] aside = 3 -> [k \in 1 .. right - left |-> <<bottom - 1, right - k>>]
      [] aside = 4 -> [k \in 1 .. bottom - top |-> <<bottom - k, left>>]

\* The numbers, from num on, go to the cells; then that side moves inwards.
FillSide ==
    /\ aitem = "ulitka" /\ (aside = 1 => anum <= asize * asize)
    /\ matrix' = [p \in DOMAIN matrix \cup ToSet(SideCells) |->
                    IF p \in ToSet(SideCells)
                    THEN anum - 1 + (CHOOSE k \in DOMAIN SideCells : SideCells[k] = p) ELSE matrix[p]]
    /\ anum' = anum + Len(SideCells)
    /\ top' = (IF aside = 1 THEN top + 1 ELSE top)
    /\ right' = (IF aside = 2 THEN right - 1 ELSE right)
    /\ bottom' = (IF aside = 3 THEN bottom - 1 ELSE bottom)
    /\ left' = (IF aside = 4 THEN left + 1 ELSE left)
    /\ aside' = (aside % 4) + 1
    /\ UNCHANGED <<aitem, asize, array, typed, aout>>

\* Element i is exchanged with its opposite, unless that has been done, and printed.
\* (Mutant: it is always done.)
AlwaysSwaps(i) == TRUE
Swaps(i) == asize - i - 1 > i

TurnElement ==
    /\ aitem = "reverse" /\ anum < asize
    /\ array' = IF Swaps(anum)
                THEN [array EXCEPT ![asize - anum - 1] = array[anum], ![anum] = array[asize - anum - 1]]
                ELSE array
    /\ aout' = Append(aout, array'[anum]) /\ anum' = anum + 1
    /\ UNCHANGED <<aitem, asize, typed, spiralVars>>

ArraysNext == FillSide \/ TurnElement

ArraysSpec == ArraysInit /\ [][ArraysNext]_aVars

-------------------------------------------------------------------------------
\* The spiral never leaves the square, and numbers every cell once, each next to the
\* one before; so it has no gap when the last side is done, whatever the size.
SpiralUnbroken ==
    aitem = "ulitka" =>
      /\ Cardinality(DOMAIN matrix) = anum - 1
      /\ DOMAIN matrix \subseteq (0 .. asize - 1) \X (0 .. asize - 1)
      /\ \A p, q \in DOMAIN matrix : matrix[q] = matrix[p] + 1 =>
           (p[1] - q[1]) * (p[1] - q[1]) + (p[2] - q[2]) * (p[2] - q[2]) = 1
      /\ aside = 1 /\ anum > asize * asize =>
           DOMAIN matrix = (0 .. asize - 1) \X (0 .. asize - 1)

\* What was printed is what was typed, from the end on, and at the end the array is
\* turned round.
TurnedRound ==
    aitem = "reverse" =>
      /\ \A k \in DOMAIN aout : aout[k] = typed[asize - k]
      /\ anum = asize => \A i \in DOMAIN array : array[i] = typed[asize - 1 - i]
===============================================================================
