--------------------------------- MODULE Bits ----------------------------------
(* src/bits_operations/bits.c: the loops over the bits of an int, one iteration per  *)
(* step.  An int is its bits in two's complement, bit 0 first; its width is four     *)
(* times that of a byte.                                                             *)
EXTENDS Integers, Sequences, FiniteSets

CONSTANT ByteBits       \* bits of a byte

ASSUME BitsAssumption == ByteBits \in Nat \ {0}

Width == 4 * ByteBits
Sign  == Width - 1
Ints  == [0 .. Sign -> {0, 1}]
Zero  == [i \in 0 .. Sign |-> 0]
Units == {"positive", "negative", "count", "third"}     \* the items of the menu

\* Bound: what is typed for a byte has at most one bit more.
TypedBytes == {x \in Ints : \A i \in ByteBits + 1 .. Sign : x[i] = 0}

VARIABLES
    bitem,              \* the item chosen
    input,
    input_byte,         \* what is read for a third byte: any unsigned number
    podopitniy,         \* the number that the loop takes apart; input in count
    shift,              \* the counter of the loop
    bprinted,           \* the last number printed: a sequence of digits
    bdone

bVars == <<bitem, input, input_byte, podopitniy, shift, bprinted, bdone>>

BitsTypeOK ==
    /\ bitem \in Units /\ {input, podopitniy, input_byte} \subseteq Ints
    /\ shift \in 0 .. Width /\ bdone \in BOOLEAN
    /\ Len(bprinted) \in {0, 1, Width}

BitsInit ==
    /\ bitem \in Units /\ input \in Ints
    /\ input_byte \in (IF bitem = "third" THEN TypedBytes ELSE {Zero})
    /\ podopitniy = input /\ shift = 0 /\ bprinted = <<>> /\ bdone = FALSE

\* x >> 1 keeps the sign; x << n.
HalfOf(x)      == [i \in 0 .. Sign |-> IF i = Sign THEN x[i] ELSE x[i + 1]]
LeftBy(x, n)   == [i \in 0 .. Sign |-> IF i < n THEN 0 ELSE x[i - n]]
OrOf(x, y)     == [i \in 0 .. Sign |-> IF x[i] + y[i] = 0 THEN 0 ELSE 1]
Inverted(x)    == [i \in 0 .. Sign |-> 1 - x[i]]
Negative(x)    == x[Sign] = 1

\* (x & mask) >> bit_counter from the highest bit on: the sign, moved, is -1.
DirectPrint(x) == [k \in 1 .. Width |-> IF k = 1 THEN -x[Sign] ELSE x[Width - k]]

\* positive_to_bits(): the number is halved until it is 0, then printed.
\* (Mutant: until it is 1.)
HalvedToOne(x) == x = [Zero EXCEPT ![0] = 1]
HalvedOut(x) == x = Zero

HalvePositive ==
    /\ bitem = "positive" /\ ~bdone
    /\ IF HalvedOut(podopitniy)
       THEN bdone' = TRUE /\ bprinted' = DirectPrint(input) /\ UNCHANGED podopitniy
       ELSE podopitniy' = HalfOf(podopitniy) /\ UNCHANGED <<bdone, bprinted>>
    /\ UNCHANGED <<bitem, input, input_byte, shift>>

\* negative_to_bits(): minus one by turning the zeroes before the lowest one into
\* ones, then the inverse.  The sign is not looked at, and the number that has no
\* other one is not inverted.
\* (Mutant: the last bit before the sign is not looked at either.)
LoopsToLast == shift < Sign - 1
Loops == shift < Sign

BorrowBit ==
    /\ bitem = "negative" /\ ~bdone /\ Negative(input) /\ Loops
    /\ IF podopitniy[shift] = 0
       THEN /\ podopitniy' = [podopitniy EXCEPT ![shift] = 1]
            /\ shift' = shift + 1 /\ UNCHANGED <<bdone, bprinted>>
       ELSE /\ podopitniy' = Inverted([podopitniy EXCEPT ![shift] = 0])
            /\ bdone' = TRUE /\ bprinted' = DirectPrint(podopitniy') /\ UNCHANGED shift
    /\ UNCHANGED <<bitem, input, input_byte>>

PrintNegative ==
    /\ bitem = "negative" /\ ~bdone /\ (Negative(input) => ~Loops)
    /\ bdone' = TRUE /\ bprinted' = DirectPrint(podopitniy)
    /\ UNCHANGED <<bitem, input, input_byte, podopitniy, shift>>

\* count_positive_bits(): shift is its counter.
Counted(x) == ~Negative(x) /\ x # Zero

CountBit ==
    /\ bitem = "count" /\ ~bdone
    /\ IF ~Counted(input) \/ podopitniy = Zero
       THEN /\ bdone' = TRUE /\ UNCHANGED <<podopitniy, shift>>
            /\ bprinted' = IF Counted(input) THEN <<shift>> ELSE <<>>
       ELSE /\ podopitniy' = HalfOf(podopitniy) /\ shift' = shift + podopitniy[0]
            /\ UNCHANGED <<bdone, bprinted>>
    /\ UNCHANGED <<bitem, input, input_byte>>

\* change_third_byte()
\* (Mutant: the old byte is not cleared.)
NotCleared(x) == x
Cleared(x) == [i \in 0 .. Sign |-> IF i \in 2 * ByteBits .. 3 * ByteBits - 1 THEN 0 ELSE x[i]]

ChangeByte ==
    /\ bitem = "third" /\ ~bdone /\ bdone' = TRUE
    /\ podopitniy' = OrOf(Cleared(input), LeftBy(input_byte, 2 * ByteBits))
    /\ UNCHANGED <<bitem, input, input_byte, shift, bprinted>>

BitsNext == HalvePositive \/ BorrowBit \/ PrintNegative \/ CountBit \/ ChangeByte

BitsFairness == WF_bVars(BitsNext)

BitsSpec == BitsInit /\ [][BitsNext]_bVars /\ BitsFairness

-------------------------------------------------------------------------------
\* The number that the bits below the sign stand for, read from the highest one on.
ValueOf(x) ==
    LET value[k \in 0 .. Sign] == IF k = 0 THEN 0 ELSE 2 * value[k - 1] + x[Sign - k]
    IN  value[Sign]

Highest == [i \in 0 .. Sign |-> IF i = Sign THEN 0 ELSE 1]
IntOf(x) == IF Negative(x) THEN ValueOf(x) - ValueOf(Highest) - 1 ELSE ValueOf(x)

Lowest == [i \in 0 .. Sign |-> IF i = Sign THEN 1 ELSE 0]

\* What is computed.  Of a negative number: below the sign, the digits of its direct code,
\* which are those of its absolute value; the lowest number has none.  (The sign, which
\* is 1 in that code, is inverted with the rest: nothing is stated of it.)  The number of
\* ones; and a number with its third byte changed, if the new byte is one.
BitsRight ==
    bdone =>
      /\ bitem = "negative" /\ Negative(input) /\ input # Lowest =>
           ValueOf(podopitniy) = -IntOf(input)
      /\ bitem = "count" /\ bprinted # <<>> => bprinted = <<Cardinality({i \in 0 .. Sign : input[i] = 1})>>
      /\ bitem = "third" /\ (\A i \in ByteBits .. Sign : input_byte[i] = 0) =>
           podopitniy = [i \in 0 .. Sign |->
             IF i \in 2 * ByteBits .. 3 * ByteBits - 1 THEN input_byte[i - 2 * ByteBits] ELSE input[i]]

\* Every loop ends, except the one that halves a negative number, whose sign stays.
LoopsEnd == (~bdone /\ (bitem = "positive" => ~Negative(input))) ~> bdone
===============================================================================
