------------------------------ MODULE TaxiInput --------------------------------
(* src/taxi_control/main.c: how the commands of the CLI come in.  poll() watches    *)
(* the descriptor, while fgets() takes a line out of a buffer that one read() fills  *)
(* with all there is.  What the commands do is TaxiControl's; here they are lines,   *)
(* each of which is written whole.                                                   *)
EXTENDS Naturals

CONSTANT InputLines     \* bound: lines of input

ASSUME TaxiInputAssumption == InputLines \in Nat

VARIABLES
    tinput,             \* "terminal", "file" or "pipe"
    tpatient,           \* the writer waits after each line until it is served
    tkernel,            \* lines written and not read
    tbuffer,            \* lines in the buffer of stdin
    tserved,            \* lines that became commands
    tclosed,            \* no more will be written
    tended              \* the CLI has left its loop

tVars == <<tinput, tpatient, tkernel, tbuffer, tserved, tclosed, tended>>

Written == tkernel + tbuffer + tserved

TiTypeOK ==
    /\ tinput \in {"terminal", "file", "pipe"} /\ {tpatient, tclosed, tended} \subseteq BOOLEAN
    /\ {tkernel, tbuffer, tserved} \subseteq Nat /\ Written <= InputLines

TiInit ==
    /\ tinput \in {"terminal", "file", "pipe"} /\ tpatient \in BOOLEAN
    /\ tkernel = (IF tinput = "file" THEN InputLines ELSE 0)
    /\ tbuffer = 0 /\ tserved = 0 /\ tclosed = (tinput = "file") /\ tended = FALSE

Writes ==
    /\ ~tclosed /\ Written < InputLines /\ (tpatient => Written = tserved)
    /\ tkernel' = tkernel + 1
    /\ UNCHANGED <<tinput, tpatient, tbuffer, tserved, tclosed, tended>>

Closes ==
    /\ ~tclosed /\ tclosed' = TRUE
    /\ UNCHANGED <<tinput, tpatient, tkernel, tbuffer, tserved, tended>>

\* POLLIN.  The end of a pipe that is empty is POLLHUP alone, which the loop does not
\* look at: poll() returns again and again.
Readable ==
    \/ tkernel > 0
    \/ tinput = "file"
    \/ tinput = "terminal" /\ tclosed

\* read(): from a terminal one line.
Fills ==
    IF tbuffer > 0 \/ tkernel = 0 THEN 0
    ELSE IF tinput = "terminal" THEN 1 ELSE tkernel

\* fgets() finds the end of the input.
\* (Mutant: the loop goes on.)
GoesOn == FALSE
AtEnd == tbuffer + tkernel = 0

\* An iteration with input.
TakesLine ==
    /\ ~tended /\ Readable
    /\ IF tbuffer + Fills = 0
       THEN tended' = AtEnd /\ UNCHANGED <<tkernel, tbuffer, tserved>>
       ELSE /\ tkernel' = tkernel - Fills
            /\ tbuffer' = tbuffer + Fills - 1
            /\ tserved' = tserved + 1 /\ UNCHANGED tended
    /\ UNCHANGED <<tinput, tpatient, tclosed>>

TiNext == Writes \/ Closes \/ TakesLine

\* The CLI runs on.
TiFairness == WF_tVars(TakesLine)

TiSpec == TiInit /\ [][TiNext]_tVars /\ TiFairness

-------------------------------------------------------------------------------
\* A terminal, a file, and a program that waits for each answer before it writes the
\* next command: all they write becomes commands.
AllServed ==
    \A n \in 1 .. InputLines :
      (Written = n /\ (tinput # "pipe" \/ tpatient)) ~> tserved >= n

\* ... and a terminal and a file end the CLI with their end.
EndSeen == (tclosed /\ tinput # "pipe") ~> tended

\* (A pipe may hold lines back until more is written, and its end is missed.)
InputServed == AllServed /\ EndSeen
===============================================================================
