------------------------------ MODULE MCPrograms -------------------------------
(* Model checking of the small programs, one after the other in one run: "program"   *)
(* picks one, and the variables of the others keep an initial value.  The programs   *)
(* share nothing, so each is explored as if it were alone.                           *)
EXTENDS ClientTable, ArrayBook, ListBook, QueueExchange, SegmentExchange, FifoExchange,
        Signals, Shell, ProcSysVar, Panels, TaxiInput, Packets, Bits, Arrays, TLC

VARIABLE program

-------------------------------------------------------------------------------
\* ClientTable: four keys, three of which share a bucket.
CONSTANTS k1, k2, k3, k4

FourKeys   == {k1, k2, k3, k4}
TwoBuckets == {0, 1}
Colliding  == [k \in FourKeys |-> IF k = k4 THEN 1 ELSE 0]

\* The phone books: the five menu items, and two numbers that are none.
MenuNumbers == -1 .. 5

\* Shell: all scripts of one or two lines of these kinds, and longer ones.
LineKinds    == {<<>>, <<"good">>, <<"bad">>, <<"good", "good">>, <<"good", "bad">>,
                 <<"bad", "good">>, <<"exit">>}
ShortScripts == UNION {[1 .. n -> LineKinds] : n \in 1 .. 2}
LongScripts  == [1 .. 3 -> {<<"good">>, <<"bad">>, <<"bad", "good">>, <<"exit">>}]
SomeScripts  == ShortScripts \cup LongScripts

\* Panels: /a/root is a link to the root, /a has two entries too many, /a/b none.
File      == <<"a file">>
ThreeDirs == {<<>>, <<"a">>, <<"a", "b">>}
InA       == <<"a">>
Tree      ==
    <<>> :> ("a" :> <<"a">>)
    @@ <<"a">> :> ("b" :> <<"a", "b">> @@ "f" :> File @@ "root" :> <<>>)
    @@ <<"a", "b">> :> [n \in {} |-> File]

\* Packets: bytes of three values; header fields below, at and above every length that
\* the parser compares.
Trits          == 0 .. 2
SomeTrits      == {<<0, 0>>, <<1, 2>>, <<2, 2>>}
FewTrits       == UNION {[1 .. n -> Trits] : n \in 0 .. 4}
SomeHeaders    == [len : {0, 19, 20, 27, 28, 29, 31, 32, 36, 40}, version : {4, 6},
                   ihl : {0, 4, 5, 6, 7, 15}, protocol : {6, 17}, ulen : {0, 7, 8, 9, 12, 20}]

-------------------------------------------------------------------------------
\* The others start in one state each.
ProgramsInit ==
    /\ program \in {"table", "array book", "list book", "queue", "segment", "fifo",
                    "signals", "shell", "module", "panels", "input", "packets", "bits", "arrays"}
    /\ CtInit
    /\ ArrayEmpty /\ ListEmpty /\ MenuStarts(IF program = "list book" THEN Numbers ELSE {0})
    /\ KInit
    /\ IF program = "queue" THEN TRUE ELSE qapi = "posix"
    /\ QInit
    /\ IF program = "segment" THEN TRUE ELSE sapi = "posix"
    /\ SInit
    /\ FInit
    /\ IF program = "signals" THEN TRUE ELSE greceiver = "block_sigint"
    /\ SignalsInit
    /\ IF program = "shell" THEN TRUE ELSE shinput = "pipe" /\ shscript = <<<<>>>>
    /\ ShInit
    /\ IF program = "panels" THEN TRUE ELSE openable = {}
    /\ PInit
    /\ IF program = "input" THEN TRUE ELSE tinput = "pipe" /\ tpatient = FALSE
    /\ TiInit
    /\ IF program = "packets" THEN TRUE
       ELSE pkpart = "parse" /\ pkt = [len |-> 0, version |-> 4, ihl |-> 0, protocol |-> 6, ulen |-> 0]
    /\ PkInit
    /\ IF program = "bits" THEN TRUE ELSE bitem = "positive" /\ input = Lowest
    /\ BitsInit
    /\ IF program = "arrays" THEN TRUE ELSE aitem = "ulitka" /\ asize = 1
    /\ ArraysInit

\* What does not belong to the program stays.
OthersStay ==
    /\ IF program = "table" THEN TRUE ELSE UNCHANGED buckets
    /\ IF program = "array book" THEN TRUE ELSE UNCHANGED <<abonent_book, abonent_count, listing>>
    /\ IF program = "list book" THEN TRUE ELSE UNCHANGED <<head, tail, heap, listed>>
    /\ IF program \in {"array book", "list book"} THEN TRUE ELSE UNCHANGED menu
    /\ IF program = "queue" THEN TRUE ELSE UNCHANGED qVars
    /\ IF program = "segment" THEN TRUE ELSE UNCHANGED sVars
    /\ IF program = "fifo" THEN TRUE ELSE UNCHANGED fVars
    /\ IF program = "signals" THEN TRUE ELSE UNCHANGED gVars
    /\ IF program = "shell" THEN TRUE ELSE UNCHANGED shVars
    /\ IF program = "module" THEN TRUE ELSE UNCHANGED kVars
    /\ IF program = "panels" THEN TRUE ELSE UNCHANGED pVars
    /\ IF program = "input" THEN TRUE ELSE UNCHANGED tVars
    /\ IF program = "packets" THEN TRUE ELSE UNCHANGED pkVars
    /\ IF program = "bits" THEN TRUE ELSE UNCHANGED bVars
    /\ IF program = "arrays" THEN TRUE ELSE UNCHANGED aVars
    /\ UNCHANGED program

ProgramsNext ==
    \/ program = "table"      /\ CtStep     /\ OthersStay
    \/ program = "array book" /\ ArrayNext  /\ OthersStay
    \/ program = "list book"  /\ ListNext   /\ OthersStay
    \/ program = "queue"      /\ QNext      /\ OthersStay
    \/ program = "segment"    /\ SNext      /\ OthersStay
    \/ program = "fifo"       /\ FNext      /\ OthersStay
    \/ program = "signals"    /\ SignalsNext /\ OthersStay
    \/ program = "shell"      /\ ShNext     /\ OthersStay
    \/ program = "module"     /\ KNext      /\ OthersStay
    \/ program = "panels"     /\ PNext      /\ OthersStay
    \/ program = "input"      /\ TiNext     /\ OthersStay
    \/ program = "packets"    /\ PkNext     /\ OthersStay
    \/ program = "bits"       /\ BitsNext   /\ OthersStay
    \/ program = "arrays"     /\ ArraysNext /\ OthersStay

programsVars ==
    <<program, buckets, arrayVars, listVars, qVars, sVars, fVars, gVars, shVars,
      kVars, pVars, tVars, pkVars, bVars, aVars>>

\* Each program has the fairness of its specification.
ProgramsFairness ==
    /\ WF_arrayVars(program = "array book" /\ unread # AllRead /\ ArrayNext)
    /\ \A p \in QProcesses : WF_qVars(program = "queue" /\ QProceeds(p))
    /\ \A p \in SProcesses : WF_sVars(program = "segment" /\ SProceeds(p))
    /\ \A p \in FProcesses : WF_fVars(program = "fifo" /\ FProceeds(p))
    /\ WF_gVars(program = "signals" /\ Receives)
    /\ WF_shVars(program = "shell" /\ ShStep)
    /\ \A j \in {1, 2} : WF_shVars(program = "shell" /\ ChildStep(j))
    /\ WF_kVars(program = "module" /\ kstate \notin {"out", "in"} /\ KModuleStep)
    /\ \A u \in KUsers : SF_kVars(program = "module" /\ KHandler(u))
    /\ WF_tVars(program = "input" /\ TakesLine)
    /\ WF_bVars(program = "bits" /\ BitsNext)

ProgramsSpec == ProgramsInit /\ [][ProgramsNext]_programsVars /\ ProgramsFairness

-------------------------------------------------------------------------------
(* What is checked, in conjunctions of what the modules state of their programs. *)

\* Every variable of every program keeps its type, and every bound holds.
ProgramTypes ==
    /\ TableTypeOK /\ ArrayTypeOK /\ ListTypeOK /\ QTypeOK /\ STypeOK /\ FTypeOK /\ SignalsTypeOK
    /\ ShTypeOK /\ KTypeOK /\ PTypeOK /\ TiTypeOK /\ PkTypeOK /\ BitsTypeOK /\ ArraysTypeOK

\* Array and linked list (functions.c, dynmem.c) are the same phone book to a user.
ImplementsBook == ArrayImplementsBook /\ ListImplementsBook

\* In every exchange over a queue, a segment or a FIFO, what a side takes for a message
\* of the other is one, and is whole, under the conditions that each part names.
HeardRight == QDirectionsApart /\ WholeReply /\ WholeGreeting /\ GreetingIsHeard

\* The exchanges over queues and FIFOs leave nothing in the system for the next run.
NothingLeft == QNothingLeft /\ FNothingLeft

\* The processes of an exchange come to their end when the other side does its part.
ExchangesEnd == QExchangesEnd /\ ReplyComes /\ FMetEnds

\* The shell waited for every child before it prompts, and runs each line of a script
\* as often as the failing execvp()s before it explain.
ShellInStep == NoChildAtPrompt /\ RunAsRead

\* The kernel module is never left with users or entries, and a read of its variable
\* is of one value.
ModuleSound == NothingLeadsOut /\ ReadsWhole

\* The single programs get on: scripts end, an unload ends, signals are reported, input is
\* served, loops over bits end.
ProgramsGoOn == ScriptEnds /\ UnloadEnds /\ MessageFollows /\ InputServed /\ LoopsEnd

\* What the algorithms compute is right: checksum and payload of a packet, the bits of
\* an int, the spiral, the array turned round.
ComputedRight == ChecksumVerifies /\ PayloadInside /\ BitsRight /\ SpiralUnbroken /\ TurnedRound
===============================================================================
