---------------------------- MODULE ProgramsProofs ----------------------------
(* Theorems about the small programs in the specification that TLC checks, from what is *)
(* proved of each by itself.                                                             *)
EXTENDS MCPrograms, ClientTableProofs, ProcessProofs, SequentialProofs, TLAPS

-------------------------------------------------------------------------------
(* All of them in one specification.                                             *)

\* A step of one program is one of that program or does not show, to each of these.
LEMMA StepsApart ==
    [ProgramsNext]_programsVars =>
      /\ [QNext]_qVars /\ [SNext]_sVars /\ [FNext]_fVars
      /\ [SignalsNext]_gVars /\ [ShNext]_shVars /\ [KNext]_kVars
<1> SUFFICES ASSUME [ProgramsNext]_programsVars
             PROVE  /\ [QNext]_qVars /\ [SNext]_sVars /\ [FNext]_fVars
                    /\ [SignalsNext]_gVars /\ [ShNext]_shVars /\ [KNext]_kVars
  OBVIOUS
<1>1. CASE UNCHANGED programsVars
  BY <1>1 DEF programsVars
<1>2. CASE ProgramsNext
  <2>1. OthersStay
    BY <1>2 DEF ProgramsNext
  <2>2. /\ QNext \/ program # "queue"
        /\ SNext \/ program # "segment"
        /\ FNext \/ program # "fifo"
        /\ SignalsNext \/ program # "signals"
        /\ ShNext \/ program # "shell"
        /\ KNext \/ program # "module"
    BY <1>2 DEF ProgramsNext
  <2> QED
    BY <2>1, <2>2 DEF OthersStay
<1> QED
  BY <1>1, <1>2

\* The programs start as they do alone.
LEMMA ProgramsStart ==
    ProgramsInit => QInit /\ SInit /\ FInit /\ SignalsInit /\ ShInit /\ KInit
  BY DEF ProgramsInit

\* The inductive invariants of the exchanges, and what they promise.
ExchangesInv == QInv /\ SInv /\ FInv

\* The exchanges start in their invariants, ...
LEMMA ExchangesStart == ProgramsInit => ExchangesInv
  BY ProgramsStart, QInvInit, SInvInit, FInvInit DEF ExchangesInv

\* ... which every step keeps.
LEMMA ExchangesStep == ExchangesInv /\ [ProgramsNext]_programsVars => ExchangesInv'
<1> SUFFICES ASSUME ExchangesInv, [ProgramsNext]_programsVars
             PROVE  ExchangesInv'
  OBVIOUS
<1>1. QInv /\ SInv /\ FInv
  BY DEF ExchangesInv
<1>2. [QNext]_qVars /\ [SNext]_sVars /\ [FNext]_fVars
  BY StepsApart
<1>3. QInv'
  BY <1>1, <1>2, QTypedStep, QKeptStep, QDirectionsApartStep DEF QInv
<1>4. SInv'
  BY <1>1, <1>2, STypedStep, AloneStep DEF SInv
<1>5. FInv'
  BY <1>1, <1>2, FTypedStep, FPromisedStep, FKeptStep, GreetingStep DEF FInv
<1> QED
  BY <1>3, <1>4, <1>5 DEF ExchangesInv

\* ExchangesInv gives what the two invariants below say.
LEMMA ExchangesPromise == ExchangesInv => HeardRight /\ NothingLeft
<1> SUFFICES ASSUME ExchangesInv
             PROVE  HeardRight /\ NothingLeft
  OBVIOUS
<1>1. QDirectionsApart /\ QNothingLeft
  BY QueuePromises DEF ExchangesInv
<1>2. WholeReply /\ WholeGreeting
  BY SegmentReplies, SegmentGreetings DEF ExchangesInv
<1>3. GreetingIsHeard /\ FNothingLeft
  BY FifoPromises DEF ExchangesInv
<1> QED
  BY <1>1, <1>2, <1>3 DEF HeardRight, NothingLeft

\* In every exchange over a queue, a segment or a FIFO, with any number of servers and
\* clients of which some are killed, what a side takes for a message of the other is one.
THEOREM MessagesHeardRight == ProgramsSpec => []HeardRight
  BY ExchangesStart, ExchangesStep, ExchangesPromise, PTL DEF ProgramsSpec

\* The exchanges over queues and FIFOs leave nothing behind, whoever is killed when.
THEOREM NothingLeftBehind == ProgramsSpec => []NothingLeft
  BY ExchangesStart, ExchangesStep, ExchangesPromise, PTL DEF ProgramsSpec

\* The signal examples, as SignalsSafe has it, in the specification that TLC checks.
THEOREM ToldIsSafeToo == ProgramsSpec => []ToldIsSafe
<1>1. ProgramsInit => GInv
  BY ProgramsStart, GInvInit
<1>2. GInv /\ [ProgramsNext]_programsVars => GInv'
  BY StepsApart, GInvStep
<1>3. GInv => ToldIsSafe
  BY DEF GInv
<1> QED
  BY <1>1, <1>2, <1>3, PTL DEF ProgramsSpec

\* The shell prompts when no child is left, and runs the lines of a script as often as
\* the execvp()s that failed before them explain, and in their order.
THEOREM ShellRunsInStep == ProgramsSpec => []ShellInStep
<1>1. ProgramsInit => ShInv
  BY ProgramsStart, ShInvInit
<1>2. ShInv /\ [ProgramsNext]_programsVars => ShInv'
  BY StepsApart, ShInvStep
<1>3. ShInv => ShellInStep
  BY ShPromises DEF ShellInStep
<1> QED
  BY <1>1, <1>2, <1>3, PTL DEF ProgramsSpec

\* No entry leads into a module that is gone, and a read of the variable is of one value.
THEOREM ModuleStaysSound == ProgramsSpec => []ModuleSound
<1>1. ProgramsInit => KInv
  BY ProgramsStart, KInvInit
<1>2. KInv /\ [ProgramsNext]_programsVars => KInv'
  BY StepsApart, KInvStep
<1>3. KInv => ModuleSound
  BY KPromises DEF ModuleSound
<1> QED
  BY <1>1, <1>2, <1>3, PTL DEF ProgramsSpec

\* The phone books share the variables of the menu; the one that does not run is empty.
BooksKept ==
    /\ ArrayTypeOK /\ ListKept
    /\ program = "array book" \/ ArrayEmpty
    /\ program = "list book" \/ ListEmpty

\* Both start empty, ...
LEMMA BooksStart == ProgramsInit => BooksKept /\ AB!PhoneBookInit /\ LB!PhoneBookInit
<1> SUFFICES ASSUME ProgramsInit
             PROVE  BooksKept /\ AB!PhoneBookInit /\ LB!PhoneBookInit
  OBVIOUS
<1>1. ArrayEmpty /\ ListEmpty /\ MenuStarts(IF program = "list book" THEN Numbers ELSE {0})
  BY DEF ProgramsInit
<1>2. MenuStarts(Numbers) /\ MenuTypeOK /\ number = NoNumber
  BY <1>1, BookMenuAssumption DEF MenuStarts, MenuTypeOK
<1> QED
  BY <1>1, <1>2, ArrayStarts, ListStarts DEF BooksKept

\* ... and every step is one of a phone book, or does not show.
LEMMA BooksStep ==
    BooksKept /\ [ProgramsNext]_programsVars =>
      /\ BooksKept'
      /\ [AB!PhoneBookNext]_<<[i \in 1 .. abonent_count |-> abonent_book[i - 1]], listing, number>>
      /\ [LB!PhoneBookNext]_<<LET way == Walk IN [i \in DOMAIN way |-> heap[way[i]].entry], listed, number>>
<1> SUFFICES ASSUME BooksKept, [ProgramsNext]_programsVars
             PROVE  BooksKept' /\ BookStep /\ ChainStep
  BY DEF BookStep, Book, Filled, ChainStep, EntriesNow
<1>1. ASSUME ArrayTypeOK, [ArrayNext]_arrayVars
      PROVE  ArrayTypeOK' /\ BookStep
  BY <1>1, ArrayStep DEF BookStep, Book, Filled
<1>2. ASSUME ListKept, [ListNext]_listVars
      PROVE  ListKept' /\ ChainStep
  BY <1>2, ListStep DEF ChainStep, EntriesNow
<1>3. ASSUME MenuTypeOK', ArrayEmpty, UNCHANGED <<abonent_book, abonent_count, listing>>
      PROVE  ArrayTypeOK' /\ ArrayEmpty' /\ BookStep
  <2>1. ArrayTypeOK' /\ ArrayEmpty' /\ Book' = Book /\ listing' = {}
    BY <1>3, ArrayTypes DEF BooksKept, ArrayTypeOK, ArrayEmpty
  <2>2. DOMAIN Book = {}
    BY <1>3 DEF ArrayEmpty, Book, Filled
  <2>3. CASE number' = NoNumber
    <3>1. AB!Quiet
      BY <2>1, <2>3 DEF AB!Quiet, Book, Filled
    <3> QED
      BY <2>1, <3>1 DEF BookStep, AB!PhoneBookNext
  <2>4. CASE number' # NoNumber
    <3>1. number' \in Int
      BY <1>3, <2>4, BookMenuAssumption DEF MenuTypeOK
    <3>2. AB!Delete
      BY <2>1, <2>2, <3>1 DEF AB!Delete, Book, Filled
    <3> QED
      BY <2>1, <3>2 DEF BookStep, AB!PhoneBookNext
  <2> QED
    BY <2>3, <2>4
<1>4. ASSUME MenuTypeOK', ListEmpty, UNCHANGED <<head, tail, heap, listed>>
      PROVE  ListKept' /\ ListEmpty' /\ ChainStep
  <2>1. listed' = {} /\ {} \subseteq [number : Nat, entry : Entries] /\ ListEmpty'
    BY <1>4 DEF ListEmpty
  <2>2. ListKept' /\ EntriesNow' = EntriesNow
    BY <1>4, <2>1, ChainStays DEF BooksKept
  <2>3. DOMAIN EntriesNow = {}
    <3>1. DOMAIN heap = {} /\ heap \in [DOMAIN heap -> ListNode]
      BY <1>4 DEF ListEmpty
    <3>2. PICK h : h = heap
      OBVIOUS
    <3>3. ListOf(heap, head, tail, <<>>) /\ <<>> \in Seq(Cells)
      BY <1>4, <3>1, <3>2, ListEmptied DEF ListEmpty
    <3>4. EntriesNow = EntriesOf(heap, <<>>)
      BY <3>3, ChainFacts DEF BooksKept, ListKept
    <3> QED
      BY <3>4 DEF EntriesOf
  <2>4. CASE number' = NoNumber
    <3>1. LB!Quiet
      BY <2>1, <2>2, <2>4 DEF LB!Quiet, EntriesNow
    <3> QED
      BY <2>1, <2>2, <3>1 DEF ChainStep, LB!PhoneBookNext
  <2>5. CASE number' # NoNumber
    <3>1. number' \in Int
      BY <1>4, <2>5, BookMenuAssumption DEF MenuTypeOK
    <3>2. LB!Delete
      BY <2>1, <2>2, <2>3, <3>1 DEF LB!Delete, EntriesNow
    <3> QED
      BY <2>1, <2>2, <3>2 DEF ChainStep, LB!PhoneBookNext
  <2> QED
    BY <2>4, <2>5
<1>5. CASE UNCHANGED programsVars
  <2>1. UNCHANGED arrayVars /\ UNCHANGED listVars /\ program' = program
    BY <1>5 DEF programsVars
  <2>2. (ArrayEmpty => ArrayEmpty') /\ (ListEmpty => ListEmpty')
    BY <2>1 DEF arrayVars, listVars, ArrayEmpty, ListEmpty
  <2> QED
    BY <1>1, <1>2, <2>1, <2>2 DEF BooksKept
<1>6. CASE ProgramsNext
  <2>1. OthersStay /\ program' = program
    BY <1>6 DEF ProgramsNext, OthersStay
  <2>2. CASE program = "array book"
    <3>1. ArrayNext /\ UNCHANGED <<head, tail, heap, listed>> /\ ListEmpty
      BY <1>6, <2>1, <2>2 DEF ProgramsNext, OthersStay, BooksKept
    <3>2. ArrayTypeOK' /\ BookStep
      BY <1>1, <3>1 DEF BooksKept
    <3>3. MenuTypeOK'
      BY <3>2 DEF ArrayTypeOK
    <3> QED
      BY <1>4, <2>1, <2>2, <3>1, <3>2, <3>3 DEF BooksKept
  <2>3. CASE program = "list book"
    <3>1. ListNext /\ UNCHANGED <<abonent_book, abonent_count, listing>> /\ ArrayEmpty
      BY <1>6, <2>1, <2>3 DEF ProgramsNext, OthersStay, BooksKept
    <3>2. ListKept' /\ ChainStep
      BY <1>2, <3>1 DEF BooksKept
    <3>3. MenuTypeOK'
      BY <3>2 DEF ListKept, ListTypeOK
    <3> QED
      BY <1>3, <2>1, <2>3, <3>1, <3>2, <3>3 DEF BooksKept
  <2>4. CASE program \notin {"array book", "list book"}
    <3>1. /\ UNCHANGED <<abonent_book, abonent_count, listing>> /\ ArrayEmpty
          /\ UNCHANGED <<head, tail, heap, listed>> /\ ListEmpty /\ UNCHANGED menu
      BY <2>1, <2>4 DEF OthersStay, BooksKept
    <3>2. MenuTypeOK'
      BY <3>1 DEF BooksKept, ArrayTypeOK, MenuTypeOK, menu
    <3> QED
      BY <1>3, <1>4, <2>1, <3>1, <3>2 DEF BooksKept
  <2> QED
    BY <2>2, <2>3, <2>4
<1> QED
  BY <1>5, <1>6

\* Both phone books are the phone book of PhoneBook to a user.
THEOREM BooksAreBooks == ProgramsSpec => ImplementsBook
  BY BooksStart, BooksStep, PTL
     DEF ProgramsSpec, ImplementsBook, ArrayImplementsBook, ListImplementsBook,
         AB!PhoneBookSpec, LB!PhoneBookSpec

\* The linked list loses no node, leads to no freed one, and is the same both ways.
THEOREM ListStaysLinked == ProgramsSpec => []TwoWayLinked
<1>1. BooksKept => TwoWayLinked
  BY ListPromises DEF BooksKept
<1> QED
  BY <1>1, BooksStart, BooksStep, PTL DEF ProgramsSpec

\* The hash table of the echo server starts in order, ...
LEMMA TableStartsToo == ProgramsInit => TableInv /\ T!TallyInit
  BY TableStarts DEF ProgramsInit

\* ... and every step keeps it so, and counts for one client at most.
LEMMA TableStepToo ==
    TableInv /\ [ProgramsNext]_programsVars => TableInv' /\ [T!TallyNext]_Counters
<1>1. [ProgramsNext]_programsVars => [CtStep]_buckets
  <2> SUFFICES ASSUME [ProgramsNext]_programsVars
               PROVE  [CtStep]_buckets
    OBVIOUS
  <2>1. CASE UNCHANGED programsVars
    BY <2>1 DEF programsVars
  <2>2. CASE ProgramsNext
    BY <2>2 DEF ProgramsNext, OthersStay
  <2> QED
    BY <2>1, <2>2
<1> QED
  BY <1>1, TableStep

\* The table never has two nodes for one client, ...
THEOREM TableStaysInOrder == ProgramsSpec => []OneNodePerKey
<1>1. TableInv => OneNodePerKey
  BY DEF TableInv
<1> QED
  BY <1>1, TableStartsToo, TableStepToo, PTL DEF ProgramsSpec

\* ... and implements one counter per client, for any keys and hash function.
THEOREM TableCounts == ProgramsSpec => ImplementsTally
  BY TableStartsToo, TableStepToo, PTL DEF ProgramsSpec, ImplementsTally, T!TallySpec

\* The panels start in order, ...
LEMMA PanelsStart == ProgramsInit => PInv
<1>1. ProgramsInit => PInit
  BY DEF ProgramsInit
<1> QED
  BY <1>1, PInvInit

\* ... and every step keeps them so.
LEMMA PanelsStepToo == PInv /\ [ProgramsNext]_programsVars => PInv' /\ [PanelsStep]_pVars
<1>1. [ProgramsNext]_programsVars => [PNext]_pVars
  <2> SUFFICES ASSUME [ProgramsNext]_programsVars
               PROVE  [PNext]_pVars
    OBVIOUS
  <2>1. CASE UNCHANGED programsVars
    BY <2>1 DEF programsVars
  <2>2. CASE ProgramsNext
    BY <2>2 DEF ProgramsNext, OthersStay
  <2> QED
    BY <2>1, <2>2
<1> QED
  BY <1>1, PInvStep

\* Both panels of nedomc stay in order, whatever way a user takes through the tree.
THEOREM PanelsStayInOrder == ProgramsSpec => StaysInOrder
  BY PanelsStart, PanelsStepToo, PTL DEF ProgramsSpec, StaysInOrder, PanelsStep

\* The invariants of the programs that compute hold at the start, ...
LEMMA ComputersStart == ProgramsInit => TiTypeOK /\ PkInv /\ BInv /\ AInv
<1> SUFFICES ASSUME ProgramsInit
             PROVE  TiTypeOK /\ PkInv /\ BInv /\ AInv
  OBVIOUS
<1>1. TiInit /\ PkInit /\ BitsInit /\ ArraysInit
  BY DEF ProgramsInit
<1> QED
  BY <1>1, TiInvInit, PkInvInit, BInvInit, AInvInit

\* ... and every step keeps them.
LEMMA ComputersStep ==
    TiTypeOK /\ PkInv /\ BInv /\ AInv /\ [ProgramsNext]_programsVars =>
      TiTypeOK' /\ PkInv' /\ BInv' /\ AInv'
<1> SUFFICES ASSUME TiTypeOK, PkInv, BInv, AInv, [ProgramsNext]_programsVars
             PROVE  TiTypeOK' /\ PkInv' /\ BInv' /\ AInv'
  OBVIOUS
<1>1. [TiNext]_tVars /\ [PkNext]_pkVars /\ [BitsNext]_bVars /\ [ArraysNext]_aVars
  <2>1. CASE UNCHANGED programsVars
    BY <2>1 DEF programsVars
  <2>2. CASE ProgramsNext
    <3>1. OthersStay
      BY <2>2 DEF ProgramsNext
    <3>2. /\ TiNext \/ program # "input"
          /\ PkNext \/ program # "packets"
          /\ BitsNext \/ program # "bits"
          /\ ArraysNext \/ program # "arrays"
      BY <2>2 DEF ProgramsNext
    <3> QED
      BY <3>1, <3>2 DEF OthersStay
  <2> QED
    BY <2>1, <2>2
<1> QED
  BY <1>1, TiInvStep, PkInvStep, BInvStep, AInvStep

\* What the algorithms compute is right for every input and every size: checksum and
\* payload of a packet, the bits of an int, the spiral, the array turned round.
THEOREM ComputedIsRight == ProgramsSpec => []ComputedRight
<1>1. PkInv /\ BInv /\ AInv => ComputedRight
  BY PkPromises, BPromises, APromises DEF ComputedRight
<1> QED
  BY <1>1, ComputersStart, ComputersStep, PTL DEF ProgramsSpec

\* Every variable of every program keeps its type.
THEOREM ProgramsTypeCorrect == ProgramsSpec => []ProgramTypes
<1>1. ProgramsSpec => []TableTypeOK
  <2>1. TableInv => TableTypeOK
    BY DEF TableInv
  <2> QED
    BY <2>1, TableStartsToo, TableStepToo, PTL DEF ProgramsSpec
<1>2. ProgramsSpec => [](ArrayTypeOK /\ ListTypeOK)
  <2>1. BooksKept => ArrayTypeOK /\ ListTypeOK
    BY DEF BooksKept, ListKept
  <2> QED
    BY <2>1, BooksStart, BooksStep, PTL DEF ProgramsSpec
<1>3. ProgramsSpec => [](QTypeOK /\ STypeOK /\ FTypeOK)
  <2>1. ExchangesInv => QTypeOK /\ STypeOK /\ FTypeOK
    BY DEF ExchangesInv, QInv, QTyped, SInv, STyped, FInv, FTyped
  <2> QED
    BY <2>1, ExchangesStart, ExchangesStep, PTL DEF ProgramsSpec
<1>4. ProgramsSpec => [](SignalsTypeOK /\ ShTypeOK /\ KTypeOK /\ PTypeOK)
  <2>1. ProgramsInit => GInv /\ ShInv /\ KInv /\ PInv
    BY ProgramsStart, GInvInit, ShInvInit, KInvInit, PanelsStart
  <2>2. GInv /\ ShInv /\ KInv /\ PInv /\ [ProgramsNext]_programsVars =>
          GInv' /\ ShInv' /\ KInv' /\ PInv'
    BY StepsApart, GInvStep, ShInvStep, KInvStep, PanelsStepToo
  <2>3. GInv /\ ShInv /\ KInv /\ PInv => SignalsTypeOK /\ ShTypeOK /\ KTypeOK /\ PTypeOK
    BY ShPromises, KPromises, PPromises DEF GInv
  <2> QED
    BY <2>1, <2>2, <2>3, PTL DEF ProgramsSpec
<1>5. ProgramsSpec => [](TiTypeOK /\ PkTypeOK /\ BitsTypeOK /\ ArraysTypeOK)
  <2>1. TiTypeOK /\ PkInv /\ BInv /\ AInv => TiTypeOK /\ PkTypeOK /\ BitsTypeOK /\ ArraysTypeOK
    BY PkPromises, BPromises, APromises
  <2> QED
    BY <2>1, ComputersStart, ComputersStep, PTL DEF ProgramsSpec
<1> QED
  BY <1>1, <1>2, <1>3, <1>4, <1>5, PTL DEF ProgramTypes
===============================================================================
