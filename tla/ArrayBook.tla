------------------------------ MODULE ArrayBook -------------------------------
(* src/functions/functions.c: the phone book in an array of MAX_ABONENTS entries. *)
EXTENDS BookMenu

CONSTANT MaxAbonents        \* MAX_ABONENTS

ASSUME ArrayBookAssumption == MaxAbonents \in Nat \ {0}

VARIABLES
    abonent_book, abonent_count,
    listing             \* the numbered entries last printed

arrayVars == <<abonent_book, abonent_count, listing, menu>>

ArrayTypeOK ==
    /\ MenuTypeOK
    /\ abonent_book \in [0 .. MaxAbonents - 1 -> Entries]
    /\ abonent_count \in 0 .. MaxAbonents
    /\ listing \subseteq [number : Nat, entry : Entries]

NoEntries  == [i \in 0 .. MaxAbonents - 1 |-> [name |-> Blank, tel |-> Blank]]
ArrayEmpty == abonent_book = NoEntries /\ abonent_count = 0 /\ listing = {}

ArrayInit == ArrayEmpty /\ MenuStarts({0})

BookFull == abonent_count >= MaxAbonents

\* add_abonent(): at the end of the input the entry keeps what the array held.
ArrayAdd ==
    \E s \in Chosen(1) :
      /\ \/ BookFull /\ Turn(1, s.unread) /\ UNCHANGED <<abonent_book, abonent_count>>
         \/ /\ ~BookFull
            /\ \E n \in ScanWord(s.unread, {abonent_book[abonent_count].name}) :
               \E t \in ScanWord(n.unread, {abonent_book[abonent_count].tel}) :
                 /\ Turn(1, t.unread)
                 /\ abonent_book' = [abonent_book EXCEPT ![abonent_count] =
                                       [name |-> n.value, tel |-> t.value]]
                 /\ abonent_count' = abonent_count + 1
      /\ listing' = {} /\ UNCHANGED running

\* int number = 0 before the %d.
\* (Mutant: it starts as the number that cancels.)
Cancelled == -1
NumberBefore == 0

\* Entries behind the number move down by one.
\* (Mutant: the loop starts one too late, so that the next entry is taken out.)
ShiftedLate(n) ==
    [i \in DOMAIN abonent_book |->
       IF i \in n + 1 .. abonent_count - 2 THEN abonent_book[i + 1] ELSE abonent_book[i]]
Shifted(n) ==
    [i \in DOMAIN abonent_book |->
       IF i \in n .. abonent_count - 2 THEN abonent_book[i + 1] ELSE abonent_book[i]]

\* remove_abonent()
ArrayRemove ==
    \E s \in Chosen(2) : \E r \in ScanNumber(s.unread, {NumberBefore}) :
      /\ RemoveTurn(r)
      /\ IF r.value < 0 \/ r.value >= abonent_count
         THEN UNCHANGED <<abonent_book, abonent_count>>
         ELSE abonent_book' = Shifted(r.value) /\ abonent_count' = abonent_count - 1
      /\ listing' = {} /\ UNCHANGED running

Listed(I) == {[number |-> i, entry |-> abonent_book[i]] : i \in I}

\* search_abonent(): at the end of the input the name is whatever the stack held.
ArraySearch ==
    \E s \in Chosen(3) : \E n \in ScanWord(s.unread, Words \cup {Blank}) :
      /\ Turn(3, n.unread)
      /\ listing' = Listed({i \in 0 .. abonent_count - 1 : abonent_book[i].name = n.value})
      /\ UNCHANGED <<abonent_book, abonent_count, running>>

\* print_book()
ArrayPrint ==
    \E s \in Chosen(4) :
      /\ Turn(4, s.unread)
      /\ listing' = Listed(0 .. abonent_count - 1)
      /\ UNCHANGED <<abonent_book, abonent_count, running>>

\* The process ends, and the book with it.
ArrayExit ==
    \E s \in Chosen(5) :
      /\ Turn(5, s.unread) /\ running' = FALSE
      /\ listing' = {} /\ abonent_book' = NoEntries /\ abonent_count' = 0

ArrayNext ==
    \/ ArrayAdd \/ ArrayRemove \/ ArraySearch \/ ArrayPrint \/ ArrayExit
    \/ OtherItem /\ listing' = {} /\ UNCHANGED <<abonent_book, abonent_count>>

\* The program goes on when it need not wait for the user.
ArrayFairness == WF_arrayVars(unread # AllRead /\ ArrayNext)

ArraySpec == ArrayInit /\ [][ArrayNext]_arrayVars /\ ArrayFairness

-------------------------------------------------------------------------------
AB == INSTANCE PhoneBook WITH
          printed <- listing, NegativeIsFirst <- FALSE,
          entries <- [i \in 1 .. abonent_count |-> abonent_book[i - 1]]

\* The array is a phone book: what lies behind abonent_count never shows, and
\* remove_abonent() takes out the entry listed under the number it scanned and no
\* other; a number that is none cancels.
ArrayImplementsBook == AB!PhoneBookSpec

\* A word where the number to remove is expected removes everybody, one by one: the
\* refused word is met again by the menu, whose choice stays 2, and by the next
\* question for a number, which stays 0.
WordEmptiesBook ==
    (running /\ choice = 2 /\ unread # AllRead) ~> (abonent_count = 0)
===============================================================================
