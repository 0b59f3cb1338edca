------------------------------- MODULE ListBook -------------------------------
(* src/dynmem/dynmem.c: the phone book as a doubly linked list of malloc()ed      *)
(* nodes.  The heap is a function on the cells that are allocated.                *)
EXTENDS BookMenu, SequencesExt

CONSTANTS
    Cells,              \* where malloc() may put a node
    Null

ASSUME ListBookAssumption == IsFiniteSet(Cells) /\ Null \notin Cells

VARIABLES
    head, tail, heap,
    listed              \* the numbered entries last printed

listVars == <<head, tail, heap, listed, menu>>

\* struct abonent
ListNode == [entry : Entries, next : Cells \cup {Null}, prev : Cells \cup {Null}]

ListTypeOK ==
    /\ MenuTypeOK
    /\ DOMAIN heap \subseteq Cells /\ heap \in [DOMAIN heap -> ListNode]
    /\ {head, tail} \subseteq DOMAIN heap \cup {Null}
    /\ listed \subseteq [number : Nat, entry : Entries]

ListEmpty == head = Null /\ tail = Null /\ heap = [c \in {} |-> Null] /\ listed = {}

\* choice is not initialized.
ListInit == ListEmpty /\ MenuStarts(Numbers)

\* Where a loop over "next" that met these cells is.
Follows(way) == IF way = <<>> THEN head ELSE heap[Last(way)].next

\* What a loop over "next" meets: cells from head on, until there is no next one.
\* (A loop that comes back to a cell is cut off.)
IsWay(way) ==
    /\ \A i \in DOMAIN way : way[i] = IF i = 1 THEN head ELSE heap[way[i - 1]].next
    /\ Follows(way) \in DOMAIN heap => Len(way) = Cardinality(DOMAIN heap)

Walk ==
    CHOOSE way \in UNION {[1 .. n -> DOMAIN heap] : n \in 0 .. Cardinality(DOMAIN heap)} : IsWay(way)

\* Any value a variable that is not initialized may have.
Garbage == Words \cup {Blank}

\* The new node's cell, and the old last one, once the new node is in the list.
\* (Mutant: the node does not point back.)
NewNodeLoose(e) == [entry |-> e, next |-> Null, prev |-> Null]
NewNode(e) == [entry |-> e, next |-> Null, prev |-> tail]

Linked(c, e) ==
    [x \in DOMAIN heap \cup {c} |->
       IF x = c THEN NewNode(e)
       ELSE IF x = tail THEN [heap[x] EXCEPT !.next = c] ELSE heap[x]]

\* add_abonent(): malloc() may fail; at the end of the input the fields keep what
\* the memory held.
ListAdd ==
    \E s \in Chosen(1) :
      /\ \/ Turn(1, s.unread) /\ UNCHANGED <<head, tail, heap>>
         \/ \E c \in Cells \ DOMAIN heap :
            \E n \in ScanWord(s.unread, Garbage) : \E t \in ScanWord(n.unread, Garbage) :
              /\ Turn(1, t.unread)
              /\ heap' = Linked(c, [name |-> n.value, tel |-> t.value])
              /\ head' = IF tail = Null THEN c ELSE head
              /\ tail' = c
      /\ listed' = {} /\ UNCHANGED running

\* Where the walk of remove_abonent() stops; a negative number stops it at once.
Reached(n) ==
    LET way == Walk IN IF n < 0 THEN head ELSE IF n < Len(way) THEN way[n + 1] ELSE Null

\* The node is cut out of the list and freed.
\* (Mutant: the node behind it goes on pointing back at it.)
UnlinkedOneWay(c) ==
    [x \in DOMAIN heap \ {c} |->
       IF x = heap[c].prev THEN [heap[x] EXCEPT !.next = heap[c].next] ELSE heap[x]]
CutOut(c) ==
    [x \in DOMAIN heap \ {c} |->
       [heap[x] EXCEPT !.next = IF x = heap[c].prev THEN heap[c].next ELSE @,
                       !.prev = IF x = heap[c].next THEN heap[c].prev ELSE @]]

\* remove_abonent(): number is not initialized before the %d.
ListRemove ==
    \E s \in Chosen(2) :
      /\ \/ head = Null /\ Turn(2, s.unread) /\ UNCHANGED <<head, tail, heap>>
         \/ /\ head # Null
            /\ \E r \in ScanNumber(s.unread, Numbers) : LET c == Reached(r.value) IN
                 /\ RemoveTurn(r)
                 /\ IF c = Null
                    THEN UNCHANGED <<head, tail, heap>>
                    ELSE /\ heap' = CutOut(c)
                         /\ head' = IF heap[c].prev = Null THEN heap[c].next ELSE head
                         /\ tail' = IF heap[c].next = Null THEN heap[c].prev ELSE tail
      /\ listed' = {} /\ UNCHANGED running

\* The list from head on, numbered.
\* (Mutant: from 1 on.)
MetFromOne(way, I) == {[number |-> i, entry |-> heap[way[i]].entry] : i \in I}
Met(way, I) == {[number |-> i - 1, entry |-> heap[way[i]].entry] : i \in I}

\* search_abonent()
ListSearch ==
    \E s \in Chosen(3) :
      /\ \/ head = Null /\ Turn(3, s.unread) /\ listed' = {}
         \/ /\ head # Null
            /\ \E n \in ScanWord(s.unread, Garbage) : LET way == Walk IN
                 /\ Turn(3, n.unread)
                 /\ listed' = Met(way, {i \in DOMAIN way : heap[way[i]].entry.name = n.value})
      /\ UNCHANGED <<head, tail, heap, running>>

\* print_book()
ListPrint ==
    \E s \in Chosen(4) :
      /\ Turn(4, s.unread)
      /\ listed' = LET way == Walk IN Met(way, DOMAIN way)
      /\ UNCHANGED <<head, tail, heap, running>>

\* free_all(): what the walk from head meets is freed.
ListExit ==
    \E s \in Chosen(5) :
      /\ Turn(5, s.unread) /\ running' = FALSE
      /\ listed' = {}
      /\ head' = Null /\ tail' = Null
      /\ heap' = [c \in DOMAIN heap \ ToSet(Walk) |-> heap[c]]

ListNext ==
    \/ ListAdd \/ ListRemove \/ ListSearch \/ ListPrint \/ ListExit
    \/ OtherItem /\ listed' = {} /\ UNCHANGED <<head, tail, heap>>

ListSpec == ListInit /\ [][ListNext]_listVars

-------------------------------------------------------------------------------
\* The list is sound: every allocated node is met once on the way from head, the
\* way back from tail is the same, and nothing leads to a freed node.  So no entry
\* leaks, at the exit either.
TwoWayLinked ==
    LET way == Walk IN
      /\ ToSet(way) = DOMAIN heap
      /\ \A i \in DOMAIN way :
           /\ heap[way[i]].prev = IF i = 1 THEN Null ELSE way[i - 1]
           /\ heap[way[i]].next = IF i = Len(way) THEN Null ELSE way[i + 1]
      /\ head = IF way = <<>> THEN Null ELSE Head(way)
      /\ tail = IF way = <<>> THEN Null ELSE Last(way)

LB == INSTANCE PhoneBook WITH
          printed <- listed, NegativeIsFirst <- TRUE,
          entries <- LET way == Walk IN [i \in DOMAIN way |-> heap[way[i]].entry]

\* The list is a phone book: additions at the end, and remove_abonent() takes out the
\* entry listed under the number it scanned, the first one under a negative number.
ListImplementsBook == LB!PhoneBookSpec
===============================================================================
