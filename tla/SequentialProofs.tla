--------------------------- MODULE SequentialProofs ---------------------------
(* Theorems about what one process does by itself, for any size and whatever is typed: *)
(* the phone books in an array and a linked list, the panels, the bits of an int, the    *)
(* arrays, the lines of the CLI's input, and the checksum and the parser of packets.     *)
EXTENDS ArrayBook, ListBook, Panels, TaxiInput, Packets, Bits, Arrays, SequenceTheorems,
        FunctionTheorems, FiniteSetTheorems, WellFoundedInduction, TLAPS

-------------------------------------------------------------------------------
(* The phone book in an array.                                                   *)

Unreads == Words \cup {Eof, AllRead}

\* What %d reads, and what it leaves unread.
LEMMA NumberScanned ==
    ASSUME NEW u \in Unreads, NEW olds, NEW r \in ScanNumber(u, olds)
    PROVE  r.value \in Numbers \cup olds /\ r.unread \in Unreads
  BY DEF ScanNumber, Unreads

\* What %s reads, and what it leaves unread.
LEMMA WordScanned ==
    ASSUME NEW u \in Unreads, NEW olds, NEW r \in ScanWord(u, olds)
    PROVE  r.value \in Words \cup olds /\ r.unread \in Unreads
<1>1. CASE u = AllRead
  BY <1>1 DEF ScanWord, Unreads
<1>2. CASE u # AllRead /\ u = Eof
  BY <1>2 DEF ScanWord, Unreads
<1>3. CASE u # AllRead /\ u # Eof
  BY <1>3 DEF ScanWord, Unreads
<1> QED
  BY <1>1, <1>2, <1>3

\* A turn of the menu keeps the types of its variables.
LEMMA MenuTurns ==
    ASSUME MenuTypeOK, NEW k, NEW s \in Chosen(k), NEW u \in Unreads, Turn(k, u), running' \in BOOLEAN
    PROVE  MenuTypeOK' /\ s.unread \in Unreads /\ number' = NoNumber
<1>1. unread \in Unreads /\ choice \in Numbers /\ s \in ScanNumber(unread, {choice}) /\ s.value = k
  BY DEF MenuTypeOK, Unreads, Chosen
<1>2. s.value \in Numbers \cup {choice} /\ s.unread \in Unreads
  BY <1>1, NumberScanned
<1> QED
  BY <1>1, <1>2 DEF MenuTypeOK, Turn, Unreads

\* So does one of remove_abonent(), which scans a number.
LEMMA RemoveTurns ==
    ASSUME MenuTypeOK, NEW s \in Chosen(2), NEW r, r.value \in Numbers, r.unread \in Unreads,
           RemoveTurn(r), running' \in BOOLEAN
    PROVE  MenuTypeOK' /\ number' = r.value /\ number' \in Int
<1>1. choice \in Numbers /\ s \in ScanNumber(unread, {choice}) /\ s.value = 2 /\ unread \in Unreads
  BY DEF MenuTypeOK, Unreads, Chosen
<1>2. 2 \in Numbers
  BY <1>1, NumberScanned
<1> QED
  BY <1>2, BookMenuAssumption DEF MenuTypeOK, RemoveTurn, Unreads

\* The number in s.unread is one that may be unread.
LEMMA ChosenLeaves ==
    ASSUME MenuTypeOK, NEW k, NEW s \in Chosen(k)
    PROVE  s.unread \in Unreads
<1>1. unread \in Unreads /\ s \in ScanNumber(unread, {choice})
  BY DEF MenuTypeOK, Unreads, Chosen
<1> QED
  BY <1>1, NumberScanned

\* The first entries of an array, as a sequence.
Filled(book, n) == [i \in 1 .. n |-> book[i - 1]]

\* The entries of the book, as the phone book has them.
LEMMA FilledIsSequence ==
    ASSUME NEW n \in Nat, NEW b, \A i \in 0 .. n - 1 : b[i] \in Entries
    PROVE  /\ Filled(b, n) \in Seq(Entries) /\ Len(Filled(b, n)) = n
           /\ DOMAIN Filled(b, n) = 1 .. n /\ \A i \in 1 .. n : Filled(b, n)[i] = b[i - 1]
<1>1. \A i \in 1 .. n : i - 1 \in 0 .. n - 1
  OBVIOUS
<1> QED
  BY <1>1 DEF Filled

\* An entry more in the array is one more at the end.
LEMMA FilledAppended ==
    ASSUME NEW n \in Nat, NEW b, NEW c, NEW e \in Entries,
           \A i \in 0 .. n - 1 : b[i] \in Entries /\ c[i] = b[i], c[n] = e
    PROVE  Filled(c, n + 1) = Append(Filled(b, n), e)
<1>1. PICK s : s = Filled(b, n)
  OBVIOUS
<1>2. s \in Seq(Entries) /\ Len(s) = n /\ \A i \in 1 .. n : s[i] = b[i - 1]
  BY <1>1, FilledIsSequence
<1>3. PICK t : t = Filled(c, n + 1)
  OBVIOUS
<1>4. \A i \in 0 .. n : c[i] \in Entries
  OBVIOUS
<1>5. t \in Seq(Entries) /\ Len(t) = n + 1 /\ \A i \in 1 .. n + 1 : t[i] = c[i - 1]
  BY <1>3, <1>4, FilledIsSequence
<1>6. PICK a : a = Append(s, e)
  OBVIOUS
<1>7. a \in Seq(Entries) /\ Len(a) = n + 1 /\ a[n + 1] = e /\ \A i \in 1 .. n : a[i] = s[i]
  BY <1>2, <1>6, AppendProperties
<1>8. ASSUME NEW i \in 1 .. n + 1
      PROVE  t[i] = a[i]
  <2>1. CASE i = n + 1
    BY <2>1, <1>5, <1>7
  <2>2. CASE i # n + 1
    <3>1. i \in 1 .. n /\ i - 1 \in 0 .. n - 1
      BY <2>2
    <3> QED
      BY <3>1, <1>2, <1>5, <1>7
  <2> QED
    BY <2>1, <2>2
<1>9. t = a
  BY <1>5, <1>7, <1>8, SeqEqual
<1> QED
  BY <1>1, <1>3, <1>6, <1>9

\* An array whose entries behind the k-th moved down is the sequence without it.
LEMMA FilledShifted ==
    ASSUME NEW n \in Nat, NEW b, NEW c, NEW k \in 0 .. n - 1,
           \A i \in 0 .. n - 1 : b[i] \in Entries,
           \A i \in 0 .. n - 2 : c[i] = IF i \in k .. n - 2 THEN b[i + 1] ELSE b[i]
    PROVE  Filled(c, n - 1) = SubSeq(Filled(b, n), 1, k) \o SubSeq(Filled(b, n), k + 2, n)
<1>1. PICK s : s = Filled(b, n)
  OBVIOUS
<1>2. s \in Seq(Entries) /\ Len(s) = n /\ \A i \in 1 .. n : s[i] = b[i - 1]
  BY <1>1, FilledIsSequence
<1>3. PICK t : t = Filled(c, n - 1)
  OBVIOUS
<1>4. n - 1 \in Nat /\ \A i \in 0 .. n - 2 : c[i] \in Entries
  <2>1. ASSUME NEW i \in 0 .. n - 2
        PROVE  c[i] \in Entries
    <3>1. i \in 0 .. n - 1 /\ i + 1 \in 0 .. n - 1
      OBVIOUS
    <3> QED
      BY <3>1
  <2> QED
    BY <2>1
<1>5. t \in Seq(Entries) /\ Len(t) = n - 1 /\ \A i \in 1 .. n - 1 : t[i] = c[i - 1]
  <2>1. PICK m \in Nat : m = n - 1
    BY <1>4
  <2>2. \A i \in 0 .. m - 1 : c[i] \in Entries
    BY <1>4, <2>1
  <2>3. t = Filled(c, m)
    BY <1>3, <2>1
  <2>4. t \in Seq(Entries) /\ Len(t) = m /\ \A i \in 1 .. m : t[i] = c[i - 1]
    BY <2>2, <2>3, FilledIsSequence
  <2> QED
    BY <2>1, <2>4
<1>6. PICK x : x = SubSeq(s, 1, k)
  OBVIOUS
<1>7. PICK y : y = SubSeq(s, k + 2, n)
  OBVIOUS
<1>8. x \in Seq(Entries) /\ Len(x) = k /\ \A i \in 1 .. k : x[i] = s[i]
  BY <1>2, <1>6, SubSeqProperties
<1>9. y \in Seq(Entries) /\ Len(y) = n - 1 - k /\ \A i \in 1 .. n - 1 - k : y[i] = s[k + 1 + i]
  BY <1>2, <1>7, SubSeqProperties
<1>10. PICK z : z = x \o y
  OBVIOUS
<1>11. /\ z \in Seq(Entries) /\ Len(z) = k + (n - 1 - k)
       /\ \A i \in 1 .. k + (n - 1 - k) : z[i] = IF i <= k THEN x[i] ELSE y[i - k]
  <2>1. /\ x \o y \in Seq(Entries) /\ Len(x \o y) = Len(x) + Len(y)
        /\ \A i \in 1 .. Len(x) + Len(y) : (x \o y)[i] = IF i <= Len(x) THEN x[i] ELSE y[i - Len(x)]
    BY <1>8, <1>9, ConcatProperties
  <2> QED
    BY <1>8, <1>9, <1>10, <2>1
<1>12. ASSUME NEW i \in 1 .. n - 1
       PROVE  t[i] = z[i]
  <2>1. i \in 1 .. k + (n - 1 - k) /\ i - 1 \in 0 .. n - 2 /\ i \in 1 .. n
    OBVIOUS
  <2>2. CASE i <= k
    <3>1. i - 1 \notin k .. n - 2 /\ i \in 1 .. k
      BY <2>2
    <3>2. t[i] = b[i - 1] /\ z[i] = x[i] /\ x[i] = s[i]
      BY <1>5, <1>8, <1>11, <2>1, <2>2, <3>1
    <3> QED
      BY <1>2, <2>1, <3>2
  <2>3. CASE i > k
    <3>1. i - 1 \in k .. n - 2 /\ i - k \in 1 .. n - 1 - k /\ i + 1 \in 1 .. n
      BY <2>3
    <3>2. t[i] = b[i - 1 + 1] /\ z[i] = y[i - k] /\ y[i - k] = s[k + 1 + (i - k)]
      BY <1>5, <1>9, <1>11, <2>1, <2>3, <3>1
    <3>3. i - 1 + 1 = i /\ k + 1 + (i - k) = i + 1 /\ i + 1 - 1 = i
      OBVIOUS
    <3>4. t[i] = b[i] /\ z[i] = s[i + 1]
      BY <3>2, <3>3
    <3>5. s[i + 1] = b[i + 1 - 1]
      BY <1>2, <3>1
    <3> QED
      BY <3>3, <3>4, <3>5
  <2> QED
    BY <2>2, <2>3
<1>13. t = z
  <2>1. Len(z) = n - 1
    BY <1>11
  <2> QED
    BY <1>5, <1>11, <1>12, <2>1, SeqEqual
<1> QED
  BY <1>1, <1>3, <1>6, <1>7, <1>10, <1>13

\* The book of the abstract specification, and its step.
Book == Filled(abonent_book, abonent_count)
BookStep == AB!PhoneBookNext \/ (listing' = listing /\ number' = number /\ Book' = Book)

\* The types of ArrayTypeOK, one by one.
LEMMA ArrayTypes ==
    ASSUME ArrayTypeOK
    PROVE  /\ MenuTypeOK /\ abonent_book \in [0 .. MaxAbonents - 1 -> Entries]
           /\ abonent_count \in 0 .. MaxAbonents /\ abonent_count \in Nat /\ MaxAbonents \in Nat \ {0}
           /\ listing \subseteq [number : Nat, entry : Entries]
           /\ \A i \in 0 .. MaxAbonents - 1 : abonent_book[i] \in Entries
           /\ \A i \in 0 .. abonent_count - 1 : i \in 0 .. MaxAbonents - 1 /\ abonent_book[i] \in Entries
           /\ Book \in Seq(Entries) /\ Len(Book) = abonent_count
           /\ DOMAIN Book = 1 .. abonent_count
           /\ \A i \in 1 .. abonent_count : Book[i] = abonent_book[i - 1]
           /\ abonent_count' = abonent_count /\ abonent_book' = abonent_book => Book' = Book
<1>1. /\ MenuTypeOK /\ abonent_book \in [0 .. MaxAbonents - 1 -> Entries]
      /\ abonent_count \in 0 .. MaxAbonents /\ MaxAbonents \in Nat \ {0}
      /\ listing \subseteq [number : Nat, entry : Entries]
  BY ArrayBookAssumption DEF ArrayTypeOK
<1>2. PICK n \in Nat : n = abonent_count
  BY <1>1
<1>3. PICK b : b = abonent_book
  OBVIOUS
<1>4. \A i \in 0 .. n - 1 : i \in 0 .. MaxAbonents - 1 /\ b[i] \in Entries
  BY <1>1, <1>2, <1>3
<1>5. /\ Filled(b, n) \in Seq(Entries) /\ Len(Filled(b, n)) = n
      /\ DOMAIN Filled(b, n) = 1 .. n /\ \A i \in 1 .. n : Filled(b, n)[i] = b[i - 1]
  BY <1>4, FilledIsSequence
<1> QED
  BY <1>1, <1>2, <1>3, <1>4, <1>5 DEF Book

\* add_abonent() adds an entry, or nothing when the book is full.
LEMMA AddImplements == ArrayTypeOK /\ ArrayAdd => ArrayTypeOK' /\ BookStep
<1> SUFFICES ASSUME ArrayTypeOK, ArrayAdd
             PROVE  ArrayTypeOK' /\ BookStep
  OBVIOUS
<1>1. PICK s \in Chosen(1) :
        /\ \/ BookFull /\ Turn(1, s.unread) /\ UNCHANGED <<abonent_book, abonent_count>>
           \/ /\ ~BookFull
              /\ \E n \in ScanWord(s.unread, {abonent_book[abonent_count].name}) :
                 \E t \in ScanWord(n.unread, {abonent_book[abonent_count].tel}) :
                   /\ Turn(1, t.unread)
                   /\ abonent_book' = [abonent_book EXCEPT ![abonent_count] =
                                         [name |-> n.value, tel |-> t.value]]
                   /\ abonent_count' = abonent_count + 1
        /\ listing' = {} /\ UNCHANGED running
  BY DEF ArrayAdd
<1>2. /\ s.unread \in Unreads /\ MenuTypeOK /\ running' \in BOOLEAN
      /\ listing' = {} /\ {} \subseteq [number : Nat, entry : Entries]
  BY <1>1, ArrayTypes, ChosenLeaves DEF MenuTypeOK
<1>3. CASE BookFull /\ Turn(1, s.unread) /\ UNCHANGED <<abonent_book, abonent_count>>
  <2>1. MenuTypeOK' /\ number' = NoNumber
    BY <1>2, <1>3, MenuTurns
  <2>2. Book' = Book
    BY <1>3, ArrayTypes
  <2>3. AB!Quiet
    BY <1>2, <2>1, <2>2 DEF AB!Quiet, Book, Filled
  <2> QED
    BY <1>2, <1>3, <2>1, <2>3, ArrayTypes DEF ArrayTypeOK, BookStep, AB!PhoneBookNext
<1>4. CASE ~BookFull
  <2>1. PICK n \in ScanWord(s.unread, {abonent_book[abonent_count].name}) :
        \E t \in ScanWord(n.unread, {abonent_book[abonent_count].tel}) :
          /\ Turn(1, t.unread)
          /\ abonent_book' = [abonent_book EXCEPT ![abonent_count] =
                                [name |-> n.value, tel |-> t.value]]
          /\ abonent_count' = abonent_count + 1
    BY <1>1, <1>4
  <2>2. PICK t \in ScanWord(n.unread, {abonent_book[abonent_count].tel}) :
          /\ Turn(1, t.unread)
          /\ abonent_book' = [abonent_book EXCEPT ![abonent_count] =
                                [name |-> n.value, tel |-> t.value]]
          /\ abonent_count' = abonent_count + 1
    BY <2>1
  <2>3. PICK k \in Nat : k = abonent_count
    BY ArrayTypes
  <2>4. k \in 0 .. MaxAbonents - 1 /\ k + 1 \in 0 .. MaxAbonents /\ abonent_book[k] \in Entries
    BY <1>4, <2>3, ArrayTypes DEF BookFull
  <2>5. n.unread \in Unreads /\ n.value \in Words \cup {abonent_book[k].name}
    BY <1>2, <2>1, <2>3, WordScanned
  <2>6. t.unread \in Unreads /\ t.value \in Words \cup {abonent_book[k].tel}
    BY <2>2, <2>3, <2>5, WordScanned
  <2>7. PICK e : e = [name |-> n.value, tel |-> t.value]
    OBVIOUS
  <2>8. e \in Entries
    BY <2>4, <2>5, <2>6, <2>7 DEF Entries
  <2>9. abonent_book' = [abonent_book EXCEPT ![k] = e] /\ abonent_count' = k + 1
    BY <2>2, <2>3, <2>7
  <2>10. PICK b : b = abonent_book
    OBVIOUS
  <2>11. PICK c : c = abonent_book'
    OBVIOUS
  <2>12. /\ c \in [0 .. MaxAbonents - 1 -> Entries] /\ c[k] = e
         /\ \A i \in 0 .. k - 1 : b[i] \in Entries /\ c[i] = b[i]
    BY <2>3, <2>4, <2>8, <2>9, <2>10, <2>11, ArrayTypes
  <2>13. Filled(c, k + 1) = Append(Filled(b, k), e)
    <3>1. k \in Nat
      BY <2>3
    <3> QED
      BY <2>8, <2>12, <3>1, FilledAppended
  <2>14. Book' = Append(Book, e)
    BY <2>3, <2>9, <2>10, <2>11, <2>13 DEF Book
  <2>15. MenuTypeOK' /\ number' = NoNumber
    BY <1>2, <2>2, <2>6, MenuTurns
  <2>16. AB!Insert
    BY <1>2, <2>8, <2>14, <2>15 DEF AB!Insert, Book, Filled
  <2> QED
    BY <1>2, <2>4, <2>9, <2>11, <2>12, <2>15, <2>16 DEF ArrayTypeOK, BookStep, AB!PhoneBookNext
<1> QED
  BY <1>1, <1>3, <1>4

\* remove_abonent() takes the entry with the number out, or nothing.
LEMMA RemoveImplements == ArrayTypeOK /\ ArrayRemove => ArrayTypeOK' /\ BookStep
<1> SUFFICES ASSUME ArrayTypeOK, ArrayRemove
             PROVE  ArrayTypeOK' /\ BookStep
  OBVIOUS
<1>1. PICK s \in Chosen(2) : \E r \in ScanNumber(s.unread, {NumberBefore}) :
        /\ RemoveTurn(r)
        /\ IF r.value < 0 \/ r.value >= abonent_count
           THEN UNCHANGED <<abonent_book, abonent_count>>
           ELSE abonent_book' = Shifted(r.value) /\ abonent_count' = abonent_count - 1
        /\ listing' = {} /\ UNCHANGED running
  BY DEF ArrayRemove
<1>2. PICK r \in ScanNumber(s.unread, {NumberBefore}) :
        /\ RemoveTurn(r)
        /\ IF r.value < 0 \/ r.value >= abonent_count
           THEN UNCHANGED <<abonent_book, abonent_count>>
           ELSE abonent_book' = Shifted(r.value) /\ abonent_count' = abonent_count - 1
        /\ listing' = {} /\ UNCHANGED running
  BY <1>1
<1>3. s.unread \in Unreads /\ MenuTypeOK
  BY ArrayTypes, ChosenLeaves
<1>4. r.unread \in Unreads /\ r.value \in Numbers /\ r.value \in Int
  BY <1>2, <1>3, NumberScanned, BookMenuAssumption DEF NumberBefore
<1>5. /\ MenuTypeOK' /\ {} \subseteq [number : Nat, entry : Entries] /\ listing' = {}
      /\ number' = r.value /\ number' \in Int /\ AB!Place(number') = r.value + 1
  BY <1>2, <1>3, <1>4, RemoveTurns DEF MenuTypeOK, AB!Place
<1>6. CASE /\ r.value < 0 \/ r.value >= abonent_count
           /\ UNCHANGED <<abonent_book, abonent_count>>
  <2>1. Book' = Book /\ DOMAIN Book = 1 .. abonent_count /\ abonent_count \in Nat
    BY <1>6, ArrayTypes
  <2>2. r.value + 1 \notin DOMAIN Book
    BY <1>4, <1>6, <2>1
  <2>3. AB!Delete
    BY <1>5, <2>1, <2>2 DEF AB!Delete, Book, Filled
  <2> QED
    BY <1>5, <1>6, <2>3, ArrayTypes DEF ArrayTypeOK, BookStep, AB!PhoneBookNext
<1>7. CASE /\ ~(r.value < 0 \/ r.value >= abonent_count)
           /\ abonent_book' = Shifted(r.value) /\ abonent_count' = abonent_count - 1
  <2>1. PICK n \in Nat : n = abonent_count
    BY ArrayTypes
  <2>2. PICK k \in 0 .. n - 1 : k = r.value
    BY <1>4, <1>7, <2>1
  <2>3. PICK b : b = abonent_book
    OBVIOUS
  <2>4. PICK c : c = abonent_book'
    OBVIOUS
  <2>5. /\ b \in [0 .. MaxAbonents - 1 -> Entries] /\ n <= MaxAbonents /\ MaxAbonents \in Nat
        /\ \A i \in 0 .. n - 1 : i \in 0 .. MaxAbonents - 1 /\ b[i] \in Entries
    BY <2>1, <2>3, ArrayTypes
  <2>6. c = [i \in 0 .. MaxAbonents - 1 |-> IF i \in k .. n - 2 THEN b[i + 1] ELSE b[i]]
    BY <1>7, <2>1, <2>2, <2>3, <2>4, <2>5 DEF Shifted
  <2>7. \A i \in k .. n - 2 : i + 1 \in 0 .. n - 1
    BY <2>2
  <2>8. c \in [0 .. MaxAbonents - 1 -> Entries]
    BY <2>5, <2>6, <2>7
  <2>9. \A i \in 0 .. n - 2 : c[i] = IF i \in k .. n - 2 THEN b[i + 1] ELSE b[i]
    BY <2>5, <2>6
  <2>10. Filled(c, n - 1) = SubSeq(Filled(b, n), 1, k) \o SubSeq(Filled(b, n), k + 2, n)
    <3>1. n \in Nat /\ k \in 0 .. n - 1 /\ \A i \in 0 .. n - 1 : b[i] \in Entries
      BY <2>1, <2>2, <2>5
    <3> QED
      BY <2>9, <3>1, FilledShifted
  <2>11. Book = Filled(b, n) /\ Book' = Filled(c, n - 1) /\ Len(Book) = n /\ DOMAIN Book = 1 .. n
    BY <1>7, <2>1, <2>3, <2>4, ArrayTypes DEF Book
  <2>12. PICK i \in 1 .. n : i = AB!Place(number') /\ i - 1 = k /\ i + 1 = k + 2
    <3>1. k + 1 \in 1 .. n /\ k + 1 - 1 = k /\ k + 1 + 1 = k + 2 /\ AB!Place(number') = k + 1
      BY <1>5, <2>2
    <3> QED
      BY <3>1
  <2>13. Book' = SubSeq(Book, 1, i - 1) \o SubSeq(Book, i + 1, Len(Book))
    BY <2>10, <2>11, <2>12
  <2>14. AB!Delete
    <3>1. i \in DOMAIN Book
      BY <2>11, <2>12
    <3> QED
      BY <1>5, <2>12, <2>13, <3>1 DEF AB!Delete, AB!RemoveAt, Book, Filled
  <2>15. abonent_count' \in 0 .. MaxAbonents
    BY <1>7, <2>1, <2>2, <2>5
  <2> QED
    BY <1>5, <2>4, <2>8, <2>14, <2>15 DEF ArrayTypeOK, BookStep, AB!PhoneBookNext
<1> QED
  BY <1>2, <1>6, <1>7

\* A listing of the array is one of the book.
LEMMA ListedIsNumbered ==
    ASSUME ArrayTypeOK, NEW I \in SUBSET (0 .. abonent_count - 1)
    PROVE  /\ Listed(I) = AB!Numbered({i \in 1 .. abonent_count : i - 1 \in I})
           /\ Listed(I) \subseteq [number : Nat, entry : Entries]
<1>1. PICK n \in Nat : n = abonent_count
  BY ArrayTypes
<1>2. PICK b : b = abonent_book
  OBVIOUS
<1>3. \A i \in 0 .. n - 1 : b[i] \in Entries /\ i \in Nat
  BY <1>1, <1>2, ArrayTypes
<1>4. I \subseteq 0 .. n - 1
  BY <1>1
<1>5. Listed(I) = {[number |-> i, entry |-> b[i]] : i \in I}
  BY <1>2 DEF Listed
<1>6. Listed(I) \subseteq [number : Nat, entry : Entries]
  BY <1>3, <1>4, <1>5
<1>7. PICK J : J = {i \in 1 .. n : i - 1 \in I}
  OBVIOUS
<1>8. PICK e : e = Filled(b, n)
  OBVIOUS
<1>9. \A i \in 1 .. n : e[i] = b[i - 1]
  <2>1. n \in Nat /\ \A i \in 0 .. n - 1 : b[i] \in Entries
    BY <1>1, <1>3
  <2>2. \A i \in 1 .. n : Filled(b, n)[i] = b[i - 1]
    BY <2>1, FilledIsSequence
  <2> QED
    BY <1>8, <2>2
<1>10. AB!Numbered(J) = {[number |-> i - 1, entry |-> e[i]] : i \in J}
  BY <1>1, <1>2, <1>8 DEF AB!Numbered, Filled
<1>11. ASSUME NEW i \in I
       PROVE  \E j \in J : [number |-> i, entry |-> b[i]] = [number |-> j - 1, entry |-> e[j]]
  <2>1. i + 1 \in J /\ i + 1 - 1 = i /\ e[i + 1] = b[i + 1 - 1]
    BY <1>4, <1>7, <1>9
  <2> QED
    BY <2>1
<1>12. ASSUME NEW j \in J
       PROVE  \E i \in I : [number |-> j - 1, entry |-> e[j]] = [number |-> i, entry |-> b[i]]
  BY <1>7, <1>9
<1>13. Listed(I) = AB!Numbered(J)
  <2>1. Listed(I) \subseteq AB!Numbered(J)
    BY <1>5, <1>10, <1>11
  <2>2. AB!Numbered(J) \subseteq Listed(I)
    BY <1>5, <1>10, <1>12
  <2> QED
    BY <2>1, <2>2
<1> QED
  BY <1>1, <1>6, <1>7, <1>13

\* search_abonent() lists the entries of a name, ...
LEMMA SearchImplements == ArrayTypeOK /\ ArraySearch => ArrayTypeOK' /\ BookStep
<1> SUFFICES ASSUME ArrayTypeOK, ArraySearch
             PROVE  ArrayTypeOK' /\ BookStep
  OBVIOUS
<1>1. PICK s \in Chosen(3) : \E w \in ScanWord(s.unread, Words \cup {Blank}) :
        /\ Turn(3, w.unread)
        /\ listing' = Listed({i \in 0 .. abonent_count - 1 : abonent_book[i].name = w.value})
        /\ UNCHANGED <<abonent_book, abonent_count, running>>
  BY DEF ArraySearch
<1>2. PICK w \in ScanWord(s.unread, Words \cup {Blank}) :
        /\ Turn(3, w.unread)
        /\ listing' = Listed({i \in 0 .. abonent_count - 1 : abonent_book[i].name = w.value})
        /\ UNCHANGED <<abonent_book, abonent_count, running>>
  BY <1>1
<1>3. s.unread \in Unreads /\ MenuTypeOK
  BY ArrayTypes, ChosenLeaves
<1>4. w.unread \in Unreads /\ w.value \in Words \cup {Blank}
  BY <1>2, <1>3, WordScanned
<1>5. MenuTypeOK' /\ number' = NoNumber
  BY <1>2, <1>3, <1>4, MenuTurns DEF MenuTypeOK
<1>6. PICK I : I = {i \in 0 .. abonent_count - 1 : abonent_book[i].name = w.value}
  OBVIOUS
<1>7. I \in SUBSET (0 .. abonent_count - 1)
  BY <1>6
<1>8. PICK J : J = {i \in 1 .. abonent_count : i - 1 \in I}
  OBVIOUS
<1>9. listing' = Listed(I) /\ Listed(I) = AB!Numbered(J) /\ Listed(I) \subseteq [number : Nat, entry : Entries]
  BY <1>2, <1>6, <1>7, <1>8, ListedIsNumbered
<1>10. PICK e \in Entries : e.name = w.value
  <2>1. [name |-> w.value, tel |-> Blank] \in Entries
    BY <1>4 DEF Entries
  <2> QED
    BY <2>1
<1>11. J = {i \in DOMAIN Book : Book[i].name = e.name}
  <2>1. DOMAIN Book = 1 .. abonent_count /\ \A i \in 1 .. abonent_count : Book[i] = abonent_book[i - 1]
    BY ArrayTypes
  <2>2. \A i \in 1 .. abonent_count : i - 1 \in 0 .. abonent_count - 1
    BY ArrayTypes
  <2>3. \A i \in 1 .. abonent_count : i - 1 \in I <=> Book[i].name = e.name
    BY <1>6, <1>10, <2>1, <2>2
  <2> QED
    BY <1>8, <2>1, <2>3
<1>12. AB!List
  <2>1. Book' = Book
    BY <1>2, ArrayTypes
  <2> QED
    BY <1>5, <1>9, <1>10, <1>11, <2>1 DEF AB!List, Book, Filled
<1> QED
  BY <1>2, <1>5, <1>9, <1>12, ArrayTypes DEF ArrayTypeOK, BookStep, AB!PhoneBookNext

\* ... and print_book() all of them.
LEMMA PrintImplements == ArrayTypeOK /\ ArrayPrint => ArrayTypeOK' /\ BookStep
<1> SUFFICES ASSUME ArrayTypeOK, ArrayPrint
             PROVE  ArrayTypeOK' /\ BookStep
  OBVIOUS
<1>1. PICK s \in Chosen(4) :
        /\ Turn(4, s.unread)
        /\ listing' = Listed(0 .. abonent_count - 1)
        /\ UNCHANGED <<abonent_book, abonent_count, running>>
  BY DEF ArrayPrint
<1>2. s.unread \in Unreads /\ MenuTypeOK
  BY ArrayTypes, ChosenLeaves
<1>3. MenuTypeOK' /\ number' = NoNumber
  BY <1>1, <1>2, MenuTurns DEF MenuTypeOK
<1>4. PICK I : I = 0 .. abonent_count - 1
  OBVIOUS
<1>5. PICK J : J = {i \in 1 .. abonent_count : i - 1 \in I}
  OBVIOUS
<1>6. I \in SUBSET (0 .. abonent_count - 1)
  BY <1>4
<1>7. listing' = Listed(I) /\ Listed(I) = AB!Numbered(J) /\ Listed(I) \subseteq [number : Nat, entry : Entries]
  BY <1>1, <1>4, <1>5, <1>6, ListedIsNumbered
<1>8. J = DOMAIN Book
  BY <1>4, <1>5, ArrayTypes
<1>9. Book' = Book
  BY <1>1, ArrayTypes
<1>10. AB!List
  BY <1>3, <1>7, <1>8, <1>9 DEF AB!List, Book, Filled
<1> QED
  BY <1>1, <1>3, <1>7, <1>10, ArrayTypes DEF ArrayTypeOK, BookStep, AB!PhoneBookNext

\* The end of the program empties the book, and another item leaves it alone.
LEMMA RestImplements ==
    /\ ArrayTypeOK /\ ArrayExit => ArrayTypeOK' /\ BookStep
    /\ ArrayTypeOK /\ OtherItem /\ listing' = {} /\ UNCHANGED <<abonent_book, abonent_count>> =>
         ArrayTypeOK' /\ BookStep
<1>1. ASSUME ArrayTypeOK, ArrayExit
      PROVE  ArrayTypeOK' /\ BookStep
  <2>1. PICK s \in Chosen(5) :
          /\ Turn(5, s.unread) /\ running' = FALSE
          /\ listing' = {} /\ abonent_book' = NoEntries /\ abonent_count' = 0
    BY <1>1 DEF ArrayExit
  <2>2. s.unread \in Unreads /\ MenuTypeOK
    BY <1>1, ArrayTypes, ChosenLeaves
  <2>3. MenuTypeOK' /\ number' = NoNumber
    BY <2>1, <2>2, MenuTurns
  <2>4. [name |-> Blank, tel |-> Blank] \in Entries
    BY DEF Entries
  <2>5. NoEntries \in [0 .. MaxAbonents - 1 -> Entries] /\ 0 \in 0 .. MaxAbonents
    BY <2>4, ArrayBookAssumption DEF NoEntries
  <2>6. Book' = <<>>
    BY <2>1 DEF Book, Filled
  <2>7. AB!Discard
    BY <2>1, <2>3, <2>6 DEF AB!Discard, Book, Filled
  <2> QED
    BY <2>1, <2>3, <2>5, <2>7 DEF ArrayTypeOK, BookStep, AB!PhoneBookNext
<1>2. ASSUME ArrayTypeOK, OtherItem, listing' = {}, UNCHANGED <<abonent_book, abonent_count>>
      PROVE  ArrayTypeOK' /\ BookStep
  <2>1. PICK k \in Numbers \ 1 .. 5 : \E s \in Chosen(k) : Turn(k, s.unread) /\ UNCHANGED running
    BY <1>2 DEF OtherItem
  <2>2. PICK s \in Chosen(k) : Turn(k, s.unread) /\ UNCHANGED running
    BY <2>1
  <2>3. s.unread \in Unreads /\ MenuTypeOK
    BY <1>2, ArrayTypes, ChosenLeaves
  <2>4. MenuTypeOK' /\ number' = NoNumber
    BY <2>2, <2>3, MenuTurns DEF MenuTypeOK
  <2>5. AB!Quiet
    BY <1>2, <2>4, ArrayTypes DEF AB!Quiet, Book, Filled
  <2> QED
    BY <1>2, <2>4, <2>5, ArrayTypes DEF ArrayTypeOK, BookStep, AB!PhoneBookNext
<1> QED
  BY <1>1, <1>2

\* An empty array is an empty book.
LEMMA ArrayStarts == ArrayEmpty /\ MenuTypeOK /\ number = NoNumber => ArrayTypeOK /\ AB!PhoneBookInit
<1> SUFFICES ASSUME ArrayEmpty, MenuTypeOK, number = NoNumber
             PROVE  ArrayTypeOK /\ AB!PhoneBookInit
  OBVIOUS
<1>1. [name |-> Blank, tel |-> Blank] \in Entries
  BY DEF Entries
<1>2. NoEntries \in [0 .. MaxAbonents - 1 -> Entries] /\ 0 \in 0 .. MaxAbonents
  BY <1>1, ArrayBookAssumption DEF NoEntries
<1>3. ArrayTypeOK
  BY <1>2 DEF ArrayEmpty, ArrayTypeOK
<1>4. [i \in 1 .. abonent_count |-> abonent_book[i - 1]] = <<>>
  BY DEF ArrayEmpty
<1> QED
  BY <1>3, <1>4 DEF ArrayEmpty, AB!PhoneBookInit

\* Every step of the array book keeps the types and is a step of the phone book, or
\* does not show.
LEMMA ArrayStep ==
    ArrayTypeOK /\ [ArrayNext]_arrayVars =>
      ArrayTypeOK' /\ [AB!PhoneBookNext]_<<[i \in 1 .. abonent_count |-> abonent_book[i - 1]], listing, number>>
<1> SUFFICES ASSUME ArrayTypeOK, [ArrayNext]_arrayVars
             PROVE  ArrayTypeOK' /\ BookStep
  BY DEF BookStep, Book, Filled
<1>1. CASE UNCHANGED arrayVars
  BY <1>1, ArrayTypes DEF arrayVars, menu, ArrayTypeOK, MenuTypeOK, BookStep
<1>2. CASE ArrayNext
  BY <1>2, AddImplements, RemoveImplements, SearchImplements, PrintImplements, RestImplements
     DEF ArrayNext
<1> QED
  BY <1>1, <1>2

\* The array of functions.c is a phone book for any size and whatever is typed: entries
\* behind abonent_count never show, a removal takes the numbered entry and no other.
THEOREM ArrayIsBook == ArraySpec => []ArrayTypeOK /\ ArrayImplementsBook
<1>1. ArrayInit => ArrayEmpty /\ MenuTypeOK /\ number = NoNumber
  BY BookMenuAssumption DEF ArrayInit, MenuStarts, MenuTypeOK
<1> QED
  BY <1>1, ArrayStarts, ArrayStep, PTL DEF ArraySpec, ArrayImplementsBook, AB!PhoneBookSpec

-------------------------------------------------------------------------------
(* The phone book in a linked list.                                              *)

\* Heap h, first cell hd and last cell tl hold the list of the cells of w.
ListOf(h, hd, tl, w) ==
    /\ Len(w) = Cardinality(DOMAIN h)
    /\ \A i \in 1 .. Len(w) : w[i] \in DOMAIN h
    /\ \A x \in DOMAIN h : \E i \in 1 .. Len(w) : w[i] = x
    /\ \A i, j \in 1 .. Len(w) : w[i] = w[j] => i = j
    /\ \A i \in 1 .. Len(w) :
         /\ h[w[i]].prev = IF i = 1 THEN Null ELSE w[i - 1]
         /\ h[w[i]].next = IF i = Len(w) THEN Null ELSE w[i + 1]
    /\ hd = IF Len(w) = 0 THEN Null ELSE w[1]
    /\ tl = IF Len(w) = 0 THEN Null ELSE w[Len(w)]

\* Walk, for any heap and first cell.
IsWayIn(h, hd, way) ==
    /\ \A i \in DOMAIN way : way[i] = IF i = 1 THEN hd ELSE h[way[i - 1]].next
    /\ (IF way = <<>> THEN hd ELSE h[Last(way)].next) \in DOMAIN h => Len(way) = Cardinality(DOMAIN h)

WalkIn(h, hd) ==
    CHOOSE way \in UNION {[1 .. n -> DOMAIN h] : n \in 0 .. Cardinality(DOMAIN h)} :
      IsWayIn(h, hd, way)

\* A set of natural numbers has a least one.
LEMMA LeastNumber ==
    ASSUME NEW T \in SUBSET Nat, T # {}
    PROVE  \E x \in T : \A y \in T : x <= y
<1>1. PICK R : R = OpToRel(<, Nat)
  OBVIOUS
<1>2. IsWellFoundedOn(R, Nat)
  BY <1>1, NatLessThanWellFounded
<1>3. PICK x \in T : \A y \in T : ~ (<<y, x>> \in R)
  BY <1>2, WFMin
<1>4. ASSUME NEW y \in T
      PROVE  x <= y
  <2>1. <<y, x>> \in R <=> y < x
    BY <1>1 DEF OpToRel
  <2> QED
    BY <1>3, <2>1
<1> QED
  BY <1>4

\* Two ways from the same cell are the same as far as both go.
LEMMA SameWay ==
    ASSUME NEW h, NEW hd, NEW tl, NEW w \in Seq(Cells), ListOf(h, hd, tl, w),
           NEW m \in 0 .. Len(w), NEW v \in [1 .. m -> DOMAIN h], IsWayIn(h, hd, v)
    PROVE  \A i \in 1 .. m : v[i] = w[i]
<1>1. PICK T : T = {i \in 1 .. m : v[i] # w[i]}
  OBVIOUS
<1>2. SUFFICES ASSUME T # {}
               PROVE  FALSE
  BY <1>1
<1>3. T \in SUBSET Nat
  BY <1>1
<1>4. PICK i \in T : \A j \in T : i <= j
  BY <1>2, <1>3, LeastNumber
<1>5. i \in 1 .. m /\ i \in 1 .. Len(w) /\ v[i] # w[i]
  BY <1>1
<1>6. CASE i = 1
  <2>1. v[i] = hd
    BY <1>5, <1>6 DEF IsWayIn
  <2>2. hd = w[1]
    BY <1>5, <1>6 DEF ListOf
  <2> QED
    BY <1>5, <1>6, <2>1, <2>2
<1>7. CASE i # 1
  <2>1. i - 1 \in 1 .. m /\ i - 1 \in 1 .. Len(w) /\ i - 1 \notin T /\ i - 1 # Len(w) /\ i - 1 + 1 = i
    BY <1>4, <1>5, <1>7
  <2>2. v[i - 1] = w[i - 1]
    BY <1>1, <2>1
  <2>3. h[w[i - 1]].next = w[i]
    BY <2>1 DEF ListOf
  <2>4. v[i] = h[v[i - 1]].next
    BY <1>5, <1>7 DEF IsWayIn
  <2> QED
    BY <1>5, <2>2, <2>3, <2>4
<1> QED
  BY <1>6, <1>7

\* A loop over "next" meets the list, all of it and nothing else.
LEMMA WalkIsList ==
    ASSUME NEW h, DOMAIN h \subseteq Cells, NEW hd, NEW tl, NEW w \in Seq(Cells), ListOf(h, hd, tl, w)
    PROVE  WalkIn(h, hd) = w
<1>1. PICK n \in Nat : n = Len(w)
  OBVIOUS
<1>2. n = Cardinality(DOMAIN h) /\ \A i \in 1 .. n : w[i] \in DOMAIN h
  BY <1>1 DEF ListOf
<1>3. w \in [1 .. n -> DOMAIN h]
  <2>1. w \in [1 .. n -> Cells]
    BY <1>1
  <2> QED
    BY <1>2, <2>1
<1>4. w \in UNION {[1 .. k -> DOMAIN h] : k \in 0 .. Cardinality(DOMAIN h)}
  <2>1. n \in 0 .. Cardinality(DOMAIN h)
    BY <1>2
  <2> QED
    BY <1>3, <2>1
<1>5. IsWayIn(h, hd, w)
  <2>1. ASSUME NEW i \in 1 .. n
        PROVE  w[i] = IF i = 1 THEN hd ELSE h[w[i - 1]].next
    <3>1. CASE i = 1
      BY <1>1, <2>1, <3>1 DEF ListOf
    <3>2. CASE i # 1
      <4>1. i - 1 \in 1 .. Len(w) /\ i - 1 # Len(w) /\ i - 1 + 1 = i
        BY <1>1, <2>1, <3>2
      <4>2. h[w[i - 1]].next = w[i]
        BY <4>1 DEF ListOf
      <4> QED
        BY <3>2, <4>2
    <3> QED
      BY <3>1, <3>2
  <2>2. DOMAIN w = 1 .. n
    BY <1>1
  <2> QED
    BY <1>1, <1>2, <2>1, <2>2 DEF IsWayIn
<1>6. ASSUME NEW v \in UNION {[1 .. k -> DOMAIN h] : k \in 0 .. Cardinality(DOMAIN h)}, IsWayIn(h, hd, v)
      PROVE  v = w
  <2>1. PICK m \in 0 .. n : v \in [1 .. m -> DOMAIN h]
    BY <1>2
  <2>2. \A i \in 1 .. m : v[i] = w[i]
    BY <1>1, <1>6, <2>1, SameWay
  <2>3. v \in Seq(DOMAIN h) /\ Len(v) = m
    BY <2>1
  <2>4. SUFFICES ASSUME m # n
                 PROVE  FALSE
    BY <1>3, <2>1, <2>2
  <2>5. m + 1 \in 1 .. n /\ w[m + 1] \in DOMAIN h
    BY <1>2, <2>1, <2>4
  <2>6. (IF v = <<>> THEN hd ELSE h[Last(v)].next) = w[m + 1]
    <3>1. CASE m = 0
      <4>1. v = <<>>
        BY <2>3, <3>1
      <4> QED
        BY <1>1, <2>5, <3>1, <4>1 DEF ListOf
    <3>2. CASE m # 0
      <4>1. v # <<>> /\ Last(v) = v[m]
        BY <2>3, <3>2 DEF Last
      <4>2. m \in 1 .. m /\ m \in 1 .. Len(w) /\ m # Len(w)
        BY <1>1, <2>1, <2>4, <3>2
      <4>3. h[w[m]].next = w[m + 1]
        BY <4>2 DEF ListOf
      <4> QED
        BY <2>2, <4>1, <4>2, <4>3
    <3> QED
      BY <3>1, <3>2
  <2>7. Len(v) = Cardinality(DOMAIN h)
    BY <1>6, <2>5, <2>6 DEF IsWayIn
  <2> QED
    BY <1>2, <2>3, <2>4, <2>7
<1>7. \A v \in UNION {[1 .. k -> DOMAIN h] : k \in 0 .. Cardinality(DOMAIN h)} : IsWayIn(h, hd, v) => v = w
  BY <1>6
<1>8. PICK W : W = UNION {[1 .. k -> DOMAIN h] : k \in 0 .. Cardinality(DOMAIN h)}
  OBVIOUS
<1>9. WalkIn(h, hd) = CHOOSE v \in W : IsWayIn(h, hd, v)
  BY <1>8 DEF WalkIn
<1>10. (CHOOSE v \in W : IsWayIn(h, hd, v)) = w
  BY <1>4, <1>5, <1>7, <1>8
<1> QED
  BY <1>9, <1>10

\* An empty heap holds the empty list.
LEMMA ListEmptied ==
    ASSUME NEW h, DOMAIN h = {}
    PROVE  <<>> \in Seq(Cells) /\ ListOf(h, Null, Null, <<>>)
<1>1. Cardinality(DOMAIN h) = 0
  BY FS_EmptySet
<1>2. <<>> \in Seq(Cells) /\ Len(<<>>) = 0
  OBVIOUS
<1> QED
  BY <1>1, <1>2 DEF ListOf

\* What becomes of the nodes of heap h when one in cell c is hung behind the last, tl.
Hung(h, tl, c, g) ==
    /\ DOMAIN h \subseteq Cells /\ c \in Cells \ DOMAIN h
    /\ DOMAIN g = DOMAIN h \cup {c} /\ g[c].next = Null /\ g[c].prev = tl
    /\ \A x \in DOMAIN h :
         g[x].next = (IF x = tl THEN c ELSE h[x].next) /\ g[x].prev = h[x].prev

\* A node that is hung behind the last cell is one more at the end of the list.
LEMMA ListGrows ==
    ASSUME NEW h, NEW hd, NEW tl, NEW w \in Seq(Cells), ListOf(h, hd, tl, w),
           NEW c, NEW g, Hung(h, tl, c, g)
    PROVE  Append(w, c) \in Seq(Cells) /\ ListOf(g, IF tl = Null THEN c ELSE hd, c, Append(w, c))
<1>1. /\ DOMAIN h \subseteq Cells /\ c \in Cells /\ c \notin DOMAIN h
      /\ DOMAIN g = DOMAIN h \cup {c} /\ g[c].next = Null /\ g[c].prev = tl
      /\ \A x \in DOMAIN h :
           g[x].next = (IF x = tl THEN c ELSE h[x].next) /\ g[x].prev = h[x].prev
  BY DEF Hung
<1>2. PICK n \in Nat : n = Len(w)
  OBVIOUS
<1>3. PICK a : a = Append(w, c)
  OBVIOUS
<1>4. /\ a \in Seq(Cells) /\ Len(a) = n + 1 /\ a[n + 1] = c
      /\ \A i \in 1 .. n : a[i] = w[i]
  BY <1>1, <1>2, <1>3, AppendProperties
<1>5. /\ \A i \in 1 .. n : w[i] \in DOMAIN h /\ w[i] # c
      /\ \A x \in DOMAIN h : \E i \in 1 .. n : w[i] = x
      /\ \A i, j \in 1 .. n : w[i] = w[j] => i = j
      /\ hd = IF n = 0 THEN Null ELSE w[1]
      /\ tl = IF n = 0 THEN Null ELSE w[n]
  BY <1>1, <1>2 DEF ListOf
<1>6. \A i \in 1 .. n :
        /\ h[w[i]].prev = IF i = 1 THEN Null ELSE w[i - 1]
        /\ h[w[i]].next = IF i = n THEN Null ELSE w[i + 1]
  BY <1>2 DEF ListOf
<1>7. Len(a) = Cardinality(DOMAIN g)
  <2>1. IsFiniteSet(DOMAIN h)
    BY <1>1, FS_Subset, ListBookAssumption
  <2>2. Cardinality(DOMAIN h \cup {c}) = Cardinality(DOMAIN h) + 1
    BY <1>1, <2>1, FS_AddElement
  <2>3. Cardinality(DOMAIN h) = n
    BY <1>2 DEF ListOf
  <2> QED
    BY <1>1, <1>4, <2>2, <2>3
<1>8. ASSUME NEW i \in 1 .. n + 1
      PROVE  i \in 1 .. n \/ i = n + 1
  OBVIOUS
<1>9. \A i \in 1 .. n + 1 : a[i] \in DOMAIN g
  BY <1>1, <1>4, <1>5, <1>8
<1>10. \A x \in DOMAIN g : \E i \in 1 .. n + 1 : a[i] = x
  <2>1. ASSUME NEW x \in DOMAIN h
        PROVE  \E i \in 1 .. n + 1 : a[i] = x
    <3>1. PICK i \in 1 .. n : w[i] = x
      BY <1>5
    <3>2. i \in 1 .. n + 1 /\ a[i] = x
      BY <1>4, <3>1
    <3> QED
      BY <3>2
  <2>2. n + 1 \in 1 .. n + 1
    OBVIOUS
  <2> QED
    BY <1>1, <1>4, <2>1, <2>2
<1>11. \A i, j \in 1 .. n + 1 : a[i] = a[j] => i = j
  BY <1>4, <1>5, <1>8
<1>12. ASSUME NEW i \in 1 .. n + 1
       PROVE  /\ g[a[i]].prev = IF i = 1 THEN Null ELSE a[i - 1]
              /\ g[a[i]].next = IF i = n + 1 THEN Null ELSE a[i + 1]
  <2>1. CASE i = n + 1
    <3>1. i # 1 => i - 1 \in 1 .. n /\ i - 1 = n
      BY <2>1
    <3>2. i = 1 <=> n = 0
      BY <2>1
    <3> QED
      BY <1>1, <1>4, <1>5, <2>1, <3>1, <3>2
  <2>2. CASE i \in 1 .. n
    <3>1. a[i] = w[i] /\ w[i] \in DOMAIN h
      BY <1>4, <1>5, <2>2
    <3>2. g[w[i]].prev = h[w[i]].prev
      BY <1>1, <3>1
    <3>3. i # 1 => i - 1 \in 1 .. n
      BY <2>2
    <3>4. g[a[i]].prev = IF i = 1 THEN Null ELSE a[i - 1]
      BY <1>4, <1>6, <2>2, <3>1, <3>2, <3>3
    <3>5. CASE i = n
      <4>1. w[i] = tl
        BY <1>5, <2>2, <3>5
      <4>2. g[w[i]].next = c
        BY <1>1, <3>1, <4>1
      <4>3. i # n + 1 /\ a[i + 1] = c
        BY <1>4, <3>5
      <4> QED
        BY <3>1, <3>4, <4>2, <4>3
    <3>6. CASE i # n
      <4>1. n \in 1 .. n /\ n # 0 /\ i + 1 \in 1 .. n /\ i # n + 1
        BY <2>2, <3>6
      <4>2. w[i] # tl
        BY <1>5, <2>2, <3>6, <4>1
      <4>3. g[w[i]].next = w[i + 1]
        BY <1>1, <1>6, <2>2, <3>1, <3>6, <4>2
      <4> QED
        BY <1>4, <3>1, <3>4, <4>1, <4>3
    <3> QED
      BY <3>5, <3>6
  <2> QED
    BY <1>8, <2>1, <2>2
<1>13. (IF tl = Null THEN c ELSE hd) = a[1]
  <2>1. CASE n = 0
    BY <1>4, <1>5, <2>1
  <2>2. CASE n # 0
    <3>1. 1 \in 1 .. n /\ n \in 1 .. n
      BY <2>2
    <3>2. tl \in Cells /\ hd = w[1]
      BY <1>1, <1>5, <2>2, <3>1
    <3> QED
      BY <1>4, <3>1, <3>2, ListBookAssumption
  <2> QED
    BY <2>1, <2>2
<1>14. n + 1 # 0
  OBVIOUS
<1>15. ListOf(g, IF tl = Null THEN c ELSE hd, c, a)
  BY <1>4, <1>7, <1>9, <1>10, <1>11, <1>12, <1>13, <1>14 DEF ListOf
<1> QED
  BY <1>3, <1>4, <1>15

\* What becomes of the nodes of heap h when the one in cell c is cut out.
Rehung(h, c, g) ==
    /\ DOMAIN g = DOMAIN h \ {c}
    /\ \A x \in DOMAIN h \ {c} :
         /\ g[x].next = IF x = h[c].prev THEN h[c].next ELSE h[x].next
         /\ g[x].prev = IF x = h[c].next THEN h[c].prev ELSE h[x].prev

\* Sequence u is w without its k-th element.
IsWithout(w, k, u) ==
    /\ Len(u) = Len(w) - 1
    /\ \A i \in 1 .. Len(w) - 1 : u[i] = IF i < k THEN w[i] ELSE w[i + 1]

\* A node that is cut out is missing in the list, and nothing else is.
LEMMA ListShrinks ==
    ASSUME NEW h, DOMAIN h \subseteq Cells, NEW hd, NEW tl, NEW w \in Seq(Cells), ListOf(h, hd, tl, w),
           NEW k \in 1 .. Len(w), NEW c, c = w[k], NEW g, Rehung(h, c, g),
           NEW u \in Seq(Cells), IsWithout(w, k, u)
    PROVE  ListOf(g, IF h[c].prev = Null THEN h[c].next ELSE hd, IF h[c].next = Null THEN h[c].prev ELSE tl, u)
<1>1. PICK n \in Nat : n = Len(w)
  OBVIOUS
<1>2. n - 1 \in Nat /\ k \in 1 .. n
  BY <1>1
<1>3. Len(u) = n - 1 /\ \A i \in 1 .. n - 1 : u[i] = IF i < k THEN w[i] ELSE w[i + 1]
  BY <1>1 DEF IsWithout
<1>4. /\ \A i \in 1 .. n : w[i] \in DOMAIN h /\ w[i] # Null
      /\ \A x \in DOMAIN h : \E i \in 1 .. n : w[i] = x
      /\ \A i, j \in 1 .. n : w[i] = w[j] => i = j
      /\ hd = w[1] /\ tl = w[n]
  BY <1>1, <1>2, ListBookAssumption DEF ListOf
<1>5. \A i \in 1 .. n :
        /\ h[w[i]].prev = IF i = 1 THEN Null ELSE w[i - 1]
        /\ h[w[i]].next = IF i = n THEN Null ELSE w[i + 1]
  BY <1>1 DEF ListOf
<1>6. PICK before : before = h[c].prev
  OBVIOUS
<1>7. PICK behind : behind = h[c].next
  OBVIOUS
<1>8. /\ before = IF k = 1 THEN Null ELSE w[k - 1]
      /\ behind = IF k = n THEN Null ELSE w[k + 1]
  BY <1>2, <1>5, <1>6, <1>7
<1>9. /\ DOMAIN g = DOMAIN h \ {c}
      /\ \A x \in DOMAIN h \ {c} :
           /\ g[x].next = IF x = before THEN behind ELSE h[x].next
           /\ g[x].prev = IF x = behind THEN before ELSE h[x].prev
  BY <1>6, <1>7 DEF Rehung
<1>10. Len(u) = Cardinality(DOMAIN g)
  <2>1. IsFiniteSet(DOMAIN h)
    BY FS_Subset, ListBookAssumption
  <2>2. c \in DOMAIN h
    BY <1>2, <1>4
  <2>3. Cardinality(DOMAIN h \ {c}) = Cardinality(DOMAIN h) - 1
    BY <2>1, <2>2, FS_RemoveElement
  <2>4. Cardinality(DOMAIN h) = n
    BY <1>1 DEF ListOf
  <2> QED
    BY <1>3, <1>9, <2>3, <2>4
<1>11. ASSUME NEW i \in 1 .. n - 1
       PROVE  /\ i < k => i \in 1 .. n /\ i # k /\ u[i] = w[i]
              /\ i >= k => i + 1 \in 1 .. n /\ i + 1 # k /\ u[i] = w[i + 1]
              /\ u[i] \in DOMAIN h \ {c}
  <2>1. i < k => i \in 1 .. n /\ i # k /\ u[i] = w[i]
    BY <1>2, <1>3
  <2>2. i >= k => i + 1 \in 1 .. n /\ i + 1 # k /\ u[i] = w[i + 1]
    BY <1>2, <1>3
  <2>3. i < k \/ i >= k
    BY <1>2
  <2> QED
    BY <1>2, <1>4, <2>1, <2>2, <2>3
<1>12. \A x \in DOMAIN g : \E i \in 1 .. n - 1 : u[i] = x
  <2>1. ASSUME NEW x \in DOMAIN h \ {c}
        PROVE  \E i \in 1 .. n - 1 : u[i] = x
    <3>1. PICK j \in 1 .. n : w[j] = x
      BY <1>4
    <3>2. j # k
      BY <3>1
    <3>3. CASE j < k
      <4>1. j \in 1 .. n - 1 /\ u[j] = x
        BY <1>2, <1>3, <3>1, <3>3
      <4> QED
        BY <4>1
    <3>4. CASE j > k
      <4>1. j - 1 \in 1 .. n - 1 /\ ~(j - 1 < k) /\ j - 1 + 1 = j
        BY <1>2, <3>4
      <4>2. u[j - 1] = x
        BY <1>3, <3>1, <4>1
      <4> QED
        BY <4>1, <4>2
    <3> QED
      BY <1>2, <3>2, <3>3, <3>4
  <2> QED
    BY <1>9, <2>1
<1>13. ASSUME NEW i \in 1 .. n - 1, NEW j \in 1 .. n - 1, u[i] = u[j]
       PROVE  i = j
  <2>1. CASE i < k /\ j < k
    BY <1>4, <1>11, <1>13, <2>1
  <2>2. CASE i >= k /\ j >= k
    BY <1>4, <1>11, <1>13, <2>2
  <2>3. CASE i < k /\ j >= k
    BY <1>4, <1>11, <1>13, <2>3
  <2>4. CASE i >= k /\ j < k
    BY <1>4, <1>11, <1>13, <2>4
  <2> QED
    BY <1>2, <2>1, <2>2, <2>3, <2>4
<1>14. ASSUME NEW i \in 1 .. n - 1
       PROVE  g[u[i]].prev = IF i = 1 THEN Null ELSE u[i - 1]
  <2>1. CASE i < k
    <3>1. u[i] = w[i] /\ i \in 1 .. n /\ i # n
      BY <1>2, <1>11, <2>1
    <3>2. w[i] # behind
      <4>1. k # n => k + 1 \in 1 .. n /\ i # k + 1
        BY <1>2, <2>1
      <4> QED
        BY <1>4, <1>8, <3>1, <4>1
    <3>3. g[u[i]].prev = IF i = 1 THEN Null ELSE w[i - 1]
      BY <1>5, <1>9, <1>11, <3>1, <3>2
    <3>4. i # 1 => i - 1 \in 1 .. n - 1 /\ i - 1 < k
      BY <1>2, <2>1
    <3> QED
      BY <1>3, <3>3, <3>4
  <2>2. CASE i = k
    <3>1. u[i] = w[i + 1] /\ i + 1 \in 1 .. n /\ k # n
      BY <1>2, <1>11, <2>2
    <3>2. g[u[i]].prev = before
      BY <1>8, <1>9, <1>11, <2>2, <3>1
    <3>3. i # 1 => i - 1 \in 1 .. n - 1 /\ i - 1 < k
      BY <1>2, <2>2
    <3> QED
      BY <1>3, <1>8, <2>2, <3>2, <3>3
  <2>3. CASE i > k
    <3>1. PICK j \in 1 .. n : j = i + 1
      BY <1>2, <1>11, <2>3
    <3>2. u[i] = w[j] /\ j # 1 /\ j # k + 1 /\ j - 1 = i
      BY <1>2, <1>11, <2>3, <3>1
    <3>3. w[j] # behind
      <4>1. k # n => k + 1 \in 1 .. n
        BY <1>2
      <4> QED
        BY <1>4, <1>8, <3>2, <4>1
    <3>4. g[u[i]].prev = w[i]
      BY <1>5, <1>9, <1>11, <3>1, <3>2, <3>3
    <3>5. i - 1 \in 1 .. n - 1 /\ ~(i - 1 < k) /\ i - 1 + 1 = i /\ i # 1
      BY <1>2, <2>3
    <3> QED
      BY <1>3, <3>4, <3>5
  <2> QED
    BY <1>2, <2>1, <2>2, <2>3
<1>15. ASSUME NEW i \in 1 .. n - 1
       PROVE  g[u[i]].next = IF i = n - 1 THEN Null ELSE u[i + 1]
  <2>1. CASE i + 1 < k
    <3>1. u[i] = w[i] /\ i \in 1 .. n /\ i # n /\ i # n - 1 /\ i + 1 \in 1 .. n - 1 /\ i # k - 1
      <4>1. /\ i < k /\ i \in 1 .. n /\ i # n /\ i # n - 1 /\ i + 1 \in 1 .. n - 1
            /\ i # k - 1
        BY <1>2, <2>1
      <4> QED
        BY <1>11, <4>1
    <3>2. w[i] # before
      BY <1>2, <1>4, <1>8, <2>1, <3>1
    <3>3. g[u[i]].next = w[i + 1]
      BY <1>5, <1>9, <1>11, <3>1, <3>2
    <3> QED
      BY <1>3, <2>1, <3>1, <3>3
  <2>2. CASE i + 1 = k
    <3>1. u[i] = w[i] /\ i \in 1 .. n /\ k # 1 /\ k - 1 = i
      <4>1. i < k /\ i \in 1 .. n /\ k # 1 /\ k - 1 = i
        BY <1>2, <2>2
      <4> QED
        BY <1>11, <4>1
    <3>2. g[u[i]].next = behind
      BY <1>8, <1>9, <1>11, <3>1
    <3>3. i # n - 1 => i + 1 \in 1 .. n - 1 /\ ~(i + 1 < k) /\ k # n
      BY <1>2, <2>2
    <3>4. i = n - 1 => k = n
      BY <1>2, <2>2
    <3> QED
      BY <1>3, <1>8, <2>2, <3>2, <3>3, <3>4
  <2>3. CASE i >= k
    <3>1. PICK j \in 1 .. n : j = i + 1
      BY <1>2, <1>11, <2>3
    <3>2. u[i] = w[j] /\ j # k - 1 /\ (j = n <=> i = n - 1)
      BY <1>2, <1>11, <2>3, <3>1
    <3>3. w[j] # before
      <4>1. k # 1 => k - 1 \in 1 .. n
        BY <1>2
      <4> QED
        BY <1>4, <1>8, <3>2, <4>1
    <3>4. g[u[i]].next = IF i = n - 1 THEN Null ELSE w[j + 1]
      BY <1>5, <1>9, <1>11, <3>1, <3>2, <3>3
    <3>5. i # n - 1 => i + 1 \in 1 .. n - 1 /\ ~(i + 1 < k)
      BY <1>2, <2>3
    <3> QED
      BY <1>3, <3>1, <3>4, <3>5
  <2> QED
    BY <1>2, <2>1, <2>2, <2>3
<1>16. (IF before = Null THEN behind ELSE hd) = IF n - 1 = 0 THEN Null ELSE u[1]
  <2>1. CASE k = 1
    <3>1. n - 1 # 0 => 1 \in 1 .. n - 1 /\ ~(1 < k) /\ 1 + 1 = k + 1 /\ k # n
      BY <1>2, <2>1
    <3>2. n - 1 = 0 => k = n
      BY <1>2, <2>1
    <3> QED
      BY <1>3, <1>8, <2>1, <3>1, <3>2
  <2>2. CASE k # 1
    <3>1. k - 1 \in 1 .. n /\ n - 1 # 0 /\ 1 \in 1 .. n - 1 /\ 1 < k
      BY <1>2, <2>2
    <3> QED
      BY <1>3, <1>4, <1>8, <2>2, <3>1
  <2> QED
    BY <2>1, <2>2
<1>17. (IF behind = Null THEN before ELSE tl) = IF n - 1 = 0 THEN Null ELSE u[n - 1]
  <2>1. CASE k = n
    <3>1. n - 1 # 0 => n - 1 \in 1 .. n - 1 /\ n - 1 < k /\ k # 1
      BY <1>2, <2>1
    <3>2. n - 1 = 0 => k = 1
      BY <1>2, <2>1
    <3> QED
      BY <1>3, <1>8, <2>1, <3>1, <3>2
  <2>2. CASE k # n
    <3>1. k + 1 \in 1 .. n /\ n - 1 # 0 /\ n - 1 \in 1 .. n - 1 /\ ~(n - 1 < k) /\ n - 1 + 1 = n
      BY <1>2, <2>2
    <3> QED
      BY <1>3, <1>4, <1>8, <2>2, <3>1
  <2> QED
    BY <2>1, <2>2
<1>18. \A i \in 1 .. n - 1 : u[i] \in DOMAIN g
  BY <1>9, <1>11
<1> QED
  BY <1>3, <1>6, <1>7, <1>10, <1>12, <1>13, <1>14, <1>15, <1>16, <1>17, <1>18 DEF ListOf

\* What the book of the abstract specification is, for any heap and list.
EntriesOf(h, w) == [i \in DOMAIN w |-> h[w[i]].entry]

\* It is a sequence of entries.
LEMMA ShownIsSequence ==
    ASSUME NEW h, NEW w \in Seq(Cells), \A i \in 1 .. Len(w) : h[w[i]].entry \in Entries
    PROVE  /\ EntriesOf(h, w) \in Seq(Entries) /\ Len(EntriesOf(h, w)) = Len(w)
           /\ DOMAIN EntriesOf(h, w) = 1 .. Len(w)
           /\ \A i \in 1 .. Len(w) : EntriesOf(h, w)[i] = h[w[i]].entry
<1>1. PICK n \in Nat : n = Len(w)
  OBVIOUS
<1>2. DOMAIN w = 1 .. n
  BY <1>1
<1>3. EntriesOf(h, w) = [i \in 1 .. n |-> h[w[i]].entry]
  BY <1>2 DEF EntriesOf
<1>4. \A i \in 1 .. n : h[w[i]].entry \in Entries
  BY <1>1
<1> QED
  BY <1>1, <1>3, <1>4

\* A cell more at the end of the list is an entry more at the end of the book.
LEMMA ShownGrows ==
    ASSUME NEW h, NEW w \in Seq(Cells), NEW c \in Cells, NEW g,
           \A i \in 1 .. Len(w) : h[w[i]].entry \in Entries /\ g[w[i]].entry = h[w[i]].entry,
           g[c].entry \in Entries
    PROVE  EntriesOf(g, Append(w, c)) = Append(EntriesOf(h, w), g[c].entry)
<1>1. PICK n \in Nat : n = Len(w)
  OBVIOUS
<1>2. PICK a : a = Append(w, c)
  OBVIOUS
<1>3. /\ a \in Seq(Cells) /\ Len(a) = n + 1 /\ a[n + 1] = c
      /\ \A i \in 1 .. n : a[i] = w[i]
  BY <1>1, <1>2, AppendProperties
<1>4. \A i \in 1 .. n + 1 : i \in 1 .. n \/ i = n + 1
  OBVIOUS
<1>5. \A i \in 1 .. n + 1 : g[a[i]].entry \in Entries
  BY <1>1, <1>3, <1>4
<1>6. PICK s : s = EntriesOf(h, w)
  OBVIOUS
<1>7. s \in Seq(Entries) /\ Len(s) = n /\ \A i \in 1 .. n : s[i] = h[w[i]].entry
  BY <1>1, <1>6, ShownIsSequence
<1>8. PICK t : t = EntriesOf(g, a)
  OBVIOUS
<1>9. t \in Seq(Entries) /\ Len(t) = n + 1 /\ \A i \in 1 .. n + 1 : t[i] = g[a[i]].entry
  BY <1>3, <1>5, <1>8, ShownIsSequence
<1>10. PICK e \in Entries : e = g[c].entry
  OBVIOUS
<1>11. PICK z : z = Append(s, e)
  OBVIOUS
<1>12. /\ z \in Seq(Entries) /\ Len(z) = n + 1 /\ z[n + 1] = e
       /\ \A i \in 1 .. n : z[i] = s[i]
  BY <1>7, <1>11, AppendProperties
<1>13. ASSUME NEW i \in 1 .. n + 1
       PROVE  t[i] = z[i]
  <2>1. CASE i \in 1 .. n
    BY <1>1, <1>3, <1>7, <1>9, <1>12, <2>1
  <2>2. CASE i = n + 1
    BY <1>3, <1>9, <1>10, <1>12, <2>2
  <2> QED
    BY <1>4, <2>1, <2>2
<1>14. t = z
  BY <1>9, <1>12, <1>13, SeqEqual
<1> QED
  BY <1>2, <1>6, <1>8, <1>10, <1>11, <1>14

\* A cell less in the list is the entry less in the book.
LEMMA ShownShrinks ==
    ASSUME NEW h, NEW w \in Seq(Cells), NEW k \in 1 .. Len(w), NEW u \in Seq(Cells), IsWithout(w, k, u),
           NEW g, \A i \in 1 .. Len(w) : h[w[i]].entry \in Entries,
           \A i \in 1 .. Len(u) : g[u[i]].entry = h[u[i]].entry
    PROVE  EntriesOf(g, u) = SubSeq(EntriesOf(h, w), 1, k - 1) \o SubSeq(EntriesOf(h, w), k + 1, Len(EntriesOf(h, w)))
<1>1. PICK n \in Nat : n = Len(w)
  OBVIOUS
<1>2. n - 1 \in Nat /\ k \in 1 .. n
  BY <1>1
<1>3. Len(u) = n - 1 /\ \A i \in 1 .. n - 1 : u[i] = IF i < k THEN w[i] ELSE w[i + 1]
  BY <1>1 DEF IsWithout
<1>4. PICK s : s = EntriesOf(h, w)
  OBVIOUS
<1>5. s \in Seq(Entries) /\ Len(s) = n /\ \A i \in 1 .. n : s[i] = h[w[i]].entry
  BY <1>1, <1>4, ShownIsSequence
<1>6. \A i \in 1 .. n : h[w[i]].entry \in Entries
  BY <1>1
<1>7. ASSUME NEW i \in 1 .. n - 1
      PROVE  /\ g[u[i]].entry \in Entries
             /\ g[u[i]].entry = IF i < k THEN s[i] ELSE s[i + 1]
  <2>1. i \in 1 .. n /\ i + 1 \in 1 .. n
    BY <1>2
  <2>2. g[u[i]].entry = h[u[i]].entry
    BY <1>3
  <2>3. CASE i < k
    BY <1>3, <1>5, <1>6, <2>1, <2>2, <2>3
  <2>4. CASE ~(i < k)
    BY <1>3, <1>5, <1>6, <2>1, <2>2, <2>4
  <2> QED
    BY <2>3, <2>4
<1>8. PICK t : t = EntriesOf(g, u)
  OBVIOUS
<1>9. t \in Seq(Entries) /\ Len(t) = n - 1 /\ \A i \in 1 .. n - 1 : t[i] = g[u[i]].entry
  <2>1. \A i \in 1 .. Len(u) : g[u[i]].entry \in Entries
    BY <1>3, <1>7
  <2>2. EntriesOf(g, u) \in Seq(Entries) /\ Len(EntriesOf(g, u)) = Len(u) /\ \A i \in 1 .. Len(u) : EntriesOf(g, u)[i] = g[u[i]].entry
    BY <2>1, ShownIsSequence
  <2> QED
    BY <1>3, <1>8, <2>2
<1>10. PICK x : x = SubSeq(s, 1, k - 1)
  OBVIOUS
<1>11. PICK y : y = SubSeq(s, k + 1, n)
  OBVIOUS
<1>12. k - 1 \in Int /\ k + 1 \in Int
  BY <1>2
<1>13. x \in Seq(Entries) /\ Len(x) = k - 1 /\ \A i \in 1 .. k - 1 : x[i] = s[i]
  <2>1. \A i \in 1 .. k - 1 : s[i] \in Entries
    BY <1>2, <1>5
  <2>2. /\ SubSeq(s, 1, k - 1) \in Seq(Entries)
        /\ Len(SubSeq(s, 1, k - 1)) = IF 1 <= k - 1 THEN k - 1 - 1 + 1 ELSE 0
        /\ \A i \in 1 .. k - 1 - 1 + 1 : SubSeq(s, 1, k - 1)[i] = s[1 + i - 1]
    BY <1>12, <2>1, SubSeqProperties
  <2>3. k - 1 - 1 + 1 = k - 1 /\ \A i \in 1 .. k - 1 : 1 + i - 1 = i
    BY <1>2
  <2> QED
    BY <1>2, <1>10, <2>2, <2>3
<1>14. y \in Seq(Entries) /\ Len(y) = n - k /\ \A i \in 1 .. n - k : y[i] = s[k + i]
  <2>1. \A i \in k + 1 .. n : s[i] \in Entries
    BY <1>2, <1>5
  <2>2. /\ SubSeq(s, k + 1, n) \in Seq(Entries)
        /\ Len(SubSeq(s, k + 1, n)) = IF k + 1 <= n THEN n - (k + 1) + 1 ELSE 0
        /\ \A i \in 1 .. n - (k + 1) + 1 : SubSeq(s, k + 1, n)[i] = s[k + 1 + i - 1]
    BY <1>12, <2>1, SubSeqProperties
  <2>3. n - (k + 1) + 1 = n - k /\ \A i \in 1 .. n - k : k + 1 + i - 1 = k + i
    BY <1>2
  <2> QED
    BY <1>2, <1>11, <2>2, <2>3
<1>15. PICK z : z = x \o y
  OBVIOUS
<1>16. /\ z \in Seq(Entries) /\ Len(z) = n - 1
       /\ \A i \in 1 .. n - 1 : z[i] = IF i <= k - 1 THEN x[i] ELSE y[i - (k - 1)]
  <2>1. /\ x \o y \in Seq(Entries) /\ Len(x \o y) = Len(x) + Len(y)
        /\ \A i \in 1 .. Len(x) + Len(y) : (x \o y)[i] = IF i <= Len(x) THEN x[i] ELSE y[i - Len(x)]
    BY <1>13, <1>14, ConcatProperties
  <2>2. k - 1 + (n - k) = n - 1
    BY <1>2
  <2> QED
    BY <1>13, <1>14, <1>15, <2>1, <2>2
<1>17. ASSUME NEW i \in 1 .. n - 1
       PROVE  t[i] = z[i]
  <2>1. CASE i < k
    <3>1. i \in 1 .. k - 1 /\ i <= k - 1
      BY <1>2, <2>1
    <3> QED
      BY <1>7, <1>9, <1>13, <1>16, <2>1, <3>1
  <2>2. CASE ~(i < k)
    <3>1. ~(i <= k - 1) /\ i - (k - 1) \in 1 .. n - k /\ k + (i - (k - 1)) = i + 1
      BY <1>2, <2>2
    <3>2. z[i] = y[i - (k - 1)] /\ y[i - (k - 1)] = s[k + (i - (k - 1))]
      BY <1>14, <1>16, <3>1
    <3> QED
      BY <1>7, <1>9, <2>2, <3>1, <3>2
  <2> QED
    BY <2>1, <2>2
<1>18. t = z
  BY <1>9, <1>16, <1>17, SeqEqual
<1> QED
  BY <1>4, <1>5, <1>8, <1>10, <1>11, <1>15, <1>18

\* The book of the abstract specification, and its step.
EntriesNow == LET way == Walk IN [i \in DOMAIN way |-> heap[way[i]].entry]
ChainStep == LB!PhoneBookNext \/ (listed' = listed /\ number' = number /\ EntriesNow' = EntriesNow)

\* The inductive invariant: the heap is one list.
Chained == \E w \in Seq(Cells) : ListOf(heap, head, tail, w)
ListKept == ListTypeOK /\ Chained

\* The way of the loops is the list, before a step ...
LEMMA ChainFacts ==
    ASSUME ListTypeOK, NEW w \in Seq(Cells), ListOf(heap, head, tail, w)
    PROVE  /\ Walk = w /\ EntriesNow = EntriesOf(heap, w)
           /\ DOMAIN heap \subseteq Cells /\ heap \in [DOMAIN heap -> ListNode]
           /\ \A x \in DOMAIN heap : heap[x] \in ListNode /\ heap[x].entry \in Entries
           /\ \A i \in 1 .. Len(w) : w[i] \in DOMAIN heap /\ heap[w[i]].entry \in Entries
<1>1. DOMAIN heap \subseteq Cells /\ heap \in [DOMAIN heap -> ListNode]
  BY DEF ListTypeOK
<1>2. PICK h : h = heap
  OBVIOUS
<1>3. WalkIn(heap, head) = w
  BY <1>1, <1>2, WalkIsList
<1>4. Walk = WalkIn(heap, head)
  BY DEF Walk, WalkIn, IsWay, IsWayIn, Follows
<1>5. EntriesNow = EntriesOf(heap, w)
  BY <1>3, <1>4 DEF EntriesNow, EntriesOf
<1>6. \A x \in DOMAIN heap : heap[x] \in ListNode /\ heap[x].entry \in Entries
  BY <1>1 DEF ListNode
<1>7. \A i \in 1 .. Len(w) : w[i] \in DOMAIN heap
  BY DEF ListOf
<1> QED
  BY <1>1, <1>3, <1>4, <1>5, <1>6, <1>7

\* ... and after it.
LEMMA ChainFactsAfter ==
    ASSUME DOMAIN heap' \subseteq Cells, NEW w \in Seq(Cells), ListOf(heap', head', tail', w)
    PROVE  Walk' = w /\ EntriesNow' = EntriesOf(heap', w)
<1>1. PICK h : h = heap'
  OBVIOUS
<1>2. PICK hd : hd = head'
  OBVIOUS
<1>3. PICK tl : tl = tail'
  OBVIOUS
<1>4. WalkIn(h, hd) = w
  BY <1>1, <1>2, <1>3, WalkIsList
<1>5. Walk' = WalkIn(heap', head')
  BY DEF Walk, WalkIn, IsWay, IsWayIn, Follows
<1>6. Walk' = w
  BY <1>1, <1>2, <1>4, <1>5
<1> QED
  BY <1>6 DEF EntriesNow, EntriesOf

\* A step that leaves heap, head and tail alone keeps the list and the book.
LEMMA ChainStays ==
    ASSUME ListKept, UNCHANGED <<head, tail, heap>>, MenuTypeOK',
           listed' \subseteq [number : Nat, entry : Entries]
    PROVE  ListKept' /\ EntriesNow' = EntriesNow
<1>1. Walk' = Walk
  BY DEF Walk, IsWay, Follows
<1>2. EntriesNow' = EntriesNow
  BY <1>1 DEF EntriesNow
<1>3. ListTypeOK'
  BY DEF ListKept, ListTypeOK
<1>4. Chained'
  BY DEF ListKept, Chained
<1> QED
  BY <1>2, <1>3, <1>4 DEF ListKept

\* So does one that lists nothing, to the abstract specification.
LEMMA QuietImplements ==
    ASSUME ListKept, UNCHANGED <<head, tail, heap>>, MenuTypeOK', listed' = {}, number' = NoNumber
    PROVE  ListKept' /\ ChainStep
<1>1. ListKept' /\ EntriesNow' = EntriesNow
  BY ChainStays
<1>2. LB!Quiet
  BY <1>1 DEF LB!Quiet, EntriesNow
<1> QED
  BY <1>1, <1>2 DEF ChainStep, LB!PhoneBookNext

\* add_abonent() hangs a node behind the last one.
LEMMA ListAddImplements == ListKept /\ ListAdd => ListKept' /\ ChainStep
<1> SUFFICES ASSUME ListKept, ListAdd
             PROVE  ListKept' /\ ChainStep
  OBVIOUS
<1>1. PICK s \in Chosen(1) :
        /\ \/ Turn(1, s.unread) /\ UNCHANGED <<head, tail, heap>>
           \/ \E c \in Cells \ DOMAIN heap :
              \E n \in ScanWord(s.unread, Garbage) : \E t \in ScanWord(n.unread, Garbage) :
                /\ Turn(1, t.unread)
                /\ heap' = Linked(c, [name |-> n.value, tel |-> t.value])
                /\ head' = IF tail = Null THEN c ELSE head
                /\ tail' = c
        /\ listed' = {} /\ UNCHANGED running
  BY DEF ListAdd
<1>2. MenuTypeOK /\ ListTypeOK /\ running \in BOOLEAN
  BY DEF ListKept, ListTypeOK, MenuTypeOK
<1>3. s.unread \in Unreads
  BY <1>2, ChosenLeaves
<1>4. running' \in BOOLEAN /\ listed' = {}
  BY <1>1, <1>2
<1>5. CASE Turn(1, s.unread) /\ UNCHANGED <<head, tail, heap>>
  <2>1. MenuTypeOK' /\ number' = NoNumber
    BY <1>2, <1>3, <1>4, <1>5, MenuTurns
  <2> QED
    BY <1>4, <1>5, <2>1, QuietImplements
<1>6. CASE \E c \in Cells \ DOMAIN heap :
           \E n \in ScanWord(s.unread, Garbage) : \E t \in ScanWord(n.unread, Garbage) :
             /\ Turn(1, t.unread)
             /\ heap' = Linked(c, [name |-> n.value, tel |-> t.value])
             /\ head' = IF tail = Null THEN c ELSE head
             /\ tail' = c
  <2>1. PICK c \in Cells \ DOMAIN heap, n \in ScanWord(s.unread, Garbage) :
          \E t \in ScanWord(n.unread, Garbage) :
            /\ Turn(1, t.unread)
            /\ heap' = Linked(c, [name |-> n.value, tel |-> t.value])
            /\ head' = IF tail = Null THEN c ELSE head
            /\ tail' = c
    BY <1>6
  <2>2. PICK t \in ScanWord(n.unread, Garbage) :
          /\ Turn(1, t.unread)
          /\ heap' = Linked(c, [name |-> n.value, tel |-> t.value])
          /\ head' = IF tail = Null THEN c ELSE head
          /\ tail' = c
    BY <2>1
  <2>3. n.value \in Words \cup Garbage /\ n.unread \in Unreads
    BY <1>3, <2>1, WordScanned
  <2>4. t.value \in Words \cup Garbage /\ t.unread \in Unreads
    BY <2>2, <2>3, WordScanned
  <2>5. MenuTypeOK' /\ number' = NoNumber
    BY <1>2, <1>4, <2>2, <2>4, MenuTurns
  <2>6. PICK e \in Entries : e = [name |-> n.value, tel |-> t.value]
    BY <2>3, <2>4 DEF Garbage, Entries
  <2>7. PICK w \in Seq(Cells) : ListOf(heap, head, tail, w)
    BY DEF ListKept, Chained
  <2>8. PICK h : h = heap
    OBVIOUS
  <2>9. PICK hd : hd = head
    OBVIOUS
  <2>10. PICK tl : tl = tail
    OBVIOUS
  <2>11. PICK g : g = heap'
    OBVIOUS
  <2>12. /\ DOMAIN h \subseteq Cells /\ h \in [DOMAIN h -> ListNode]
         /\ tl \in DOMAIN h \cup {Null} /\ hd \in DOMAIN h \cup {Null}
         /\ \A x \in DOMAIN h : h[x] \in ListNode /\ h[x].entry \in Entries
    BY <1>2, <2>7, <2>8, <2>9, <2>10, ChainFacts DEF ListTypeOK
  <2>13. c \in Cells /\ c \notin DOMAIN h
    BY <2>1, <2>8
  <2>14. g = [x \in DOMAIN h \cup {c} |->
               IF x = c THEN [entry |-> e, next |-> Null, prev |-> tl]
               ELSE IF x = tl THEN [h[x] EXCEPT !.next = c] ELSE h[x]]
    BY <2>2, <2>6, <2>8, <2>10, <2>11 DEF Linked, NewNode
  <2>15. /\ DOMAIN g = DOMAIN h \cup {c} /\ g[c] = [entry |-> e, next |-> Null, prev |-> tl]
         /\ \A x \in DOMAIN h : g[x] = IF x = tl THEN [h[x] EXCEPT !.next = c] ELSE h[x]
    BY <2>13, <2>14
  <2>16. g[c] \in ListNode /\ g[c].next = Null /\ g[c].prev = tl /\ g[c].entry = e
    BY <2>6, <2>12, <2>15 DEF ListNode
  <2>17. ASSUME NEW x \in DOMAIN h
         PROVE  /\ g[x] \in ListNode /\ g[x].entry = h[x].entry
                /\ g[x].next = (IF x = tl THEN c ELSE h[x].next) /\ g[x].prev = h[x].prev
    <3>1. h[x] \in ListNode
      BY <2>12
    <3>2. PICK y : y = [h[x] EXCEPT !.next = c]
      OBVIOUS
    <3>3. y \in ListNode /\ y.entry = h[x].entry /\ y.next = c /\ y.prev = h[x].prev
      BY <2>13, <3>1, <3>2 DEF ListNode
    <3> QED
      BY <2>15, <3>1, <3>2, <3>3
  <2>18. g \in [DOMAIN g -> ListNode]
    BY <2>14, <2>15, <2>16, <2>17
  <2>19. PICK a : a = Append(w, c)
    OBVIOUS
  <2>20. a \in Seq(Cells) /\ ListOf(g, IF tl = Null THEN c ELSE hd, c, a)
    <3>1. ListOf(h, hd, tl, w)
      BY <2>7, <2>8, <2>9, <2>10
    <3>2. Hung(h, tl, c, g)
      BY <2>12, <2>13, <2>15, <2>16, <2>17 DEF Hung
    <3>3. Append(w, c) \in Seq(Cells) /\ ListOf(g, IF tl = Null THEN c ELSE hd, c, Append(w, c))
      BY <3>1, <3>2, ListGrows
    <3> QED
      BY <2>19, <3>3
  <2>21. ListOf(heap', head', tail', a)
    BY <2>2, <2>9, <2>10, <2>11, <2>20
  <2>22. ListTypeOK'
    BY <1>4, <2>2, <2>5, <2>9, <2>10, <2>11, <2>12, <2>13, <2>15, <2>18 DEF ListTypeOK
  <2>23. ListKept'
    BY <2>20, <2>21, <2>22 DEF ListKept, Chained
  <2>24. EntriesNow' = EntriesOf(g, a)
    BY <2>11, <2>12, <2>13, <2>15, <2>20, <2>21, ChainFactsAfter
  <2>25. EntriesNow = EntriesOf(h, w) /\ \A i \in 1 .. Len(w) : w[i] \in DOMAIN h
    BY <1>2, <2>7, <2>8, ChainFacts
  <2>26. EntriesOf(g, a) = Append(EntriesOf(h, w), e)
    <3>1. \A i \in 1 .. Len(w) : h[w[i]].entry \in Entries /\ g[w[i]].entry = h[w[i]].entry
      BY <2>12, <2>17, <2>25
    <3>2. EntriesOf(g, Append(w, c)) = Append(EntriesOf(h, w), g[c].entry)
      BY <2>6, <2>13, <2>16, <3>1, ShownGrows
    <3> QED
      BY <2>16, <2>19, <3>2
  <2>27. EntriesNow' = Append(EntriesNow, e)
    BY <2>24, <2>25, <2>26
  <2>28. LB!Insert
    BY <1>4, <2>5, <2>6, <2>27 DEF LB!Insert, EntriesNow
  <2> QED
    BY <2>23, <2>28 DEF ChainStep, LB!PhoneBookNext
<1> QED
  BY <1>1, <1>5, <1>6

\* Whatever number is read, the walk of remove_abonent() stops at the node listed under
\* it, or at none if there is none.
LEMMA ReachedFacts ==
    ASSUME ListTypeOK, NEW w \in Seq(Cells), ListOf(heap, head, tail, w), NEW n \in Int
    PROVE  IF LB!Place(n) \in 1 .. Len(w) THEN Reached(n) = w[LB!Place(n)] ELSE Reached(n) = Null
<1>1. Walk = w
  BY ChainFacts
<1>2. Reached(n) = IF n < 0 THEN head ELSE IF n < Len(w) THEN w[n + 1] ELSE Null
  BY <1>1 DEF Reached
<1>3. head = IF Len(w) = 0 THEN Null ELSE w[1]
  BY DEF ListOf
<1>4. PICK m \in Nat : m = Len(w)
  OBVIOUS
<1>5. CASE n < 0 /\ m = 0
  BY <1>2, <1>3, <1>4, <1>5 DEF LB!Place
<1>6. CASE n < 0 /\ m # 0
  <2>1. 1 \in 1 .. m
    BY <1>4, <1>6
  <2> QED
    BY <1>2, <1>3, <1>4, <1>6, <2>1 DEF LB!Place
<1>7. CASE ~(n < 0) /\ n < m
  <2>1. n + 1 \in 1 .. m
    BY <1>4, <1>7
  <2> QED
    BY <1>2, <1>4, <1>7, <2>1 DEF LB!Place
<1>8. CASE ~(n < 0) /\ ~(n < m)
  BY <1>2, <1>4, <1>8 DEF LB!Place
<1> QED
  BY <1>5, <1>6, <1>7, <1>8

\* remove_abonent() cuts a node out, the first, the last or another one.
LEMMA ListRemoveImplements == ListKept /\ ListRemove => ListKept' /\ ChainStep
<1> SUFFICES ASSUME ListKept, ListRemove
             PROVE  ListKept' /\ ChainStep
  OBVIOUS
<1>1. PICK s \in Chosen(2) :
        /\ \/ head = Null /\ Turn(2, s.unread) /\ UNCHANGED <<head, tail, heap>>
           \/ /\ head # Null
              /\ \E r \in ScanNumber(s.unread, Numbers) : LET c == Reached(r.value) IN
                   /\ RemoveTurn(r)
                   /\ IF c = Null
                      THEN UNCHANGED <<head, tail, heap>>
                      ELSE /\ heap' = CutOut(c)
                           /\ head' = IF heap[c].prev = Null THEN heap[c].next ELSE head
                           /\ tail' = IF heap[c].next = Null THEN heap[c].prev ELSE tail
        /\ listed' = {} /\ UNCHANGED running
  BY DEF ListRemove
<1>2. MenuTypeOK /\ ListTypeOK /\ running \in BOOLEAN
  BY DEF ListKept, ListTypeOK, MenuTypeOK
<1>3. s.unread \in Unreads
  BY <1>2, ChosenLeaves
<1>4. running' \in BOOLEAN /\ listed' = {}
  BY <1>1, <1>2
<1>5. CASE Turn(2, s.unread) /\ UNCHANGED <<head, tail, heap>>
  <2>1. MenuTypeOK' /\ number' = NoNumber
    BY <1>2, <1>3, <1>4, <1>5, MenuTurns
  <2> QED
    BY <1>4, <1>5, <2>1, QuietImplements
<1>6. CASE \E r \in ScanNumber(s.unread, Numbers) : LET c == Reached(r.value) IN
             /\ RemoveTurn(r)
             /\ IF c = Null
                THEN UNCHANGED <<head, tail, heap>>
                ELSE /\ heap' = CutOut(c)
                     /\ head' = IF heap[c].prev = Null THEN heap[c].next ELSE head
                     /\ tail' = IF heap[c].next = Null THEN heap[c].prev ELSE tail
  <2>1. PICK r \in ScanNumber(s.unread, Numbers) : LET c == Reached(r.value) IN
          /\ RemoveTurn(r)
          /\ IF c = Null
             THEN UNCHANGED <<head, tail, heap>>
             ELSE /\ heap' = CutOut(c)
                  /\ head' = IF heap[c].prev = Null THEN heap[c].next ELSE head
                  /\ tail' = IF heap[c].next = Null THEN heap[c].prev ELSE tail
    BY <1>6
  <2>2. r.value \in Numbers /\ r.value \in Int /\ r.unread \in Unreads
    BY <1>3, <2>1, NumberScanned, BookMenuAssumption
  <2>3. MenuTypeOK' /\ number' = r.value /\ number' \in Int
    BY <1>2, <1>4, <2>1, <2>2, RemoveTurns
  <2>4. PICK w \in Seq(Cells) : ListOf(heap, head, tail, w)
    BY DEF ListKept, Chained
  <2>5. PICK c : c = Reached(r.value)
    OBVIOUS
  <2>6. CASE c = Null
    <3>1. UNCHANGED <<head, tail, heap>> /\ {} \subseteq [number : Nat, entry : Entries]
      BY <2>1, <2>5, <2>6
    <3>2. ListKept' /\ EntriesNow' = EntriesNow
      BY <1>4, <2>3, <3>1, ChainStays
    <3>3. LB!Place(number') \notin 1 .. Len(w)
      <4>1. \A i \in 1 .. Len(w) : w[i] # Null
        BY <2>4, ListBookAssumption
      <4> QED
        BY <1>2, <2>2, <2>3, <2>4, <2>5, <2>6, <4>1, ReachedFacts
    <3>4. DOMAIN EntriesNow = 1 .. Len(w)
      BY <1>2, <2>4, ChainFacts DEF EntriesOf
    <3>5. LB!Delete
      BY <1>4, <2>3, <3>2, <3>3, <3>4 DEF LB!Delete, EntriesNow
    <3> QED
      BY <3>2, <3>5 DEF ChainStep, LB!PhoneBookNext
  <2>7. CASE c # Null
    <3>1. PICK k \in 1 .. Len(w) : c = w[k] /\ k = LB!Place(number')
      BY <1>2, <2>2, <2>3, <2>4, <2>5, <2>7, ReachedFacts
    <3>2. PICK h : h = heap
      OBVIOUS
    <3>3. PICK hd : hd = head
      OBVIOUS
    <3>4. PICK tl : tl = tail
      OBVIOUS
    <3>5. PICK g : g = heap'
      OBVIOUS
    <3>6. /\ DOMAIN h \subseteq Cells /\ h \in [DOMAIN h -> ListNode] /\ ListOf(h, hd, tl, w)
          /\ tl \in DOMAIN h \cup {Null} /\ hd \in DOMAIN h \cup {Null}
          /\ \A x \in DOMAIN h : h[x] \in ListNode /\ h[x].entry \in Entries
          /\ \A i \in 1 .. Len(w) : w[i] \in DOMAIN h /\ h[w[i]].entry \in Entries
      BY <1>2, <2>4, <3>2, <3>3, <3>4, ChainFacts DEF ListTypeOK
    <3>7. g = [x \in DOMAIN h \ {c} |->
                 [h[x] EXCEPT !.next = IF x = h[c].prev THEN h[c].next ELSE @,
                              !.prev = IF x = h[c].next THEN h[c].prev ELSE @]]
      BY <2>1, <2>5, <2>7, <3>2, <3>5 DEF CutOut
    <3>8. /\ head' = IF h[c].prev = Null THEN h[c].next ELSE hd
          /\ tail' = IF h[c].next = Null THEN h[c].prev ELSE tl
      BY <2>1, <2>5, <2>7, <3>2, <3>3, <3>4
    <3>9. c \in DOMAIN h /\ h[c].next \in Cells \cup {Null} /\ h[c].prev \in Cells \cup {Null}
      BY <3>1, <3>6 DEF ListNode
    <3>10. ASSUME NEW x \in DOMAIN h \ {c}
           PROVE  /\ g[x] \in ListNode /\ g[x].entry = h[x].entry
                  /\ g[x].next = IF x = h[c].prev THEN h[c].next ELSE h[x].next
                  /\ g[x].prev = IF x = h[c].next THEN h[c].prev ELSE h[x].prev
      <4>1. PICK a : a = IF x = h[c].prev THEN h[c].next ELSE h[x].next
        OBVIOUS
      <4>2. PICK b : b = IF x = h[c].next THEN h[c].prev ELSE h[x].prev
        OBVIOUS
      <4>3. PICK y \in ListNode : y = h[x]
        BY <3>6
      <4>4. a \in Cells \cup {Null} /\ b \in Cells \cup {Null}
        BY <3>9, <4>1, <4>2, <4>3 DEF ListNode
      <4>5. g[x] = [y EXCEPT !.next = a, !.prev = b]
        BY <3>7, <4>1, <4>2, <4>3
      <4>6. g[x] \in ListNode /\ g[x].entry = y.entry /\ g[x].next = a /\ g[x].prev = b
        BY <4>3, <4>4, <4>5 DEF ListNode
      <4> QED
        BY <4>1, <4>2, <4>3, <4>6
    <3>11. DOMAIN g = DOMAIN h \ {c} /\ g \in [DOMAIN g -> ListNode]
      BY <3>7, <3>10
    <3>12. Rehung(h, c, g)
      BY <3>10, <3>11 DEF Rehung
    <3>13. PICK n \in Nat : n = Len(w) /\ n - 1 \in Nat /\ k \in 1 .. n
      BY <3>1
    <3>14. PICK u : u = [i \in 1 .. n - 1 |-> IF i < k THEN w[i] ELSE w[i + 1]]
      OBVIOUS
    <3>15. u \in Seq(Cells) /\ IsWithout(w, k, u)
      <4>1. ASSUME NEW i \in 1 .. n - 1
            PROVE  (IF i < k THEN w[i] ELSE w[i + 1]) \in Cells
        <5>1. i \in 1 .. n /\ i + 1 \in 1 .. n
          BY <3>13
        <5> QED
          BY <3>13, <5>1
      <4>2. u \in [1 .. n - 1 -> Cells]
        BY <3>14, <4>1
      <4>3. u \in Seq(Cells) /\ Len(u) = n - 1
        BY <3>13, <4>2
      <4> QED
        BY <3>13, <3>14, <4>3 DEF IsWithout
    <3>16. ListOf(heap', head', tail', u)
      <4>1. k \in 1 .. Len(w) /\ c = w[k]
        BY <3>1
      <4>2. DOMAIN h \subseteq Cells /\ ListOf(h, hd, tl, w)
        BY <3>6
      <4>3. ListOf(g, IF h[c].prev = Null THEN h[c].next ELSE hd, IF h[c].next = Null THEN h[c].prev ELSE tl, u)
        BY <3>12, <3>15, <4>1, <4>2, ListShrinks
      <4> QED
        BY <3>5, <3>8, <4>3
    <3>17. /\ head' \in DOMAIN g \cup {Null} /\ tail' \in DOMAIN g \cup {Null}
           /\ \A i \in 1 .. Len(u) : u[i] \in DOMAIN g
      <4>1. Len(u) \in Nat
        BY <3>15
      <4> QED
        BY <3>5, <3>16, <4>1 DEF ListOf
    <3>18. ListTypeOK'
      BY <1>4, <2>3, <3>5, <3>6, <3>11, <3>17 DEF ListTypeOK
    <3>19. ListKept'
      BY <3>15, <3>16, <3>18 DEF ListKept, Chained
    <3>20. EntriesNow' = EntriesOf(g, u)
      BY <3>5, <3>6, <3>11, <3>15, <3>16, ChainFactsAfter
    <3>21. EntriesNow = EntriesOf(h, w)
      BY <1>2, <2>4, <3>2, ChainFacts
    <3>22. \A i \in 1 .. Len(u) : g[u[i]].entry = h[u[i]].entry
      BY <3>10, <3>11, <3>17
    <3>23. EntriesOf(g, u) = SubSeq(EntriesOf(h, w), 1, k - 1) \o SubSeq(EntriesOf(h, w), k + 1, Len(EntriesOf(h, w)))
      BY <3>1, <3>6, <3>15, <3>22, ShownShrinks
    <3>24. DOMAIN EntriesOf(h, w) = 1 .. Len(w)
      BY <3>6, ShownIsSequence
    <3>25. EntriesNow' = SubSeq(EntriesNow, 1, k - 1) \o SubSeq(EntriesNow, k + 1, Len(EntriesNow)) /\ k \in DOMAIN EntriesNow
      BY <3>1, <3>20, <3>21, <3>23, <3>24
    <3>26. LB!Delete
      BY <1>4, <2>3, <3>1, <3>25 DEF LB!Delete, LB!RemoveAt, EntriesNow
    <3> QED
      BY <3>19, <3>26 DEF ChainStep, LB!PhoneBookNext
  <2> QED
    BY <2>6, <2>7
<1> QED
  BY <1>1, <1>5, <1>6

\* A listing of the list is one of the book.
LEMMA MetIsNumbered ==
    ASSUME ListKept, NEW w \in Seq(Cells), ListOf(heap, head, tail, w), NEW I \in SUBSET (1 .. Len(w))
    PROVE  /\ Met(w, I) = LB!Numbered(I) /\ Met(w, I) \subseteq [number : Nat, entry : Entries]
<1>1. PICK h : h = heap
  OBVIOUS
<1>2. \A i \in 1 .. Len(w) : h[w[i]].entry \in Entries
  BY <1>1, ChainFacts DEF ListKept
<1>3. PICK e : e = EntriesNow
  OBVIOUS
<1>4. e = EntriesOf(h, w)
  BY <1>1, <1>3, ChainFacts DEF ListKept
<1>5. \A i \in 1 .. Len(w) : e[i] = h[w[i]].entry
  BY <1>2, <1>4, ShownIsSequence
<1>6. LB!Numbered(I) = {[number |-> i - 1, entry |-> e[i]] : i \in I}
  BY <1>3 DEF LB!Numbered, EntriesNow
<1>7. Met(w, I) = {[number |-> i - 1, entry |-> h[w[i]].entry] : i \in I}
  BY <1>1 DEF Met
<1>8. Met(w, I) = {[number |-> i - 1, entry |-> e[i]] : i \in I}
  BY <1>5, <1>7
<1>9. Met(w, I) \subseteq [number : Nat, entry : Entries]
  <2>1. \A i \in I : i - 1 \in Nat /\ h[w[i]].entry \in Entries
    BY <1>2
  <2> QED
    BY <1>7, <2>1
<1> QED
  BY <1>6, <1>8, <1>9

\* search_abonent() lists the entries of a name, ...
LEMMA ListSearchImplements == ListKept /\ ListSearch => ListKept' /\ ChainStep
<1> SUFFICES ASSUME ListKept, ListSearch
             PROVE  ListKept' /\ ChainStep
  OBVIOUS
<1>1. PICK s \in Chosen(3) :
        \/ head = Null /\ Turn(3, s.unread) /\ listed' = {}
        \/ /\ head # Null
           /\ \E n \in ScanWord(s.unread, Garbage) : LET way == Walk IN
                /\ Turn(3, n.unread)
                /\ listed' = Met(way, {i \in DOMAIN way : heap[way[i]].entry.name = n.value})
  BY DEF ListSearch
<1>2. MenuTypeOK /\ ListTypeOK /\ running \in BOOLEAN
  BY DEF ListKept, ListTypeOK, MenuTypeOK
<1>3. s.unread \in Unreads
  BY <1>2, ChosenLeaves
<1>4. running' \in BOOLEAN /\ UNCHANGED <<head, tail, heap>>
  BY <1>2 DEF ListSearch
<1>5. CASE Turn(3, s.unread) /\ listed' = {}
  <2>1. MenuTypeOK' /\ number' = NoNumber
    BY <1>2, <1>3, <1>4, <1>5, MenuTurns
  <2> QED
    BY <1>4, <1>5, <2>1, QuietImplements
<1>6. CASE \E n \in ScanWord(s.unread, Garbage) : LET way == Walk IN
             /\ Turn(3, n.unread)
             /\ listed' = Met(way, {i \in DOMAIN way : heap[way[i]].entry.name = n.value})
  <2>1. PICK n \in ScanWord(s.unread, Garbage) : LET way == Walk IN
          /\ Turn(3, n.unread)
          /\ listed' = Met(way, {i \in DOMAIN way : heap[way[i]].entry.name = n.value})
    BY <1>6
  <2>2. n.value \in Words \cup Garbage /\ n.unread \in Unreads
    BY <1>3, <2>1, WordScanned
  <2>3. MenuTypeOK' /\ number' = NoNumber
    BY <1>2, <1>4, <2>1, <2>2, MenuTurns
  <2>4. PICK w \in Seq(Cells) : ListOf(heap, head, tail, w)
    BY DEF ListKept, Chained
  <2>5. PICK I : I = {i \in 1 .. Len(w) : heap[w[i]].entry.name = n.value}
    OBVIOUS
  <2>6. Walk = w /\ DOMAIN w = 1 .. Len(w) /\ EntriesNow = EntriesOf(heap, w)
    BY <1>2, <2>4, ChainFacts
  <2>7. listed' = Met(w, I)
    BY <2>1, <2>5, <2>6
  <2>8. Met(w, I) = LB!Numbered(I) /\ Met(w, I) \subseteq [number : Nat, entry : Entries]
    BY <2>4, <2>5, MetIsNumbered
  <2>9. ListKept' /\ EntriesNow' = EntriesNow
    BY <1>4, <2>3, <2>7, <2>8, ChainStays
  <2>10. PICK e \in Entries : e.name = n.value
    <3>1. [name |-> n.value, tel |-> Blank] \in Entries
      BY <2>2 DEF Entries, Garbage
    <3> QED
      BY <3>1
  <2>11. I = {i \in DOMAIN EntriesNow : EntriesNow[i].name = e.name}
    <3>1. PICK h : h = heap
      OBVIOUS
    <3>2. \A i \in 1 .. Len(w) : h[w[i]].entry \in Entries
      BY <1>2, <2>4, <3>1, ChainFacts
    <3>3. DOMAIN EntriesOf(h, w) = 1 .. Len(w) /\ \A i \in 1 .. Len(w) : EntriesOf(h, w)[i] = h[w[i]].entry
      BY <3>2, ShownIsSequence
    <3> QED
      BY <2>5, <2>6, <2>10, <3>1, <3>3
  <2>12. listed' = LB!Numbered({i \in DOMAIN EntriesNow : EntriesNow[i].name = e.name})
    BY <2>7, <2>8, <2>11
  <2>13. LB!List
    BY <2>3, <2>9, <2>12 DEF LB!List, EntriesNow
  <2> QED
    BY <2>9, <2>13 DEF ChainStep, LB!PhoneBookNext
<1> QED
  BY <1>1, <1>5, <1>6

\* ... and print_book() lists all of them.
LEMMA ListPrintImplements == ListKept /\ ListPrint => ListKept' /\ ChainStep
<1> SUFFICES ASSUME ListKept, ListPrint
             PROVE  ListKept' /\ ChainStep
  OBVIOUS
<1>1. PICK s \in Chosen(4) : Turn(4, s.unread)
  BY DEF ListPrint
<1>2. MenuTypeOK /\ ListTypeOK /\ running \in BOOLEAN
  BY DEF ListKept, ListTypeOK, MenuTypeOK
<1>3. running' \in BOOLEAN /\ UNCHANGED <<head, tail, heap>>
  BY <1>2 DEF ListPrint
<1>4. MenuTypeOK' /\ number' = NoNumber
  BY <1>1, <1>2, <1>3, ChosenLeaves, MenuTurns
<1>5. PICK w \in Seq(Cells) : ListOf(heap, head, tail, w)
  BY DEF ListKept, Chained
<1>6. Walk = w /\ DOMAIN w = 1 .. Len(w) /\ EntriesNow = EntriesOf(heap, w)
  BY <1>2, <1>5, ChainFacts
<1>7. listed' = Met(w, 1 .. Len(w))
  BY <1>6 DEF ListPrint
<1>8. /\ Met(w, 1 .. Len(w)) = LB!Numbered(1 .. Len(w))
      /\ Met(w, 1 .. Len(w)) \subseteq [number : Nat, entry : Entries]
  BY <1>5, MetIsNumbered
<1>9. ListKept' /\ EntriesNow' = EntriesNow
  BY <1>3, <1>4, <1>7, <1>8, ChainStays
<1>10. DOMAIN EntriesNow = 1 .. Len(w)
  BY <1>6 DEF EntriesOf
<1>11. listed' = LB!Numbered(DOMAIN EntriesNow)
  BY <1>7, <1>8, <1>10
<1>12. LB!List
  BY <1>4, <1>9, <1>11 DEF LB!List, EntriesNow
<1> QED
  BY <1>9, <1>12 DEF ChainStep, LB!PhoneBookNext

\* free_all() frees every node.
LEMMA ListExitImplements == ListKept /\ ListExit => ListKept' /\ ChainStep
<1> SUFFICES ASSUME ListKept, ListExit
             PROVE  ListKept' /\ ChainStep
  OBVIOUS
<1>1. PICK s \in Chosen(5) :
        /\ Turn(5, s.unread) /\ running' = FALSE
        /\ listed' = {}
        /\ head' = Null /\ tail' = Null
        /\ heap' = [c \in DOMAIN heap \ ToSet(Walk) |-> heap[c]]
  BY DEF ListExit
<1>2. MenuTypeOK /\ ListTypeOK
  BY DEF ListKept, ListTypeOK
<1>3. MenuTypeOK' /\ number' = NoNumber
  BY <1>1, <1>2, ChosenLeaves, MenuTurns
<1>4. PICK w \in Seq(Cells) : ListOf(heap, head, tail, w)
  BY DEF ListKept, Chained
<1>5. Walk = w
  BY <1>2, <1>4, ChainFacts
<1>6. DOMAIN heap \ ToSet(Walk) = {}
  BY <1>4, <1>5 DEF ListOf, ToSet
<1>7. DOMAIN heap' = {} /\ heap' \in [DOMAIN heap' -> ListNode]
  BY <1>1, <1>6
<1>8. PICK g : g = heap'
  OBVIOUS
<1>9. ListOf(heap', head', tail', <<>>) /\ <<>> \in Seq(Cells)
  BY <1>1, <1>7, <1>8, ListEmptied
<1>10. ListKept'
  BY <1>1, <1>3, <1>7, <1>9 DEF ListKept, ListTypeOK, Chained
<1>11. EntriesNow' = <<>>
  <2>1. EntriesNow' = EntriesOf(heap', <<>>)
    BY <1>7, <1>9, ChainFactsAfter
  <2> QED
    BY <2>1 DEF EntriesOf
<1>12. LB!Discard
  BY <1>1, <1>3, <1>11 DEF LB!Discard, EntriesNow
<1> QED
  BY <1>10, <1>12 DEF ChainStep, LB!PhoneBookNext

\* ListInit: an empty list.
LEMMA ListStarts == ListEmpty /\ MenuStarts(Numbers) => ListKept /\ LB!PhoneBookInit
<1> SUFFICES ASSUME ListEmpty, MenuStarts(Numbers)
             PROVE  ListKept /\ LB!PhoneBookInit
  OBVIOUS
<1>1. DOMAIN heap = {} /\ heap \in [DOMAIN heap -> ListNode]
  BY DEF ListEmpty
<1>2. ListTypeOK
  BY <1>1 DEF ListTypeOK, ListEmpty, MenuStarts, MenuTypeOK
<1>3. PICK h : h = heap
  OBVIOUS
<1>4. ListOf(heap, head, tail, <<>>) /\ <<>> \in Seq(Cells)
  BY <1>1, <1>3, ListEmptied DEF ListEmpty
<1>5. EntriesNow = <<>>
  <2>1. EntriesNow = EntriesOf(heap, <<>>)
    BY <1>2, <1>4, ChainFacts
  <2> QED
    BY <2>1 DEF EntriesOf
<1>6. LB!PhoneBookInit
  BY <1>5 DEF LB!PhoneBookInit, ListEmpty, MenuStarts, EntriesNow
<1> QED
  BY <1>2, <1>4, <1>6 DEF ListKept, Chained

\* Every step of the list keeps the invariant and is a step of the phone book, or does
\* not show.
LEMMA ListStep ==
    ListKept /\ [ListNext]_listVars =>
      ListKept' /\ [LB!PhoneBookNext]_<<LET way == Walk IN [i \in DOMAIN way |-> heap[way[i]].entry], listed, number>>
<1> SUFFICES ASSUME ListKept, [ListNext]_listVars
             PROVE  ListKept' /\ ChainStep
  BY DEF ChainStep, EntriesNow
<1>1. MenuTypeOK /\ ListTypeOK
  BY DEF ListKept, ListTypeOK
<1>2. CASE UNCHANGED listVars
  <2>1. MenuTypeOK' /\ listed' \subseteq [number : Nat, entry : Entries] /\ listed' = listed
    BY <1>1, <1>2 DEF listVars, menu, MenuTypeOK, ListTypeOK
  <2> QED
    BY <1>2, <2>1, ChainStays DEF listVars, menu, ChainStep
<1>3. CASE OtherItem /\ listed' = {} /\ UNCHANGED <<head, tail, heap>>
  <2>1. PICK k \in Numbers \ 1 .. 5 : \E s \in Chosen(k) : Turn(k, s.unread) /\ UNCHANGED running
    BY <1>3 DEF OtherItem
  <2>2. PICK s \in Chosen(k) : Turn(k, s.unread) /\ UNCHANGED running
    BY <2>1
  <2>3. MenuTypeOK' /\ number' = NoNumber
    BY <1>1, <2>2, ChosenLeaves, MenuTurns DEF MenuTypeOK
  <2> QED
    BY <1>3, <2>3, QuietImplements
<1>4. CASE ListAdd \/ ListRemove \/ ListSearch \/ ListPrint \/ ListExit
  BY <1>4, ListAddImplements, ListRemoveImplements, ListSearchImplements, ListPrintImplements,
     ListExitImplements
<1> QED
  BY <1>2, <1>3, <1>4 DEF ListNext

\* The invariant gives the types and that the list is sound.
LEMMA ListPromises == ListKept => ListTypeOK /\ TwoWayLinked
<1> SUFFICES ASSUME ListKept
             PROVE  TwoWayLinked
  BY DEF ListKept
<1>1. PICK w \in Seq(Cells) : ListOf(heap, head, tail, w)
  BY DEF ListKept, Chained
<1>2. Walk = w
  BY <1>1, ChainFacts DEF ListKept
<1>3. DOMAIN w = 1 .. Len(w) /\ (w = <<>> <=> Len(w) = 0) /\ Head(w) = w[1] /\ Last(w) = w[Len(w)]
  BY DEF Last
<1>4. ToSet(w) = DOMAIN heap
  <2>1. /\ \A i \in 1 .. Len(w) : w[i] \in DOMAIN heap
        /\ \A x \in DOMAIN heap : \E i \in 1 .. Len(w) : w[i] = x
    BY <1>1 DEF ListOf
  <2>2. ToSet(w) = {w[i] : i \in 1 .. Len(w)}
    BY <1>3 DEF ToSet
  <2> QED
    BY <2>1, <2>2
<1>5. /\ \A i \in DOMAIN w :
           /\ heap[w[i]].prev = IF i = 1 THEN Null ELSE w[i - 1]
           /\ heap[w[i]].next = IF i = Len(w) THEN Null ELSE w[i + 1]
      /\ head = IF w = <<>> THEN Null ELSE Head(w)
      /\ tail = IF w = <<>> THEN Null ELSE Last(w)
  BY <1>1, <1>3 DEF ListOf
<1> QED
  BY <1>2, <1>4, <1>5 DEF TwoWayLinked

\* The list of dynmem.c is sound and is a phone book, for any heap and whatever is typed:
\* no node is lost, none leads to a freed one, additions come at the end, and a removal
\* takes out the entry that is listed under the number it scanned, and no other.
THEOREM ListIsBook == ListSpec => [](ListTypeOK /\ TwoWayLinked) /\ ListImplementsBook
  BY ListStarts, ListStep, ListPromises, PTL DEF ListSpec, ListInit, ListImplementsBook, LB!PhoneBookSpec

-------------------------------------------------------------------------------
(* Panels                                                                        *)

\* A panel has at most MAX_FILES entries, its path names a directory, and unless its
\* names were freed it is in order.
PanelShape ==
    [files : Seq(Names \cup {Parent}), selected : Nat, path : Dirs, freed : BOOLEAN]

IsKept(p) ==
    /\ p \in PanelShape /\ Len(p.files) <= MaxFiles
    /\ ~p.freed => InOrder(p)

PInv ==
    /\ openable \subseteq Dirs /\ active \in Sides /\ quit \in BOOLEAN
    /\ panels \in [Sides -> PanelShape]
    /\ \A s \in Sides : IsKept(panels[s])

\* load_dir() shows "..", then names of the directory, all of them unless MAX_FILES cuts
\* them off.
LEMMA ListingFacts ==
    ASSUME NEW d \in Dirs, NEW l \in Listings(d)
    PROVE  /\ l \in Seq(Names \cup {Parent}) /\ Len(l) \in 1 .. MaxFiles /\ l[1] = Parent
           /\ \A i \in 2 .. Len(l) : l[i] \in DOMAIN Contents[d]
           /\ Len(l) = MaxFiles \/ DOMAIN Contents[d] \subseteq {l[i] : i \in DOMAIN l}
<1> DEFINE all == DOMAIN Contents[d]
           n == Shown(d)
<1>1. PICK f \in [1 .. n -> all] :
        /\ l = <<Parent>> \o f
        /\ \A i, j \in 1 .. n : f[i] = f[j] => i = j
  BY DEF Listings
<1>2. IsFiniteSet(all) /\ MaxFiles \in Nat \ {0}
  BY PanelsAssumption
<1>3. Cardinality(all) \in Nat
  BY <1>2, FS_CardinalityType
<1>4. n \in Nat /\ n < MaxFiles /\ (n = Cardinality(all) \/ n = MaxFiles - 1)
  BY <1>2, <1>3 DEF Shown
<1> HIDE DEF n
<1>5. f \in Seq(all) /\ Len(f) = n
  BY <1>1, <1>4
<1>6. all \subseteq Names
  BY DEF Names
<1> HIDE DEF all
<1>7. f \in Seq(Names \cup {Parent}) /\ <<Parent>> \in Seq(Names \cup {Parent})
  BY <1>5, <1>6
<1>8. /\ l \in Seq(Names \cup {Parent}) /\ Len(l) = n + 1 /\ l[1] = Parent
      /\ \A i \in 1 .. n : l[i + 1] = f[i]
  BY <1>1, <1>4, <1>5, <1>7
<1>9. ASSUME NEW i \in 2 .. Len(l)
      PROVE  l[i] \in all
  <2>1. i - 1 \in 1 .. n /\ (i - 1) + 1 = i
    BY <1>4, <1>8
  <2>2. l[i] = f[i - 1]
    BY <1>8, <2>1
  <2> QED
    BY <1>1, <2>1, <2>2
<1>10. ASSUME n = Cardinality(all)
       PROVE  all \subseteq {l[i] : i \in DOMAIN l}
  <2>1. f \in Injection(1 .. n, all)
    BY <1>1 DEF Injection, IsInjective
  <2>2. Cardinality(1 .. n) = Cardinality(all)
    BY <1>4, <1>10, FS_Interval
  <2>3. f \in Surjection(1 .. n, all)
    BY <1>2, <2>1, <2>2, FS_Injection
  <2>4. ASSUME NEW x \in all
        PROVE  x \in {l[i] : i \in DOMAIN l}
    <3>1. PICK i \in 1 .. n : f[i] = x
      BY <2>3 DEF Surjection
    <3>2. i + 1 \in DOMAIN l
      BY <1>4, <1>8, <3>1
    <3> QED
      BY <1>8, <3>1, <3>2
  <2> QED
    BY <2>4
<1>11. n = Cardinality(all) \/ Len(l) = MaxFiles
  BY <1>2, <1>4, <1>8
<1> QED
  BY <1>2, <1>4, <1>8, <1>9, <1>10, <1>11 DEF all

\* A panel into which a directory that can be opened was loaded is in order; when it
\* cannot be opened the names are freed and the rest stays.
LEMMA LoadedFacts ==
    ASSUME NEW p \in PanelShape, Len(p.files) <= MaxFiles, NEW path \in Dirs,
           NEW q \in Loaded(p, path)
    PROVE  IsKept(q) /\ (path \in openable => InOrder(q))
<1>1. CASE path \in openable
  <2>1. PICK l \in Listings(path) :
          q = [files |-> l, selected |-> 0, path |-> path, freed |-> FALSE]
    BY <1>1 DEF Loaded
  <2>2. /\ l \in Seq(Names \cup {Parent}) /\ Len(l) \in 1 .. MaxFiles /\ l[1] = Parent
        /\ \A i \in 2 .. Len(l) : l[i] \in DOMAIN Contents[path]
        /\ Len(l) = MaxFiles \/ DOMAIN Contents[path] \subseteq {l[i] : i \in DOMAIN l}
    BY <2>1, ListingFacts
  <2>3. q.files = l /\ q.selected = 0 /\ q.path = path /\ q.freed = FALSE
    BY <2>1
  <2>4. q \in PanelShape
    BY <2>1, <2>2 DEF PanelShape
  <2>5. 0 < Len(l) /\ Len(l) <= MaxFiles
    BY <2>2, PanelsAssumption
  <2>6. InOrder(q)
    BY <2>2, <2>3, <2>5 DEF InOrder
  <2> QED
    BY <2>3, <2>4, <2>5, <2>6 DEF IsKept
<1>2. CASE path \notin openable
  <2>1. q = [p EXCEPT !.freed = TRUE]
    BY <1>2 DEF Loaded
  <2>2. q \in PanelShape /\ q.files = p.files /\ q.freed = TRUE
    BY <2>1 DEF PanelShape
  <2> QED
    BY <1>2, <2>2 DEF IsKept
<1> QED
  BY <1>1, <1>2

\* The cut at the last '/' leads to the directory above; the root is above itself.
LEMMA AboveFacts ==
    ASSUME NEW d \in Dirs
    PROVE  Above(d) = Up(d) /\ Above(d) \in Dirs
<1>1. d \in Seq(STRING) /\ Len(d) \in Nat
  BY PanelsAssumption
<1>2. CASE d = <<>>
  BY <1>2, PanelsAssumption DEF Above, Up
<1>3. CASE d # <<>>
  <2>1. Len(d) >= 1 /\ Up(d) = SubSeq(d, 1, Len(d) - 1) /\ Up(d) \in Dirs
    BY <1>1, <1>3, PanelsAssumption, EmptySeq DEF Up
  <2>2. CASE Len(d) = 1
    <3>1. Len(d) - 1 = 0 /\ SubSeq(d, 1, 0) = <<>>
      BY <1>1, <2>2
    <3>2. Up(d) = <<>>
      BY <2>1, <3>1
    <3>3. Above(d) = <<>>
      BY <2>2 DEF Above
    <3> QED
      BY <2>1, <3>2, <3>3
  <2>3. CASE Len(d) > 1
    BY <1>1, <2>1, <2>3 DEF Above
  <2>4. Len(d) = 1 \/ Len(d) > 1
    <3>1. PICK k \in Nat : k = Len(d) /\ k >= 1
      BY <1>1, <2>1
    <3>2. k = 1 \/ k > 1
      BY <3>1
    <3> QED
      BY <3>1, <3>2
  <2> QED
    BY <2>2, <2>3, <2>4
<1> QED
  BY <1>2, <1>3

\* Both panels start with the directory the program is started in, or with freed names.
LEMMA PInvInit == PInit => PInv
<1> SUFFICES ASSUME PInit
             PROVE  PInv
  OBVIOUS
<1>1. Uninitialized \in PanelShape /\ Len(Uninitialized.files) <= MaxFiles
  <2>1. <<>> \in Seq(Names \cup {Parent}) /\ Len(<<>>) = 0
    OBVIOUS
  <2> QED
    BY <2>1, PanelsAssumption DEF Uninitialized, PanelShape
<1>2. StartDir \in Dirs
  BY PanelsAssumption
<1>3. panels \in [Sides -> Loaded(Uninitialized, StartDir)]
  BY DEF PInit
<1>4. ASSUME NEW s \in Sides
      PROVE  IsKept(panels[s])
  BY <1>1, <1>2, <1>3, LoadedFacts
<1>5. panels \in [Sides -> PanelShape]
  BY <1>3, <1>4 DEF IsKept
<1> QED
  BY <1>4, <1>5 DEF PInit, PInv, Sides

\* What one step may do to the panels.
PanelsStep ==
    \A s \in Sides : InOrder(panels[s]) =>
      \/ InOrder(panels'[s])
      \/ s = active /\ Up(panels[s].path) \notin openable
      \/ s = active /\ \E n \in DOMAIN Contents[panels[s].path] :
                          Contents[panels[s].path][n] \notin openable \cup {NotADir}

\* A step that sets the active panel only.
LEMMA ActivePanelStep ==
    ASSUME PInv, UNCHANGED <<openable, active, quit>>,
           NEW p, IsKept(p), SetPanel(p),
           InOrder(panels[active]) =>
             \/ InOrder(p)
             \/ Up(panels[active].path) \notin openable
             \/ \E n \in DOMAIN Contents[panels[active].path] :
                   Contents[panels[active].path][n] \notin openable \cup {NotADir}
    PROVE  PInv' /\ PanelsStep
<1>1. active \in Sides /\ panels \in [Sides -> PanelShape]
  BY DEF PInv
<1>2. p \in PanelShape
  BY DEF IsKept
<1>3. panels' = [panels EXCEPT ![active] = p]
  BY DEF SetPanel
<1>4. panels' \in [Sides -> PanelShape]
  BY <1>1, <1>2, <1>3
<1>5. panels'[active] = p /\ \A s \in Sides \ {active} : panels'[s] = panels[s]
  BY <1>1, <1>3
<1>6. \A s \in Sides : IsKept(panels'[s])
  BY <1>1, <1>5 DEF PInv
<1>7. PInv'
  BY <1>4, <1>6 DEF PInv, IsKept, InOrder
<1>8. PanelsStep
  BY <1>1, <1>5 DEF PanelsStep
<1> QED
  BY <1>7, <1>8

\* Every step keeps the panels.
LEMMA PInvStep == PInv /\ [PNext]_pVars => PInv' /\ PanelsStep
<1> SUFFICES ASSUME PInv, [PNext]_pVars
             PROVE  PInv' /\ PanelsStep
  OBVIOUS
<1>1. active \in Sides /\ panels \in [Sides -> PanelShape] /\ openable \subseteq Dirs
  BY DEF PInv
<1>2. PICK a \in Sides : a = active
  BY <1>1
<1>3. PICK p \in PanelShape : p = Panel
  BY <1>1 DEF Panel
<1>4. IsKept(p) /\ p.path \in Dirs /\ p.selected \in Nat /\ Len(p.files) \in Nat
  BY <1>1, <1>3 DEF PInv, Panel, PanelShape
<1>5. ASSUME openable' \subseteq Dirs, active' \in Sides, quit' \in BOOLEAN, UNCHANGED panels
      PROVE  PInv' /\ PanelsStep
  BY <1>5 DEF PInv, PanelsStep, IsKept, InOrder
<1>6. CASE UNCHANGED pVars
  BY <1>5, <1>6 DEF PInv, pVars
<1>7. CASE SwitchPanel
  BY <1>5, <1>7 DEF SwitchPanel, PInv, Sides
<1>8. CASE MoveCursor
  <2>1. PICK k \in Nat :
          /\ SetPanel([p EXCEPT !.selected = k])
          /\ p.selected < Len(p.files) => k < Len(p.files)
    <3>1. CASE p.selected > 0 /\ SetPanel([p EXCEPT !.selected = p.selected - 1])
      <4>1. p.selected - 1 \in Nat
        BY <1>4, <3>1
      <4>2. p.selected < Len(p.files) => p.selected - 1 < Len(p.files)
        BY <1>4, <3>1
      <4> QED
        BY <3>1, <4>1, <4>2
    <3>2. CASE /\ p.selected < Len(p.files) - 1
               /\ SetPanel([p EXCEPT !.selected = p.selected + 1])
      <4>1. p.selected + 1 \in Nat /\ p.selected + 1 < Len(p.files)
        BY <1>4, <3>2
      <4> QED
        BY <3>2, <4>1
    <3> QED
      BY <1>3, <1>8, <3>1, <3>2 DEF MoveCursor
  <2>2. PICK q : q = [p EXCEPT !.selected = k]
    OBVIOUS
  <2>3. /\ q \in PanelShape /\ q.files = p.files /\ q.path = p.path /\ q.freed = p.freed
        /\ q.selected = k
    BY <1>3, <2>1, <2>2 DEF PanelShape
  <2>4. InOrder(p) => InOrder(q)
    BY <2>1, <2>3 DEF InOrder
  <2>5. IsKept(q)
    BY <1>4, <2>3, <2>4 DEF IsKept
  <2>6. SetPanel(q) /\ UNCHANGED <<openable, active, quit>>
    BY <1>8, <2>1, <2>2 DEF MoveCursor
  <2> QED
    BY <1>3, <2>4, <2>5, <2>6, ActivePanelStep DEF Panel
<1>9. CASE EnterParent
  <2>1. PICK d \in Dirs : d = Above(p.path) /\ d = Up(p.path)
    BY <1>4, AboveFacts
  <2>2. PICK p1 : p1 = [p EXCEPT !.path = d]
    OBVIOUS
  <2>3. p1 \in PanelShape /\ Len(p1.files) <= MaxFiles
    BY <1>3, <1>4, <2>1, <2>2 DEF PanelShape, IsKept
  <2>4. PICK q \in Loaded(p1, d) : SetPanel(q)
    BY <1>3, <1>9, <2>1, <2>2 DEF EnterParent
  <2>5. IsKept(q) /\ (d \in openable => InOrder(q))
    BY <2>1, <2>3, <2>4, LoadedFacts
  <2>6. UNCHANGED <<openable, active, quit>>
    BY <1>9 DEF EnterParent
  <2> QED
    BY <1>3, <2>1, <2>4, <2>5, <2>6, ActivePanelStep DEF Panel
<1>10. CASE EnterDirectory
  <2>1. ~p.freed /\ Under # Parent /\ Contents[p.path][Under] # NotADir
    BY <1>3, <1>10 DEF EnterDirectory
  <2>2. InOrder(p)
    BY <1>4, <2>1 DEF IsKept
  <2>3. PICK i \in 1 .. Len(p.files) : i = p.selected + 1 /\ Under = p.files[i]
    BY <1>3, <1>4, <2>2 DEF InOrder, Under
  <2>4. PICK n \in DOMAIN Contents[p.path] : n = Under
    <3>1. i \in 2 .. Len(p.files)
      BY <1>4, <2>1, <2>2, <2>3 DEF InOrder
    <3> QED
      BY <2>2, <2>3, <3>1 DEF InOrder
  <2>5. PICK d \in Dirs : d = Contents[p.path][n]
    BY <1>4, <2>1, <2>4, PanelsAssumption
  <2>6. PICK q \in Loaded(p, d) : SetPanel(q)
    BY <1>3, <1>10, <2>4, <2>5 DEF EnterDirectory
  <2>7. IsKept(q) /\ (d \in openable => InOrder(q))
    BY <1>3, <1>4, <2>5, <2>6, LoadedFacts DEF IsKept
  <2>8. UNCHANGED <<openable, active, quit>>
    BY <1>10 DEF EnterDirectory
  <2>9. d \in openable \/ \E m \in DOMAIN Contents[p.path] :
                             Contents[p.path][m] \notin openable \cup {NotADir}
    BY <2>1, <2>4, <2>5
  <2> QED
    BY <1>3, <2>6, <2>7, <2>8, <2>9, ActivePanelStep DEF Panel
<1>11. CASE EnterFile
  BY <1>5, <1>11 DEF EnterFile, PInv, pVars
<1>12. CASE UseFreed \/ Quit
  BY <1>5, <1>12 DEF UseFreed, Quit, PInv
<1>13. CASE Chmod
  <2>1. openable' \subseteq Dirs
    BY <1>1, <1>13 DEF Chmod
  <2> QED
    BY <1>5, <1>13, <2>1 DEF Chmod, PInv
<1> QED
  BY <1>6, <1>7, <1>8, <1>9, <1>10, <1>11, <1>12, <1>13 DEF PNext

\* What the invariant says of the types.
LEMMA PPromises == PInv => PTypeOK
<1> SUFFICES ASSUME PInv
             PROVE  PTypeOK
  OBVIOUS
<1>1. ASSUME NEW s \in Sides
      PROVE  /\ Len(panels[s].files) <= MaxFiles
             /\ \A i \in DOMAIN panels[s].files : panels[s].files[i] \in Names \cup {Parent}
             /\ panels[s].selected \in Nat /\ panels[s].freed \in BOOLEAN
  <2>1. IsKept(panels[s])
    BY DEF PInv
  <2>2. /\ panels[s].files \in Seq(Names \cup {Parent})
        /\ panels[s].selected \in Nat /\ panels[s].freed \in BOOLEAN
    BY <2>1 DEF IsKept, PanelShape
  <2> QED
    BY <2>1, <2>2 DEF IsKept
<1> QED
  BY <1>1 DEF PInv, PTypeOK

\* nedomc alone: whatever way a user takes through the tree, a panel shows its directory
\* unless the one that Enter leads to cannot be opened.
THEOREM PanelsInOrder == PSpec => []PTypeOK /\ StaysInOrder
<1>1. PInv /\ [PNext]_pVars => PInv' /\ [PanelsStep]_pVars
  BY PInvStep
<1> QED
  BY <1>1, PInvInit, PPromises, PTL DEF PSpec, StaysInOrder, PanelsStep

-------------------------------------------------------------------------------
(* Sums: the running value of a loop over words or bits, as a function.          *)

\* A function on the numbers up to n whose value at a number is that of the one before,
\* times a, and a weight, exists.
LEMMA RecurrenceExists ==
    ASSUME NEW n \in Nat, NEW a \in Int, NEW w \in [1 .. n -> Int]
    PROVE  \E f \in [0 .. n -> Int] :
             f = [i \in 0 .. n |-> IF i = 0 THEN 0 ELSE a * f[i - 1] + w[i]]
<1> DEFINE IsSum(f, m) == f = [i \in 0 .. m |-> IF i = 0 THEN 0 ELSE a * f[i - 1] + w[i]]
           Bad == {m \in 0 .. n : ~ \E f \in [0 .. m -> Int] : IsSum(f, m)}
<1>1. ASSUME Bad # {}
      PROVE  FALSE
  <2> HIDE DEF IsSum
  <2>1. PICK m \in Bad : \A k \in Bad : m <= k
    <3>1. Bad \in SUBSET Nat
      OBVIOUS
    <3> HIDE DEF Bad
    <3> QED
      BY <1>1, <3>1, LeastNumber
  <2>2. m \in 0 .. n /\ ~ \E f \in [0 .. m -> Int] : IsSum(f, m)
    BY <2>1
  <2>3. CASE m = 0
    <3> DEFINE f == [i \in 0 .. 0 |-> 0]
    <3>1. f \in [0 .. 0 -> Int] /\ IsSum(f, 0)
      BY DEF IsSum
    <3> QED
      BY <2>2, <2>3, <3>1
  <2>4. CASE m # 0
    <3>1. m - 1 \in 0 .. n /\ m - 1 < m /\ m \in Int
      BY <2>2, <2>4
    <3>9. m - 1 \notin Bad
      <4> HIDE DEF Bad
      <4> QED
        BY <2>1, <3>1
    <3>2. PICK g \in [0 .. m - 1 -> Int] : IsSum(g, m - 1)
      BY <3>1, <3>9
    <3> USE DEF IsSum
    <3>3. w[m] \in Int /\ m \in 1 .. n /\ g[m - 1] \in Int
      BY <2>2, <2>4, <3>2
    <3>4. PICK z \in Int : z = a * g[m - 1] + w[m]
      BY <3>3
    <3> DEFINE f == [i \in 0 .. m |-> IF i = m THEN z ELSE g[i]]
    <3>5. \A i \in 0 .. m - 1 : f[i] = g[i] /\ g[i] \in Int
      BY <2>2, <3>2
    <3>6. f \in [0 .. m -> Int]
      BY <3>4, <3>5
    <3>7. ASSUME NEW i \in 0 .. m
          PROVE  f[i] = IF i = 0 THEN 0 ELSE a * f[i - 1] + w[i]
      <4>1. CASE i = m
        BY <2>4, <3>3, <3>4, <3>5, <4>1
      <4>2. CASE i # m
        <5>1. i \in 0 .. m - 1 /\ (i # 0 => i - 1 \in 0 .. m - 1)
          BY <2>2, <4>2
        <5>2. g[i] = IF i = 0 THEN 0 ELSE a * g[i - 1] + w[i]
          BY <3>2, <5>1
        <5> QED
          BY <3>5, <5>1, <5>2
      <4> QED
        BY <4>1, <4>2
    <3>8. IsSum(f, m)
      BY <3>6, <3>7
    <3> QED
      BY <2>2, <3>6, <3>8
  <2> QED
    BY <2>3, <2>4
<1>2. n \notin Bad
  BY <1>1
<1> QED
  BY <1>2

-------------------------------------------------------------------------------
(* Bits                                                                          *)

\* The widths are numbers.
LEMMA Widths == Width \in Nat /\ Sign \in Nat /\ Sign > 0 /\ Width = Sign + 1
  BY BitsAssumption DEF Width, Sign

\* ValueOf reads the bits by doubling.
LEMMA ValueFacts ==
    ASSUME NEW x \in Ints
    PROVE  \E v \in [0 .. Sign -> Int] :
             /\ v[0] = 0 /\ \A k \in 1 .. Sign : v[k] = 2 * v[k - 1] + x[Sign - k]
             /\ ValueOf(x) = v[Sign]
<1> DEFINE IsValue(v) == v = [k \in 0 .. Sign |-> IF k = 0 THEN 0 ELSE 2 * v[k - 1] + x[Sign - k]]
<1>1. PICK w : w = [k \in 1 .. Sign |-> x[Sign - k]]
  OBVIOUS
<1>2. \A k \in 1 .. Sign : w[k] \in Int /\ w[k] = x[Sign - k]
  BY <1>1, Widths DEF Ints
<1>3. PICK f \in [0 .. Sign -> Int] :
        f = [i \in 0 .. Sign |-> IF i = 0 THEN 0 ELSE 2 * f[i - 1] + w[i]]
  <2>1. PICK a \in Int : a = 2
    OBVIOUS
  <2>2. Sign \in Nat /\ w \in [1 .. Sign -> Int]
    BY <1>1, <1>2, Widths
  <2>3. \E f \in [0 .. Sign -> Int] :
           f = [i \in 0 .. Sign |-> IF i = 0 THEN 0 ELSE a * f[i - 1] + w[i]]
    BY <2>2, RecurrenceExists
  <2> QED
    BY <2>1, <2>3
<1>4. IsValue(f)
  <2>1. \A i \in 0 .. Sign : f[i] = IF i = 0 THEN 0 ELSE 2 * f[i - 1] + x[Sign - i]
    BY <1>2, <1>3, Widths
  <2> QED
    BY <1>3, <2>1
<1>5. PICK v : v = CHOOSE u : IsValue(u)
  OBVIOUS
<1>6. IsValue(v)
  BY <1>4, <1>5
<1>7. v = f
  <2>1. /\ DOMAIN v = 0 .. Sign /\ v = [k \in 0 .. Sign |-> v[k]]
        /\ \A k \in 0 .. Sign : v[k] = IF k = 0 THEN 0 ELSE 2 * v[k - 1] + x[Sign - k]
    BY <1>6
  <2>2. \A k \in 0 .. Sign : f[k] = IF k = 0 THEN 0 ELSE 2 * f[k - 1] + x[Sign - k]
    BY <1>4
  <2> DEFINE Differ == {k \in 0 .. Sign : v[k] # f[k]}
  <2>3. ASSUME Differ # {}
        PROVE  FALSE
    <3>1. Differ \in SUBSET Nat
      BY Widths
    <3>2. PICK k \in Differ : \A j \in Differ : k <= j
      BY <2>3, <3>1, LeastNumber
    <3>3. k \in 0 .. Sign /\ v[k] # f[k]
      BY <3>2
    <3>4. k # 0
      BY <2>1, <2>2, <3>3
    <3>5. k - 1 \in 0 .. Sign /\ k - 1 < k
      BY <3>3, <3>4, Widths
    <3>6. v[k - 1] = f[k - 1]
      BY <3>2, <3>5
    <3> QED
      BY <2>1, <2>2, <3>3, <3>4, <3>6
  <2>4. \A k \in 0 .. Sign : v[k] = f[k]
    BY <2>3
  <2> QED
    BY <2>1, <2>4
<1>8. ValueOf(x) = v[Sign]
  BY <1>5 DEF ValueOf
<1>9. v[0] = 0 /\ \A k \in 1 .. Sign : v[k] = 2 * v[k - 1] + x[Sign - k]
  BY <1>6, Widths
<1>10. ASSUME NEW a \in Int, NEW b \in Int, NEW c \in Int, a + b = c + 1
       PROVE  b = -(a - c - 1)
  BY <1>10
<1> QED
  BY <1>7, <1>8, <1>9, <1>10

\* What BorrowBit leaves, bit by bit: the zeroes below the lowest one of x stay, that one
\* stays, and the rest is turned over.
Complemented(x, y) ==
    \E s \in 0 .. Sign - 1 :
      /\ x[s] = 1 /\ y[s] = 1
      /\ \A i \in 0 .. s - 1 : x[i] = 0 /\ y[i] = 0
      /\ \A i \in s + 1 .. Sign : y[i] = 1 - x[i]

\* Two numbers are doubled and get a bit each; their sum and a third number, which gets
\* a 1, stay equal, or from two ones on differ by one.
LEMMA SumsDoubled ==
    ASSUME NEW a \in Int, NEW b \in Int, NEW c \in Int, NEW p \in Int, NEW q \in Int
    PROVE  /\ a + b = c /\ p = 1 /\ q = 1 => (2 * a + p) + (2 * b + q) = (2 * c + 1) + 1
           /\ a + b = c /\ q = 1 - p => (2 * a + p) + (2 * b + q) = 2 * c + 1
           /\ a + b = c + 1 /\ p = 0 /\ q = 0 => (2 * a + p) + (2 * b + q) = (2 * c + 1) + 1
  OBVIOUS

\* Its bits below the sign are the absolute value of a negative number.
LEMMA ComplementIsNegation ==
    ASSUME NEW x \in Ints, NEW y \in Ints, Negative(x), Complemented(x, y)
    PROVE  ValueOf(y) = -IntOf(x)
<1>1. PICK s \in 0 .. Sign - 1 :
        /\ x[s] = 1 /\ y[s] = 1
        /\ \A i \in 0 .. s - 1 : x[i] = 0 /\ y[i] = 0
        /\ \A i \in s + 1 .. Sign : y[i] = 1 - x[i]
  BY DEF Complemented
<1>2. Highest \in Ints /\ \A i \in 0 .. Sign - 1 : Highest[i] = 1
  BY Widths DEF Highest, Ints
<1>3. PICK v :
        /\ v \in [0 .. Sign -> Int]
        /\ v[0] = 0 /\ \A k \in 1 .. Sign : v[k] = 2 * v[k - 1] + x[Sign - k]
        /\ ValueOf(x) = v[Sign]
  BY ValueFacts
<1>4. PICK u :
        /\ u \in [0 .. Sign -> Int]
        /\ u[0] = 0 /\ \A k \in 1 .. Sign : u[k] = 2 * u[k - 1] + y[Sign - k]
        /\ ValueOf(y) = u[Sign]
  BY ValueFacts
<1>5. PICK h :
        /\ h \in [0 .. Sign -> Int]
        /\ h[0] = 0 /\ \A k \in 1 .. Sign : h[k] = 2 * h[k - 1] + Highest[Sign - k]
        /\ ValueOf(Highest) = h[Sign]
  BY <1>2, ValueFacts
<1> DEFINE Adds(k) == v[k] + u[k] = h[k] + (IF Sign - k <= s THEN 1 ELSE 0)
           Bad == {k \in 0 .. Sign : ~Adds(k)}
<1>6. ASSUME Bad # {}
      PROVE  FALSE
  <2>1. Bad \in SUBSET Nat
    BY Widths
  <2>2. PICK k \in Bad : \A j \in Bad : k <= j
    BY <1>6, <2>1, LeastNumber
  <2>3. k \in 0 .. Sign /\ ~Adds(k)
    BY <2>2
  <2>4. k # 0
    BY <1>1, <1>3, <1>4, <1>5, <2>3, Widths
  <2>5. k - 1 \in 0 .. Sign /\ k \in 1 .. Sign /\ k - 1 < k /\ Sign - k \in 0 .. Sign - 1
    BY <2>3, <2>4, Widths
  <2>6. Adds(k - 1)
    <3>1. k - 1 \notin Bad
      BY <2>2, <2>5
    <3> QED
      BY <2>5, <3>1
  <2>7. /\ v[k] = 2 * v[k - 1] + x[Sign - k] /\ u[k] = 2 * u[k - 1] + y[Sign - k]
        /\ h[k] = 2 * h[k - 1] + 1
    BY <1>2, <1>3, <1>4, <1>5, <2>5
  <2>8. /\ v[k] \in Int /\ u[k] \in Int /\ h[k] \in Int
        /\ v[k - 1] \in Int /\ u[k - 1] \in Int /\ h[k - 1] \in Int
    BY <1>3, <1>4, <1>5, <2>5
  <2>9. x[Sign - k] \in {0, 1} /\ y[Sign - k] \in {0, 1}
    BY <2>5, Widths DEF Ints
  <2>10. CASE Sign - k < s
    <3>1. Sign - k \in 0 .. s - 1 /\ Sign - (k - 1) <= s
      BY <2>5, <2>10, Widths
    <3>2. x[Sign - k] = 0 /\ y[Sign - k] = 0
      BY <1>1, <3>1
    <3>3. v[k - 1] + u[k - 1] = h[k - 1] + 1
      BY <2>6, <3>1
    <3>4. v[k] + u[k] = h[k] + 1
      BY <2>7, <2>8, <2>9, <3>2, <3>3, SumsDoubled
    <3> QED
      BY <2>3, <2>10, <3>4, Widths
  <2>11. CASE Sign - k = s
    <3>1. ~(Sign - (k - 1) <= s)
      BY <2>5, <2>11, Widths
    <3>2. x[Sign - k] = 1 /\ y[Sign - k] = 1
      BY <1>1, <2>11
    <3>3. v[k - 1] + u[k - 1] = h[k - 1]
      BY <2>6, <2>8, <3>1
    <3>4. v[k] + u[k] = h[k] + 1
      BY <2>7, <2>8, <2>9, <3>2, <3>3, SumsDoubled
    <3> QED
      BY <2>3, <2>11, <3>4, Widths
  <2>12. CASE Sign - k > s
    <3>1. Sign - k \in s + 1 .. Sign /\ ~(Sign - (k - 1) <= s) /\ ~(Sign - k <= s)
      BY <2>5, <2>12, Widths
    <3>2. y[Sign - k] = 1 - x[Sign - k]
      BY <1>1, <3>1
    <3>3. v[k - 1] + u[k - 1] = h[k - 1]
      BY <2>6, <2>8, <3>1
    <3>4. v[k] + u[k] = h[k]
      BY <2>7, <2>8, <2>9, <3>2, <3>3, SumsDoubled
    <3> QED
      BY <2>3, <2>8, <3>1, <3>4
  <2> QED
    BY <2>5, <2>10, <2>11, <2>12, Widths
<1>7. v[Sign] + u[Sign] = h[Sign] + 1
  <2>1. Sign \in 0 .. Sign /\ Sign - Sign <= s
    BY <1>1, Widths
  <2>2. Adds(Sign)
    BY <1>6, <2>1
  <2> QED
    BY <2>1, <2>2
<1>8. /\ ValueOf(y) = u[Sign] /\ IntOf(x) = v[Sign] - h[Sign] - 1
      /\ u[Sign] \in Int /\ v[Sign] \in Int /\ h[Sign] \in Int
  BY <1>3, <1>4, <1>5, Widths DEF IntOf
<1>9. ASSUME NEW a \in Int, NEW b \in Int, NEW c \in Int, a + b = c + 1
      PROVE  b = -(a - c - 1)
  BY <1>9
<1> QED
  BY <1>7, <1>8, <1>9

\* The ones of an int.
Ones(x) == {i \in 0 .. Sign : x[i] = 1}

\* Halving a number without a sign loses its lowest bit.
LEMMA HalfLosesOne ==
    ASSUME NEW x \in Ints, x[Sign] = 0
    PROVE  /\ HalfOf(x) \in Ints /\ HalfOf(x)[Sign] = 0 /\ x[0] \in {0, 1}
           /\ Cardinality(Ones(x)) \in 0 .. Width
           /\ Cardinality(Ones(HalfOf(x))) \in 0 .. Width
           /\ Cardinality(Ones(x)) = x[0] + Cardinality(Ones(HalfOf(x)))
<1>1. PICK y : y = HalfOf(x)
  OBVIOUS
<1>2. /\ y \in Ints /\ y[Sign] = 0 /\ x[0] \in {0, 1}
      /\ \A i \in 0 .. Sign - 1 : y[i] = x[i + 1]
  BY <1>1, Widths DEF HalfOf, Ints
<1>3. IsFiniteSet(0 .. Sign) /\ Cardinality(0 .. Sign) = Width
  BY Widths, FS_Interval
<1>4. ASSUME NEW z
      PROVE  /\ Ones(z) \in SUBSET (0 .. Sign) /\ IsFiniteSet(Ones(z))
             /\ Cardinality(Ones(z)) \in Nat /\ Cardinality(Ones(z)) <= Width
  <2>1. Ones(z) \in SUBSET (0 .. Sign)
    BY DEF Ones
  <2>2. IsFiniteSet(Ones(z)) /\ Cardinality(Ones(z)) <= Width
    BY <1>3, <2>1, FS_Subset
  <2>3. Cardinality(Ones(z)) \in Nat
    BY <2>2, FS_CardinalityType
  <2> QED
    BY <2>1, <2>2, <2>3
<1> DEFINE higher == Ones(x) \ {0}
           down == [i \in higher |-> i - 1]
<1>5. IsFiniteSet(higher)
  BY <1>4, FS_Subset
<1>6. Cardinality(higher) = Cardinality(Ones(y))
  <2>1. down \in [higher -> Ones(y)]
    <3>1. ASSUME NEW i \in higher
          PROVE  i - 1 \in Ones(y)
      <4>1. i \in 0 .. Sign /\ x[i] = 1 /\ i # 0
        BY DEF Ones
      <4>2. i - 1 \in 0 .. Sign - 1 /\ (i - 1) + 1 = i /\ i - 1 \in 0 .. Sign
        BY <4>1, Widths
      <4> QED
        BY <1>2, <4>1, <4>2 DEF Ones
    <3> QED
      BY <3>1
  <2>2. \A i, j \in higher : down[i] = down[j] => i = j
    BY Widths DEF Ones
  <2>3. \A j \in Ones(y) : \E i \in higher : down[i] = j
    <3> SUFFICES ASSUME NEW j \in Ones(y)
                 PROVE  \E i \in higher : down[i] = j
      OBVIOUS
    <3>1. j \in 0 .. Sign /\ y[j] = 1
      BY DEF Ones
    <3>2. j \in 0 .. Sign - 1 /\ j + 1 \in 0 .. Sign /\ j + 1 # 0 /\ (j + 1) - 1 = j
      BY <1>2, <3>1, Widths
    <3>3. x[j + 1] = 1
      BY <1>2, <3>1, <3>2
    <3>4. j + 1 \in higher
      BY <3>2, <3>3 DEF Ones
    <3> QED
      BY <3>2, <3>4
  <2>4. down \in Bijection(higher, Ones(y))
    BY <2>1, <2>2, <2>3 DEF Bijection, Injection, Surjection, IsInjective
  <2>5. ExistsBijection(higher, Ones(y))
    BY <2>4 DEF ExistsBijection
  <2> QED
    BY <1>5, <2>5, FS_Bijection
<1>7. Cardinality(higher) = Cardinality(Ones(x)) - x[0]
  <2>1. 0 \in 0 .. Sign
    BY Widths
  <2>2. CASE x[0] = 1
    <3>1. 0 \in Ones(x)
      BY <2>1, <2>2 DEF Ones
    <3> QED
      BY <1>4, <2>2, <3>1, FS_RemoveElement
  <2>3. CASE x[0] = 0
    <3>1. higher = Ones(x)
      BY <2>3 DEF Ones
    <3> QED
      BY <1>4, <2>3, <3>1
  <2> QED
    BY <1>2, <2>2, <2>3
<1>8. /\ Cardinality(Ones(x)) \in 0 .. Width /\ Cardinality(Ones(y)) \in 0 .. Width
      /\ Cardinality(Ones(x)) = x[0] + Cardinality(Ones(y))
  <2>1. /\ Cardinality(Ones(x)) \in Nat /\ Cardinality(Ones(x)) <= Width
        /\ Cardinality(Ones(y)) \in Nat /\ Cardinality(Ones(y)) <= Width
    BY <1>4
  <2> QED
    BY <1>2, <1>6, <1>7, <2>1, Widths
<1> QED
  BY <1>1, <1>2, <1>8

\* No number that is 0 has ones.
LEMMA NoOnes == Zero \in Ints /\ Cardinality(Ones(Zero)) = 0
<1>1. Zero \in Ints /\ Ones(Zero) = {}
  BY DEF Zero, Ints, Ones
<1> QED
  BY <1>1, FS_EmptySet

\* negative_to_bits() before a one is found: the zeroes passed were turned into ones.
Borrowing ==
    /\ shift <= Sign
    /\ \A i \in 0 .. shift - 1 : input[i] = 0 /\ podopitniy[i] = 1
    /\ \A i \in shift .. Sign : podopitniy[i] = input[i]

\* count_positive_bits(): the ones counted, and those still there, are all.
Counting ==
    IF Counted(input)
    THEN /\ podopitniy[Sign] = 0
         /\ shift + Cardinality(Ones(podopitniy)) = Cardinality(Ones(input))
         /\ bdone => podopitniy = Zero /\ bprinted = <<shift>>
    ELSE shift = 0 /\ bprinted = <<>>

ByteChanged == podopitniy = OrOf(Cleared(input), LeftBy(input_byte, 2 * ByteBits))

BInv ==
    /\ bitem \in Units /\ input \in Ints /\ input_byte \in Ints /\ podopitniy \in Ints
    /\ shift \in 0 .. Width /\ bdone \in BOOLEAN /\ Len(bprinted) \in {0, 1, Width}
    /\ bitem = "negative" /\ Negative(input) =>
         IF bdone THEN input # Lowest => Complemented(input, podopitniy) ELSE Borrowing
    /\ bitem = "count" => Counting
    /\ bitem = "third" /\ bdone => ByteChanged

\* The operators on ints give ints.
LEMMA IntsClosed ==
    /\ \A x \in Ints : /\ HalfOf(x) \in Ints /\ Inverted(x) \in Ints /\ Cleared(x) \in Ints
                       /\ Len(DirectPrint(x)) = Width
    /\ \A x, y \in Ints : OrOf(x, y) \in Ints
    /\ \A x \in Ints : \A n \in Nat : LeftBy(x, n) \in Ints
    /\ \A x \in Ints : \A i \in 0 .. Sign : \A b \in {0, 1} : [x EXCEPT ![i] = b] \in Ints
<1> SUFFICES ASSUME NEW x \in Ints, NEW y \in Ints, NEW i \in 0 .. Sign, NEW b \in {0, 1},
                    NEW n \in Nat
             PROVE  /\ HalfOf(x) \in Ints /\ OrOf(x, y) \in Ints /\ Inverted(x) \in Ints
                    /\ [x EXCEPT ![i] = b] \in Ints /\ Cleared(x) \in Ints /\ LeftBy(x, n) \in Ints
                    /\ Len(DirectPrint(x)) = Width
  <2>1. 0 \in 0 .. Sign
    BY Widths
  <2> QED
    BY <2>1
<1>1. HalfOf(x) \in Ints
  BY Widths DEF HalfOf, Ints
<1>2. OrOf(x, y) \in Ints /\ Inverted(x) \in Ints
  BY Widths DEF OrOf, Inverted, Ints
<1>3. [x EXCEPT ![i] = b] \in Ints /\ Cleared(x) \in Ints
  BY Widths DEF Cleared, Ints
<1>4. LeftBy(x, n) \in Ints
  <2>1. ASSUME NEW j \in 0 .. Sign
        PROVE  (IF j < n THEN 0 ELSE x[j - n]) \in {0, 1}
    <3>1. j >= n => j - n \in 0 .. Sign
      BY Widths
    <3> QED
      BY <3>1, Widths DEF Ints
  <2> QED
    BY <2>1 DEF LeftBy, Ints
<1>5. Len(DirectPrint(x)) = Width
  <2>1. DirectPrint(x) \in [1 .. Width -> Int]
    <3>1. ASSUME NEW k \in 1 .. Width
          PROVE  (IF k = 1 THEN -x[Sign] ELSE x[Width - k]) \in Int
      <4>1. Width - k \in 0 .. Sign /\ Sign \in 0 .. Sign
        BY Widths
      <4> QED
        BY <4>1 DEF Ints
    <3> QED
      BY <3>1 DEF DirectPrint
  <2> QED
    BY <2>1, Widths
<1> QED
  BY <1>1, <1>2, <1>3, <1>4, <1>5

\* The loops start with the input.
LEMMA BInvInit == BitsInit => BInv
<1> SUFFICES ASSUME BitsInit
             PROVE  BInv
  OBVIOUS
<1>1. /\ bitem \in Units /\ input \in Ints /\ podopitniy = input /\ shift = 0
      /\ bprinted = <<>> /\ bdone = FALSE
  BY DEF BitsInit
<1>2. input_byte \in Ints
  BY NoOnes DEF BitsInit, TypedBytes
<1>3. 0 \in 0 .. Width /\ Len(<<>>) = 0
  BY Widths
<1>4. Borrowing
  BY <1>1, Widths DEF Borrowing
<1>5. Counting
  <2>1. CASE Counted(input)
    <3>1. input[Sign] = 0
      <4>1. input[Sign] \in {0, 1} /\ input[Sign] # 1
        BY <1>1, <2>1, Widths DEF Counted, Negative, Ints
      <4> QED
        BY <4>1
    <3>2. Cardinality(Ones(input)) \in Nat
      BY <1>1, <3>1, HalfLosesOne
    <3> QED
      BY <1>1, <2>1, <3>1, <3>2 DEF Counting
  <2>2. CASE ~Counted(input)
    BY <1>1, <2>2 DEF Counting
  <2> QED
    BY <2>1, <2>2
<1> QED
  BY <1>1, <1>2, <1>3, <1>4, <1>5 DEF BInv

\* Every iteration keeps them right.
LEMMA BInvStep == BInv /\ [BitsNext]_bVars => BInv'
<1> SUFFICES ASSUME BInv, [BitsNext]_bVars
             PROVE  BInv'
  OBVIOUS
<1>1. /\ bitem \in Units /\ input \in Ints /\ input_byte \in Ints /\ podopitniy \in Ints
      /\ shift \in 0 .. Width /\ bdone \in BOOLEAN /\ Len(bprinted) \in {0, 1, Width}
  BY DEF BInv
<1>2. CASE UNCHANGED bVars
  BY <1>2 DEF BInv, bVars, Borrowing, Counting, ByteChanged, Complemented
<1>3. CASE HalvePositive
  <2>1. /\ bitem' = "positive" /\ UNCHANGED <<input, input_byte, shift>>
        /\ podopitniy' \in Ints /\ bdone' \in BOOLEAN /\ Len(bprinted') \in {0, 1, Width}
    <3>1. CASE HalvedOut(podopitniy)
      BY <1>1, <1>3, <3>1, IntsClosed DEF HalvePositive
    <3>2. CASE ~HalvedOut(podopitniy)
      BY <1>1, <1>3, <3>2, IntsClosed DEF HalvePositive
    <3> QED
      BY <1>3, <3>1, <3>2 DEF HalvePositive
  <2> QED
    BY <1>1, <2>1 DEF BInv, Units
<1>4. CASE BorrowBit
  <2>1. /\ bitem = "negative" /\ ~bdone /\ Negative(input) /\ shift < Sign
        /\ UNCHANGED <<bitem, input, input_byte>>
    BY <1>4 DEF BorrowBit, Loops
  <2>2. Borrowing
    BY <2>1 DEF BInv
  <2>3. shift \in 0 .. Sign - 1 /\ shift + 1 \in 0 .. Width /\ shift \in 0 .. Sign /\ shift \in Int
    BY <1>1, <2>1, Widths
  <2>4. CASE podopitniy[shift] = 0
    <3>1. /\ podopitniy' = [podopitniy EXCEPT ![shift] = 1] /\ shift' = shift + 1
          /\ UNCHANGED <<bdone, bprinted>>
      BY <1>4, <2>4 DEF BorrowBit
    <3>2. podopitniy' \in Ints
      <4>1. 1 \in {0, 1}
        OBVIOUS
      <4> QED
        BY <1>1, <2>3, <3>1, <4>1, IntsClosed
    <3>3. podopitniy'[shift] = 1 /\ \A i \in 0 .. Sign : i # shift => podopitniy'[i] = podopitniy[i]
      BY <1>1, <2>3, <3>1 DEF Ints
    <3>4. input[shift] = 0
      BY <2>2, <2>3, <2>4 DEF Borrowing
    <3>5. ASSUME NEW i \in 0 .. shift
          PROVE  input[i] = 0 /\ podopitniy'[i] = 1
      <4>1. i = shift \/ (i \in 0 .. shift - 1 /\ i \in 0 .. Sign /\ i # shift)
        BY <2>3, Widths
      <4> QED
        BY <2>2, <3>3, <3>4, <4>1 DEF Borrowing
    <3>6. ASSUME NEW i \in shift + 1 .. Sign
          PROVE  podopitniy'[i] = input[i]
      <4>1. i \in shift .. Sign /\ i \in 0 .. Sign /\ i # shift
        BY <2>3, Widths
      <4> QED
        BY <2>2, <3>3, <4>1 DEF Borrowing
    <3>7. Borrowing'
      <4>1. shift' <= Sign /\ shift' - 1 = shift /\ shift' = shift + 1
        BY <2>1, <2>3, <3>1, Widths
      <4> QED
        BY <2>1, <3>5, <3>6, <4>1 DEF Borrowing
    <3> QED
      BY <1>1, <2>1, <2>3, <3>1, <3>2, <3>7 DEF BInv
  <2>5. CASE podopitniy[shift] # 0
    <3>1. PICK z : z = [podopitniy EXCEPT ![shift] = 0]
      OBVIOUS
    <3>2. z \in Ints /\ z[shift] = 0 /\ \A i \in 0 .. Sign : i # shift => z[i] = podopitniy[i]
      <4>1. z \in Ints
        <5>1. 0 \in {0, 1}
          OBVIOUS
        <5> QED
          BY <1>1, <2>3, <3>1, <5>1, IntsClosed
      <4> QED
        BY <1>1, <2>3, <3>1, <4>1 DEF Ints
    <3>3. /\ podopitniy' = Inverted(z) /\ bdone' = TRUE /\ bprinted' = DirectPrint(podopitniy')
          /\ UNCHANGED shift
      BY <1>4, <2>5, <3>1 DEF BorrowBit
    <3>4. podopitniy' \in Ints /\ Len(bprinted') = Width
      BY <3>2, <3>3, IntsClosed, Widths
    <3>5. \A i \in 0 .. Sign : podopitniy'[i] = 1 - z[i]
      BY <3>3 DEF Inverted
    <3>6. input[shift] = 1 /\ podopitniy'[shift] = 1
      <4>1. podopitniy[shift] = input[shift] /\ podopitniy[shift] \in {0, 1}
        BY <1>1, <2>2, <2>3 DEF Borrowing, Ints
      <4> QED
        BY <2>3, <2>5, <3>2, <3>5, <4>1, Widths
    <3>7. ASSUME NEW i \in 0 .. shift - 1
          PROVE  input[i] = 0 /\ podopitniy'[i] = 0
      <4>1. i \in 0 .. Sign /\ i # shift
        BY <2>3, Widths
      <4>2. input[i] = 0 /\ podopitniy[i] = 1
        BY <2>2 DEF Borrowing
      <4> QED
        BY <3>2, <3>5, <4>1, <4>2
    <3>8. ASSUME NEW i \in shift + 1 .. Sign
          PROVE  podopitniy'[i] = 1 - input[i]
      <4>1. i \in shift .. Sign /\ i \in 0 .. Sign /\ i # shift
        BY <2>3, Widths
      <4>2. podopitniy[i] = input[i]
        BY <2>2, <4>1 DEF Borrowing
      <4> QED
        BY <3>2, <3>5, <4>1, <4>2
    <3>9. Complemented(input, podopitniy')
      BY <2>3, <3>6, <3>7, <3>8 DEF Complemented
    <3>10. Complemented(input, podopitniy)'
      BY <2>1, <3>9 DEF Complemented
    <3> QED
      BY <1>1, <2>1, <3>3, <3>4, <3>10 DEF BInv
  <2> QED
    BY <2>4, <2>5
<1>5. CASE PrintNegative
  <2>1. /\ bitem = "negative" /\ ~bdone /\ bdone' = TRUE /\ (Negative(input) => ~(shift < Sign))
        /\ bprinted' = DirectPrint(podopitniy)
        /\ UNCHANGED <<bitem, input, input_byte, podopitniy, shift>>
    BY <1>5 DEF PrintNegative, Loops
  <2>2. Len(bprinted') = Width
    BY <1>1, <2>1, IntsClosed, Widths
  <2>3. ASSUME Negative(input)
        PROVE  input = Lowest
    <3>1. Borrowing /\ shift = Sign
      BY <1>1, <2>1, <2>3, Widths DEF BInv, Borrowing
    <3>2. \A i \in 0 .. Sign : input[i] = IF i = Sign THEN 1 ELSE 0
      BY <2>3, <3>1, Widths DEF Borrowing, Negative
    <3> QED
      BY <1>1, <3>2 DEF Ints, Lowest
  <2> QED
    BY <1>1, <2>1, <2>2, <2>3 DEF BInv
<1>6. CASE CountBit
  <2>1. bitem = "count" /\ ~bdone /\ Counting /\ UNCHANGED <<bitem, input, input_byte>>
    BY <1>6 DEF CountBit, BInv
  <2>2. CASE ~Counted(input)
    <3>1. bdone' = TRUE /\ UNCHANGED <<podopitniy, shift>> /\ bprinted' = <<>>
      BY <1>6, <2>2 DEF CountBit
    <3>2. Counting'
      BY <2>1, <2>2, <3>1 DEF Counting
    <3>3. Len(bprinted') = 0
      BY <3>1
    <3> QED
      BY <1>1, <2>1, <3>1, <3>2, <3>3 DEF BInv
  <2>3. CASE Counted(input) /\ podopitniy = Zero
    <3>1. bdone' = TRUE /\ UNCHANGED <<podopitniy, shift>> /\ bprinted' = <<shift>>
      BY <1>6, <2>3 DEF CountBit
    <3>2. Counting'
      BY <2>1, <2>3, <3>1 DEF Counting
    <3>3. Len(bprinted') = 1
      BY <3>1
    <3> QED
      BY <1>1, <2>1, <3>1, <3>2, <3>3 DEF BInv
  <2>4. CASE Counted(input) /\ podopitniy # Zero
    <3>1. /\ podopitniy' = HalfOf(podopitniy) /\ shift' = shift + podopitniy[0]
          /\ UNCHANGED <<bdone, bprinted>>
      BY <1>6, <2>4 DEF CountBit
    <3>2. /\ podopitniy[Sign] = 0
          /\ shift + Cardinality(Ones(podopitniy)) = Cardinality(Ones(input))
      BY <2>1, <2>4 DEF Counting
    <3>3. input[Sign] = 0
      BY <1>1, <2>4, Widths DEF Counted, Negative, Ints
    <3>4. /\ podopitniy' \in Ints /\ podopitniy'[Sign] = 0 /\ podopitniy[0] \in {0, 1}
          /\ Cardinality(Ones(podopitniy)) \in 0 .. Width
          /\ Cardinality(Ones(podopitniy')) \in 0 .. Width
          /\ Cardinality(Ones(podopitniy)) = podopitniy[0] + Cardinality(Ones(podopitniy'))
      BY <1>1, <3>1, <3>2, HalfLosesOne
    <3>5. Cardinality(Ones(input)) \in 0 .. Width
      BY <1>1, <3>3, HalfLosesOne
    <3>6. /\ shift' \in 0 .. Width
          /\ shift' + Cardinality(Ones(podopitniy')) = Cardinality(Ones(input))
      BY <1>1, <3>1, <3>2, <3>4, <3>5, Widths
    <3>7. Ones(podopitniy') = Ones(podopitniy)'
      BY DEF Ones
    <3>8. Counting'
      BY <2>1, <2>4, <3>1, <3>4, <3>6, <3>7 DEF Counting
    <3> QED
      BY <1>1, <2>1, <3>1, <3>4, <3>6, <3>8 DEF BInv
  <2> QED
    BY <2>2, <2>3, <2>4
<1>7. CASE ChangeByte
  <2>1. /\ bitem = "third" /\ bdone' = TRUE /\ UNCHANGED <<bitem, input, input_byte, shift, bprinted>>
        /\ podopitniy' = OrOf(Cleared(input), LeftBy(input_byte, 2 * ByteBits))
    BY <1>7 DEF ChangeByte
  <2>2. 2 * ByteBits \in Nat /\ 0 \in 0 .. Sign
    BY BitsAssumption, Widths
  <2>3. Cleared(input) \in Ints /\ LeftBy(input_byte, 2 * ByteBits) \in Ints
    BY <1>1, <2>2, IntsClosed
  <2>4. podopitniy' \in Ints
    BY <2>1, <2>2, <2>3, IntsClosed
  <2>5. ByteChanged'
    BY <2>1 DEF ByteChanged
  <2> QED
    BY <1>1, <2>1, <2>4, <2>5 DEF BInv
<1> QED
  BY <1>2, <1>3, <1>4, <1>5, <1>6, <1>7 DEF BitsNext

\* What is computed is right.
LEMMA BPromises == BInv => BitsTypeOK /\ BitsRight
<1> SUFFICES ASSUME BInv
             PROVE  BitsTypeOK /\ BitsRight
  OBVIOUS
<1>1. BitsTypeOK
  BY DEF BInv, BitsTypeOK
<1>2. input \in Ints /\ input_byte \in Ints /\ podopitniy \in Ints
  BY DEF BInv
<1>3. ASSUME bdone, bitem = "negative", Negative(input), input # Lowest
      PROVE  ValueOf(podopitniy) = -IntOf(input)
  <2>1. Complemented(input, podopitniy)
    BY <1>3 DEF BInv
  <2> QED
    BY <1>2, <1>3, <2>1, ComplementIsNegation
<1>4. ASSUME bdone, bitem = "count", bprinted # <<>>
      PROVE  bprinted = <<Cardinality({i \in 0 .. Sign : input[i] = 1})>>
  <2>1. Counting
    BY <1>4 DEF BInv
  <2>2. Counted(input)
    BY <1>4, <2>1 DEF Counting
  <2>3. podopitniy = Zero /\ bprinted = <<shift>> /\ shift + Cardinality(Ones(Zero)) = Cardinality(Ones(input))
    BY <1>4, <2>1, <2>2 DEF Counting
  <2>4. shift \in Nat /\ Cardinality(Ones(Zero)) = 0
    BY NoOnes, Widths DEF BInv
  <2>5. shift = Cardinality(Ones(input))
    BY <2>3, <2>4
  <2> QED
    BY <2>3, <2>5 DEF Ones
<1>5. ASSUME bdone, bitem = "third", \A i \in ByteBits .. Sign : input_byte[i] = 0
      PROVE  podopitniy = [i \in 0 .. Sign |->
               IF i \in 2 * ByteBits .. 3 * ByteBits - 1 THEN input_byte[i - 2 * ByteBits] ELSE input[i]]
  <2>1. PICK y : y = LeftBy(input_byte, 2 * ByteBits)
    OBVIOUS
  <2>2. PICK z : z = Cleared(input)
    OBVIOUS
  <2>3. podopitniy = OrOf(z, y)
    BY <1>5, <2>1, <2>2 DEF BInv, ByteChanged
  <2>4. ByteBits \in Nat /\ ByteBits > 0 /\ Sign = 4 * ByteBits - 1
    BY BitsAssumption DEF Sign, Width
  <2>5. ASSUME NEW i \in 0 .. Sign
        PROVE  podopitniy[i] = IF i \in 2 * ByteBits .. 3 * ByteBits - 1
                               THEN input_byte[i - 2 * ByteBits] ELSE input[i]
    <3>1. /\ podopitniy[i] = IF z[i] + y[i] = 0 THEN 0 ELSE 1
          /\ y[i] = IF i < 2 * ByteBits THEN 0 ELSE input_byte[i - 2 * ByteBits]
          /\ z[i] = IF i \in 2 * ByteBits .. 3 * ByteBits - 1 THEN 0 ELSE input[i]
      BY <2>1, <2>2, <2>3 DEF OrOf, LeftBy, Cleared
    <3>2. input[i] \in {0, 1}
      BY <1>2 DEF Ints
    <3>3. CASE i < 2 * ByteBits
      BY <2>4, <3>1, <3>2, <3>3
    <3>4. CASE i \in 2 * ByteBits .. 3 * ByteBits - 1
      <4>1. i - 2 * ByteBits \in 0 .. Sign /\ ~(i < 2 * ByteBits)
        BY <2>4, <3>4
      <4>2. input_byte[i - 2 * ByteBits] \in {0, 1}
        BY <1>2, <4>1 DEF Ints
      <4> QED
        BY <3>1, <3>4, <4>1, <4>2
    <3>5. CASE i >= 3 * ByteBits
      <4>1. /\ i - 2 * ByteBits \in ByteBits .. Sign /\ ~(i < 2 * ByteBits)
            /\ i \notin 2 * ByteBits .. 3 * ByteBits - 1
        BY <2>4, <3>5
      <4>2. input_byte[i - 2 * ByteBits] = 0
        BY <1>5, <4>1
      <4> QED
        BY <3>1, <3>2, <4>1, <4>2
    <3> QED
      BY <2>4, <3>3, <3>4, <3>5
  <2>6. podopitniy = [i \in 0 .. Sign |-> podopitniy[i]]
    BY <1>2 DEF Ints
  <2> QED
    BY <2>5, <2>6
<1>6. BitsRight
  BY <1>3, <1>4, <1>5 DEF BitsRight
<1> QED
  BY <1>1, <1>6

\* The bit operations alone, for bytes of any width: the bits below the sign of a negative
\* number's direct code, the number of ones, the third byte.
THEOREM BitsAreRight == BitsSpec => [](BitsTypeOK /\ BitsRight)
  BY BInvInit, BInvStep, BPromises, PTL DEF BitsSpec


-------------------------------------------------------------------------------
(* Arrays                                                                        *)

\* reverse_output(): the elements turned round so far, and what was printed.
Turning ==
    /\ typed \in [0 .. asize - 1 -> Elements] /\ array \in [0 .. asize - 1 -> Elements]
    /\ anum \in 0 .. asize /\ aout \in Seq(Elements) /\ Len(aout) = anum
    /\ \A k \in 1 .. anum : aout[k] = typed[asize - k]
    /\ \A i \in 0 .. asize - 1 :
         array[i] = IF i < anum \/ asize - 1 - i < anum THEN typed[asize - 1 - i] ELSE typed[i]

\* Two cells of which one is next to the other.
NextTo(p, q) == (p[1] - q[1]) * (p[1] - q[1]) + (p[2] - q[2]) * (p[2] - q[2]) = 1

Square == (0 .. asize - 1) \X (0 .. asize - 1)

\* A cell that the spiral has not reached.
Unreached(p) == top <= p[1] /\ p[1] < bottom /\ left <= p[2] /\ p[2] < right

\* The cells of f carry the numbers up to m, each of them once, along a path.
IsPath(f, m) ==
    /\ f \in [DOMAIN f -> 1 .. m]
    /\ \A p, q \in DOMAIN f : f[p] = f[q] => p = q
    /\ \A i \in 1 .. m : \E p \in DOMAIN f : f[p] = i
    /\ \A p, q \in DOMAIN f : f[q] = f[p] + 1 => NextTo(p, q)

\* The four bounds after t turns and some sides more.
Bounds(t) ==
    /\ left = t
    /\ top = IF aside = 1 THEN t ELSE t + 1
    /\ right = IF aside \in {1, 2} THEN asize - t ELSE asize - t - 1
    /\ bottom = IF aside = 4 THEN asize - t - 1 ELSE asize - t
    /\ IF aside = 1 THEN 2 * t <= asize + 1 ELSE 2 * t < asize

Spiral ==
    /\ \E t \in 0 .. asize : Bounds(t)
    /\ \A p : p \in DOMAIN matrix <=> p \in Square /\ ~Unreached(p)
    /\ anum \in Nat \ {0} /\ IsPath(matrix, anum - 1)
    /\ \A p \in DOMAIN matrix :
         matrix[p] = anum - 1 /\ Len(SideCells) > 0 => NextTo(p, SideCells[1])
    /\ array = <<>> /\ typed = <<>> /\ aout = <<>>

AInv ==
    /\ asize \in Sizes /\ asize > 0 /\ aside \in 1 .. 4
    /\ \/ aitem = "ulitka" /\ Spiral
       \/ aitem = "reverse" /\ Turning /\ top = 0 /\ bottom = asize /\ left = 0 /\ right = asize
\* An element is turned and printed.
LEMMA TurningStep ==
    ASSUME Turning, asize \in Int, TurnElement
    PROVE  Turning'
<1>1. /\ typed \in [0 .. asize - 1 -> Elements] /\ array \in [0 .. asize - 1 -> Elements]
      /\ anum \in 0 .. asize /\ aout \in Seq(Elements) /\ Len(aout) = anum
      /\ \A k \in 1 .. anum : aout[k] = typed[asize - k]
      /\ \A i \in 0 .. asize - 1 :
           array[i] = IF i < anum \/ asize - 1 - i < anum THEN typed[asize - 1 - i] ELSE typed[i]
  BY DEF Turning
<1>2. /\ anum < asize /\ aout' = Append(aout, array'[anum]) /\ anum' = anum + 1
      /\ UNCHANGED <<asize, typed>>
  BY DEF TurnElement
<1>3. PICK n \in Int : n = asize
  OBVIOUS
<1>4. PICK i \in 0 .. n - 1 : i = anum
  BY <1>1, <1>2, <1>3
<1>5. PICK j \in 0 .. n - 1 : j = n - 1 - i /\ n - i - 1 = j
  BY <1>4
<1>6. array' \in [0 .. n - 1 -> Elements]
  BY <1>1, <1>3, <1>4, <1>5 DEF TurnElement
<1>7. ASSUME NEW h \in 0 .. n - 1
      PROVE  array'[h] = IF h < i + 1 \/ n - 1 - h < i + 1 THEN typed[n - 1 - h] ELSE typed[h]
  <2>1. array[h] = IF h < i \/ n - 1 - h < i THEN typed[n - 1 - h] ELSE typed[h]
    BY <1>1, <1>3, <1>4
  <2>2. array[i] = IF i < i \/ j < i THEN typed[j] ELSE typed[i]
    BY <1>1, <1>3, <1>4, <1>5
  <2>3. array[j] = IF j < i \/ n - 1 - j < i THEN typed[n - 1 - j] ELSE typed[j]
    BY <1>1, <1>3, <1>4, <1>5
  <2>4. n - 1 - j = i /\ ~(i < i)
    BY <1>4, <1>5
  <2>5. CASE j > i
    <3>1. array' = [array EXCEPT ![j] = array[i], ![i] = array[j]]
      BY <1>2, <1>3, <1>4, <1>5, <2>5 DEF TurnElement, Swaps
    <3>2. array[i] = typed[i] /\ array[j] = typed[j]
      BY <1>4, <1>5, <2>2, <2>3, <2>4, <2>5
    <3>3. CASE h = i
      <4>1. array'[h] = array[j]
        BY <1>1, <1>3, <3>1, <3>3
      <4> QED
        BY <1>4, <1>5, <3>2, <3>3, <4>1
    <3>4. CASE h = j
      <4>1. array'[h] = array[i]
        BY <1>1, <1>3, <2>5, <3>1, <3>4
      <4>2. n - 1 - h < i + 1 /\ n - 1 - h = i
        BY <2>4, <3>4
      <4> QED
        BY <3>2, <4>1, <4>2
    <3>5. CASE h # i /\ h # j
      <4>1. array'[h] = array[h]
        BY <1>1, <1>3, <3>1, <3>5
      <4>2. (h < i <=> h < i + 1) /\ (n - 1 - h < i <=> n - 1 - h < i + 1)
        BY <1>4, <1>5, <3>5
      <4> QED
        BY <2>1, <4>1, <4>2
    <3> QED
      BY <3>3, <3>4, <3>5
  <2>6. CASE j <= i
    <3>1. array' = array
      BY <1>2, <1>3, <1>4, <1>5, <2>6 DEF TurnElement, Swaps
    <3>2. CASE h = i
      <4>1. array[h] = typed[j]
        <5>1. j = i \/ j < i
          BY <1>4, <1>5, <2>6
        <5> QED
          BY <2>2, <3>2, <5>1
      <4>2. h < i + 1 /\ n - 1 - h = j
        BY <1>4, <1>5, <3>2
      <4> QED
        BY <3>1, <4>1, <4>2
    <3>3. CASE h # i
      <4>1. h < i + 1 => h < i
        BY <1>4, <3>3
      <4>2. n - 1 - h < i + 1 => n - 1 - h < i \/ h = j
        BY <1>4, <1>5
      <4>3. h = j => h < i
        BY <1>4, <1>5, <2>6, <3>3
      <4>4. h < i => h < i + 1
        BY <1>4
      <4>5. n - 1 - h < i => n - 1 - h < i + 1
        BY <1>4
      <4> QED
        BY <2>1, <3>1, <4>1, <4>2, <4>3, <4>4, <4>5
    <3> QED
      BY <3>2, <3>3
  <2> QED
    BY <1>4, <1>5, <2>5, <2>6
<1>8. PICK e \in Elements : e = array'[i]
  BY <1>4, <1>6
<1>9. e = typed[n - (i + 1)]
  <2>1. i < i + 1 /\ n - 1 - i = n - (i + 1)
    BY <1>4
  <2> QED
    BY <1>4, <1>7, <1>8, <2>1
<1>10. aout' \in Seq(Elements) /\ Len(aout') = i + 1
  BY <1>1, <1>2, <1>4, <1>8
<1>11. ASSUME NEW k \in 1 .. i + 1
       PROVE  aout'[k] = typed[n - k]
  <2>1. CASE k = i + 1
    BY <1>1, <1>2, <1>4, <1>8, <1>9, <2>1
  <2>2. CASE k # i + 1
    <3>1. k \in 1 .. i
      BY <1>4, <2>2
    <3>2. aout'[k] = aout[k]
      BY <1>1, <1>2, <1>4, <1>8, <3>1
    <3> QED
      BY <1>1, <1>3, <1>4, <3>1, <3>2
  <2> QED
    BY <2>1, <2>2
<1>12. anum' = i + 1 /\ asize' = n /\ typed' = typed /\ i + 1 \in 0 .. n
  BY <1>2, <1>3, <1>4
<1> QED
  BY <1>1, <1>3, <1>6, <1>7, <1>10, <1>11, <1>12 DEF Turning

\* The L cells of c are in a row that goes on where the path f ends.
RowGoesOn(c, L, f, m) ==
    /\ c \in [1 .. L -> Int \X Int]
    /\ \A j, k \in 1 .. L : c[j] = c[k] => j = k
    /\ \A k \in 1 .. L : c[k] \notin DOMAIN f
    /\ \A k \in 1 .. L - 1 : NextTo(c[k], c[k + 1])
    /\ L > 0 => \A p \in DOMAIN f : f[p] = m => NextTo(p, c[1])

\* The path f with the cells of c numbered on from m.
Numbered(f, m, c) ==
    [p \in DOMAIN f \cup ToSet(c) |->
       IF p \in ToSet(c) THEN m + (CHOOSE k \in DOMAIN c : c[k] = p) ELSE f[p]]

\* Cells behind the end of a path, one after the other, are numbered on.
LEMMA PathExtended ==
    ASSUME NEW f, NEW m \in Nat, IsPath(f, m),
           NEW c, NEW L \in Nat, RowGoesOn(c, L, f, m)
    PROVE  /\ IsPath(Numbered(f, m, c), m + L)
           /\ \A p : p \in DOMAIN Numbered(f, m, c) <=>
                     p \in DOMAIN f \/ \E k \in 1 .. L : p = c[k]
           /\ \A p \in DOMAIN Numbered(f, m, c) :
                Numbered(f, m, c)[p] = m + L /\ L > 0 => p = c[L]
<1> DEFINE S == Int \X Int
<1>a. PICK g : g = Numbered(f, m, c)
  OBVIOUS
<1>b. /\ c \in [1 .. L -> S]
      /\ \A j, k \in 1 .. L : c[j] = c[k] => j = k
      /\ \A k \in 1 .. L : c[k] \notin DOMAIN f
      /\ \A k \in 1 .. L - 1 : NextTo(c[k], c[k + 1])
      /\ L > 0 => \A p \in DOMAIN f : f[p] = m => NextTo(p, c[1])
  BY DEF RowGoesOn
<1>c. g = [p \in DOMAIN f \cup ToSet(c) |->
             IF p \in ToSet(c) THEN m + (CHOOSE k \in DOMAIN c : c[k] = p) ELSE f[p]]
  BY <1>a DEF Numbered
<1> HIDE DEF S
<1>1. /\ f \in [DOMAIN f -> 1 .. m]
      /\ \A p, q \in DOMAIN f : f[p] = f[q] => p = q
      /\ \A i \in 1 .. m : \E p \in DOMAIN f : f[p] = i
      /\ \A p, q \in DOMAIN f : f[q] = f[p] + 1 => NextTo(p, q)
  BY DEF IsPath
<1>2. ToSet(c) = {c[k] : k \in 1 .. L} /\ DOMAIN c = 1 .. L
  BY <1>b DEF ToSet
<1>3. DOMAIN g = DOMAIN f \cup ToSet(c)
  BY <1>c
<1>4. ASSUME NEW k \in 1 .. L
      PROVE  c[k] \in DOMAIN g /\ g[c[k]] = m + k
  <2>1. c[k] \in ToSet(c)
    BY <1>2
  <2>2. g[c[k]] = m + (CHOOSE j \in DOMAIN c : c[j] = c[k])
    BY <1>c, <2>1
  <2>3. (CHOOSE j \in DOMAIN c : c[j] = c[k]) = k
    BY <1>b, <1>2
  <2> QED
    BY <1>3, <2>1, <2>2, <2>3
<1>5. ASSUME NEW p \in DOMAIN f
      PROVE  p \in DOMAIN g /\ g[p] = f[p] /\ g[p] \in 1 .. m
  <2>1. p \notin ToSet(c)
    BY <1>b, <1>2
  <2> QED
    BY <1>1, <1>c, <1>3, <2>1
<1>6. ASSUME NEW p \in DOMAIN g
      PROVE  p \in DOMAIN f \/ \E k \in 1 .. L : p = c[k]
  BY <1>2, <1>3
<1>7. ASSUME NEW p \in DOMAIN g
      PROVE  g[p] \in 1 .. m + L /\ (p \notin DOMAIN f => g[p] > m)
  <2>1. CASE p \in DOMAIN f
    <3>1. g[p] \in 1 .. m
      BY <1>5, <2>1
    <3> QED
      BY <2>1, <3>1
  <2>2. CASE p \notin DOMAIN f
    <3>1. PICK k \in 1 .. L : p = c[k]
      BY <1>6, <2>2
    <3>2. g[p] = m + k
      BY <1>4, <3>1
    <3> QED
      BY <3>2
  <2> QED
    BY <2>1, <2>2
<1>8. g \in [DOMAIN g -> 1 .. m + L]
  <2>1. g = [p \in DOMAIN g |-> g[p]]
    BY <1>c, <1>3
  <2> QED
    BY <1>7, <2>1
<1>9. ASSUME NEW p \in DOMAIN g, NEW q \in DOMAIN g, g[p] = g[q]
      PROVE  p = q
  <2>1. CASE p \in DOMAIN f /\ q \in DOMAIN f
    BY <1>1, <1>5, <1>9, <2>1
  <2>2. CASE p \notin DOMAIN f /\ q \notin DOMAIN f
    <3>1. PICK j \in 1 .. L : p = c[j]
      BY <1>6, <2>2
    <3>2. PICK k \in 1 .. L : q = c[k]
      BY <1>6, <2>2
    <3>3. g[p] = m + j /\ g[q] = m + k
      BY <1>4, <3>1, <3>2
    <3>4. m + j = m + k
      BY <1>9, <3>3
    <3>5. j = k
      BY <3>4
    <3> QED
      BY <3>1, <3>2, <3>5
  <2>3. CASE p \in DOMAIN f /\ q \notin DOMAIN f
    <3>1. g[p] \in 1 .. m /\ g[q] > m
      BY <1>5, <1>7, <2>3
    <3> QED
      BY <1>9, <3>1
  <2>4. CASE p \notin DOMAIN f /\ q \in DOMAIN f
    <3>1. g[q] \in 1 .. m /\ g[p] > m
      BY <1>5, <1>7, <2>4
    <3> QED
      BY <1>9, <3>1
  <2> QED
    BY <2>1, <2>2, <2>3, <2>4
<1>10. ASSUME NEW i \in 1 .. m + L
       PROVE  \E p \in DOMAIN g : g[p] = i
  <2>1. CASE i \in 1 .. m
    <3>1. PICK p \in DOMAIN f : f[p] = i
      BY <1>1, <2>1
    <3> QED
      BY <1>5, <3>1
  <2>2. CASE i \notin 1 .. m
    <3>1. i - m \in 1 .. L /\ m + (i - m) = i
      BY <2>2
    <3> QED
      BY <1>4, <3>1
  <2> QED
    BY <2>1, <2>2
<1>11. ASSUME NEW p \in DOMAIN g, NEW q \in DOMAIN g, g[q] = g[p] + 1
       PROVE  NextTo(p, q)
  <2>1. CASE p \in DOMAIN f /\ q \in DOMAIN f
    BY <1>1, <1>5, <1>11, <2>1
  <2>2. CASE p \in DOMAIN f /\ q \notin DOMAIN f
    <3>1. PICK k \in 1 .. L : q = c[k]
      BY <1>6, <2>2
    <3>2. g[q] = m + k /\ g[p] = f[p] /\ f[p] \in 1 .. m
      BY <1>4, <1>5, <2>2, <3>1
    <3>3. k = 1 /\ f[p] = m /\ L > 0
      BY <1>11, <3>2
    <3> QED
      BY <1>b, <2>2, <3>1, <3>3
  <2>3. CASE p \notin DOMAIN f /\ q \notin DOMAIN f
    <3>1. PICK j \in 1 .. L : p = c[j]
      BY <1>6, <2>3
    <3>2. PICK k \in 1 .. L : q = c[k]
      BY <1>6, <2>3
    <3>3. g[p] = m + j /\ g[q] = m + k
      BY <1>4, <3>1, <3>2
    <3>4. k = j + 1 /\ j \in 1 .. L - 1
      BY <1>11, <3>3
    <3> QED
      BY <1>b, <3>1, <3>2, <3>4
  <2>4. CASE p \notin DOMAIN f /\ q \in DOMAIN f
    <3>1. g[q] \in 1 .. m /\ g[p] > m /\ g[p] \in 1 .. m + L
      BY <1>5, <1>7, <2>4
    <3> QED
      BY <1>11, <3>1
  <2> QED
    BY <2>1, <2>2, <2>3, <2>4
<1>12. IsPath(g, m + L)
  BY <1>8, <1>9, <1>10, <1>11 DEF IsPath
<1>13. ASSUME NEW p \in DOMAIN g, g[p] = m + L, L > 0
       PROVE  p = c[L]
  <2>1. L \in 1 .. L
    BY <1>13
  <2> QED
    BY <1>4, <1>9, <1>13, <2>1
<1>14. ASSUME NEW p
       PROVE  p \in DOMAIN g <=> p \in DOMAIN f \/ \E k \in 1 .. L : p = c[k]
  BY <1>2, <1>3
<1> QED
  BY <1>a, <1>12, <1>13, <1>14

\* Two cells that differ by one in one coordinate are next to each other.
LEMMA Neighbours ==
    ASSUME NEW a \in Int, NEW b \in Int, NEW c \in Int, NEW d \in Int,
           \/ a = c /\ (b = d + 1 \/ d = b + 1)
           \/ b = d /\ (a = c + 1 \/ c = a + 1)
    PROVE  NextTo(<<a, b>>, <<c, d>>)
<1>1. PICK x \in Int : x = a - c
  OBVIOUS
<1>2. PICK y \in Int : y = b - d
  OBVIOUS
<1>3. (x = 0 /\ y \in {1, -1}) \/ (y = 0 /\ x \in {1, -1})
  BY <1>1, <1>2
<1>4. 0 * 0 = 0 /\ 1 * 1 = 1 /\ (-1) * (-1) = 1
  OBVIOUS
<1>5. x * x + y * y = 1
  BY <1>3, <1>4
<1> QED
  BY <1>1, <1>2, <1>5 DEF NextTo

\* A row of cells is as long as it says, or empty.
LEMMA RowLength ==
    ASSUME NEW x \in Int, NEW S, NEW d \in [1 .. x -> S]
    PROVE  Len(d) = IF x > 0 THEN x ELSE 0
<1>1. CASE x >= 0
  BY <1>1
<1>2. CASE x < 0
  <2>1. 1 .. x = 1 .. 0
    BY <1>2
  <2>2. d \in [1 .. 0 -> S]
    BY <2>1
  <2> QED
    BY <1>2, <2>2
<1> QED
  BY <1>1, <1>2

\* SideCells and Unreached, of any bounds.
CellsOf(a, tp, bt, lf, rt) ==
    CASE a = 1 -> [k \in 1 .. rt - lf |-> <<tp, lf + k - 1>>]
      [] a = 2 -> [k \in 1 .. bt - tp |-> <<tp + k - 1, rt - 1>>]
      [] a = 3 -> [k \in 1 .. rt - lf |-> <<bt - 1, rt - k>>]
      [] a = 4 -> [k \in 1 .. bt - tp |-> <<bt - k, lf>>]
Within(p, tp, bt, lf, rt) == tp <= p[1] /\ p[1] < bt /\ lf <= p[2] /\ p[2] < rt

\* The cells c are those within the bounds tp, bt, lf and rt that are not within the next
\* ones, in a row that goes on with d.
IsSide(c, d, tp, bt, lf, rt, tp2, bt2, lf2, rt2) ==
    /\ Len(c) \in Nat /\ c \in [1 .. Len(c) -> Int \X Int]
    /\ \A j, k \in 1 .. Len(c) : c[j] = c[k] => j = k
    /\ \A k \in 1 .. Len(c) - 1 : NextTo(c[k], c[k + 1])
    /\ \A k \in 1 .. Len(c) : Within(c[k], tp, bt, lf, rt)
    /\ \A p \in Int \X Int :
         Within(p, tp2, bt2, lf2, rt2) <=>
           Within(p, tp, bt, lf, rt) /\ \A k \in 1 .. Len(c) : p # c[k]
    /\ Len(c) > 0 /\ Len(d) > 0 => NextTo(c[Len(c)], d[1])
    /\ Len(c) = 0 => Len(d) = 0

\* The first side of a turn, from the corner on, is the top row.
LEMMA FirstSide ==
    ASSUME NEW tp \in Int, NEW bt \in Int, NEW lf \in Int, NEW rt \in Int,
           tp = lf, bt = rt, tp < bt
    PROVE  IsSide(CellsOf(1, tp, bt, lf, rt), CellsOf(2, tp + 1, bt, lf, rt),
                  tp, bt, lf, rt, tp + 1, bt, lf, rt)
<1>1. PICK c : c = CellsOf(1, tp, bt, lf, rt)
  OBVIOUS
<1>2. PICK d : d = CellsOf(2, tp + 1, bt, lf, rt)
  OBVIOUS
<1>3. c = [k \in 1 .. rt - lf |-> <<tp, lf + k - 1>>]
  BY <1>1 DEF CellsOf
<1>4. d = [k \in 1 .. bt - (tp + 1) |-> <<tp + 1 + k - 1, rt - 1>>]
  BY <1>2 DEF CellsOf
<1>5. c \in [1 .. rt - lf -> Int \X Int] /\ d \in [1 .. bt - (tp + 1) -> Int \X Int]
  BY <1>3, <1>4
<1>6. PICK n \in Nat : n = Len(c) /\ n = rt - lf /\ n > 0
  <2>1. PICK x \in Int : x = rt - lf /\ x > 0
    OBVIOUS
  <2>2. c \in [1 .. x -> Int \X Int]
    BY <1>5, <2>1
  <2>3. Len(c) = x
    BY <2>1, <2>2, RowLength
  <2> QED
    BY <2>1, <2>3
<1>7. \A k \in 1 .. n : c[k] = <<tp, lf + k - 1>> /\ c[k][1] = tp /\ c[k][2] = lf + k - 1
  BY <1>3, <1>6
<1>8. \A j, k \in 1 .. n : c[j] = c[k] => j = k
  BY <1>7
<1>9. ASSUME NEW k \in 1 .. n - 1
      PROVE  NextTo(c[k], c[k + 1])
  <2>1. k \in 1 .. n /\ k + 1 \in 1 .. n
    BY <1>6
  <2>2. c[k] = <<tp, lf + k - 1>> /\ c[k + 1] = <<tp, lf + (k + 1) - 1>>
    BY <1>7, <2>1
  <2> QED
    BY <1>6, <2>2, Neighbours
<1>10. ASSUME NEW k \in 1 .. n
       PROVE  Within(c[k], tp, bt, lf, rt)
  BY <1>6, <1>7 DEF Within
<1>11. ASSUME NEW p \in Int \X Int
       PROVE  Within(p, tp + 1, bt, lf, rt) <=>
                Within(p, tp, bt, lf, rt) /\ \A k \in 1 .. n : p # c[k]
  <2>1. p[1] \in Int /\ p[2] \in Int /\ p = <<p[1], p[2]>>
    OBVIOUS
  <2>2. ASSUME NEW k \in 1 .. n, p = c[k]
        PROVE  ~(tp + 1 <= p[1])
    BY <1>7, <2>2
  <2>3. ASSUME lf <= p[2], p[2] < rt, p[1] = tp
        PROVE  \E k \in 1 .. n : p = c[k]
    <3>1. p[2] - lf + 1 \in 1 .. n /\ lf + (p[2] - lf + 1) - 1 = p[2]
      BY <1>6, <2>1, <2>3
    <3> QED
      BY <1>7, <2>1, <2>3, <3>1
  <2> QED
    BY <2>1, <2>2, <2>3 DEF Within
<1>12. Len(d) > 0 => NextTo(c[n], d[1])
  <2> SUFFICES ASSUME Len(d) > 0
               PROVE  NextTo(c[n], d[1])
    OBVIOUS
  <2>1. bt - (tp + 1) > 0
    BY <1>5, RowLength
  <2>2. d[1] = <<tp + 1 + 1 - 1, rt - 1>> /\ c[n] = <<tp, lf + n - 1>>
    BY <1>4, <1>6, <1>7, <2>1
  <2> QED
    BY <1>6, <2>2, Neighbours
<1> QED
  BY <1>1, <1>2, <1>5, <1>6, <1>8, <1>9, <1>10, <1>11, <1>12 DEF IsSide

\* The second side is the last column, without the corner.
LEMMA SecondSide ==
    ASSUME NEW tp \in Int, NEW bt \in Int, NEW lf \in Int, NEW rt \in Int,
           tp = lf + 1, bt = rt, lf < rt
    PROVE  IsSide(CellsOf(2, tp, bt, lf, rt), CellsOf(3, tp, bt, lf, rt - 1),
                  tp, bt, lf, rt, tp, bt, lf, rt - 1)
<1>1. PICK c : c = CellsOf(2, tp, bt, lf, rt)
  OBVIOUS
<1>2. PICK d : d = CellsOf(3, tp, bt, lf, rt - 1)
  OBVIOUS
<1>3. c = [k \in 1 .. bt - tp |-> <<tp + k - 1, rt - 1>>]
  BY <1>1 DEF CellsOf
<1>4. d = [k \in 1 .. rt - 1 - lf |-> <<bt - 1, rt - 1 - k>>]
  BY <1>2 DEF CellsOf
<1>5. c \in [1 .. bt - tp -> Int \X Int] /\ d \in [1 .. rt - 1 - lf -> Int \X Int]
  BY <1>3, <1>4
<1>6. PICK n \in Nat : n = Len(c) /\ n = bt - tp
  <2>1. PICK x \in Int : x = bt - tp /\ x >= 0
    OBVIOUS
  <2>2. c \in [1 .. x -> Int \X Int]
    BY <1>5, <2>1
  <2>3. Len(c) = x
    BY <2>1, <2>2, RowLength
  <2> QED
    BY <2>1, <2>3
<1>7. \A k \in 1 .. n : /\ c[k] = <<tp + k - 1, rt - 1>>
                        /\ c[k][1] = tp + k - 1 /\ c[k][2] = rt - 1
  BY <1>3, <1>6
<1>8. \A j, k \in 1 .. n : c[j] = c[k] => j = k
  BY <1>7
<1>9. ASSUME NEW k \in 1 .. n - 1
      PROVE  NextTo(c[k], c[k + 1])
  <2>1. k \in 1 .. n /\ k + 1 \in 1 .. n
    BY <1>6
  <2>2. c[k] = <<tp + k - 1, rt - 1>> /\ c[k + 1] = <<tp + (k + 1) - 1, rt - 1>>
    BY <1>7, <2>1
  <2> QED
    BY <1>6, <2>2, Neighbours
<1>10. ASSUME NEW k \in 1 .. n
       PROVE  Within(c[k], tp, bt, lf, rt)
  BY <1>6, <1>7 DEF Within
<1>11. ASSUME NEW p \in Int \X Int
       PROVE  Within(p, tp, bt, lf, rt - 1) <=>
                Within(p, tp, bt, lf, rt) /\ \A k \in 1 .. n : p # c[k]
  <2>1. p[1] \in Int /\ p[2] \in Int /\ p = <<p[1], p[2]>>
    OBVIOUS
  <2>2. ASSUME NEW k \in 1 .. n, p = c[k]
        PROVE  ~(p[2] < rt - 1)
    BY <1>7, <2>2
  <2>3. ASSUME tp <= p[1], p[1] < bt, p[2] = rt - 1
        PROVE  \E k \in 1 .. n : p = c[k]
    <3>1. p[1] - tp + 1 \in 1 .. n /\ tp + (p[1] - tp + 1) - 1 = p[1]
      BY <1>6, <2>1, <2>3
    <3> QED
      BY <1>7, <2>1, <2>3, <3>1
  <2> QED
    BY <2>1, <2>2, <2>3 DEF Within
<1>12. PICK m \in Nat : m = Len(d) /\ m = n
  <2>1. PICK x \in Int : x = rt - 1 - lf /\ x >= 0 /\ x = n
    BY <1>6
  <2>2. d \in [1 .. x -> Int \X Int]
    BY <1>5, <2>1
  <2>3. Len(d) = x
    BY <2>1, <2>2, RowLength
  <2> QED
    BY <2>1, <2>3
<1>13. n > 0 => NextTo(c[n], d[1])
  <2> SUFFICES ASSUME n > 0
               PROVE  NextTo(c[n], d[1])
    OBVIOUS
  <2>1. c[n] = <<tp + n - 1, rt - 1>>
    BY <1>7
  <2>2. 1 \in 1 .. rt - 1 - lf
    BY <1>6
  <2>3. d[1] = <<bt - 1, rt - 1 - 1>>
    BY <1>4, <2>2
  <2> QED
    BY <1>6, <2>1, <2>3, Neighbours
<1> QED
  BY <1>1, <1>2, <1>5, <1>6, <1>8, <1>9, <1>10, <1>11, <1>12, <1>13 DEF IsSide

\* The third is the bottom row backwards, what is left of it.
LEMMA ThirdSide ==
    ASSUME NEW tp \in Int, NEW bt \in Int, NEW lf \in Int, NEW rt \in Int,
           tp = lf + 1, bt = rt + 1, lf <= rt
    PROVE  IsSide(CellsOf(3, tp, bt, lf, rt), CellsOf(4, tp, bt - 1, lf, rt),
                  tp, bt, lf, rt, tp, bt - 1, lf, rt)
<1>1. PICK c : c = CellsOf(3, tp, bt, lf, rt)
  OBVIOUS
<1>2. PICK d : d = CellsOf(4, tp, bt - 1, lf, rt)
  OBVIOUS
<1>3. c = [k \in 1 .. rt - lf |-> <<bt - 1, rt - k>>]
  BY <1>1 DEF CellsOf
<1>4. d = [k \in 1 .. bt - 1 - tp |-> <<bt - 1 - k, lf>>]
  BY <1>2 DEF CellsOf
<1>5. c \in [1 .. rt - lf -> Int \X Int] /\ d \in [1 .. bt - 1 - tp -> Int \X Int]
  BY <1>3, <1>4
<1>6. PICK n \in Nat : n = Len(c) /\ n = rt - lf
  <2>1. PICK x \in Int : x = rt - lf /\ x >= 0
    OBVIOUS
  <2>2. c \in [1 .. x -> Int \X Int]
    BY <1>5, <2>1
  <2>3. Len(c) = x
    <3>1. CASE x > 0
      BY <2>2, <3>1, RowLength
    <3>2. CASE ~(x > 0)
      BY <2>1, <2>2, <3>2, RowLength
    <3> QED
      BY <3>1, <3>2
  <2> QED
    BY <2>1, <2>3
<1>7. \A k \in 1 .. n : /\ c[k] = <<bt - 1, rt - k>>
                        /\ c[k][1] = bt - 1 /\ c[k][2] = rt - k
  BY <1>3, <1>6
<1>8. \A j, k \in 1 .. n : c[j] = c[k] => j = k
  BY <1>7
<1>9. ASSUME NEW k \in 1 .. n - 1
      PROVE  NextTo(c[k], c[k + 1])
  <2>1. k \in 1 .. n /\ k + 1 \in 1 .. n
    BY <1>6
  <2>2. c[k] = <<bt - 1, rt - k>> /\ c[k + 1] = <<bt - 1, rt - (k + 1)>>
    BY <1>7, <2>1
  <2> QED
    BY <1>6, <2>2, Neighbours
<1>10. ASSUME NEW k \in 1 .. n
       PROVE  Within(c[k], tp, bt, lf, rt)
  BY <1>6, <1>7 DEF Within
<1>11. ASSUME NEW p \in Int \X Int
       PROVE  Within(p, tp, bt - 1, lf, rt) <=>
                Within(p, tp, bt, lf, rt) /\ \A k \in 1 .. n : p # c[k]
  <2>1. p[1] \in Int /\ p[2] \in Int /\ p = <<p[1], p[2]>>
    OBVIOUS
  <2>2. ASSUME NEW k \in 1 .. n, p = c[k]
        PROVE  ~(p[1] < bt - 1)
    BY <1>7, <2>2
  <2>3. ASSUME lf <= p[2], p[2] < rt, p[1] = bt - 1
        PROVE  \E k \in 1 .. n : p = c[k]
    <3>1. rt - p[2] \in 1 .. n /\ rt - (rt - p[2]) = p[2]
      BY <1>6, <2>1, <2>3
    <3> QED
      BY <1>7, <2>1, <2>3, <3>1
  <2> QED
    BY <2>1, <2>2, <2>3 DEF Within
<1>12. PICK m \in Nat : m = Len(d) /\ (n = 0 => m = 0) /\ (m > 0 => bt - 1 - tp > 0)
  <2>1. PICK x \in Int : x = bt - 1 - tp /\ x = n - 1
    BY <1>6
  <2>2. d \in [1 .. x -> Int \X Int]
    BY <1>5, <2>1
  <2>3. Len(d) = IF x > 0 THEN x ELSE 0
    BY <2>1, <2>2, RowLength
  <2> QED
    BY <2>1, <2>3
<1>13. n > 0 /\ m > 0 => NextTo(c[n], d[1])
  <2> SUFFICES ASSUME n > 0, m > 0
               PROVE  NextTo(c[n], d[1])
    OBVIOUS
  <2>1. d[1] = <<bt - 1 - 1, lf>> /\ c[n] = <<bt - 1, rt - n>>
    BY <1>4, <1>6, <1>7, <1>12
  <2> QED
    BY <1>6, <2>1, Neighbours
<1> QED
  BY <1>1, <1>2, <1>5, <1>6, <1>8, <1>9, <1>10, <1>11, <1>12, <1>13 DEF IsSide

\* The fourth is the first column upwards, to the top row, which is filled.
LEMMA FourthSide ==
    ASSUME NEW tp \in Int, NEW bt \in Int, NEW lf \in Int, NEW rt \in Int,
           tp = lf + 1, bt = rt, lf <= rt
    PROVE  IsSide(CellsOf(4, tp, bt, lf, rt), CellsOf(1, tp, bt, lf + 1, rt),
                  tp, bt, lf, rt, tp, bt, lf + 1, rt)
<1>1. PICK c : c = CellsOf(4, tp, bt, lf, rt)
  OBVIOUS
<1>2. PICK d : d = CellsOf(1, tp, bt, lf + 1, rt)
  OBVIOUS
<1>3. c = [k \in 1 .. bt - tp |-> <<bt - k, lf>>]
  BY <1>1 DEF CellsOf
<1>4. d = [k \in 1 .. rt - (lf + 1) |-> <<tp, lf + 1 + k - 1>>]
  BY <1>2 DEF CellsOf
<1>5. c \in [1 .. bt - tp -> Int \X Int] /\ d \in [1 .. rt - (lf + 1) -> Int \X Int]
  BY <1>3, <1>4
<1>6. PICK n \in Nat : n = Len(c) /\ 1 .. bt - tp = 1 .. n /\ n = IF bt > tp THEN bt - tp ELSE 0
  <2>1. PICK x \in Int : x = bt - tp
    OBVIOUS
  <2>2. c \in [1 .. x -> Int \X Int]
    BY <1>5, <2>1
  <2>3. Len(c) = IF x > 0 THEN x ELSE 0
    BY <2>1, <2>2, RowLength
  <2> QED
    BY <2>1, <2>3
<1>7. \A k \in 1 .. n : /\ c[k] = <<bt - k, lf>>
                        /\ c[k][1] = bt - k /\ c[k][2] = lf
  BY <1>3, <1>6
<1>8. \A j, k \in 1 .. n : c[j] = c[k] => j = k
  BY <1>7
<1>9. ASSUME NEW k \in 1 .. n - 1
      PROVE  NextTo(c[k], c[k + 1])
  <2>1. k \in 1 .. n /\ k + 1 \in 1 .. n
    BY <1>6
  <2>2. c[k] = <<bt - k, lf>> /\ c[k + 1] = <<bt - (k + 1), lf>>
    BY <1>7, <2>1
  <2> QED
    BY <1>6, <2>2, Neighbours
<1>10. ASSUME NEW k \in 1 .. n
       PROVE  Within(c[k], tp, bt, lf, rt)
  BY <1>6, <1>7 DEF Within
<1>11. ASSUME NEW p \in Int \X Int
       PROVE  Within(p, tp, bt, lf + 1, rt) <=>
                Within(p, tp, bt, lf, rt) /\ \A k \in 1 .. n : p # c[k]
  <2>1. p[1] \in Int /\ p[2] \in Int /\ p = <<p[1], p[2]>>
    OBVIOUS
  <2>2. ASSUME NEW k \in 1 .. n, p = c[k]
        PROVE  ~(lf + 1 <= p[2])
    BY <1>7, <2>2
  <2>3. ASSUME tp <= p[1], p[1] < bt, p[2] = lf
        PROVE  \E k \in 1 .. n : p = c[k]
    <3>1. bt - p[1] \in 1 .. n /\ bt - (bt - p[1]) = p[1]
      BY <1>6, <2>1, <2>3
    <3> QED
      BY <1>7, <2>1, <2>3, <3>1
  <2> QED
    BY <2>1, <2>2, <2>3 DEF Within
<1>12. PICK m \in Nat : m = Len(d) /\ m = n
  <2>1. PICK x \in Int : x = rt - (lf + 1) /\ x = bt - tp
    OBVIOUS
  <2>2. d \in [1 .. x -> Int \X Int]
    BY <1>5, <2>1
  <2>3. Len(d) = IF x > 0 THEN x ELSE 0
    BY <2>1, <2>2, RowLength
  <2> QED
    BY <1>6, <2>1, <2>3
<1>13. n > 0 => NextTo(c[n], d[1])
  <2> SUFFICES ASSUME n > 0
               PROVE  NextTo(c[n], d[1])
    OBVIOUS
  <2>1. d[1] = <<tp, lf + 1 + 1 - 1>> /\ c[n] = <<bt - n, lf>>
    BY <1>4, <1>6, <1>7
  <2> QED
    BY <1>6, <2>1, Neighbours
<1> QED
  BY <1>1, <1>2, <1>5, <1>6, <1>8, <1>9, <1>10, <1>11, <1>12, <1>13 DEF IsSide

\* A path is as long as its last number says.
LEMMA PathLength ==
    ASSUME NEW f, NEW m \in Nat, IsPath(f, m)
    PROVE  IsFiniteSet(DOMAIN f) /\ Cardinality(DOMAIN f) = m
<1>1. f \in Bijection(DOMAIN f, 1 .. m)
  BY DEF IsPath, Bijection, Injection, Surjection, IsInjective
<1>2. PICK D : D = DOMAIN f
  OBVIOUS
<1>3. IsFiniteSet(1 .. m) /\ Cardinality(1 .. m) = m
  BY FS_Interval
<1>4. ExistsBijection(1 .. m, D)
  <2>1. ExistsBijection(D, 1 .. m)
    BY <1>1, <1>2 DEF ExistsBijection
  <2> QED
    BY <2>1, Fun_ExistsBijSymmetric
<1>5. IsFiniteSet(D) /\ Cardinality(D) = Cardinality(1 .. m)
  BY <1>3, <1>4, FS_Bijection
<1> QED
  BY <1>2, <1>3, <1>5

\* A square has as many cells as its name says.
LEMMA SquareSize ==
    ASSUME NEW n \in Int, n > 0
    PROVE  /\ IsFiniteSet((0 .. n - 1) \X (0 .. n - 1))
           /\ Cardinality((0 .. n - 1) \X (0 .. n - 1)) = n * n
<1>1. PICK S : S = 0 .. n - 1
  OBVIOUS
<1>2. IsFiniteSet(S) /\ Cardinality(S) = n
  <2>1. n - 1 \in Int /\ ~(0 > n - 1) /\ n - 1 - 0 + 1 = n
    OBVIOUS
  <2>2. IsFiniteSet(0 .. n - 1) /\ Cardinality(0 .. n - 1) = IF 0 > n - 1 THEN 0 ELSE n - 1 - 0 + 1
    BY <2>1, FS_Interval
  <2> QED
    BY <1>1, <2>1, <2>2
<1>3. IsFiniteSet(S \X S) /\ Cardinality(S \X S) = Cardinality(S) * Cardinality(S)
  BY <1>2, FS_Product
<1> QED
  BY <1>1, <1>2, <1>3

\* One more side: the spiral goes on, within the square.
LEMMA SpiralStep ==
    ASSUME Spiral, asize \in Int, asize > 0, aside \in 1 .. 4, FillSide
    PROVE  Spiral' /\ aside' \in 1 .. 4
<1>1. PICK t \in 0 .. asize : Bounds(t)
  BY DEF Spiral
<1>2. PICK n \in Int : n = asize /\ n > 0 /\ asize' = n
  BY DEF FillSide
<1>3. PICK tp \in Int : tp = top
  BY <1>1 DEF Bounds
<1>4. PICK bt \in Int : bt = bottom
  <2>1. n - t \in Int /\ n - t - 1 \in Int
    OBVIOUS
  <2>2. bottom = n - t \/ bottom = n - t - 1
    BY <1>1, <1>2 DEF Bounds
  <2> QED
    BY <2>1, <2>2
<1>5. PICK lf \in Int : lf = left
  BY <1>1 DEF Bounds
<1>6. PICK rt \in Int : rt = right
  <2>1. n - t \in Int /\ n - t - 1 \in Int
    OBVIOUS
  <2>2. right = n - t \/ right = n - t - 1
    BY <1>1, <1>2 DEF Bounds
  <2> QED
    BY <2>1, <2>2
<1>7. PICK c : c = SideCells /\ c = CellsOf(aside, tp, bt, lf, rt)
  BY <1>3, <1>4, <1>5, <1>6 DEF SideCells, CellsOf
<1>8. PICK d : d = SideCells'
  OBVIOUS
<1>9. \A p : Unreached(p) <=> Within(p, tp, bt, lf, rt)
  BY <1>3, <1>4, <1>5, <1>6 DEF Unreached, Within
<1>10. PICK m \in Nat : m = anum - 1
  BY DEF Spiral
<1>11. /\ \A p : p \in DOMAIN matrix <=> p \in Square /\ ~Within(p, tp, bt, lf, rt)
       /\ IsPath(matrix, m)
       /\ \A p \in DOMAIN matrix : matrix[p] = m /\ Len(c) > 0 => NextTo(p, c[1])
  BY <1>7, <1>9, <1>10 DEF Spiral
<1>12. Square' = Square /\ Square = (0 .. n - 1) \X (0 .. n - 1)
  BY <1>2 DEF Square
<1>13. ASSUME aside = 1
       PROVE  tp < bt
  <2> SUFFICES ASSUME ~(tp < bt)
               PROVE  FALSE
    BY <1>3, <1>4
  <2>1. \A p : p \in DOMAIN matrix <=> p \in Square
    <3>1. \A p \in Square : ~Within(p, tp, bt, lf, rt)
      BY <1>12 DEF Within
    <3> QED
      BY <1>11, <3>1
  <2>2. DOMAIN matrix = Square
    BY <2>1
  <2>3. IsFiniteSet(Square) /\ Cardinality(Square) = n * n
    BY <1>2, <1>12, SquareSize
  <2>4. Cardinality(Square) = m
    BY <1>11, <2>2, <2>3, PathLength
  <2>5. anum <= n * n
    BY <1>2, <1>13 DEF FillSide
  <2>6. anum \in Nat /\ n * n \in Int
    BY <1>2 DEF Spiral
  <2> QED
    BY <1>10, <2>3, <2>4, <2>5, <2>6
<1>14. PICK tp2 \in Int : tp2 = top' /\ tp2 = IF aside = 1 THEN tp + 1 ELSE tp
  BY <1>3 DEF FillSide
<1>15. PICK bt2 \in Int : bt2 = bottom' /\ bt2 = IF aside = 3 THEN bt - 1 ELSE bt
  BY <1>4 DEF FillSide
<1>16. PICK lf2 \in Int : lf2 = left' /\ lf2 = IF aside = 4 THEN lf + 1 ELSE lf
  BY <1>5 DEF FillSide
<1>17. PICK rt2 \in Int : rt2 = right' /\ rt2 = IF aside = 2 THEN rt - 1 ELSE rt
  BY <1>6 DEF FillSide
<1>18. d = CellsOf(aside', tp2, bt2, lf2, rt2)
  BY <1>8, <1>14, <1>15, <1>16, <1>17 DEF SideCells, CellsOf
<1>19. aside' = (aside % 4) + 1 /\ aside' \in 1 .. 4
  BY DEF FillSide
<1>20. IsSide(c, d, tp, bt, lf, rt, tp2, bt2, lf2, rt2) /\ \E u \in 0 .. n : Bounds(u)'
  <2>1. /\ lf = t
        /\ tp = IF aside = 1 THEN t ELSE t + 1
        /\ rt = IF aside \in {1, 2} THEN n - t ELSE n - t - 1
        /\ bt = IF aside = 4 THEN n - t - 1 ELSE n - t
        /\ IF aside = 1 THEN 2 * t <= n + 1 ELSE 2 * t < n
    BY <1>1, <1>2, <1>3, <1>4, <1>5, <1>6 DEF Bounds
  <2>2. CASE aside = 1
    <3>1. aside' = 2 /\ tp2 = tp + 1 /\ bt2 = bt /\ lf2 = lf /\ rt2 = rt
      BY <1>14, <1>15, <1>16, <1>17, <1>19, <2>2
    <3>2. tp = lf /\ bt = rt /\ tp < bt
      BY <1>13, <2>1, <2>2
    <3>3. IsSide(CellsOf(1, tp, bt, lf, rt), CellsOf(2, tp + 1, bt, lf, rt),
                 tp, bt, lf, rt, tp + 1, bt, lf, rt)
      BY <3>2, FirstSide
    <3>4. Bounds(t)'
      BY <1>2, <1>14, <1>15, <1>16, <1>17, <2>1, <2>2, <3>1, <3>2 DEF Bounds
    <3> QED
      BY <1>2, <1>7, <1>18, <2>2, <3>1, <3>3, <3>4
  <2>3. CASE aside = 2
    <3>1. aside' = 3 /\ tp2 = tp /\ bt2 = bt /\ lf2 = lf /\ rt2 = rt - 1
      BY <1>14, <1>15, <1>16, <1>17, <1>19, <2>3
    <3>2. tp = lf + 1 /\ bt = rt /\ lf < rt
      BY <2>1, <2>3
    <3>3. IsSide(CellsOf(2, tp, bt, lf, rt), CellsOf(3, tp, bt, lf, rt - 1),
                 tp, bt, lf, rt, tp, bt, lf, rt - 1)
      BY <3>2, SecondSide
    <3>4. Bounds(t)'
      BY <1>2, <1>14, <1>15, <1>16, <1>17, <2>1, <2>3, <3>1, <3>2 DEF Bounds
    <3> QED
      BY <1>2, <1>7, <1>18, <2>3, <3>1, <3>3, <3>4
  <2>4. CASE aside = 3
    <3>1. aside' = 4 /\ tp2 = tp /\ bt2 = bt - 1 /\ lf2 = lf /\ rt2 = rt
      BY <1>14, <1>15, <1>16, <1>17, <1>19, <2>4
    <3>2. tp = lf + 1 /\ bt = rt + 1 /\ lf <= rt
      BY <2>1, <2>4
    <3>3. IsSide(CellsOf(3, tp, bt, lf, rt), CellsOf(4, tp, bt - 1, lf, rt),
                 tp, bt, lf, rt, tp, bt - 1, lf, rt)
      BY <3>2, ThirdSide
    <3>4. Bounds(t)'
      BY <1>2, <1>14, <1>15, <1>16, <1>17, <2>1, <2>4, <3>1, <3>2 DEF Bounds
    <3> QED
      BY <1>2, <1>7, <1>18, <2>4, <3>1, <3>3, <3>4
  <2>5. CASE aside = 4
    <3>1. aside' = 1 /\ tp2 = tp /\ bt2 = bt /\ lf2 = lf + 1 /\ rt2 = rt
      BY <1>14, <1>15, <1>16, <1>17, <1>19, <2>5
    <3>2. tp = lf + 1 /\ bt = rt /\ lf <= rt
      BY <2>1, <2>5
    <3>3. IsSide(CellsOf(4, tp, bt, lf, rt), CellsOf(1, tp, bt, lf + 1, rt),
                 tp, bt, lf, rt, tp, bt, lf + 1, rt)
      BY <3>2, FourthSide
    <3>4. PICK u \in 0 .. n : u = t + 1
      BY <1>2, <2>1, <2>5
    <3>5. Bounds(u)'
      BY <1>2, <1>14, <1>15, <1>16, <1>17, <2>1, <2>5, <3>1, <3>2, <3>4 DEF Bounds
    <3> QED
      BY <1>2, <1>7, <1>18, <2>5, <3>1, <3>3, <3>5
  <2> QED
    BY <2>2, <2>3, <2>4, <2>5
<1>21. /\ Len(c) \in Nat /\ c \in [1 .. Len(c) -> Int \X Int]
       /\ \A j, k \in 1 .. Len(c) : c[j] = c[k] => j = k
       /\ \A k \in 1 .. Len(c) - 1 : NextTo(c[k], c[k + 1])
       /\ \A k \in 1 .. Len(c) : Within(c[k], tp, bt, lf, rt)
       /\ \A p \in Int \X Int :
            Within(p, tp2, bt2, lf2, rt2) <=>
              Within(p, tp, bt, lf, rt) /\ \A k \in 1 .. Len(c) : p # c[k]
       /\ Len(c) > 0 /\ Len(d) > 0 => NextTo(c[Len(c)], d[1])
       /\ Len(c) = 0 => Len(d) = 0
  BY <1>20 DEF IsSide
<1>22. PICK L \in Nat : L = Len(c)
  BY <1>21
<1>23. \A k \in 1 .. L : c[k] \notin DOMAIN matrix
  BY <1>11, <1>21, <1>22
<1>24. matrix' = [p \in DOMAIN matrix \cup ToSet(c) |->
                    IF p \in ToSet(c) THEN m + (CHOOSE k \in DOMAIN c : c[k] = p) ELSE matrix[p]]
  BY <1>7, <1>10 DEF FillSide
<1>25. /\ IsPath(matrix', m + L)
       /\ \A p : p \in DOMAIN matrix' <=> p \in DOMAIN matrix \/ \E k \in 1 .. L : p = c[k]
       /\ \A p \in DOMAIN matrix' : matrix'[p] = m + L /\ L > 0 => p = c[L]
  <2>1. /\ c \in [1 .. L -> Int \X Int]
        /\ \A j, k \in 1 .. L : c[j] = c[k] => j = k
        /\ \A k \in 1 .. L - 1 : NextTo(c[k], c[k + 1])
        /\ L > 0 => \A p \in DOMAIN matrix : matrix[p] = m => NextTo(p, c[1])
    BY <1>11, <1>21, <1>22
  <2>2. PICK f : f = matrix
    OBVIOUS
  <2>3. RowGoesOn(c, L, f, m) /\ IsPath(f, m)
    BY <1>11, <1>21, <1>22, <1>23, <2>1, <2>2 DEF RowGoesOn
  <2>4. matrix' = Numbered(f, m, c)
    BY <1>24, <2>2 DEF Numbered
  <2> QED
    BY <2>2, <2>3, <2>4, PathExtended
<1>26. ASSUME NEW p
       PROVE  p \in DOMAIN matrix' <=> p \in Square' /\ ~Within(p, tp2, bt2, lf2, rt2)
  <2>1. ASSUME p \in Square
        PROVE  p \in Int \X Int
    BY <1>12, <2>1
  <2>2. ASSUME NEW k \in 1 .. L
        PROVE  c[k] \in Square /\ ~Within(c[k], tp2, bt2, lf2, rt2)
    <3>1. c[k] \in Int \X Int /\ Within(c[k], tp, bt, lf, rt)
      BY <1>21, <1>22
    <3>2. ~Within(c[k], tp2, bt2, lf2, rt2)
      BY <1>21, <1>22, <3>1
    <3>3. 0 <= tp /\ bt <= n /\ 0 <= lf /\ rt <= n
      BY <1>1, <1>2, <1>3, <1>4, <1>5, <1>6 DEF Bounds
    <3>4. PICK x \in Int, y \in Int : c[k] = <<x, y>>
      BY <3>1
    <3>5. x \in 0 .. n - 1 /\ y \in 0 .. n - 1
      BY <3>1, <3>3, <3>4 DEF Within
    <3> QED
      BY <1>12, <3>2, <3>4, <3>5
  <2>3. CASE p \in DOMAIN matrix
    <3>1. p \in Square /\ ~Within(p, tp, bt, lf, rt)
      BY <1>11, <2>3
    <3>2. ~Within(p, tp2, bt2, lf2, rt2)
      BY <1>21, <2>1, <3>1
    <3> QED
      BY <1>12, <1>25, <2>3, <3>1, <3>2
  <2>4. CASE p \notin DOMAIN matrix
    <3>1. ASSUME p \in Square, ~Within(p, tp2, bt2, lf2, rt2)
          PROVE  \E k \in 1 .. L : p = c[k]
      <4>1. Within(p, tp, bt, lf, rt)
        BY <1>11, <2>4, <3>1
      <4> QED
        BY <1>21, <1>22, <2>1, <3>1, <4>1
    <3> QED
      BY <1>12, <1>25, <2>2, <2>4, <3>1
  <2> QED
    BY <2>3, <2>4
<1>27. ASSUME NEW p \in DOMAIN matrix', matrix'[p] = m + L, Len(d) > 0
       PROVE  NextTo(p, d[1])
  <2>1. L > 0
    BY <1>21, <1>22, <1>27
  <2>2. p = c[L]
    BY <1>25, <1>27, <2>1
  <2> QED
    BY <1>21, <1>22, <1>27, <2>1, <2>2
<1>28. \A p : Unreached(p)' <=> Within(p, tp2, bt2, lf2, rt2)
  BY <1>14, <1>15, <1>16, <1>17 DEF Unreached, Within
<1>29. anum' = m + L + 1 /\ anum' - 1 = m + L /\ anum' \in Nat \ {0}
  BY <1>7, <1>10, <1>22 DEF FillSide, Spiral
<1>30. array' = <<>> /\ typed' = <<>> /\ aout' = <<>>
  BY DEF FillSide, Spiral
<1>31. \E u \in 0 .. asize' : Bounds(u)'
  BY <1>2, <1>20
<1> QED
  <2>1. IsPath(matrix', anum' - 1)
    BY <1>25, <1>29
  <2>2. \A p : p \in DOMAIN matrix' <=> p \in Square' /\ ~Unreached(p)'
    BY <1>26, <1>28
  <2>3. \A p \in DOMAIN matrix' : matrix'[p] = anum' - 1 /\ Len(SideCells') > 0 => NextTo(p, SideCells'[1])
    BY <1>8, <1>27, <1>29
  <2> QED
    BY <1>19, <1>29, <1>30, <1>31, <2>1, <2>2, <2>3 DEF Spiral

\* At the start nothing is filled, and nothing is turned.
LEMMA AInvInit == ArraysInit => AInv
<1> SUFFICES ASSUME ArraysInit
             PROVE  AInv
  OBVIOUS
<1>1. PICK n \in Int : n = asize /\ n > 0 /\ asize \in Sizes
  BY ArraysAssumption DEF ArraysInit
<1>2. /\ aitem \in {"ulitka", "reverse"} /\ aside = 1
      /\ matrix = [p \in {} |-> 0] /\ top = 0 /\ bottom = n /\ left = 0 /\ right = n
      /\ array = typed /\ aout = <<>>
      /\ anum = (IF aitem = "ulitka" THEN 1 ELSE 0)
      /\ typed \in IF aitem = "ulitka" THEN {<<>>} ELSE [0 .. n - 1 -> Elements]
  BY <1>1 DEF ArraysInit
<1>3. CASE aitem = "ulitka"
  <2>1. Bounds(0) /\ 0 \in 0 .. asize
    BY <1>1, <1>2 DEF Bounds
  <2>2. DOMAIN matrix = {}
    BY <1>2
  <2>3. \A p : p \in DOMAIN matrix <=> p \in Square /\ ~Unreached(p)
    BY <1>1, <1>2, <2>2 DEF Square, Unreached
  <2>4. IsPath(matrix, anum - 1) /\ anum \in Nat \ {0}
    <3>1. anum = 1 /\ anum - 1 = 0 /\ 1 .. 0 = {}
      BY <1>2, <1>3
    <3> QED
      BY <1>2, <2>2, <3>1 DEF IsPath
  <2>5. array = <<>> /\ typed = <<>> /\ aout = <<>>
    BY <1>2, <1>3
  <2> QED
    BY <1>1, <1>2, <1>3, <2>1, <2>2, <2>3, <2>4, <2>5 DEF AInv, Spiral
<1>4. CASE aitem = "reverse"
  <2>1. anum = 0 /\ typed \in [0 .. n - 1 -> Elements]
    BY <1>2, <1>4
  <2>2. \A i \in 0 .. n - 1 :
          array[i] = IF i < anum \/ n - 1 - i < anum THEN typed[n - 1 - i] ELSE typed[i]
    BY <1>2, <2>1
  <2>3. Turning
    BY <1>1, <1>2, <2>1, <2>2 DEF Turning
  <2> QED
    BY <1>1, <1>2, <1>4, <2>3 DEF AInv
<1> QED
  BY <1>2, <1>3, <1>4

\* Every step of either keeps it.
LEMMA AInvStep == AInv /\ [ArraysNext]_aVars => AInv'
<1> SUFFICES ASSUME AInv, [ArraysNext]_aVars
             PROVE  AInv'
  OBVIOUS
<1>1. asize \in Sizes /\ asize \in Int /\ asize > 0 /\ aside \in 1 .. 4
  BY ArraysAssumption DEF AInv
<1>2. CASE FillSide
  <2>1. aitem = "ulitka" /\ Spiral /\ UNCHANGED <<aitem, asize>>
    BY <1>2 DEF AInv, FillSide
  <2>2. Spiral' /\ aside' \in 1 .. 4
    BY <1>1, <1>2, <2>1, SpiralStep
  <2> QED
    BY <1>1, <2>1, <2>2 DEF AInv
<1>3. CASE TurnElement
  <2>1. /\ aitem = "reverse" /\ Turning
        /\ top = 0 /\ bottom = asize /\ left = 0 /\ right = asize
        /\ UNCHANGED <<aitem, asize, spiralVars>>
    BY <1>3 DEF AInv, TurnElement
  <2>2. Turning'
    BY <1>1, <1>3, <2>1, TurningStep
  <2> QED
    BY <1>1, <2>1, <2>2 DEF AInv, spiralVars
<1>4. CASE UNCHANGED aVars
  <2>1. CASE aitem = "ulitka" /\ Spiral
    <3>1. PICK u \in 0 .. asize : Bounds(u)
      BY <2>1 DEF Spiral
    <3>2. Bounds(u)' /\ u \in 0 .. asize'
      BY <1>4, <3>1 DEF aVars, Bounds
    <3>3. SideCells' = SideCells
      BY <1>4 DEF aVars, SideCells
    <3>4. Spiral'
      BY <1>4, <2>1, <3>2, <3>3 DEF aVars, Spiral, Square, Unreached
    <3> QED
      BY <1>1, <1>4, <2>1, <3>4 DEF aVars, AInv
  <2>2. CASE aitem = "reverse"
    BY <1>4, <2>2 DEF aVars, AInv, Turning
  <2> QED
    BY <2>1, <2>2 DEF AInv
<1> QED
  BY <1>2, <1>3, <1>4 DEF ArraysNext

\* It is the types, the square without gap and the array turned round.
LEMMA APromises == AInv => ArraysTypeOK /\ SpiralUnbroken /\ TurnedRound
<1> SUFFICES ASSUME AInv
             PROVE  ArraysTypeOK /\ SpiralUnbroken /\ TurnedRound
  OBVIOUS
<1>1. PICK n \in Int : n = asize /\ n > 0
  BY ArraysAssumption DEF AInv
<1>2. asize \in Sizes /\ aside \in 1 .. 4
  BY DEF AInv
<1>3. CASE aitem = "ulitka"
  <2>1. Spiral
    BY <1>3 DEF AInv
  <2>2. PICK t \in 0 .. n : Bounds(t)
    BY <1>1, <2>1 DEF Spiral
  <2>3. {top, bottom, left, right} \subseteq 0 .. asize
    <3>1. IF aside = 1 THEN 2 * t <= n + 1 ELSE 2 * t < n
      BY <1>1, <2>2 DEF Bounds
    <3>2. n - t \in 0 .. n
      OBVIOUS
    <3>3. aside # 1 => n - t - 1 \in 0 .. n /\ t + 1 \in 0 .. n
      BY <3>1
    <3>4. left = t /\ (top = t \/ (aside # 1 /\ top = t + 1))
      BY <2>2 DEF Bounds
    <3>5. right = n - t \/ (aside # 1 /\ right = n - t - 1)
      BY <1>1, <2>2 DEF Bounds
    <3>6. bottom = n - t \/ (aside # 1 /\ bottom = n - t - 1)
      BY <1>1, <2>2 DEF Bounds
    <3> QED
      BY <1>1, <3>2, <3>3, <3>4, <3>5, <3>6
  <2>4. PICK m \in Nat : m = anum - 1 /\ anum = m + 1
    BY <2>1 DEF Spiral
  <2>5. /\ IsPath(matrix, m) /\ array = <<>> /\ typed = <<>> /\ aout = <<>>
        /\ \A p : p \in DOMAIN matrix <=> p \in Square /\ ~Unreached(p)
    BY <2>1, <2>4 DEF Spiral
  <2>6. IsFiniteSet(DOMAIN matrix) /\ Cardinality(DOMAIN matrix) = m
    BY <2>5, PathLength
  <2>7. \A p, q \in DOMAIN matrix : matrix[q] = matrix[p] + 1 => NextTo(p, q)
    BY <2>5 DEF IsPath
  <2>8. DOMAIN matrix \subseteq Square /\ Square = (0 .. n - 1) \X (0 .. n - 1)
    BY <1>1, <2>5 DEF Square
  <2>9. ASSUME aside = 1, anum > n * n
        PROVE  DOMAIN matrix = Square
    <3>1. IsFiniteSet(Square) /\ Cardinality(Square) = n * n
      BY <1>1, <2>8, SquareSize
    <3>2. PICK D : D = DOMAIN matrix
      OBVIOUS
    <3>3. n * n \in Int /\ m >= n * n
      BY <2>4, <2>9
    <3>4. /\ Cardinality(D) <= Cardinality(Square)
          /\ Cardinality(D) = Cardinality(Square) => D = Square
      BY <2>8, <3>1, <3>2, FS_Subset
    <3>5. Cardinality(D) = n * n
      BY <2>6, <3>1, <3>2, <3>3, <3>4
    <3> QED
      BY <3>1, <3>2, <3>4, <3>5
  <2>10. ArraysTypeOK
    <3>1. Len(aout) <= asize /\ DOMAIN array = DOMAIN typed /\ anum \in Nat
      BY <1>1, <2>4, <2>5
    <3> QED
      BY <1>2, <1>3, <2>3, <3>1 DEF ArraysTypeOK
  <2>11. SpiralUnbroken
    BY <1>1, <2>4, <2>6, <2>7, <2>8, <2>9 DEF SpiralUnbroken, NextTo
  <2> QED
    BY <1>3, <2>10, <2>11 DEF TurnedRound
<1>4. CASE aitem = "reverse"
  <2>1. /\ Turning /\ top = 0 /\ bottom = n /\ left = 0 /\ right = n
    BY <1>1, <1>4 DEF AInv
  <2>2. /\ typed \in [0 .. n - 1 -> Elements] /\ array \in [0 .. n - 1 -> Elements]
        /\ anum \in 0 .. n /\ aout \in Seq(Elements) /\ Len(aout) = anum
        /\ \A k \in 1 .. anum : aout[k] = typed[n - k]
        /\ \A i \in 0 .. n - 1 :
             array[i] = IF i < anum \/ n - 1 - i < anum THEN typed[n - 1 - i] ELSE typed[i]
    BY <1>1, <2>1 DEF Turning
  <2>3. ArraysTypeOK
    BY <1>1, <1>2, <1>4, <2>1, <2>2 DEF ArraysTypeOK
  <2>4. \A k \in DOMAIN aout : aout[k] = typed[asize - k]
    BY <1>1, <2>2
  <2>5. anum = asize => \A i \in DOMAIN array : array[i] = typed[asize - 1 - i]
    BY <1>1, <2>2
  <2> QED
    BY <1>4, <2>3, <2>4, <2>5 DEF TurnedRound, SpiralUnbroken
<1> QED
  BY <1>3, <1>4 DEF AInv

\* ulitka(): whatever the size, the spiral stays in the square and goes on from cell to
\* cell until none is left. reverse_output(): the array is turned round.
THEOREM ArraysAreRight == ArraysSpec => [](ArraysTypeOK /\ SpiralUnbroken /\ TurnedRound)
<1>1. ArraysSpec => []AInv
  BY AInvInit, AInvStep, PTL DEF ArraysSpec
<1> QED
  BY <1>1, APromises, PTL

-------------------------------------------------------------------------------
(* TaxiInput                                                                     *)

\* At the start all lines are in a file, or not written.
LEMMA TiInvInit == TiInit => TiTypeOK
<1> SUFFICES ASSUME TiInit
             PROVE  TiTypeOK
  OBVIOUS
<1>1. tkernel \in {0, InputLines} /\ tkernel + 0 + 0 \in Nat /\ tkernel + 0 + 0 <= InputLines
  BY TaxiInputAssumption DEF TiInit
<1>2. {tpatient, tclosed, tended} \subseteq BOOLEAN
  BY DEF TiInit
<1> QED
  BY <1>1, <1>2, TaxiInputAssumption DEF TiInit, TiTypeOK, Written

\* A line is written, read into the buffer or served once; none is made up.
LEMMA TiInvStep == TiTypeOK /\ [TiNext]_tVars => TiTypeOK'
<1> SUFFICES ASSUME TiTypeOK, [TiNext]_tVars
             PROVE  TiTypeOK'
  OBVIOUS
<1>1. /\ tinput \in {"terminal", "file", "pipe"} /\ {tpatient, tclosed, tended} \subseteq BOOLEAN
      /\ tkernel \in Nat /\ tbuffer \in Nat /\ tserved \in Nat
      /\ tkernel + tbuffer + tserved <= InputLines /\ InputLines \in Nat
  BY TaxiInputAssumption DEF TiTypeOK, Written
<1>2. CASE Writes
  BY <1>1, <1>2 DEF Writes, TiTypeOK, Written
<1>3. CASE Closes
  BY <1>1, <1>3 DEF Closes, TiTypeOK, Written
<1>4. CASE TakesLine
  <2>1. CASE tbuffer + Fills = 0
    <3>1. /\ tended' = AtEnd
          /\ UNCHANGED <<tkernel, tbuffer, tserved, tinput, tpatient, tclosed>>
      BY <1>4, <2>1 DEF TakesLine
    <3>2. tended' \in BOOLEAN
      BY <3>1 DEF AtEnd
    <3> QED
      BY <1>1, <3>1, <3>2 DEF TiTypeOK, Written
  <2>2. CASE tbuffer + Fills # 0
    <3>1. PICK m \in Nat : m = Fills /\ m <= tkernel
      BY <1>1 DEF Fills
    <3>2. /\ tkernel' = tkernel - m /\ tbuffer' = tbuffer + m - 1 /\ tserved' = tserved + 1
          /\ UNCHANGED <<tinput, tpatient, tclosed, tended>>
      BY <1>4, <2>2, <3>1 DEF TakesLine
    <3> QED
      BY <1>1, <2>2, <3>1, <3>2 DEF TiTypeOK, Written
  <2> QED
    BY <2>1, <2>2
<1>5. CASE UNCHANGED tVars
  BY <1>1, <1>5 DEF tVars, TiTypeOK, Written
<1> QED
  BY <1>2, <1>3, <1>4, <1>5 DEF TiNext

\* The lines of an input are counted right.
THEOREM InputTypeCorrect == TiSpec => []TiTypeOK
  BY TiInvInit, TiInvStep, PTL DEF TiSpec

-------------------------------------------------------------------------------
(* Packets                                                                       *)

\* A multiple of a number is none, or as large.
LEMMA MultipleLarge ==
    ASSUME NEW d \in Nat \ {0}, NEW q \in Int
    PROVE  (q > 0 => q * d >= d) /\ (q = 0 => q * d = 0) /\ (q < 0 => q * d <= -d)
  OBVIOUS

\* Products of sums and differences.
LEMMA Distributes ==
    ASSUME NEW a \in Int, NEW b \in Int, NEW c \in Int
    PROVE  (a - b) * c = a * c - b * c /\ (a + b) * c = a * c + b * c
<1>1. (a - b) * c = a * c - b * c
  OBVIOUS
<1>2. (a + b) * c = a * c + b * c
  OBVIOUS
<1> QED
  BY <1>1, <1>2

\* Division with remainder.
LEMMA Division ==
    ASSUME NEW d \in Nat \ {0}, NEW z \in Nat
    PROVE  \E q \in Nat : \E r \in 0 .. d - 1 : q = z \div d /\ r = z % d /\ z = q * d + r
<1>1. PICK q \in Nat : q = z \div d
  OBVIOUS
<1>2. PICK r \in 0 .. d - 1 : r = z % d
  OBVIOUS
<1>3. z = q * d + r
  BY <1>1, <1>2, Z3
<1> QED
  BY <1>1, <1>2, <1>3

\* The remainder is the only one.
LEMMA Remainder ==
    ASSUME NEW d \in Nat \ {0}, NEW z \in Nat, NEW q \in Int, NEW r \in 0 .. d - 1, z = q * d + r
    PROVE  z % d = r
<1>1. PICK p \in Nat, s \in 0 .. d - 1 : p = z \div d /\ s = z % d /\ z = p * d + s
  BY Division
<1>2. s = z % d /\ z = p * d + s
  BY <1>1
<1>3. (q - p) * d = q * d - p * d
  BY Distributes
<1>4. (q - p) * d = s - r
  BY <1>2, <1>3
<1>5. q - p \in Int /\ (q - p > 0 => (q - p) * d >= d) /\ (q - p < 0 => (q - p) * d <= -d)
  BY MultipleLarge
<1>6. q - p = 0
  BY <1>4, <1>5
<1>7. (q - p) * d = 0
  BY <1>6
<1> QED
  BY <1>2, <1>4, <1>7


\* A byte has two values or more; a word is two bytes.
LEMMA Bases ==
    /\ ByteBase \in Nat /\ ByteBase >= 2 /\ WordBase \in Nat /\ WordBase = ByteBase * ByteBase
    /\ AllOnes \in Nat \ {0} /\ WordBase = AllOnes + 1
<1>1. PICK b \in Nat : b = ByteBase /\ b >= 2
  BY PacketsAssumption
<1>2. b * b \in Nat /\ b * b >= b
  BY <1>1, MultipleLarge
<1> QED
  BY <1>1, <1>2 DEF WordBase, AllOnes

\* Two bytes make a word, in either order.
LEMMA TwoBytes ==
    ASSUME NEW h \in 0 .. ByteBase - 1, NEW l \in 0 .. ByteBase - 1
    PROVE  /\ h * ByteBase + l \in 0 .. AllOnes
           /\ (h * ByteBase + l = 0 => h = 0 /\ l = 0)
<1>1. PICK b \in Nat : b = ByteBase /\ b >= 2 /\ AllOnes = b * b - 1
  BY Bases
<1>2. PICK p \in Int : p = h * b
  BY <1>1
<1>3. (b - 1 - h) * b = (b - 1) * b - h * b /\ (b - 1) * b = b * b - 1 * b
  <2>1. b - 1 \in Int /\ h \in Int /\ b \in Int /\ 1 \in Int
    BY <1>1
  <2> QED
    BY <2>1, Distributes
<1>4. PICK c \in Nat : c = b - 1 - h
  BY <1>1
<1>5. c * b >= 0
  <2>1. b \in Nat \ {0} /\ c \in Int
    BY <1>1
  <2>2. (c > 0 => c * b >= b) /\ (c = 0 => c * b = 0)
    BY <2>1, MultipleLarge
  <2> QED
    BY <2>2, <1>1
<1>6. p >= 0 /\ (h > 0 => p >= b) /\ (h = 0 => p = 0)
  <2>1. b \in Nat \ {0} /\ h \in Int
    BY <1>1
  <2>2. (h > 0 => h * b >= b) /\ (h = 0 => h * b = 0)
    BY <2>1, MultipleLarge
  <2> QED
    BY <1>1, <1>2, <2>2
<1>7. PICK q \in Int : q = b * b
  BY <1>1
<1>8. p <= q - b
  <2>1. 1 * b = b
    BY <1>1
  <2> QED
    BY <1>2, <1>3, <1>4, <1>5, <1>7, <2>1
<1> QED
  BY <1>1, <1>2, <1>6, <1>7, <1>8

\* The words of a sequence of bytes.
LEMMA WordsFacts ==
    ASSUME NEW s \in Seq(0 .. ByteBase - 1)
    PROVE  \E m \in Nat :
             /\ WordsOf(s) \in Seq(Nat) /\ Len(WordsOf(s)) = m
             /\ Len(s) = 2 * m \/ Len(s) = 2 * m - 1
             /\ \A i \in 1 .. m : WordsOf(s)[i] = WordAt(s, 2 * i - 1)
<1>1. PICK n \in Nat : n = Len(s)
  OBVIOUS
<1>2. PICK m \in Nat : m = (n + 1) \div 2 /\ (n = 2 * m \/ n = 2 * m - 1)
  OBVIOUS
<1>3. WordsOf(s) = [i \in 1 .. m |-> WordAt(s, 2 * i - 1)]
  BY <1>1, <1>2 DEF WordsOf
<1>4. ASSUME NEW i \in 1 .. m
      PROVE  WordAt(s, 2 * i - 1) \in Nat
  <2>1. PICK j \in 1 .. n : j = 2 * i - 1
    BY <1>2
  <2>2. s[j] \in 0 .. ByteBase - 1 /\ (j < n => s[j + 1] \in 0 .. ByteBase - 1)
    <3>1. PICK S : S = 0 .. ByteBase - 1
      OBVIOUS
    <3>2. s \in Seq(S) /\ j \in 1 .. Len(s) /\ (j < n => j + 1 \in 1 .. Len(s))
      BY <1>1, <3>1
    <3>3. \A d \in 1 .. Len(s) : s[d] \in S
      BY <3>2
    <3> QED
      BY <3>1, <3>2, <3>3
  <2>3. PICK h \in 0 .. ByteBase - 1 : h = s[j]
    BY <2>2
  <2>4. PICK l \in 0 .. ByteBase - 1 : l = IF j < n THEN s[j + 1] ELSE 0
    BY <2>2, Bases
  <2>5. WordAt(s, j) = h * ByteBase + l
    BY <1>1, <2>3, <2>4 DEF WordAt
  <2>6. h * ByteBase + l \in 0 .. AllOnes
    BY TwoBytes
  <2> QED
    BY <2>1, <2>5, <2>6, Bases
<1>5. WordsOf(s) \in [1 .. m -> Nat]
  BY <1>3, <1>4
<1>6. WordsOf(s) \in Seq(Nat) /\ Len(WordsOf(s)) = m
  BY <1>5
<1> QED
  BY <1>1, <1>2, <1>3, <1>6

\* f is the running sum of the words w.
IsSums(f, w) ==
    /\ f \in [0 .. Len(w) -> Int] /\ f[0] = 0
    /\ \A i \in 1 .. Len(w) : f[i] = f[i - 1] + w[i]

\* Words have a running sum.
LEMMA SumsExist ==
    ASSUME NEW w \in Seq(Nat)
    PROVE  \E f : IsSums(f, w)
<1>1. PICK n \in Nat : n = Len(w)
  OBVIOUS
<1>2. PICK v : v = w /\ v \in [1 .. n -> Int]
  BY <1>1
<1>3. PICK a \in Int : a = 1
  OBVIOUS
<1>4. PICK f \in [0 .. n -> Int] : f = [i \in 0 .. n |-> IF i = 0 THEN 0 ELSE a * f[i - 1] + v[i]]
  BY <1>2, RecurrenceExists
<1>5. f[0] = 0
  BY <1>4
<1>6. ASSUME NEW i \in 1 .. n
      PROVE  f[i] = f[i - 1] + v[i]
  <2>1. f[i] = a * f[i - 1] + v[i]
    BY <1>4
  <2>2. i - 1 \in 0 .. n
    BY <1>1
  <2>3. PICK x \in Int : x = f[i - 1]
    BY <1>4, <2>2
  <2>4. a * x = x
    BY <1>3
  <2> QED
    BY <2>1, <2>3, <2>4
<1> QED
  BY <1>1, <1>2, <1>4, <1>5, <1>6 DEF IsSums

\* OnesSum is the remainder of that sum.
LEMMA OnesSumFacts ==
    ASSUME NEW w \in Seq(Nat), NEW f, IsSums(f, w)
    PROVE  OnesSum(w) = IF f[Len(w)] = 0 THEN 0 ELSE ((f[Len(w)] - 1) % AllOnes) + 1
<1>1. PICK n \in Nat : n = Len(w)
  OBVIOUS
<1>2. /\ DOMAIN f = 0 .. n /\ f = [i \in 0 .. n |-> f[i]] /\ f[0] = 0
      /\ \A i \in 1 .. n : f[i] = f[i - 1] + w[i]
  BY <1>1 DEF IsSums
<1> DEFINE IsTotal(u) == u = [i \in 0 .. Len(w) |-> IF i = 0 THEN 0 ELSE u[i - 1] + w[i]]
<1>3. IsTotal(f)
  <2>1. \A i \in 0 .. n : f[i] = IF i = 0 THEN 0 ELSE f[i - 1] + w[i]
    BY <1>2
  <2> QED
    BY <1>1, <1>2, <2>1
<1>4. PICK t : t = CHOOSE u : IsTotal(u)
  OBVIOUS
<1>5. IsTotal(t)
  BY <1>3, <1>4
<1>6. /\ DOMAIN t = 0 .. n /\ t = [i \in 0 .. n |-> t[i]]
      /\ \A i \in 0 .. n : t[i] = IF i = 0 THEN 0 ELSE t[i - 1] + w[i]
  BY <1>1, <1>5
<1> DEFINE Differ == {i \in 0 .. n : t[i] # f[i]}
<1>7. ASSUME Differ # {}
      PROVE  FALSE
  <2>1. Differ \in SUBSET Nat
    OBVIOUS
  <2>2. PICK k \in Differ : \A j \in Differ : k <= j
    <3> HIDE DEF Differ
    <3> QED
      BY <1>7, <2>1, LeastNumber
  <2>3. k \in 0 .. n /\ t[k] # f[k]
    BY <2>2
  <2>4. k # 0
    BY <1>2, <1>6, <2>3
  <2>5. k - 1 \in 0 .. n /\ k - 1 < k /\ k \in 1 .. n
    BY <2>3, <2>4
  <2>6. t[k - 1] = f[k - 1]
    BY <2>2, <2>5
  <2> QED
    BY <1>2, <1>6, <2>3, <2>4, <2>5, <2>6
<1>8. t[n] = f[n]
  BY <1>7
<1>9. OnesSum(w) = IF t[n] = 0 THEN 0 ELSE ((t[n] - 1) % AllOnes) + 1
  BY <1>1, <1>4 DEF OnesSum
<1> QED
  BY <1>1, <1>8, <1>9

\* A word is added to a sum that is known up to a multiple of all ones: they make all
\* ones if that sum and the word do.
LEMMA WordCompletes ==
    ASSUME NEW w \in Seq(Nat), NEW f, IsSums(f, w),
           NEW s \in 0 .. AllOnes, NEW k \in Nat, f[Len(w)] = s + k * AllOnes,
           NEW x \in 1 .. AllOnes
    PROVE  OnesSum(w \o <<x>>) = AllOnes <=> s + x = AllOnes \/ s + x = AllOnes + AllOnes
<1>1. PICK M \in Nat \ {0} : M = AllOnes
  BY Bases
<1>2. PICK n \in Nat : n = Len(w)
  OBVIOUS
<1>3. PICK p \in Nat : p = k * M
  BY <1>1
<1>4. PICK v : v = w \o <<x>>
  OBVIOUS
<1>5. v \in Seq(Nat) /\ Len(v) = n + 1 /\ v[n + 1] = x /\ \A i \in 1 .. n : v[i] = w[i]
  BY <1>1, <1>2, <1>4
<1>6. PICK g : g = [i \in 0 .. n + 1 |-> IF i = n + 1 THEN s + p + x ELSE f[i]]
  OBVIOUS
<1>7. f[n] = s + p /\ s + p \in Int /\ s + p + x \in Int
  BY <1>1, <1>2, <1>3
<1>8. IsSums(g, v)
  <2>1. f \in [0 .. n -> Int] /\ f[0] = 0 /\ \A i \in 1 .. n : f[i] = f[i - 1] + w[i]
    BY <1>2 DEF IsSums
  <2>2. g \in [0 .. n + 1 -> Int] /\ g[0] = 0
    BY <1>6, <1>7, <2>1
  <2>3. ASSUME NEW i \in 1 .. n + 1
        PROVE  g[i] = g[i - 1] + v[i]
    <3>1. CASE i = n + 1
      <4>1. g[n + 1] = s + p + x /\ g[n] = f[n]
        BY <1>6
      <4> QED
        BY <1>5, <1>7, <3>1, <4>1
    <3>2. CASE i # n + 1
      <4>1. i \in 1 .. n /\ i - 1 \in 0 .. n
        BY <3>2
      <4>2. g[i] = f[i] /\ g[i - 1] = f[i - 1]
        BY <1>6, <4>1
      <4> QED
        BY <1>5, <2>1, <4>1, <4>2
    <3> QED
      BY <3>1, <3>2
  <2> QED
    BY <1>5, <2>2, <2>3 DEF IsSums
<1>9. PICK z \in Nat : z = s + p + x - 1
  BY <1>1
<1>10. OnesSum(v) = (z % M) + 1
  <2>1. g[n + 1] = s + p + x /\ s + p + x # 0
    BY <1>1, <1>6
  <2>2. OnesSum(v) = IF g[n + 1] = 0 THEN 0 ELSE ((g[n + 1] - 1) % AllOnes) + 1
    BY <1>5, <1>8, OnesSumFacts
  <2> QED
    BY <1>1, <1>9, <2>1, <2>2
<1>11. CASE s + x <= M
  <2>1. PICK r \in 0 .. M - 1 : r = s + x - 1
    BY <1>1, <1>11
  <2>2. z = k * M + r
    BY <1>1, <1>3, <1>9, <2>1
  <2>3. z % M = r
    BY <2>2, Remainder
  <2> QED
    BY <1>1, <1>4, <1>10, <1>11, <2>1, <2>3
<1>12. CASE s + x > M
  <2>1. PICK r \in 0 .. M - 1 : r = s + x - 1 - M
    BY <1>1, <1>12
  <2>2. PICK q \in Int : q = k + 1
    OBVIOUS
  <2>3. q * M = k * M + M
    <3>1. (k + 1) * M = k * M + 1 * M
      BY <1>1, Distributes
    <3>2. 1 * M = M
      BY <1>1
    <3> QED
      BY <2>2, <3>1, <3>2
  <2>4. PICK y \in Int : y = q * M
    BY <1>1
  <2>5. z = y + r
    BY <1>1, <1>3, <1>9, <2>1, <2>3, <2>4
  <2>6. z % M = r
    BY <2>4, <2>5, Remainder
  <2> QED
    BY <1>1, <1>4, <1>10, <1>12, <2>1, <2>6
<1> QED
  BY <1>1, <1>11, <1>12

\* The words that are summed, and the number of those that have been.
AllWords == WordsOf(pkpseudo) \o WordsOf(pkdata)

Summed(j) ==
    /\ pkpart = "pseudo" => pkpos = 2 * j /\ pkpos <= Len(pkpseudo)
    /\ pkpart = "data" =>
         \E i \in Nat : /\ j = Len(WordsOf(pkpseudo)) + i /\ pkpos <= Len(pkdata)
                        /\ pkpos = 2 * i \/ (pkpos = 2 * i - 1 /\ pkpos = Len(pkdata))
    /\ pkpart = "done" => j = Len(AllWords)

\* The sum of those words is pksum and a multiple of all ones: what the folding of the
\* carries takes away.
SumKept ==
    \E f : IsSums(f, AllWords) /\
      \E j \in 0 .. Len(AllWords), k \in Nat : Summed(j) /\ f[j] = pksum + k * AllOnes

PkInv ==
    /\ PkTypeOK /\ PayloadInside
    /\ pkpart \in {"pseudo", "data", "done"} => SumKept
    /\ pkpart = "done" => pksum <= AllOnes /\ pkcheck = NotZero(AllOnes - pksum)

\* The bytes and their words.
LEMMA PkFacts ==
    ASSUME PkTypeOK
    PROVE  \E a, b \in Nat :
             /\ pkpseudo \in Seq(0 .. ByteBase - 1) /\ pkdata \in Seq(0 .. ByteBase - 1)
             /\ Len(pkpseudo) = 2 * a /\ Len(WordsOf(pkpseudo)) = a
             /\ Len(pkdata) = 2 * b \/ Len(pkdata) = 2 * b - 1
             /\ AllWords \in Seq(Nat) /\ Len(AllWords) = a + b
             /\ \A i \in 1 .. a : AllWords[i] = WordAt(pkpseudo, 2 * i - 1)
             /\ \A i \in 1 .. b : AllWords[a + i] = WordAt(pkdata, 2 * i - 1)
<1>1. PICK S : S = 0 .. ByteBase - 1
  OBVIOUS
<1>2. pkpseudo \in Seq(S) /\ Len(pkpseudo) % 2 = 0
  BY <1>1, PacketsAssumption DEF PkTypeOK
<1>3. pkdata \in Seq(S)
  <2>1. <<>> \in Seq(S)
    OBVIOUS
  <2> QED
    BY <1>1, <2>1, PacketsAssumption DEF PkTypeOK
<1>4. PICK a \in Nat :
        /\ WordsOf(pkpseudo) \in Seq(Nat) /\ Len(WordsOf(pkpseudo)) = a
        /\ Len(pkpseudo) = 2 * a \/ Len(pkpseudo) = 2 * a - 1
        /\ \A i \in 1 .. a : WordsOf(pkpseudo)[i] = WordAt(pkpseudo, 2 * i - 1)
  BY <1>1, <1>2, WordsFacts
<1>5. PICK b \in Nat :
        /\ WordsOf(pkdata) \in Seq(Nat) /\ Len(WordsOf(pkdata)) = b
        /\ Len(pkdata) = 2 * b \/ Len(pkdata) = 2 * b - 1
        /\ \A i \in 1 .. b : WordsOf(pkdata)[i] = WordAt(pkdata, 2 * i - 1)
  BY <1>1, <1>3, WordsFacts
<1>6. Len(pkpseudo) = 2 * a
  BY <1>2, <1>4
<1>7. PICK p : p = WordsOf(pkpseudo) /\ p \in Seq(Nat) /\ Len(p) = a
  BY <1>4
<1>8. PICK d : d = WordsOf(pkdata) /\ d \in Seq(Nat) /\ Len(d) = b
  BY <1>5
<1>9. AllWords = p \o d
  BY <1>7, <1>8 DEF AllWords
<1>10. AllWords \in Seq(Nat) /\ Len(AllWords) = a + b
  BY <1>7, <1>8, <1>9
<1>11. \A i \in 1 .. a : AllWords[i] = p[i]
  BY <1>7, <1>8, <1>9
<1>12. ASSUME NEW i \in 1 .. b
       PROVE  AllWords[a + i] = d[i]
  <2>1. PICK x \in Nat : x = a + i /\ x > a /\ x <= a + b /\ x - a = i
    OBVIOUS
  <2>2. \A y \in 1 .. Len(p) + Len(d) :
          (p \o d)[y] = IF y <= Len(p) THEN p[y] ELSE d[y - Len(p)]
    BY <1>7, <1>8, ConcatProperties
  <2>3. x \in 1 .. Len(p) + Len(d) /\ ~(x <= Len(p))
    BY <1>7, <1>8, <2>1
  <2>4. AllWords[x] = d[x - a]
    BY <1>7, <1>9, <2>2, <2>3
  <2> QED
    BY <2>1, <2>4
<1> QED
  BY <1>1, <1>2, <1>3, <1>4, <1>5, <1>6, <1>7, <1>8, <1>10, <1>11, <1>12

\* At the start nothing is summed.
LEMMA PkInvInit == PkInit => PkInv
<1> SUFFICES ASSUME PkInit
             PROVE  PkInv
  OBVIOUS
<1>1. PkTypeOK
  <2>1. pkpseudo \in PseudoHeaders /\ pkdata \in Datagrams \cup {<<>>}
    BY DEF PkInit
  <2>2. Len(pkpseudo) \in Nat /\ Len(pkdata) \in Nat
    <3>1. PICK S : S = 0 .. ByteBase - 1
      OBVIOUS
    <3>2. pkpseudo \in Seq(S) /\ (pkdata \in Seq(S) \/ pkdata = <<>>)
      BY <2>1, <3>1, PacketsAssumption
    <3> QED
      BY <3>2
  <2>3. 0 \in 0 .. Len(pkpseudo) + Len(pkdata)
    BY <2>2
  <2>4. 0 \in 0 .. AllOnes
    BY Bases
  <2> QED
    BY <2>1, <2>3, <2>4 DEF PkInit, PkTypeOK
<1>2. PayloadInside /\ pkpart \in {"pseudo", "parse"}
  BY DEF PkInit, PayloadInside
<1>3. ASSUME pkpart = "pseudo"
      PROVE  SumKept
  <2>1. PICK a, b \in Nat : AllWords \in Seq(Nat) /\ Len(AllWords) = a + b /\ Len(pkpseudo) = 2 * a
    BY <1>1, PkFacts
  <2>2. PICK f : IsSums(f, AllWords)
    BY <2>1, SumsExist
  <2>3. 0 \in 0 .. Len(AllWords) /\ Summed(0)
    BY <1>3, <2>1 DEF Summed, PkInit
  <2>4. f[0] = pksum + 0 * AllOnes
    BY <2>2, Bases DEF IsSums, PkInit
  <2> QED
    BY <2>2, <2>3, <2>4 DEF SumKept
<1> QED
  BY <1>1, <1>2, <1>3 DEF PkInv

\* A loop over the bytes, and the folds, keep the sum.
LEMMA SumSteps ==
    ASSUME PkTypeOK, SumKept, AddWord \/ AddLast
    PROVE  PkTypeOK' /\ SumKept'
<1>1. PICK a, b \in Nat :
             /\ pkpseudo \in Seq(0 .. ByteBase - 1) /\ pkdata \in Seq(0 .. ByteBase - 1)
             /\ Len(pkpseudo) = 2 * a /\ Len(WordsOf(pkpseudo)) = a
             /\ Len(pkdata) = 2 * b \/ Len(pkdata) = 2 * b - 1
             /\ AllWords \in Seq(Nat) /\ Len(AllWords) = a + b
             /\ \A i \in 1 .. a : AllWords[i] = WordAt(pkpseudo, 2 * i - 1)
             /\ \A i \in 1 .. b : AllWords[a + i] = WordAt(pkdata, 2 * i - 1)
  BY PkFacts
<1>2. PICK f :
        /\ IsSums(f, AllWords)
        /\ \E j \in 0 .. Len(AllWords), k \in Nat : Summed(j) /\ f[j] = pksum + k * AllOnes
  BY DEF SumKept
<1>3. PICK j \in 0 .. a + b, k \in Nat : Summed(j) /\ f[j] = pksum + k * AllOnes
  BY <1>1, <1>2
<1>4. /\ f \in [0 .. a + b -> Int]
      /\ \A i \in 1 .. a + b : f[i] = f[i - 1] + AllWords[i]
  BY <1>1, <1>2 DEF IsSums
<1>5. /\ pkpart \in {"pseudo", "data"}
      /\ UNCHANGED <<pkpart, pkpseudo, pkdata, pkcheck, pkt, pkout>>
  BY DEF AddWord, AddLast
<1>6. PICK c \in Seq(0 .. ByteBase - 1), n \in Nat :
        c = Bytes /\ n = Len(c) /\ c = IF pkpart = "pseudo" THEN pkpseudo ELSE pkdata
  BY <1>1, <1>5 DEF Bytes
<1>7. PICK i \in Nat :
        /\ pkpos = 2 * i /\ 2 * i < n /\ i + 1 \in Nat
        /\ j + 1 \in 1 .. a + b /\ AllWords[j + 1] = WordAt(c, 2 * i + 1)
        /\ pkpart = "pseudo" => i = j
        /\ pkpart = "data" => j = a + i
  <2>1. pkpos < n
    BY <1>6 DEF AddWord, AddLast, PkTypeOK
  <2>2. CASE pkpart = "pseudo"
    <3>1. pkpos = 2 * j /\ c = pkpseudo /\ n = 2 * a
      BY <1>1, <1>3, <1>6, <2>2 DEF Summed
    <3>2. j + 1 \in 1 .. a /\ 2 * (j + 1) - 1 = 2 * j + 1
      BY <1>3, <2>1, <3>1
    <3>3. AllWords[j + 1] = WordAt(pkpseudo, 2 * (j + 1) - 1)
      BY <1>1, <3>2
    <3> QED
      BY <1>3, <2>1, <2>2, <3>1, <3>2, <3>3
  <2>3. CASE pkpart = "data"
    <3>1. PICK d \in Nat : /\ j = a + d /\ pkpos <= Len(pkdata)
                           /\ pkpos = 2 * d \/ (pkpos = 2 * d - 1 /\ pkpos = Len(pkdata))
      BY <1>1, <1>3, <2>3 DEF Summed
    <3>2. c = pkdata /\ n = Len(pkdata)
      BY <1>6, <2>3
    <3>3. pkpos = 2 * d /\ 2 * d < n
      BY <2>1, <3>1, <3>2
    <3>4. d + 1 \in 1 .. b /\ 2 * (d + 1) - 1 = 2 * d + 1 /\ a + (d + 1) = j + 1
      BY <1>1, <3>1, <3>2, <3>3
    <3>5. AllWords[a + (d + 1)] = WordAt(pkdata, 2 * (d + 1) - 1)
      BY <1>1, <3>4
    <3> QED
      BY <1>3, <2>3, <3>1, <3>2, <3>3, <3>4, <3>5
  <2> QED
    BY <1>5, <2>2, <2>3
<1>8. PICK w \in Nat : w = WordAt(c, 2 * i + 1) /\ pksum' = pksum + w
  <2>1. 2 * i + 1 \in 1 .. n /\ (2 * i + 1 < n => 2 * i + 2 \in 1 .. n)
    BY <1>7
  <2>2. PICK h \in 0 .. ByteBase - 1 : h = c[2 * i + 1]
    BY <1>6, <2>1, Bases
  <2>3. PICK p \in Nat : p = h * ByteBase
    BY Bases
  <2>4. CASE AddWord
    <3>1. 2 * i + 1 < n
      BY <1>6, <1>7, <2>4 DEF AddWord
    <3>2. PICK l \in 0 .. ByteBase - 1 : l = c[2 * i + 2] /\ l \in Nat
      BY <1>6, <2>1, <3>1, Bases
    <3>3. WordAt(c, 2 * i + 1) = p + l
      <4>1. (2 * i + 1) + 1 = 2 * i + 2
        OBVIOUS
      <4> QED
        BY <1>6, <2>2, <2>3, <3>1, <3>2, <4>1 DEF WordAt
    <3>4. pksum' = pksum + p + l
      BY <1>6, <1>7, <2>2, <2>3, <2>4, <3>2 DEF AddWord
    <3> QED
      BY <3>2, <3>3, <3>4 DEF PkTypeOK
  <2>5. CASE AddLast
    <3>1. ~(2 * i + 1 < n)
      BY <1>6, <1>7, <2>5 DEF AddLast
    <3>2. WordAt(c, 2 * i + 1) = p + 0
      BY <1>6, <2>2, <2>3, <3>1 DEF WordAt
    <3>3. pksum' = pksum + p
      BY <1>6, <1>7, <2>2, <2>3, <2>5 DEF AddLast, LastByte
    <3> QED
      BY <3>2, <3>3 DEF PkTypeOK
  <2> QED
    BY <2>4, <2>5
<1>9. f[j + 1] = pksum' + k * AllOnes
  <2>1. f[j + 1] = f[j] + w
    <3>1. (j + 1) - 1 = j
      OBVIOUS
    <3> QED
      BY <1>4, <1>7, <1>8, <3>1
  <2>2. PICK m \in Nat : m = k * AllOnes
    BY Bases
  <2> QED
    BY <1>3, <1>8, <2>1, <2>2 DEF PkTypeOK
<1>10. \/ pkpos' = 2 * i + 2 /\ pkpos' <= n
       \/ pkpos' = 2 * i + 1 /\ pkpos' = n
  <2>1. CASE AddWord
    <3>1. pkpos + 1 < n /\ pkpos' = pkpos + 2
      BY <1>6, <2>1 DEF AddWord
    <3> QED
      BY <1>7, <3>1
  <2>2. CASE AddLast
    <3>1. pkpos + 1 = n /\ pkpos' = pkpos + 1
      BY <1>6, <2>2 DEF AddLast
    <3> QED
      BY <1>7, <3>1
  <2> QED
    BY <2>1, <2>2
<1>11. Summed(j + 1)'
  <2>1. CASE pkpart = "pseudo"
    <3>1. n = Len(pkpseudo) /\ n = 2 * a /\ i = j
      BY <1>1, <1>6, <1>7, <2>1
    <3>2. pkpos' = 2 * (j + 1) /\ pkpos' <= n
      BY <1>10, <3>1
    <3> QED
      BY <1>5, <2>1, <3>1, <3>2 DEF Summed
  <2>2. CASE pkpart = "data"
    <3>1. n = Len(pkdata) /\ j + 1 = a + (i + 1)
      BY <1>6, <1>7, <2>2
    <3>2. pkpos' <= Len(pkdata)
      BY <1>10, <3>1
    <3>3. pkpos' = 2 * (i + 1) \/ (pkpos' = 2 * (i + 1) - 1 /\ pkpos' = Len(pkdata))
      BY <1>10, <3>1
    <3> QED
      BY <1>1, <1>5, <1>7, <2>2, <3>1, <3>2, <3>3 DEF Summed
  <2> QED
    BY <1>5, <2>1, <2>2
<1>12. PkTypeOK'
  <2>1. Len(pkpseudo) \in Nat /\ Len(pkdata) \in Nat /\ n \in {Len(pkpseudo), Len(pkdata)}
    BY <1>1, <1>6
  <2>2. pkpos' \in 0 .. Len(pkpseudo) + Len(pkdata)
    BY <1>10, <2>1
  <2>3. pksum' \in Nat
    BY <1>8 DEF PkTypeOK
  <2> QED
    BY <1>5, <2>2, <2>3 DEF PkTypeOK
<1>13. AllWords' = AllWords
  BY <1>5 DEF AllWords
<1>14. PICK j2 \in 0 .. Len(AllWords)' : j2 = j + 1
  <2>1. Len(AllWords)' = a + b
    BY <1>1, <1>13
  <2> QED
    BY <1>7, <2>1
<1>15. Summed(j2)' /\ f[j2] = pksum' + k * AllOnes
  BY <1>9, <1>11, <1>14
<1>16. IsSums(f, AllWords')
  BY <1>2, <1>13
<1> QED
  BY <1>12, <1>14, <1>15, <1>16 DEF SumKept

\* A fold takes a multiple of all ones away.
LEMMA FoldKeeps ==
    ASSUME PkTypeOK, SumKept, FoldCarry
    PROVE  PkTypeOK' /\ SumKept'
<1>1. PICK f :
        /\ IsSums(f, AllWords)
        /\ \E j \in 0 .. Len(AllWords), k \in Nat : Summed(j) /\ f[j] = pksum + k * AllOnes
  BY DEF SumKept
<1>2. PICK n : n = Len(AllWords)
  OBVIOUS
<1>3. PICK j \in 0 .. n, k \in Nat : Summed(j) /\ f[j] = pksum + k * AllOnes
  BY <1>1, <1>2
<1>4. PICK q \in Nat, r \in 0 .. WordBase - 1 : pksum' = r + q /\ pksum = q * WordBase + r
  <2>1. PICK s \in Nat : s = pksum
    BY DEF PkTypeOK
  <2>2. WordBase \in Nat \ {0}
    BY Bases
  <2>3. \E q \in Nat : \E r \in 0 .. WordBase - 1 : q = s \div WordBase /\ r = s % WordBase /\ s = q * WordBase + r
    BY <2>2, Division
  <2>4. pksum' = (s % WordBase) + (s \div WordBase)
    BY <2>1 DEF FoldCarry
  <2> QED
    BY <2>1, <2>3, <2>4
<1>5. r \in Nat
  BY Bases
<1>6. PICK M \in Nat : M = AllOnes /\ WordBase = M + 1
  BY Bases
<1>7. q * WordBase = q * M + q
  BY <1>6
<1>8. (k + q) * M = k * M + q * M
  BY <1>6, Distributes
<1>9. PICK x \in Nat : x = k * M
  BY <1>6
<1>10. PICK y \in Nat : y = q * M
  BY <1>6
<1>11. PICK m \in Nat : m = k + q
  OBVIOUS
<1>12. f[j] = pksum' + m * AllOnes
  <2>1. f[j] = y + q + r + x
    BY <1>3, <1>4, <1>5, <1>6, <1>7, <1>9, <1>10
  <2>2. m * AllOnes = x + y
    BY <1>6, <1>8, <1>9, <1>10, <1>11
  <2> QED
    BY <1>4, <1>5, <2>1, <2>2
<1>13. UNCHANGED <<pkpart, pkpseudo, pkdata, pkpos, pkcheck, pkt, pkout>> /\ pksum' \in Nat
  BY <1>4, <1>5 DEF FoldCarry
<1>14. AllWords' = AllWords /\ Summed(j)'
  BY <1>3, <1>13 DEF AllWords, Summed
<1>15. j \in 0 .. Len(AllWords)' /\ IsSums(f, AllWords)'
  BY <1>1, <1>2, <1>14
<1>16. SumKept'
  BY <1>12, <1>14, <1>15 DEF SumKept
<1> QED
  BY <1>13, <1>16 DEF PkTypeOK

\* The end of a loop is the end of its bytes.
LEMMA PartSteps ==
    ASSUME PkTypeOK, SumKept, PseudoDone \/ DataDone
    PROVE  PkTypeOK' /\ SumKept'
<1>1. PICK a, b \in Nat :
             /\ Len(pkpseudo) = 2 * a /\ Len(WordsOf(pkpseudo)) = a
             /\ Len(pkdata) = 2 * b \/ Len(pkdata) = 2 * b - 1
             /\ Len(AllWords) = a + b
  BY PkFacts
<1>2. PICK f :
        /\ IsSums(f, AllWords)
        /\ \E j \in 0 .. Len(AllWords), k \in Nat : Summed(j) /\ f[j] = pksum + k * AllOnes
  BY DEF SumKept
<1>3. PICK j \in 0 .. a + b, k \in Nat : Summed(j) /\ f[j] = pksum + k * AllOnes
  BY <1>1, <1>2
<1>4. UNCHANGED <<pkpseudo, pkdata, pksum, pkt, pkout>> /\ AllWords' = AllWords
  BY DEF PseudoDone, DataDone, AllWords
<1>5. pkpart' \in {"data", "done"} /\ pkpos' \in 0 .. Len(pkpseudo) + Len(pkdata) /\ Summed(j)'
  <2>1. CASE PseudoDone
    <3>1. 2 * j = 2 * a
      BY <1>1, <1>3, <2>1 DEF PseudoDone, Summed
    <3>2. j = a
      BY <3>1
    <3>3. pkpart' = "data" /\ pkpos' = 0
      BY <2>1 DEF PseudoDone
    <3>4. Len(pkdata) \in Nat
      <4>1. Len(pkdata) \in Int /\ Len(pkdata) >= 0
        <5>1. PICK d : d = pkdata
          OBVIOUS
        <5>2. d \in Seq(0 .. ByteBase - 1)
          BY <5>1, PkFacts
        <5> QED
          BY <5>1, <5>2
      <4> QED
        BY <4>1
    <3>5. Summed(j)'
      <4>1. j = Len(WordsOf(pkpseudo))' + 0 /\ 0 \in Nat /\ pkpos' <= Len(pkdata)' /\ pkpos' = 2 * 0
        BY <1>1, <1>4, <3>2, <3>3, <3>4
      <4> QED
        BY <3>3, <4>1 DEF Summed
    <3> QED
      BY <1>1, <3>3, <3>4, <3>5
  <2>2. CASE DataDone
    <3>1. PICK i \in Nat : /\ j = a + i
                           /\ pkpos = 2 * i \/ pkpos = 2 * i - 1
      BY <1>1, <1>3, <2>2 DEF DataDone, Summed
    <3>2. pkpos = 2 * b \/ pkpos = 2 * b - 1
      BY <1>1, <2>2 DEF DataDone
    <3>3. i = b
      BY <3>1, <3>2
    <3>4. pkpart' = "done" /\ pkpos' = pkpos
      BY <2>2 DEF DataDone
    <3>5. Summed(j)'
      BY <1>1, <1>4, <3>1, <3>3, <3>4 DEF Summed
    <3> QED
      BY <3>4, <3>5 DEF PkTypeOK
  <2> QED
    BY <2>1, <2>2
<1>6. pkcheck' \in 0 .. AllOnes
  <2>1. CASE PseudoDone
    BY <2>1 DEF PseudoDone, PkTypeOK
  <2>2. CASE DataDone
    <3>1. pksum \in Nat /\ pksum <= AllOnes
      BY <2>2, Bases DEF DataDone, PkTypeOK
    <3> QED
      BY <2>2, <3>1, Bases DEF DataDone, NotZero
  <2> QED
    BY <2>1, <2>2
<1>7. PkTypeOK'
  BY <1>4, <1>5, <1>6 DEF PkTypeOK
<1>8. SumKept'
  BY <1>1, <1>2, <1>3, <1>4, <1>5 DEF SumKept
<1> QED
  BY <1>7, <1>8

\* The payload of a packet that is accepted.
LEMMA ParseIsSafe ==
    ASSUME PkTypeOK, Parse
    PROVE  PkTypeOK' /\ PayloadInside'
<1>1. PICK l, v, h, p, u \in Nat :
        pkt = [len |-> l, version |-> v, ihl |-> h, protocol |-> p, ulen |-> u]
  BY PacketsAssumption DEF PkTypeOK, NoPacket
<1>2. pkt' = pkt /\ UNCHANGED <<pkpseudo, pkdata, pkpos, pksum, pkcheck>> /\ pkpart' = "parsed"
  BY DEF Parse
<1>3. Accepts4(pkt) <=>
        /\ l >= 20 /\ v = 4 /\ h * 4 >= 20 /\ l >= h * 4 + 8 /\ p = 17
        /\ u >= 8 /\ l >= h * 4 + u
  BY <1>1 DEF Accepts4, HoldsDatagram, IpHeader, UdpHeader, UdpProtocol
<1>4. pkout' = IF Accepts4(pkt) THEN [offset |-> h * 4 + 8, len |-> u - 8] ELSE Refused
  BY <1>1 DEF Parse, UdpHeader
<1>5. ASSUME pkout' # Refused
      PROVE  pkout'.offset >= IpHeader + UdpHeader /\ pkout'.offset + pkout'.len <= pkt'.len
  BY <1>1, <1>2, <1>3, <1>4, <1>5 DEF IpHeader, UdpHeader
<1>6. ASSUME NEW n \in 0 .. pkt'.len, pkt' = BuiltPacket(n)
      PROVE  pkout' = [offset |-> IpHeader + UdpHeader, len |-> n]
  <2>1. n \in Nat
    BY <1>1, <1>2
  <2>2. l = 28 + n /\ v = 4 /\ h = 5 /\ p = 17 /\ u = 8 + n
    <3>1. BuiltPacket(n) = [len |-> 20 + 8 + n, version |-> 4, ihl |-> 20 \div 4, protocol |-> 17,
                            ulen |-> 8 + n]
      BY DEF BuiltPacket, IpHeader, UdpHeader, UdpProtocol
    <3>2. 20 \div 4 = 5
      OBVIOUS
    <3> QED
      BY <1>1, <1>2, <1>6, <2>1, <3>1, <3>2
  <2>3. pkout' = [offset |-> h * 4 + 8, len |-> u - 8]
    BY <1>3, <1>4, <2>1, <2>2
  <2>4. h * 4 + 8 = 28 /\ u - 8 = n
    BY <2>1, <2>2
  <2> QED
    BY <2>3, <2>4 DEF IpHeader, UdpHeader
<1>7. PayloadInside'
  BY <1>5, <1>6 DEF PayloadInside
<1> QED
  BY <1>2, <1>7 DEF PkTypeOK

\* Every step keeps it.
LEMMA PkInvStep == PkInv /\ [PkNext]_pkVars => PkInv'
<1> SUFFICES ASSUME PkInv, [PkNext]_pkVars
             PROVE  PkInv'
  OBVIOUS
<1>1. /\ PkTypeOK /\ PayloadInside
      /\ pkpart \in {"pseudo", "data", "done"} => SumKept
      /\ pkpart = "done" => pksum <= AllOnes /\ pkcheck = NotZero(AllOnes - pksum)
  BY DEF PkInv
<1>2. CASE AddWord \/ AddLast
  <2>1. pkpart \in {"pseudo", "data"} /\ pkpart' = pkpart
    BY <1>2 DEF AddWord, AddLast
  <2>2. PkTypeOK' /\ SumKept'
    BY <1>1, <1>2, <2>1, SumSteps
  <2> QED
    BY <2>1, <2>2 DEF PkInv, PayloadInside
<1>3. CASE FoldCarry
  <2>1. pkpart \in {"pseudo", "data"} /\ pkpart' = pkpart
    BY <1>3 DEF FoldCarry
  <2>2. PkTypeOK' /\ SumKept'
    BY <1>1, <1>3, <2>1, FoldKeeps
  <2> QED
    BY <2>1, <2>2 DEF PkInv, PayloadInside
<1>4. CASE PseudoDone \/ DataDone
  <2>1. pkpart \in {"pseudo", "data"} /\ pkpart' \in {"data", "done"}
    BY <1>4 DEF PseudoDone, DataDone
  <2>2. PkTypeOK' /\ SumKept'
    BY <1>1, <1>4, <2>1, PartSteps
  <2>3. pkpart' = "done" => pksum' <= AllOnes /\ pkcheck' = NotZero(AllOnes - pksum')
    BY <1>1, <1>4, Bases DEF PseudoDone, DataDone, PkTypeOK
  <2> QED
    BY <2>1, <2>2, <2>3 DEF PkInv, PayloadInside
<1>5. CASE Parse
  <2>1. pkpart' = "parsed" /\ PkTypeOK' /\ PayloadInside'
    BY <1>1, <1>5, ParseIsSafe DEF Parse
  <2> QED
    BY <2>1 DEF PkInv
<1>6. CASE UNCHANGED pkVars
  <2>1. UNCHANGED <<pkpart, pkpseudo, pkdata, pkpos, pksum, pkcheck, pkt, pkout>>
    BY <1>6 DEF pkVars
  <2>2. AllWords' = AllWords
    BY <2>1 DEF AllWords
  <2>3. SumKept => SumKept'
    BY <2>1, <2>2 DEF SumKept, Summed
  <2> QED
    BY <1>1, <2>1, <2>3 DEF PkInv, PkTypeOK, PayloadInside
<1> QED
  BY <1>2, <1>3, <1>4, <1>5, <1>6 DEF PkNext

\* A byte swap gives a word, and 0 only for 0.
LEMMA SwappedFacts ==
    ASSUME NEW c \in 1 .. AllOnes
    PROVE  Swapped(c) \in 1 .. AllOnes
<1>1. PICK b \in Nat \ {0} : b = ByteBase /\ AllOnes = b * b - 1
  BY Bases
<1>2. c \in Nat
  BY Bases
<1>3. PICK h \in Nat, l \in 0 .. b - 1 : h = c \div b /\ l = c % b /\ c = h * b + l
  BY <1>1, <1>2, Division
<1>4. h \in 0 .. b - 1
  <2> SUFFICES ASSUME h >= b
               PROVE  FALSE
    BY <1>1
  <2>1. (h - b) * b = h * b - b * b
    BY <1>1, Distributes
  <2>2. PICK d \in Nat : d = h - b
    OBVIOUS
  <2>3. d * b >= 0
    BY <1>1
  <2>4. PICK x \in Int : x = h * b
    BY <1>1
  <2>5. PICK y \in Int : y = b * b
    BY <1>1
  <2> QED
    BY <1>1, <1>2, <1>3, <2>1, <2>2, <2>3, <2>4, <2>5
<1>5. l * b + h \in 0 .. AllOnes /\ (l * b + h = 0 => l = 0 /\ h = 0)
  BY <1>1, <1>4, TwoBytes
<1>6. ~(l = 0 /\ h = 0)
  BY <1>1, <1>2, <1>3
<1>7. Swapped(c) = l * b + h
  BY <1>1, <1>3 DEF Swapped
<1> QED
  BY <1>5, <1>6, <1>7, Bases

\* The checksum that is stored completes the sum, and no other word does.
LEMMA PkPromises == PkInv => PkTypeOK /\ ChecksumVerifies /\ PayloadInside
<1> SUFFICES ASSUME PkInv, pkpart = "done"
             PROVE  /\ pkcheck # 0 /\ Received(pkcheck) = AllOnes
                    /\ Received(Swapped(pkcheck)) = AllOnes <=> Swapped(pkcheck) = pkcheck
  BY DEF PkInv, ChecksumVerifies
<1>1. PkTypeOK /\ SumKept /\ pksum <= AllOnes /\ pkcheck = NotZero(AllOnes - pksum)
  BY DEF PkInv
<1>2. PICK w : w = AllWords /\ w \in Seq(Nat)
  BY <1>1, PkFacts
<1>3. PICK f : IsSums(f, w) /\ \E j \in 0 .. Len(w), k \in Nat : Summed(j) /\ f[j] = pksum + k * AllOnes
  BY <1>1, <1>2 DEF SumKept
<1>4. PICK k \in Nat : f[Len(w)] = pksum + k * AllOnes
  BY <1>2, <1>3 DEF Summed
<1>5. PICK s \in 0 .. AllOnes : s = pksum
  BY <1>1, Bases DEF PkTypeOK
<1>6. PICK c \in 1 .. AllOnes : c = pkcheck /\ (s + c = AllOnes \/ (s = AllOnes /\ c = AllOnes))
  BY <1>1, <1>5, Bases DEF NotZero
<1>7. ASSUME NEW x \in 1 .. AllOnes
      PROVE  Received(x) = AllOnes <=> x = c
  <2>1. Received(x) = OnesSum(w \o <<x>>)
    BY <1>2 DEF Received, AllWords
  <2>2. OnesSum(w \o <<x>>) = AllOnes <=> s + x = AllOnes \/ s + x = AllOnes + AllOnes
    BY <1>2, <1>3, <1>4, <1>5, WordCompletes
  <2>3. s + x = AllOnes \/ s + x = AllOnes + AllOnes <=> x = c
    BY <1>6, Bases
  <2> QED
    BY <2>1, <2>2, <2>3
<1>8. Received(c) = AllOnes /\ c # 0
  BY <1>7, Bases
<1>9. Swapped(c) \in 1 .. AllOnes
  BY SwappedFacts
<1>10. Received(Swapped(c)) = AllOnes <=> Swapped(c) = c
  BY <1>7, <1>9
<1> QED
  BY <1>6, <1>8, <1>10

\* rawudp_udp_checksum(): whatever the headers and the data, the checksum is not 0, a
\* receiver that checks finds all ones, and bytes that are stored swapped are found to be
\* wrong unless they are equal. rawudp_parse_ipv4_udp(): the payload it returns lies
\* inside the packet, and a packet built here gives its payload back.
THEOREM PacketsAreRight == PkSpec => [](PkTypeOK /\ ChecksumVerifies /\ PayloadInside)
<1>1. PkSpec => []PkInv
  BY PkInvInit, PkInvStep, PTL DEF PkSpec
<1> QED
  BY <1>1, PkPromises, PTL
===============================================================================
