------------------------------ MODULE PhoneBook -------------------------------
(* What both phone books of the repository promise: the entries are kept in the *)
(* order in which they were added, a listing numbers them, and a removal takes   *)
(* out the entry that a listing would give the number typed, or none if there is *)
(* no such entry.                                                                *)
EXTENDS Integers, Sequences, SequencesExt

CONSTANTS
    Entries,            \* struct abonent
    NoNumber,           \* no removal
    NegativeIsFirst     \* a negative number takes the first entry, instead of none

VARIABLES
    entries,            \* the book
    printed,            \* the numbered entries last listed
    number              \* what the last turn, if a removal, was told to take out

Numbered(I) == {[number |-> i - 1, entry |-> entries[i]] : i \in I}

PhoneBookInit == entries = <<>> /\ printed = {} /\ number = NoNumber

Quiet == printed' = {} /\ number' = NoNumber /\ UNCHANGED entries

Insert ==
    /\ printed' = {} /\ number' = NoNumber
    /\ entries' \in {Append(entries, e) : e \in Entries}

\* The place of the entry that is listed under number n.
Place(n) == IF n < 0 /\ NegativeIsFirst THEN 1 ELSE n + 1

Delete ==
    /\ printed' = {} /\ number' \in Int
    /\ entries' = IF Place(number') \in DOMAIN entries
                  THEN RemoveAt(entries, Place(number')) ELSE entries

\* The program ends.
Discard == printed' = {} /\ number' = NoNumber /\ entries' = <<>>

\* A listing is of all entries, or of those that share a name.
List ==
    /\ \/ printed' = Numbered(DOMAIN entries)
       \/ \E e \in Entries :
            printed' = Numbered({i \in DOMAIN entries : entries[i].name = e.name})
    /\ number' = NoNumber /\ UNCHANGED entries

PhoneBookNext == Quiet \/ Insert \/ Delete \/ Discard \/ List

PhoneBookSpec == PhoneBookInit /\ [][PhoneBookNext]_<<entries, printed, number>>
===============================================================================
