------------------------------- MODULE BookMenu -------------------------------
(* The menu loop that the phone books of src/functions/functions.c and           *)
(* src/dynmem/dynmem.c share, and what scanf() makes of what the user types: a    *)
(* %d that meets anything but a number leaves it unread and its variable alone,   *)
(* a %s takes the next word whatever it is.  Words fit their buffers.             *)
EXTENDS Integers, Sequences, FiniteSets

CONSTANTS
    Numbers,        \* what %d may read: menu items and indices
    Words,          \* what %s may read
    Blank,          \* the content of memory nobody wrote
    Eof,            \* no more input
    AllRead,        \* nothing typed is unread
    NoNumber        \* no number was asked for

\* choice and number are ints that start as 0.
ASSUME BookMenuAssumption == Numbers \subseteq Int /\ 0 \in Numbers /\ NoNumber \notin Int

\* struct abonent; second_name and tel are read, kept and moved alike: "tel".
Entries == [name : Words \cup {Blank}, tel : Words \cup {Blank}]

VARIABLES
    choice,         \* choice of main()
    unread,         \* the word, if any, at which a %d gave up
    running,
    number          \* number of remove_abonent(), if the last turn came to its %d

menu == <<choice, unread, running, number>>

MenuTypeOK ==
    /\ choice \in Numbers
    /\ unread \in Words \cup {Eof, AllRead}
    /\ running \in BOOLEAN
    /\ number \in Numbers \cup {NoNumber}

MenuStarts(choices) ==
    choice \in choices /\ unread = AllRead /\ running = TRUE /\ number = NoNumber

\* scanf("%d") with u unread, into a variable whose value is one of olds.
ScanNumber(u, olds) ==
    IF u = AllRead
    THEN [value : Numbers, unread : {AllRead}] \cup [value : olds, unread : Words \cup {Eof}]
    ELSE [value : olds, unread : {u}]

\* scanf("%s"), likewise.
ScanWord(u, olds) ==
    CASE u = AllRead -> [value : Words, unread : {AllRead}] \cup [value : olds, unread : {Eof}]
      [] u = Eof     -> [value : olds, unread : {Eof}]
      [] OTHER       -> [value : {u}, unread : {AllRead}]

\* The ways in which the menu comes to item k.
Chosen(k) == {s \in ScanNumber(unread, {choice}) : s.value = k}

\* A turn of the loop that comes to item k, with what its handler leaves unread.
Turn(k, u) == running /\ choice' = k /\ unread' = u /\ number' = NoNumber

\* A turn in which remove_abonent() has scanned r.
RemoveTurn(r) == running /\ choice' = 2 /\ unread' = r.unread /\ number' = r.value

\* Any other number: a message.
OtherItem ==
    \E k \in Numbers \ 1 .. 5 : \E s \in Chosen(k) : Turn(k, s.unread) /\ UNCHANGED running
===============================================================================
