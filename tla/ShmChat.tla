------------------------------- MODULE ShmChat -------------------------------
(* src/shared_memory/chat.h, chat_server.c and chat_client.c: a chat whose      *)
(* messages live in a System V shared memory segment under a semaphore.  The    *)
(* server sets both up and removes both; a client has a main thread that joins, *)
(* a sender thread at the prompt and a receiver thread that polls.  lock_sem()  *)
(* ignores the result of semop(): a wait that a signal interrupts, or whose     *)
(* semaphore is removed, goes on as if the lock were held.                      *)
EXTENDS Naturals, Sequences, FiniteSets

CONSTANTS
    Clients,        \* client processes
    MaxClients,     \* MAX_CLIENTS
    MaxMessages,    \* MAX_MESSAGES
    MaxLines,       \* bound: lines a user types before /quit
    MaxSignals,     \* bound: waits for the semaphore that a signal interrupts
    MaxKills,       \* bound: clients that are killed
    MaxStarts       \* bound: times the server is started

ASSUME ShmChatAssumption ==
    /\ MaxClients \in Nat \ {0} /\ MaxMessages \in Nat \ {0} /\ MaxStarts \in Nat \ {0}
    /\ MaxLines \in Nat /\ MaxSignals \in Nat /\ MaxKills \in Nat
    /\ IsFiniteSet(Clients)

Roles   == {"main", "send", "recv"}
Threads == Clients \X Roles
Nobody  == <<>>                        \* an entry of messages[] after memset()

\* "<name> joined", or the k-th line of a user.
Notice(c)  == <<c, 0>>
Line(c, k) == <<c, k>>

VARIABLES
    srv,            \* the server: "down", "cleared", "setup", "up", "stopping", "removed"
    starts,         \* times it was started
    running,        \* server_running
    client_count,
    message_count,
    messages,       \* messages[0 .. MAX_MESSAGES-1]
    semOn, sem,     \* whether the semaphore exists, and its value
    pc,             \* where each thread is
    idx,            \* the entry a thread is writing, or the client_count it has read
    g_running,      \* g_running of each client
    last_seen,      \* last_seen of its receiver thread
    shown,          \* what that thread has put on the screen
    lines,          \* lines its user typed
    signals, kills, \* counters of the environment
    broken          \* (history) some lock_sem() failed, or a start met clients

segment == <<client_count, message_count, messages>>
server  == <<srv, starts, running>>
screen  == <<last_seen, shown>>
counts  == <<signals, kills, broken>>
vars    == <<segment, server, semOn, sem, pc, idx, g_running, screen, lines, counts>>

InSection == {"in", "name", "count", "notice", "put", "bump", "unlock"}

\* Every client is counted once at most, and the table holds MAX_CLIENTS names until
\* a lock_sem() fails; no thread fills an entry beyond the end of the log.

TypeOK ==
    /\ srv \in {"down", "cleared", "setup", "up", "stopping", "removed"}
    /\ starts \in 0 .. MaxStarts /\ running \in BOOLEAN
    /\ client_count \in 0 .. Cardinality(Clients) /\ (broken \/ client_count <= MaxClients)
    /\ message_count \in 0 .. MaxMessages + 2 * Cardinality(Clients)
    /\ messages \in [1 .. MaxMessages -> {Nobody} \cup (Clients \X (0 .. MaxLines))]
    /\ semOn \in BOOLEAN /\ sem \in 0 .. 1 + 3 * Cardinality(Clients)
    /\ pc \in [Threads -> {"new", "off", "loop", "prompt", "lock", "join", "end", "gone"}
                              \cup InSection]
    /\ idx \in [Threads -> Nat]
    /\ \A t \in Threads : pc[t] \in {"put", "bump"} => idx[t] < MaxMessages
    /\ g_running \in [Clients -> BOOLEAN]
    /\ last_seen \in [Clients -> 0 .. MaxMessages]
    /\ \A c \in Clients : shown[c] \in Seq({Nobody} \cup (Clients \X (0 .. MaxLines)))
    /\ lines \in [Clients -> 0 .. MaxLines]
    /\ signals \in 0 .. MaxSignals /\ kills \in 0 .. MaxKills /\ broken \in BOOLEAN

Main(c) == <<c, "main">>
Sender(c) == <<c, "send">>
Receiver(c) == <<c, "recv">>

Goes(t, to) == pc' = [pc EXCEPT ![t] = to]

Attached == {c \in Clients : pc[Main(c)] \notin {"new", "gone"}}

------------------------------------------------------------------------------
(* The semaphore.                                                              *)

\* lock_sem(), served.
Lock(t) ==
    /\ pc[t] = "lock" /\ semOn /\ sem > 0
    /\ sem' = sem - 1
    /\ Goes(t, "in")
    /\ UNCHANGED <<segment, server, semOn, idx, g_running, screen, lines, counts>>

\* lock_sem(), failed: EINTR while it waits, or no such semaphore any more.
LockFails(t) ==
    /\ pc[t] = "lock"
    /\ \/ semOn /\ sem = 0 /\ signals < MaxSignals /\ signals' = signals + 1
       \/ ~semOn /\ UNCHANGED signals
    /\ broken' = TRUE
    /\ Goes(t, "in")
    /\ UNCHANGED <<segment, server, semOn, sem, idx, g_running, screen, lines, kills>>

\* unlock_sem(), which never waits.
Add == sem + 1

Unlock(t, to) ==
    /\ pc[t] = "unlock"
    /\ sem' = IF semOn THEN Add ELSE sem
    /\ Goes(t, to)

------------------------------------------------------------------------------
(* Writing a message, with the semaphore held or thought to be.                *)

Room == message_count < MaxMessages

\* Find the entry; leave when the log is full.
\* (Mutant: the log is used as a ring.)
ReservesInRing(t) ==
    /\ idx' = [idx EXCEPT ![t] = message_count % MaxMessages]
    /\ Goes(t, "put")
Reserves(t) ==
    IF Room THEN /\ idx' = [idx EXCEPT ![t] = message_count]
                 /\ Goes(t, "put")
            ELSE /\ UNCHANGED idx
                 /\ Goes(t, "unlock")

\* main(), with the semaphore held or thought to be: test for room among the names,
\* (Mutant: <= for <.)
NamesLate == client_count <= MaxClients
NamesLeft == client_count < MaxClients

Register(c) ==
    /\ pc[Main(c)] = "in"
    /\ Goes(Main(c), IF NamesLeft THEN "name" ELSE "unlock")
    /\ UNCHANGED <<segment, server, semOn, sem, idx, g_running, screen, lines, counts>>

\* write the name (no property speaks of names) and read client_count for its ++,
ReadCount(c) ==
    /\ pc[Main(c)] = "name"
    /\ idx' = [idx EXCEPT ![Main(c)] = client_count]
    /\ Goes(Main(c), "count")
    /\ UNCHANGED <<segment, server, semOn, sem, g_running, screen, lines, counts>>

\* store it,
CountName(c) ==
    /\ pc[Main(c)] = "count"
    /\ client_count' = idx[Main(c)] + 1
    /\ Goes(Main(c), "notice")
    /\ UNCHANGED <<message_count, messages, server, semOn, sem, idx, g_running, screen,
                   lines, counts>>

\* and post the notice.
Announce(c) ==
    /\ pc[Main(c)] = "notice"
    /\ Reserves(Main(c))
    /\ UNCHANGED <<segment, server, semOn, sem, g_running, screen, lines, counts>>

\* sender_thread(): the line the user typed.
Post(c) ==
    /\ pc[Sender(c)] = "in"
    /\ Reserves(Sender(c))
    /\ UNCHANGED <<segment, server, semOn, sem, g_running, screen, lines, counts>>

Text(t) == IF t[2] = "main" THEN Notice(t[1]) ELSE Line(t[1], lines[t[1]])

Put(t) ==
    /\ pc[t] = "put"
    /\ messages' = [messages EXCEPT ![idx[t] + 1] = Text(t)]
    /\ Goes(t, "bump")
    /\ UNCHANGED <<client_count, message_count, server, semOn, sem, idx, g_running, screen,
                   lines, counts>>

\* message_count++; when another thread writes it at the same time, the value read
\* may be the one this thread saw when it took the entry.
Bump(t) ==
    /\ pc[t] = "bump"
    /\ \E read \in {idx[t], message_count} : message_count' = read + 1
    /\ Goes(t, "unlock")
    /\ UNCHANGED <<client_count, messages, server, semOn, sem, idx, g_running, screen,
                   lines, counts>>

------------------------------------------------------------------------------
(* The client.                                                                 *)

\* main() finds the segment and the semaphore, or gives up.
Attach(c) ==
    /\ pc[Main(c)] = "new"
    /\ Goes(Main(c), IF semOn THEN "lock" ELSE "gone")
    /\ UNCHANGED <<segment, server, semOn, sem, idx, g_running, screen, lines, counts>>

\* Joined: start the two threads.
StartThreads(c) ==
    /\ pc[Main(c)] = "unlock"
    /\ sem' = IF semOn THEN Add ELSE sem
    /\ pc' = [pc EXCEPT ![Main(c)] = "join", ![Sender(c)] = "loop", ![Receiver(c)] = "loop"]
    /\ UNCHANGED <<segment, server, semOn, idx, g_running, screen, lines, counts>>

Continues(c) == g_running[c] /\ running

\* The loop condition of either thread.
Loop(c) ==
    \/ /\ pc[Receiver(c)] = "loop"
       /\ Goes(Receiver(c), IF Continues(c) THEN "lock" ELSE "end")
       /\ UNCHANGED <<segment, server, semOn, sem, idx, g_running, screen, lines, counts>>
    \/ /\ pc[Sender(c)] = "loop"
       /\ Goes(Sender(c), IF Continues(c) THEN "prompt" ELSE "end")
       /\ UNCHANGED <<segment, server, semOn, sem, idx, g_running, screen, lines, counts>>

\* getnstr() returned a line, ...
TypeLine(c) ==
    /\ pc[Sender(c)] = "prompt" /\ lines[c] < MaxLines
    /\ lines' = [lines EXCEPT ![c] = @ + 1]
    /\ Goes(Sender(c), "lock")
    /\ UNCHANGED <<segment, server, semOn, sem, idx, g_running, screen, counts>>

\* ... nothing, ...
TypeNothing(c) ==
    /\ pc[Sender(c)] = "prompt"
    /\ Goes(Sender(c), "loop")
    /\ UNCHANGED <<segment, server, semOn, sem, idx, g_running, screen, lines, counts>>

\* ... or /quit.
TypeQuit(c) ==
    /\ pc[Sender(c)] = "prompt"
    /\ g_running' = [g_running EXCEPT ![c] = FALSE]
    /\ Goes(Sender(c), "end")
    /\ UNCHANGED <<segment, server, semOn, sem, idx, screen, lines, counts>>

\* receiver_thread(): show what is new, up to the count and the end of the array.
\* (Mutant: the last new message is left for later but counted as seen.)
ShowAllButLast(c, upto) == [i \in 1 .. upto - last_seen[c] - 1 |-> messages[last_seen[c] + i]]
News(c, upto) == [i \in 1 .. upto - last_seen[c] |-> messages[last_seen[c] + i]]

Read(c) ==
    LET upto == IF message_count < MaxMessages THEN message_count ELSE MaxMessages
    IN  /\ pc[Receiver(c)] = "in"
        /\ IF last_seen[c] < upto
           THEN /\ shown' = [shown EXCEPT ![c] = @ \o News(c, upto)]
                /\ last_seen' = [last_seen EXCEPT ![c] = upto]
           ELSE UNCHANGED screen
        /\ Goes(Receiver(c), "unlock")
        /\ UNCHANGED <<segment, server, semOn, sem, idx, g_running, lines, counts>>

ThreadUnlocks(t) ==
    /\ t[2] # "main"
    /\ Unlock(t, "loop")
    /\ UNCHANGED <<segment, server, semOn, idx, g_running, screen, lines, counts>>

\* main(): wait for the sender thread, tell the receiver thread, wait for it.
JoinThreads(c) ==
    /\ pc[Main(c)] = "join" /\ pc[Sender(c)] = "end"
    /\ g_running' = [g_running EXCEPT ![c] = FALSE]
    /\ Goes(Main(c), IF pc[Receiver(c)] = "end" THEN "gone" ELSE "join")
    /\ g_running[c] \/ pc[Receiver(c)] = "end"
    /\ UNCHANGED <<segment, server, semOn, sem, idx, screen, lines, counts>>

\* Killed anywhere: the semaphore keeps its value (no SEM_UNDO).
Kill(c) ==
    /\ c \in Attached /\ kills < MaxKills
    /\ kills' = kills + 1
    /\ pc' = [t \in Threads |-> IF t[1] = c THEN "gone" ELSE pc[t]]
    /\ UNCHANGED <<segment, server, semOn, sem, idx, g_running, screen, lines, signals,
                   broken>>

------------------------------------------------------------------------------
(* The server.                                                                 *)

\* Create the segment, or find the one an earlier server left when it was killed,
\* and clear it, whoever is attached; ...
ServerStarts ==
    /\ srv = "down" /\ starts < MaxStarts
    /\ srv' = "cleared" /\ starts' = starts + 1 /\ running' = FALSE
    /\ client_count' = 0 /\ message_count' = 0
    /\ messages' = [i \in 1 .. MaxMessages |-> Nobody]
    /\ broken' = (broken \/ Attached # {})
    /\ UNCHANGED <<semOn, sem, pc, idx, g_running, screen, lines, signals, kills>>

\* ... set the flag that memset() cleared too; ...
ServerRuns ==
    /\ srv = "cleared" /\ srv' = "setup" /\ running' = TRUE
    /\ UNCHANGED <<segment, starts, semOn, sem, pc, idx, g_running, screen, lines, counts>>

\* ... then create or find the semaphore and set it to 1.
\* (Mutant: as many may enter as there are clients.)
OneForEach == Cardinality(Clients)
InitialValue == 1

ServerSets ==
    /\ srv = "setup" /\ srv' = "up"
    /\ semOn' = TRUE /\ sem' = InitialValue
    /\ broken' = (broken \/ Attached # {})
    /\ UNCHANGED <<segment, starts, running, pc, idx, g_running, screen, lines, signals,
                   kills>>

\* The server is told to stop: first the flag, ...
\* (Mutant: only the segment and the semaphore are removed.)
FlagKept == UNCHANGED running
FlagCleared == running' = FALSE

ServerStops ==
    /\ srv = "up" /\ srv' = "stopping"
    /\ FlagCleared
    /\ UNCHANGED <<segment, starts, semOn, sem, pc, idx, g_running, screen, lines, counts>>

\* ... then the removal, which wakes every waiter.
ServerRemoves ==
    /\ srv = "stopping" /\ srv' = "removed"
    /\ semOn' = FALSE
    /\ UNCHANGED <<segment, starts, running, sem, pc, idx, g_running, screen, lines, counts>>

\* Killed: segment and semaphore stay.
ServerCrashes ==
    /\ srv \in {"cleared", "setup", "up", "stopping"} /\ srv' = "down"
    /\ UNCHANGED <<segment, starts, running, semOn, sem, pc, idx, g_running, screen, lines,
                   counts>>

------------------------------------------------------------------------------
Init ==
    /\ srv = "down" /\ starts = 0 /\ running = FALSE
    /\ client_count = 0 /\ message_count = 0
    /\ messages = [i \in 1 .. MaxMessages |-> Nobody]
    /\ semOn = FALSE /\ sem = 0
    /\ pc = [t \in Threads |-> IF t[2] = "main" THEN "new" ELSE "off"]
    /\ idx = [t \in Threads |-> 0]
    /\ g_running = [c \in Clients |-> TRUE]
    /\ last_seen = [c \in Clients |-> 0]
    /\ shown = [c \in Clients |-> <<>>]
    /\ lines = [c \in Clients |-> 0]
    /\ signals = 0 /\ kills = 0 /\ broken = FALSE

ThreadStep(t) == Lock(t) \/ LockFails(t) \/ Put(t) \/ Bump(t) \/ ThreadUnlocks(t)

ClientStep(c) ==
    \/ Register(c) \/ ReadCount(c) \/ CountName(c) \/ Announce(c) \/ StartThreads(c)
    \/ Loop(c) \/ Post(c) \/ Read(c) \/ JoinThreads(c)

Type(c) == TypeLine(c) \/ TypeNothing(c) \/ TypeQuit(c)

Next ==
    \/ \E t \in Threads : ThreadStep(t)
    \/ \E c \in Clients : ClientStep(c) \/ Attach(c) \/ Type(c) \/ Kill(c)
    \/ ServerStarts \/ ServerRuns \/ ServerSets \/ ServerStops \/ ServerRemoves \/ ServerCrashes

\* Threads run when they can (a signal need not come: only the removal forces a
\* wait to fail), the user at a prompt presses Enter some time, and a server that
\* is stopping goes on.
Fairness ==
    /\ \A t \in Threads : /\ WF_vars(Put(t)) /\ WF_vars(Bump(t)) /\ WF_vars(ThreadUnlocks(t))
                          /\ WF_vars(~semOn /\ LockFails(t))
    /\ \A c \in Clients : /\ WF_vars(Register(c)) /\ WF_vars(ReadCount(c))
                          /\ WF_vars(CountName(c)) /\ WF_vars(Announce(c))
                          /\ WF_vars(StartThreads(c))
                          /\ WF_vars(Loop(c)) /\ WF_vars(Post(c)) /\ WF_vars(Read(c))
                          /\ WF_vars(JoinThreads(c)) /\ WF_vars(Type(c))
    /\ WF_vars(ServerRemoves)

SafeSpec == Init /\ [][Next]_vars

Spec == SafeSpec /\ Fairness

------------------------------------------------------------------------------
(* Safety.  Each holds until a lock_sem() fails or a server is started over the *)
(* segment of attached clients; nothing is promised after that.                *)

\* The semaphore admits one thread; a client killed inside keeps everyone out.
OneInside ==
    ~broken /\ semOn => sem + Cardinality({t \in Threads : pc[t] \in InSection}) <= 1

\* The log only grows, by one message at a time, and what is in it stays.
AppendOnly ==
    [][~broken' /\ Attached # {} =>
         /\ message_count' \in {message_count, message_count + 1}
         /\ \A i \in 1 .. message_count : messages'[i] = messages[i]]_vars

\* A line that its sender thread has posted is in the log, unless that is full.
PostedIsKept ==
    ~broken /\ message_count < MaxMessages =>
      \A c \in Attached : \A k \in 1 .. lines[c] :
        (k < lines[c] \/ pc[Sender(c)] \notin {"lock", "in", "put", "bump"}) =>
          \E i \in 1 .. message_count : messages[i] = Line(c, k)

\* A screen shows the log from its beginning, in order and without gaps.
ScreenIsPrefix ==
    ~broken => \A c \in Attached :
                 /\ last_seen[c] <= message_count
                 /\ shown[c] = [i \in 1 .. last_seen[c] |-> messages[i]]

------------------------------------------------------------------------------
(* Liveness.                                                                   *)

\* Once the server has removed the semaphore every client ends, also those that
\* waited for a lock that a killed client took with it.
StopReleasesAll == srv = "removed" ~> Attached = {}
==============================================================================
