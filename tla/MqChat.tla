-------------------------------- MODULE MqChat --------------------------------
(* src/message_queues/chat_server.c and chat_client.c: a chat over POSIX        *)
(* message queues.  The server is one thread that reads /chat_srv and sends to  *)
(* a queue per client; a client is a main thread (the prompt) and a receiver    *)
(* thread that share the screen through a mutex.  mq_send blocks on a full      *)
(* queue, mq_receive on an empty one.                                           *)
EXTENDS Naturals, Sequences, FiniteSets

CONSTANTS
    Clients,        \* client processes; each has a queue of its own, /chat_<pid>
    MaxClients,     \* MAX_CLIENTS
    MaxHistory,     \* MAX_HISTORY
    QueueCap,       \* mq_maxmsg of every queue
    MaxLines,       \* bound: lines a user types before /quit
    MaxStarts,      \* bound: times the server is started
    Crashes         \* whether processes may be killed (SIGKILL)

ASSUME MqChatAssumption ==
    /\ MaxClients \in Nat \ {0} /\ MaxHistory \in Nat \ {0} /\ QueueCap \in Nat \ {0}
    /\ MaxLines \in Nat /\ MaxStarts \in Nat \ {0}
    /\ Crashes \in BOOLEAN

Starts == 1 .. MaxStarts

\* The messages: a join request, the k-th line of a user, and the server's own
\* two notices.
Msg(t, c, k) == [type |-> t, from |-> c, n |-> k]
JoinRequest(c) == Msg("J", c, 0)
Line(c, k)     == Msg("M", c, k)
Joined(c)      == Msg("S", c, 0)        \* "<name> joined chat"
Rejected(c)    == Msg("R", c, 0)        \* "Too many clients, <name> rejected"
Messages       == [type : {"J", "M", "S", "R"}, from : Clients, n : 0 .. MaxLines]

VARIABLES
    spc,            \* the server: "down", "recv", "replay", "send"
    gen,            \* times the server was started
    registered,     \* the start whose queue has the name /chat_srv; 0: none
    srvq,           \* the server queue of each start
    members,        \* clients[0 .. client_count-1]
    history,        \* history[0 .. history_count-1]
    job,            \* the message the server is sending on
    next,           \* loop index of the replay and of send_to_all()
    cpc,            \* main thread of a client
    rpc,            \* its receiver thread: "off", "recv", "lock"
    server_q,       \* the server queue a client opened; 0: none
    lines,          \* lines its user typed
    mutex,          \* screen_mutex: "free" or "main"
    held,           \* what the receiver thread took and has not shown
    cq,             \* the queue of a client
    linked,         \* whether its name still exists
    screen          \* the messages window of a client

server == <<spc, gen, registered, members, history, job, next>>
client == <<cpc, rpc, server_q, lines, mutex, held, linked, screen>>
vars   == <<server, client, srvq, cq>>

NoMsg == Msg("", "", 0)

TypeOK ==
    /\ spc \in {"down", "recv", "replay", "send"}
    /\ gen \in 0 .. MaxStarts /\ registered \in 0 .. gen
    /\ \A g \in Starts : srvq[g] \in Seq(Messages) /\ Len(srvq[g]) <= QueueCap
    /\ members \in Seq(Clients) /\ Len(members) <= MaxClients
    /\ history \in Seq(Messages) /\ Len(history) <= MaxHistory
    /\ job \in Messages \cup {NoMsg} /\ next \in Nat
    /\ cpc \in [Clients -> {"new", "join", "lock", "prompt", "send", "leave", "gone"}]
    /\ rpc \in [Clients -> {"off", "recv", "lock"}]
    /\ server_q \in [Clients -> 0 .. MaxStarts]
    /\ lines \in [Clients -> 0 .. MaxLines]
    /\ mutex \in [Clients -> {"free", "main"}]
    /\ held \in [Clients -> {<<>>} \cup {<<m>> : m \in Messages}]
    /\ \A c \in Clients : cq[c] \in Seq(Messages) /\ Len(cq[c]) <= QueueCap
    /\ linked \in [Clients -> BOOLEAN]
    /\ \A c \in Clients : screen[c] \in Seq(Messages)

\* (Mutant: a queue takes one message too many.)
FullLate(q) == Len(q) > QueueCap
Full(q) == Len(q) >= QueueCap

------------------------------------------------------------------------------
(* The client: main().                                                         *)

Exit(c) == /\ cpc' = [cpc EXCEPT ![c] = "gone"]
           /\ rpc' = [rpc EXCEPT ![c] = "off"]
           /\ held' = [held EXCEPT ![c] = <<>>]
           /\ mutex' = [mutex EXCEPT ![c] = "free"]

\* Create the client's queue and open the server's; without one, give up.
Open(c) ==
    /\ cpc[c] = "new"
    /\ IF registered = 0
       THEN Exit(c) /\ UNCHANGED <<linked, server_q>>
       ELSE /\ cpc' = [cpc EXCEPT ![c] = "join"]
            /\ linked' = [linked EXCEPT ![c] = TRUE]
            /\ server_q' = [server_q EXCEPT ![c] = registered]
            /\ UNCHANGED <<rpc, held, mutex>>
    /\ UNCHANGED <<server, srvq, cq, lines, screen>>

Posts(c, m) ==
    /\ ~Full(srvq[server_q[c]])
    /\ srvq' = [srvq EXCEPT ![server_q[c]] = Append(@, m)]

\* Ask to join, then start the receiver thread.
Join(c) ==
    /\ cpc[c] = "join"
    /\ Posts(c, JoinRequest(c))
    /\ cpc' = [cpc EXCEPT ![c] = "lock"]
    /\ rpc' = [rpc EXCEPT ![c] = "recv"]
    /\ UNCHANGED <<server, cq, server_q, lines, mutex, held, linked, screen>>

\* The prompt is shown, and the line is read, with the screen locked.
Lock(c) ==
    /\ cpc[c] = "lock" /\ mutex[c] = "free"
    /\ cpc' = [cpc EXCEPT ![c] = "prompt"]
    /\ mutex' = [mutex EXCEPT ![c] = "main"]
    /\ UNCHANGED <<server, srvq, cq, rpc, server_q, lines, held, linked, screen>>

\* wgetnstr() returned: unlock before anything else.
\* (Mutant: the screen stays locked until the line was sent.)
UnlocksLate(c) == UNCHANGED mutex
Unlocks(c) == mutex' = [mutex EXCEPT ![c] = "free"]

TypeLine(c) ==
    /\ cpc[c] = "prompt" /\ lines[c] < MaxLines
    /\ Unlocks(c)
    /\ lines' = [lines EXCEPT ![c] = @ + 1]
    /\ cpc' = [cpc EXCEPT ![c] = "send"]
    /\ UNCHANGED <<server, srvq, cq, rpc, server_q, held, linked, screen>>

TypeQuit(c) ==
    /\ cpc[c] = "prompt"
    /\ mutex' = [mutex EXCEPT ![c] = "free"]
    /\ cpc' = [cpc EXCEPT ![c] = "leave"]
    /\ UNCHANGED <<server, srvq, cq, rpc, server_q, lines, held, linked, screen>>

Send(c) ==
    /\ cpc[c] = "send"
    /\ Posts(c, Line(c, lines[c]))
    /\ cpc' = [cpc EXCEPT ![c] = "lock"]
    /\ mutex' = [mutex EXCEPT ![c] = "free"]
    /\ UNCHANGED <<server, cq, rpc, server_q, lines, held, linked, screen>>

\* Close and unlink the queue and exit; nobody tells the server.
Leave(c) ==
    /\ cpc[c] = "leave"
    /\ Exit(c)
    /\ linked' = [linked EXCEPT ![c] = FALSE]
    /\ UNCHANGED <<server, srvq, cq, server_q, lines, screen>>

\* Killed: the name of its queue stays.
Crash(c) ==
    /\ Crashes /\ cpc[c] \notin {"new", "gone"}
    /\ Exit(c)
    /\ UNCHANGED <<server, srvq, cq, server_q, lines, linked, screen>>

(* The receiver thread: receiver_thread().                                     *)

Receive(c) ==
    /\ rpc[c] = "recv" /\ cq[c] # <<>>
    /\ held' = [held EXCEPT ![c] = <<Head(cq[c])>>]
    /\ cq' = [cq EXCEPT ![c] = Tail(@)]
    /\ rpc' = [rpc EXCEPT ![c] = "lock"]
    /\ UNCHANGED <<server, srvq, cpc, server_q, lines, mutex, linked, screen>>

\* Lock the screen, print, unlock.
Show(c) ==
    /\ rpc[c] = "lock" /\ mutex[c] = "free"
    /\ screen' = [screen EXCEPT ![c] = @ \o held[c]]
    /\ held' = [held EXCEPT ![c] = <<>>]
    /\ rpc' = [rpc EXCEPT ![c] = "recv"]
    /\ UNCHANGED <<server, srvq, cq, cpc, server_q, lines, mutex, linked>>

------------------------------------------------------------------------------
(* The server.                                                                 *)

Remember(m) == history' = IF Len(history) < MaxHistory THEN Append(history, m) ELSE history

\* main(): unlink a left-over queue and create a new one; nothing is kept from an
\* earlier start.
ServerStarts ==
    /\ spc = "down" /\ gen < MaxStarts
    /\ spc' = "recv" /\ gen' = gen + 1 /\ registered' = gen + 1
    /\ members' = <<>> /\ history' = <<>> /\ job' = NoMsg /\ next' = 1
    /\ UNCHANGED <<client, srvq, cq>>

\* cleanup() on SIGINT or SIGTERM, at any point: unlink the queue and exit.
ServerStops ==
    /\ spc # "down" /\ spc' = "down"
    /\ registered' = 0
    /\ UNCHANGED <<gen, members, history, job, next, client, srvq, cq>>

\* Killed: the name of its queue stays, and clients can go on sending to it.
ServerCrashes ==
    /\ Crashes /\ spc # "down" /\ spc' = "down"
    /\ UNCHANGED <<gen, registered, members, history, job, next, client, srvq, cq>>

Takes(t) ==
    /\ spc = "recv" /\ srvq[gen] # <<>> /\ Head(srvq[gen]).type = t
    /\ srvq' = [srvq EXCEPT ![gen] = Tail(@)]

\* handle_message(): remember the line, then send_to_all().
HandleMessage ==
    /\ Takes("M")
    /\ Remember(Head(srvq[gen]))
    /\ job' = Head(srvq[gen]) /\ next' = 1 /\ spc' = "send"
    /\ UNCHANGED <<gen, registered, members, client, cq>>

TooMany == Len(members) >= MaxClients

\* handle_join() when the table is full: tell the client, if it is still there.
Reject ==
    LET c == Head(srvq[gen]).from
    IN  /\ Takes("J") /\ TooMany
        /\ linked[c] => ~Full(cq[c])
        /\ cq' = IF linked[c] THEN [cq EXCEPT ![c] = Append(@, Rejected(c))] ELSE cq
        /\ UNCHANGED <<server, client>>

\* handle_join() of a client whose queue is gone: mq_open() fails.
JoinFails ==
    /\ Takes("J") /\ ~TooMany /\ ~linked[Head(srvq[gen]).from]
    /\ UNCHANGED <<server, client, cq>>

\* (Mutant: the notice is in the history before the replay, and sent again after.)
AdmitNoted ==
    /\ Takes("J") /\ ~TooMany /\ linked[Head(srvq[gen]).from]
    /\ members' = Append(members, Head(srvq[gen]).from)
    /\ Remember(Joined(Head(srvq[gen]).from))
    /\ job' = Head(srvq[gen]) /\ next' = 1 /\ spc' = "replay"
    /\ UNCHANGED <<gen, registered, client, cq>>

\* handle_join(): the client is a member before the history is replayed to it.
Admit ==
    /\ Takes("J") /\ ~TooMany /\ linked[Head(srvq[gen]).from]
    /\ members' = Append(members, Head(srvq[gen]).from)
    /\ job' = Head(srvq[gen]) /\ next' = 1 /\ spc' = "replay"
    /\ UNCHANGED <<gen, registered, history, client, cq>>

\* mq_send() blocks while the queue is full; the server's own descriptor keeps the
\* queue of a client that has exited.
SendsTo(c, m) ==
    /\ ~Full(cq[c])
    /\ cq' = [cq EXCEPT ![c] = Append(@, m)]
    /\ next' = next + 1
    /\ UNCHANGED <<spc, gen, registered, members, history, job, client, srvq>>

ReplayNext ==
    /\ spc = "replay" /\ next <= Len(history)
    /\ SendsTo(job.from, history[next])

\* (Mutant: only the newcomer is told.)
NoticeToNewcomer(c) == /\ job' = Joined(c) /\ next' = Len(members) /\ spc' = "send"
SendToAll(c) == /\ job' = Joined(c) /\ next' = 1 /\ spc' = "send"

\* The replay is over: remember the notice and send it to all.
ReplayDone ==
    /\ spc = "replay" /\ next > Len(history)
    /\ Remember(Joined(job.from))
    /\ SendToAll(job.from)
    /\ UNCHANGED <<gen, registered, members, client, srvq, cq>>

SendNext ==
    /\ spc = "send" /\ next <= Len(members)
    /\ SendsTo(members[next], job)

SendDone ==
    /\ spc = "send" /\ next > Len(members)
    /\ spc' = "recv" /\ job' = NoMsg /\ next' = 1
    /\ UNCHANGED <<gen, registered, members, history, client, srvq, cq>>

------------------------------------------------------------------------------
Init ==
    /\ spc = "down" /\ gen = 0 /\ registered = 0
    /\ srvq = [g \in Starts |-> <<>>]
    /\ members = <<>> /\ history = <<>> /\ job = NoMsg /\ next = 1
    /\ cpc = [c \in Clients |-> "new"]
    /\ rpc = [c \in Clients |-> "off"]
    /\ server_q = [c \in Clients |-> 0]
    /\ lines = [c \in Clients |-> 0]
    /\ mutex = [c \in Clients |-> "free"]
    /\ held = [c \in Clients |-> <<>>]
    /\ cq = [c \in Clients |-> <<>>]
    /\ linked = [c \in Clients |-> FALSE]
    /\ screen = [c \in Clients |-> <<>>]

ServerStep ==
    \/ HandleMessage \/ Reject \/ JoinFails \/ Admit
    \/ ReplayNext \/ ReplayDone \/ SendNext \/ SendDone

MainStep(c) == Join(c) \/ Lock(c) \/ Send(c) \/ Leave(c)

ReceiverStep(c) == Receive(c) \/ Show(c)

\* What people do: start, type, quit, stop and kill.
UserStep ==
    \/ ServerStarts \/ ServerStops \/ ServerCrashes
    \/ \E c \in Clients : Open(c) \/ TypeLine(c) \/ TypeQuit(c) \/ Crash(c)

Next ==
    \/ ServerStep \/ UserStep
    \/ \E c \in Clients : MainStep(c) \/ ReceiverStep(c)

\* Threads run when they can; nobody has to type, start or stop anything.
Fairness ==
    /\ WF_vars(ServerStep)
    /\ \A c \in Clients : WF_vars(MainStep(c)) /\ WF_vars(ReceiverStep(c))

SafeSpec == Init /\ [][Next]_vars

Spec == SafeSpec /\ Fairness

------------------------------------------------------------------------------
(* Safety.                                                                     *)

Running(c) == cpc[c] \notin {"new", "gone"}

IsMember(c) == spc # "down" /\ \E i \in 1 .. Len(members) : members[i] = c

\* What the server has yet to send to c in the handler it is in.
Pending(c) ==
    CASE spc = "replay" /\ c = job.from -> SubSeq(history, next, Len(history))
      [] spc = "send" /\ \E i \in next .. Len(members) : members[i] = c -> <<job>>
      [] OTHER -> <<>>

\* Until the history is full, what a running member has on its screen, in its
\* receiver thread, in its queue and still to come is the server's history, no
\* more, no less and in the same order, whenever it joined.
StreamIsHistory ==
    Len(history) < MaxHistory =>
      \A c \in Clients :
        IsMember(c) /\ Running(c) => screen[c] \o held[c] \o cq[c] \o Pending(c) = history

Shows(c) == {screen[c][i] : i \in 1 .. Len(screen[c])}

Position(c, m) == CHOOSE i \in 1 .. Len(screen[c]) : screen[c][i] = m

\* Also when the history overflowed, the server was restarted or members left: no
\* screen shows a message twice, and two screens show what both show in one order.
ScreensAgree ==
    /\ \A c \in Clients : Cardinality(Shows(c)) = Len(screen[c])
    /\ \A c, d \in Clients : \A a, b \in Shows(c) \cap Shows(d) :
          Position(c, a) < Position(c, b) => Position(d, a) < Position(d, b)

\* "Too many clients" is only said when that many clients run.  (The code violates
\* it: a client that left is never taken out of the table.)
RejectionIsTrue ==
    spc = "recv" /\ srvq[gen] # <<>> /\ TooMany =>
      LET m == Head(srvq[gen])
      IN  m.type = "J" /\ linked[m.from] =>
            Cardinality({c \in Clients : Running(c) /\ c # m.from}) >= MaxClients

------------------------------------------------------------------------------
(* Liveness.                                                                   *)

Receiver == IF spc = "replay" THEN job.from ELSE members[next]

\* The server is blocked on the full queue of a client that is gone, or of one
\* whose user is at the prompt, which keeps the receiver thread from the screen.
BlockedOnUser ==
    /\ \/ spc = "replay" /\ next <= Len(history)
       \/ spc = "send" /\ next <= Len(members)
    /\ Full(cq[Receiver]) /\ cpc[Receiver] \in {"prompt", "gone"}

\* Only those two can stop the server: unless one of them blocks it for good, it
\* comes back to an empty queue again and again, full queues of clients that are
\* themselves blocked on the server's full queue included.
ServerServes ==
    <>[]~BlockedOnUser => []<>(spc = "down" \/ (spc = "recv" /\ srvq[gen] = <<>>))
==============================================================================
