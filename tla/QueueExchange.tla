---------------------------- MODULE QueueExchange -----------------------------
(* src/message_queues/server_posix.c with client_posix.c, and server_sysv.c with  *)
(* client_sysv.c: a server says "Hi!" through a message queue and waits for a     *)
(* "Hello!".  Servers and clients are processes that each run once, at any time.  *)
EXTENDS Naturals, Sequences, FiniteSets

CONSTANTS
    QServers, QClients, \* processes
    QCapacity,          \* messages a queue holds: mq_maxmsg, or as msg_qbytes allows
    QMaxKills           \* bound: processes that are killed

ASSUME QueueExchangeAssumption ==
    /\ QServers \cap QClients = {} /\ QCapacity \in Nat \ {0} /\ QMaxKills \in Nat

QProcesses == QServers \cup QClients
NoQueue    == 0
Unheard    == <<>>

VARIABLES
    qapi,               \* which pair of programs: "posix" or "sysv"
    qnamed,             \* the queue that QUEUE_NAME or the key stands for
    queues,             \* all queues ever created: messages, and whether destroyed
    qpc,                \* each process: its next system call
    qown,               \* its descriptor: a queue
    qgot,               \* <<sender>> of the message it received
    qkills

qVars == <<qapi, qnamed, queues, qpc, qown, qgot, qkills>>

QTypeOK ==
    /\ qapi \in {"posix", "sysv"}
    /\ qnamed \in 0 .. Len(queues)
    /\ queues \in Seq([messages : Seq(QProcesses), destroyed : BOOLEAN])
    /\ \A q \in DOMAIN queues : Len(queues[q].messages) <= QCapacity
    /\ qpc \in [QProcesses -> {"start", "open", "send", "receive", "remove", "end", "killed"}]
    /\ \A p \in QProcesses : qown[p] \in 0 .. Len(queues)
    /\ qgot \in [QProcesses -> {Unheard} \cup {<<p>> : p \in QProcesses}]
    /\ qkills \in 0 .. QMaxKills

QInit ==
    /\ qapi \in {"posix", "sysv"}
    /\ qnamed = NoQueue /\ queues = <<>>
    /\ qpc = [p \in QProcesses |-> "start"]
    /\ qown = [p \in QProcesses |-> NoQueue]
    /\ qgot = [p \in QProcesses |-> Unheard]
    /\ qkills = 0

QGoes(p, to) == qpc' = [qpc EXCEPT ![p] = to]

\* A POSIX server removes the name of an earlier queue, ...
UnlinkOld(s) ==
    /\ qapi = "posix" /\ qpc[s] = "start" /\ QGoes(s, "open")
    /\ qnamed' = NoQueue
    /\ UNCHANGED <<qapi, queues, qown, qgot, qkills>>

\* ... then either server opens the queue, or creates it.
ServerOpens(s) ==
    /\ qpc[s] = IF qapi = "posix" THEN "open" ELSE "start"
    /\ QGoes(s, "send")
    /\ IF qnamed = NoQueue
       THEN /\ queues' = Append(queues, [messages |-> <<>>, destroyed |-> FALSE])
            /\ qnamed' = Len(queues')
       ELSE UNCHANGED <<queues, qnamed>>
    /\ qown' = [qown EXCEPT ![s] = qnamed']
    /\ UNCHANGED <<qapi, qgot, qkills>>

\* A client opens it, or gives up.
ClientOpens(c) ==
    /\ qpc[c] = "start"
    /\ QGoes(c, IF qnamed = NoQueue THEN "end" ELSE "receive")
    /\ qown' = [qown EXCEPT ![c] = qnamed]
    /\ UNCHANGED <<qapi, qnamed, queues, qgot, qkills>>

Own(p) == queues[qown[p]]

AfterSend(p) == IF p \in QServers THEN "receive" ELSE "end"

\* mq_send(), msgsnd(): wait for room; a destroyed queue is an error (EIDRM).
QSend(p) ==
    /\ qpc[p] = "send"
    /\ \/ /\ Own(p).destroyed /\ QGoes(p, "end") /\ UNCHANGED queues
       \/ /\ ~Own(p).destroyed /\ Len(Own(p).messages) < QCapacity
          /\ queues' = [queues EXCEPT ![qown[p]].messages = Append(@, p)]
          /\ QGoes(p, AfterSend(p))
    /\ UNCHANGED <<qapi, qnamed, qown, qgot, qkills>>

\* msgrcv() takes messages of the other side's type only, mq_receive() any.
\* (Mutant: the System V programs receive with type 0.)
AcceptsAny(p, from) == TRUE
\* (Mutant: their client receives with the server's type.)
AcceptsReplies(p, from) == qapi = "sysv" => from \in QClients
Accepted(p, from) == qapi = "sysv" => (p \in QServers <=> from \in QClients)

FirstFor(p) ==
    {i \in DOMAIN Own(p).messages :
       /\ Accepted(p, Own(p).messages[i])
       /\ \A j \in 1 .. i - 1 : ~Accepted(p, Own(p).messages[j])}

QReceive(p) ==
    /\ qpc[p] = "receive"
    /\ \/ /\ Own(p).destroyed /\ QGoes(p, "end") /\ UNCHANGED <<queues, qgot>>
       \/ /\ ~Own(p).destroyed
          /\ \E i \in FirstFor(p) :
               /\ qgot' = [qgot EXCEPT ![p] = <<Own(p).messages[i]>>]
               /\ queues' = [queues EXCEPT ![qown[p]].messages =
                               SubSeq(@, 1, i - 1) \o SubSeq(@, i + 1, Len(@))]
          /\ QGoes(p, IF p \in QServers THEN "remove" ELSE "send")
    /\ UNCHANGED <<qapi, qnamed, qown, qkills>>

\* The queue, whoever waits at it, goes with msgctl(IPC_RMID); mq_unlink() removes
\* the name, whichever queue it stands for now.
\* (Mutant: the System V server leaves the queue.)
KeepsQueue(s) == UNCHANGED <<queues, qnamed>>
QRemoves(s) ==
    IF qapi = "posix"
    THEN qnamed' = NoQueue /\ UNCHANGED queues
    ELSE /\ queues' = [queues EXCEPT ![qown[s]] = [messages |-> <<>>, destroyed |-> TRUE]]
         /\ qnamed' = IF qnamed = qown[s] THEN NoQueue ELSE qnamed

ServerRemoves(s) ==
    /\ qpc[s] = "remove" /\ QGoes(s, "end")
    /\ QRemoves(s)
    /\ UNCHANGED <<qapi, qown, qgot, qkills>>

Active == {p \in QProcesses : qpc[p] \notin {"start", "end", "killed"}}

QKill(p) ==
    /\ p \in Active /\ qkills < QMaxKills
    /\ QGoes(p, "killed") /\ qkills' = qkills + 1
    /\ UNCHANGED <<qapi, qnamed, queues, qown, qgot>>

\* What a process does once the user has started it.
QProceeds(p) ==
    \/ p \in QServers /\ qpc[p] = "open" /\ ServerOpens(p)
    \/ p \in QServers /\ ServerRemoves(p)
    \/ QSend(p) \/ QReceive(p)

QStarts(p) ==
    \/ p \in QServers /\ UnlinkOld(p)
    \/ p \in QServers /\ qpc[p] = "start" /\ ServerOpens(p)
    \/ p \in QClients /\ ClientOpens(p)

QNext == \E p \in QProcesses : QProceeds(p) \/ QStarts(p) \/ QKill(p)

QFairness == \A p \in QProcesses : WF_qVars(QProceeds(p))

QSpec == QInit /\ [][QNext]_qVars /\ QFairness

-------------------------------------------------------------------------------
\* The types of the System V messages keep the two directions of the one queue
\* apart, however many servers and clients share it: a greeting is a server's and
\* a reply a client's.  (The POSIX queue has no types: there a server may take its
\* own greeting, and a client another client's reply.)
QDirectionsApart ==
    \A p \in QProcesses : qapi = "sysv" /\ qgot[p] # Unheard =>
      (p \in QServers <=> qgot[p][1] \in QClients)

\* When all have ended and nobody was killed, no queue is left that the next
\* server would find with old messages in it, however the runs overlapped.
QNothingLeft == Active = {} /\ qkills = 0 => qnamed = NoQueue

\* Who ends by itself when nobody is killed.  A POSIX server: there is a message
\* for it at last, if only its own.  A System V client: its server's reply removes
\* the queue, and with it the wait of those who came too late for a greeting.
QServersEnd ==
    \A s \in QServers : (qapi = "posix" /\ s \in Active) ~> (s \notin Active \/ qkills > 0)
QClientsEnd ==
    \A c \in QClients : (qapi = "sysv" /\ c \in Active) ~> (c \notin Active \/ qkills > 0)
QExchangesEnd == QServersEnd /\ QClientsEnd
===============================================================================
