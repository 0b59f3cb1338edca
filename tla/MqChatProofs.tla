---------------------------- MODULE MqChatProofs ----------------------------
(* Theorems about MqChat, for every set of clients, table, history, queue,     *)
(* number of lines and number of starts of the server.                         *)
EXTENDS MqChat, FiniteSetTheorems, SequenceTheorems, TLAPS

------------------------------------------------------------------------------
(* The inductive invariant.                                                    *)

\* The types of TypeOK, with those of the three queues and screens as functions.
Types ==
    /\ spc \in {"down", "recv", "replay", "send"}
    /\ gen \in 0 .. MaxStarts /\ registered \in 0 .. gen
    /\ srvq \in [Starts -> Seq(Messages)]
    /\ members \in Seq(Clients) /\ history \in Seq(Messages)
    /\ job \in Messages \cup {NoMsg} /\ next \in Nat
    /\ cpc \in [Clients -> {"new", "join", "lock", "prompt", "send", "leave", "gone"}]
    /\ rpc \in [Clients -> {"off", "recv", "lock"}]
    /\ server_q \in [Clients -> 0 .. MaxStarts]
    /\ lines \in [Clients -> 0 .. MaxLines]
    /\ mutex \in [Clients -> {"free", "main"}]
    /\ held \in [Clients -> Seq(Messages)]
    /\ cq \in [Clients -> Seq(Messages)]
    /\ linked \in [Clients -> BOOLEAN]
    /\ screen \in [Clients -> Seq(Messages)]

\* The tables and queues keep within their limits.
Bounded ==
    /\ \A g \in Starts : Len(srvq[g]) <= QueueCap
    /\ \A c \in Clients : Len(cq[c]) <= QueueCap
    /\ Len(members) <= MaxClients /\ Len(history) <= MaxHistory

IsIn(c) == \E i \in 1 .. Len(members) : members[i] = c

\* The server has a queue while it runs; its loops stay inside their arrays, and the
\* client it replays to is in the table, where each client is once.
ServerLoops ==
    /\ spc # "down" => gen \in Starts
    /\ spc = "replay" => job \in Messages /\ IsIn(job.from) /\ next \in 1 .. Len(history) + 1
    /\ spc = "send" => job \in Messages /\ next \in 1 .. Len(members) + 1
    /\ \A i, j \in 1 .. Len(members) : members[i] = members[j] => i = j

\* A client that asked to join has opened a server queue; its receiver thread runs
\* from then on, and holds a message only while it waits for the screen.
ClientThreads ==
    \A c \in Clients :
      /\ cpc[c] \notin {"new", "gone"} => server_q[c] \in Starts
      /\ cpc[c] \in {"new", "join", "gone"} => rpc[c] = "off"
      /\ rpc[c] = "lock" => \E m \in Messages : held[c] = <<m>>
      /\ rpc[c] # "lock" => held[c] = <<>>

\* What is shown, or still will be: a client that is gone shows nothing more.
Stream(c) ==
    IF cpc[c] = "gone" THEN screen[c] ELSE screen[c] \o held[c] \o cq[c] \o Pending(c)

Streams == {history} \cup {Stream(c) : c \in Clients}
Seen(m) == \E s \in Streams : \E i \in 1 .. Len(s) : s[i] = m

\* A user's line that left the prompt of its client.
Sent(c, k) == k < lines[c] \/ (k = lines[c] /\ cpc[c] # "send")

\* The server queues hold join requests and lines, ...
Requests ==
    \A g \in Starts : \A i \in 1 .. Len(srvq[g]) :
      \E c \in Clients : \/ srvq[g][i] = JoinRequest(c)
                         \/ \E k \in 0 .. MaxLines : srvq[g][i] = Line(c, k) /\ Sent(c, k)

\* ... each of them once.
Once ==
    \A g, h \in Starts : \A i \in 1 .. Len(srvq[g]) : \A j \in 1 .. Len(srvq[h]) :
      srvq[g][i] = srvq[h][j] => g = h /\ i = j

Waits(m) == \E g \in Starts : \E i \in 1 .. Len(srvq[g]) : srvq[g][i] = m

\* Until its request is handled nobody has heard of a client, nor it of anybody.
NotYetJoined ==
    \A c \in Clients :
      /\ cpc[c] \in {"new", "join"} => ~Waits(JoinRequest(c))
      /\ cpc[c] \in {"new", "join"} \/ Waits(JoinRequest(c)) =>
           /\ screen[c] = <<>> /\ held[c] = <<>> /\ cq[c] = <<>> /\ ~IsIn(c)
           /\ ~Seen(Joined(c)) /\ ~Seen(Rejected(c))

\* What the server has not handled yet, nobody has seen.
NotYetSeen ==
    /\ \A c \in Clients : \A k \in 0 .. MaxLines :
         /\ Waits(Line(c, k)) => ~Seen(Line(c, k))
         /\ Seen(Line(c, k)) => Sent(c, k)
    /\ spc = "replay" => ~Seen(Joined(job.from))

\* Two lists have what both hold in one order; a list agrees with itself when it
\* holds nothing twice.
Agree(s, t) ==
    \A i, j \in 1 .. Len(s) : \A k, l \in 1 .. Len(t) :
      s[i] = t[k] /\ s[j] = t[l] /\ i < j => k < l

InOrder == \A s, t \in Streams : Agree(s, t)

Traffic == Requests /\ Once /\ NotYetJoined /\ NotYetSeen /\ InOrder /\ StreamIsHistory

IInv == Types /\ Bounded /\ ServerLoops /\ ClientThreads /\ Traffic

------------------------------------------------------------------------------
(* Types and limits.                                                           *)

\* The messages the programs make up are messages.
LEMMA MessageTypes ==
    \A c \in Clients :
      /\ JoinRequest(c) \in Messages /\ Joined(c) \in Messages /\ Rejected(c) \in Messages
      /\ \A k \in 0 .. MaxLines : Line(c, k) \in Messages
<1>1. 0 \in 0 .. MaxLines
  BY MqChatAssumption
<1> QED
  BY <1>1 DEF Messages, Msg, JoinRequest, Joined, Rejected, Line

\* A message has a sender.
LEMMA Senders == \A m \in Messages : m.from \in Clients
  BY DEF Messages

\* The head of the running server's queue.
LEMMA HeadType ==
    ASSUME Types, ServerLoops, spc # "down", srvq[gen] # <<>>
    PROVE  /\ gen \in Starts /\ srvq[gen] \in Seq(Messages)
           /\ Head(srvq[gen]) \in Messages /\ Head(srvq[gen]).from \in Clients
           /\ Head(srvq[gen]) = srvq[gen][1] /\ 1 \in 1 .. Len(srvq[gen])
           /\ Tail(srvq[gen]) \in Seq(Messages) /\ Len(Tail(srvq[gen])) = Len(srvq[gen]) - 1
<1>1. gen \in Starts /\ srvq[gen] \in Seq(Messages)
  BY DEF Types, ServerLoops
<1>2. Head(srvq[gen]) \in Messages /\ Tail(srvq[gen]) \in Seq(Messages)
      /\ Len(Tail(srvq[gen])) = Len(srvq[gen]) - 1 /\ Len(srvq[gen]) \in Nat \ {0}
  BY <1>1, HeadTailProperties, EmptySeq
<1> QED
  BY <1>1, <1>2, Senders DEF Head

\* What main() does keeps the types.
LEMMA MainTypes ==
    ASSUME Types, ClientThreads, NEW c \in Clients,
           Open(c) \/ TypeLine(c) \/ TypeQuit(c) \/ Crash(c) \/ MainStep(c)
    PROVE  Types'
<1> USE DEF Types, server, client
<1>1. ASSUME NEW m \in Messages, Posts(c, m), cpc[c] \notin {"new", "gone"}
      PROVE  srvq' \in [Starts -> Seq(Messages)]
  <2>1. server_q[c] \in Starts
    BY <1>1 DEF ClientThreads
  <2>2. Append(srvq[server_q[c]], m) \in Seq(Messages)
    BY <1>1, <2>1, AppendProperties
  <2> QED  BY <1>1, <2>1, <2>2 DEF Posts
<1>2. ASSUME Exit(c)
      PROVE  /\ cpc' \in [Clients -> {"new", "join", "lock", "prompt", "send", "leave", "gone"}]
             /\ rpc' \in [Clients -> {"off", "recv", "lock"}]
             /\ held' \in [Clients -> Seq(Messages)] /\ mutex' \in [Clients -> {"free", "main"}]
  BY <1>2 DEF Exit
<1>3. CASE Open(c)
  <2>1. registered \in 0 .. MaxStarts
    BY MqChatAssumption
  <2>2. CASE registered = 0
    BY <1>2, <1>3, <2>2 DEF Open
  <2>3. CASE registered # 0
    BY <1>3, <2>1, <2>3 DEF Open
  <2> QED  BY <2>2, <2>3
<1>4. CASE Join(c)
  <2>1. srvq' \in [Starts -> Seq(Messages)]
    BY <1>1, <1>4, MessageTypes DEF Join
  <2> QED  BY <1>4, <2>1 DEF Join
<1>5. CASE Send(c)
  <2>1. Line(c, lines[c]) \in Messages
    BY MessageTypes
  <2>2. srvq' \in [Starts -> Seq(Messages)]
    BY <1>1, <1>5, <2>1 DEF Send
  <2> QED  BY <1>5, <2>2 DEF Send
<1>6. CASE Lock(c) \/ TypeQuit(c)
  BY <1>6 DEF Lock, TypeQuit
<1>7. CASE TypeLine(c)
  BY <1>7, MqChatAssumption DEF TypeLine, Unlocks
<1>8. CASE Leave(c) \/ Crash(c)
  BY <1>2, <1>8 DEF Leave, Crash
<1> QED
  BY <1>3, <1>4, <1>5, <1>6, <1>7, <1>8 DEF MainStep

\* So does the receiver thread.
LEMMA ReceiverTypes ==
    ASSUME Types, NEW c \in Clients, ReceiverStep(c)
    PROVE  Types'
<1> USE DEF Types, server
<1>1. CASE Receive(c)
  <2>1. Head(cq[c]) \in Messages /\ Tail(cq[c]) \in Seq(Messages)
    BY <1>1, HeadTailProperties DEF Receive
  <2> QED  BY <1>1, <2>1 DEF Receive
<1>2. CASE Show(c)
  BY <1>2, ConcatProperties DEF Show
<1> QED
  BY <1>1, <1>2 DEF ReceiverStep

\* So does the server.
LEMMA ServerTypes ==
    ASSUME Types, ServerLoops, ServerStep \/ ServerStarts \/ ServerStops \/ ServerCrashes
    PROVE  Types'
<1> USE DEF Types, server, client
<1>1. ASSUME NEW m \in Messages, Remember(m)
      PROVE  history' \in Seq(Messages)
  BY <1>1, AppendProperties DEF Remember
<1>2. ASSUME NEW t, Takes(t)
      PROVE  /\ srvq' \in [Starts -> Seq(Messages)]
             /\ Head(srvq[gen]) \in Messages /\ Head(srvq[gen]).from \in Clients
  <2>1. srvq[gen] # <<>> /\ spc = "recv"
    BY <1>2 DEF Takes
  <2>2. Head(srvq[gen]) \in Messages /\ Head(srvq[gen]).from \in Clients /\ gen \in Starts
        /\ Tail(srvq[gen]) \in Seq(Messages)
    BY <2>1, HeadType
  <2> QED  BY <1>2, <2>2 DEF Takes
<1>3. ASSUME NEW c \in Clients, NEW m \in Messages, SendsTo(c, m)
      PROVE  Types'
  <2>1. cq' \in [Clients -> Seq(Messages)]
    BY <1>3, AppendProperties DEF SendsTo
  <2> QED  BY <1>3, <2>1 DEF SendsTo
<1>4. CASE HandleMessage
  BY <1>1, <1>2, <1>4 DEF HandleMessage
<1>5. CASE Reject
  <2>1. cq' \in [Clients -> Seq(Messages)]
    BY <1>2, <1>5, AppendProperties, MessageTypes DEF Reject
  <2> QED  BY <1>2, <1>5, <2>1 DEF Reject
<1>6. CASE JoinFails
  BY <1>2, <1>6 DEF JoinFails
<1>7. CASE Admit
  <2>1. members' \in Seq(Clients)
    BY <1>2, <1>7, AppendProperties DEF Admit
  <2> QED  BY <1>2, <1>7, <2>1 DEF Admit
<1>8. CASE ReplayNext
  <2>1. history[next] \in Messages /\ job.from \in Clients
    BY <1>8, Senders DEF ReplayNext, ServerLoops
  <2> QED  BY <1>3, <1>8, <2>1 DEF ReplayNext
<1>9. CASE ReplayDone
  <2>1. job.from \in Clients
    BY <1>9, Senders DEF ReplayDone, ServerLoops
  <2>2. Joined(job.from) \in Messages
    BY <2>1, MessageTypes
  <2> QED  BY <1>1, <1>9, <2>2 DEF ReplayDone, SendToAll
<1>10. CASE SendNext
  <2>1. members[next] \in Clients /\ job \in Messages
    BY <1>10 DEF SendNext, ServerLoops
  <2> QED  BY <1>3, <1>10, <2>1 DEF SendNext
<1>11. CASE SendDone
  BY <1>11 DEF SendDone
<1>12. CASE ServerStarts
  BY <1>12, MqChatAssumption DEF ServerStarts
<1>13. CASE ServerStops \/ ServerCrashes
  BY <1>13 DEF ServerStops, ServerCrashes
<1> QED
  BY <1>4, <1>5, <1>6, <1>7, <1>8, <1>9, <1>10, <1>11, <1>12, <1>13 DEF ServerStep

\* Nothing is put into a full queue, or into a full table or history.
LEMMA ClientBounded ==
    ASSUME Types, Bounded, ClientThreads, NEW c \in Clients,
           Open(c) \/ TypeLine(c) \/ TypeQuit(c) \/ Crash(c) \/ MainStep(c) \/ ReceiverStep(c)
    PROVE  Bounded'
<1> USE DEF Bounded, server
<1>1. QueueCap \in Nat
  BY MqChatAssumption
<1>2. ASSUME NEW m \in Messages, Posts(c, m), cpc[c] \notin {"new", "gone"}
      PROVE  \A g \in Starts : Len(srvq'[g]) <= QueueCap
  <2>1. server_q[c] \in Starts /\ srvq[server_q[c]] \in Seq(Messages)
        /\ srvq \in [Starts -> Seq(Messages)]
    BY <1>2 DEF ClientThreads, Types
  <2>2. Len(Append(srvq[server_q[c]], m)) <= QueueCap
    BY <1>1, <1>2, <2>1 DEF Posts, Full
  <2> QED  BY <1>2, <2>1, <2>2 DEF Posts
<1>3. CASE Join(c)
  BY <1>2, <1>3, MessageTypes DEF Join
<1>4. CASE Send(c)
  <2>1. Line(c, lines[c]) \in Messages
    BY MessageTypes DEF Types
  <2> QED  BY <1>2, <1>4, <2>1 DEF Send
<1>5. CASE Receive(c)
  <2>1. cq[c] # <<>> /\ cq \in [Clients -> Seq(Messages)] /\ cq' = [cq EXCEPT ![c] = Tail(@)]
    BY <1>5 DEF Receive, Types
  <2>2. Len(Tail(cq[c])) <= QueueCap
    BY <1>1, <2>1, HeadTailProperties, EmptySeq
  <2>3. \A d \in Clients : Len(cq'[d]) <= QueueCap
    BY <2>1, <2>2
  <2> QED  BY <1>5, <2>3 DEF Receive
<1>6. CASE Open(c) \/ TypeLine(c) \/ TypeQuit(c) \/ Crash(c) \/ Lock(c) \/ Leave(c) \/ Show(c)
  BY <1>6 DEF Open, TypeLine, TypeQuit, Crash, Lock, Leave, Show
<1> QED
  BY <1>3, <1>4, <1>5, <1>6 DEF MainStep, ReceiverStep

\* The same for the server: Full() and TooMany are asked before anything is added.
LEMMA ServerBounded ==
    ASSUME Types, Bounded, ServerLoops,
           ServerStep \/ ServerStarts \/ ServerStops \/ ServerCrashes
    PROVE  Bounded'
<1> USE DEF Bounded, server, client
<1>1. QueueCap \in Nat /\ MaxHistory \in Nat /\ MaxClients \in Nat
      /\ srvq \in [Starts -> Seq(Messages)] /\ cq \in [Clients -> Seq(Messages)]
      /\ members \in Seq(Clients) /\ history \in Seq(Messages)
  BY MqChatAssumption DEF Types
<1>2. ASSUME NEW m \in Messages, Remember(m)
      PROVE  Len(history') <= MaxHistory
  BY <1>1, <1>2 DEF Remember
<1>3. ASSUME NEW t, Takes(t)
      PROVE  /\ \A g \in Starts : Len(srvq'[g]) <= QueueCap
             /\ Head(srvq[gen]) \in Messages /\ Head(srvq[gen]).from \in Clients
  <2>1. srvq[gen] # <<>> /\ spc = "recv"
    BY <1>3 DEF Takes
  <2>2. Head(srvq[gen]) \in Messages /\ Head(srvq[gen]).from \in Clients /\ gen \in Starts
        /\ Len(Tail(srvq[gen])) = Len(srvq[gen]) - 1 /\ Len(srvq[gen]) \in Nat
    BY <2>1, HeadType
  <2> QED  BY <1>1, <1>3, <2>2 DEF Takes
<1>4. ASSUME NEW c \in Clients, NEW m \in Messages, ~Full(cq[c])
      PROVE  \A d \in Clients : Len([cq EXCEPT ![c] = Append(@, m)][d]) <= QueueCap
  BY <1>1, <1>4 DEF Full
<1>5. CASE HandleMessage
  BY <1>2, <1>3, <1>5 DEF HandleMessage
<1>6. CASE Reject
  <2> DEFINE c == Head(srvq[gen]).from
  <2>1. c \in Clients /\ Rejected(c) \in Messages
    BY <1>3, <1>6, MessageTypes DEF Reject
  <2>2. cq' = IF linked[c] THEN [cq EXCEPT ![c] = Append(@, Rejected(c))] ELSE cq
    BY <1>6 DEF Reject
  <2>3. linked[c] => ~Full(cq[c])
    BY <1>6 DEF Reject
  <2>4. UNCHANGED <<members, history>> /\ \A g \in Starts : Len(srvq'[g]) <= QueueCap
    BY <1>3, <1>6 DEF Reject
  <2> HIDE DEF c
  <2>5. \A d \in Clients : Len(cq'[d]) <= QueueCap
    BY <1>4, <2>1, <2>2, <2>3
  <2> QED  BY <2>4, <2>5
<1>7. CASE JoinFails
  BY <1>3, <1>7 DEF JoinFails
<1>8. CASE Admit
  <2>1. Len(members') <= MaxClients
    BY <1>1, <1>3, <1>8, AppendProperties DEF Admit, TooMany
  <2> QED  BY <1>3, <1>8, <2>1 DEF Admit
<1>9. CASE ReplayNext
  <2>1. history[next] \in Messages /\ job.from \in Clients
    BY <1>9, Senders DEF ReplayNext, ServerLoops, Types
  <2> QED  BY <1>4, <1>9, <2>1 DEF ReplayNext, SendsTo
<1>10. CASE ReplayDone
  <2>1. Joined(job.from) \in Messages
    BY <1>10, Senders, MessageTypes DEF ReplayDone, ServerLoops
  <2> QED  BY <1>2, <1>10, <2>1 DEF ReplayDone, SendToAll
<1>11. CASE SendNext
  <2>1. members[next] \in Clients /\ job \in Messages
    BY <1>1, <1>11 DEF SendNext, ServerLoops
  <2> QED  BY <1>4, <1>11, <2>1 DEF SendNext, SendsTo
<1>12. CASE SendDone \/ ServerStops \/ ServerCrashes
  BY <1>12 DEF SendDone, ServerStops, ServerCrashes
<1>13. CASE ServerStarts
  BY <1>1, <1>13 DEF ServerStarts
<1> QED
  BY <1>5, <1>6, <1>7, <1>8, <1>9, <1>10, <1>11, <1>12, <1>13 DEF ServerStep

------------------------------------------------------------------------------
(* The server queues.                                                          *)

\* Messages of different kinds, of different clients or with different numbers differ.
LEMMA Apart ==
    \A c, d, k, l :
      /\ JoinRequest(c) = JoinRequest(d) => c = d
      /\ Joined(c) = Joined(d) => c = d
      /\ Rejected(c) = Rejected(d) => c = d
      /\ Line(c, k) = Line(d, l) => c = d /\ k = l
      /\ JoinRequest(c) # Line(d, l) /\ JoinRequest(c) # Joined(d) /\ JoinRequest(c) # Rejected(d)
      /\ Line(c, k) # Joined(d) /\ Line(c, k) # Rejected(d) /\ Joined(c) # Rejected(d)
      /\ JoinRequest(c).type = "J" /\ Line(c, k).type = "M" /\ JoinRequest(c).from = c
  BY DEF JoinRequest, Joined, Rejected, Line, Msg

\* What the server takes is a request of a client, and then waits no more.
LEMMA TakesHead ==
    ASSUME Types, ServerLoops, Requests, Once, NEW t, Takes(t)
    PROVE  LET m == Head(srvq[gen])
           IN  /\ Once' /\ Waits(m) /\ \A x : Waits(x)' <=> Waits(x) /\ x # m
               /\ t = "J" => m.from \in Clients /\ m = JoinRequest(m.from)
               /\ t = "M" => \E c \in Clients : \E k \in 0 .. MaxLines : m = Line(c, k)
<1> DEFINE m == Head(srvq[gen])
           q == srvq[gen]
<1>1. spc = "recv" /\ q # <<>> /\ m.type = t /\ srvq' = [srvq EXCEPT ![gen] = Tail(@)]
  BY DEF Takes
<1>2. /\ gen \in Starts /\ q \in Seq(Messages) /\ m \in Messages /\ m.from \in Clients
      /\ m = q[1] /\ 1 \in 1 .. Len(q) /\ Tail(q) \in Seq(Messages)
      /\ Len(Tail(q)) = Len(q) - 1
  BY <1>1, HeadType
<1>3. \A i \in 1 .. Len(q) - 1 : Tail(q)[i] = q[i + 1]
  BY <1>1, <1>2, HeadTailProperties
<1>4. srvq \in [Starts -> Seq(Messages)]
  BY DEF Types
<1>5. \A g \in Starts : srvq'[g] = IF g = gen THEN Tail(q) ELSE srvq[g]
  BY <1>1, <1>4
<1>6. Waits(m)
  BY <1>2 DEF Waits
<1>7. \A g \in Starts : \A i \in 1 .. Len(srvq'[g]) :
        \E j \in 1 .. Len(srvq[g]) : srvq'[g][i] = srvq[g][j] /\ (g = gen => j = i + 1)
                                     /\ (g # gen => j = i)
  <2> SUFFICES ASSUME NEW g \in Starts, NEW i \in 1 .. Len(srvq'[g])
               PROVE  \E j \in 1 .. Len(srvq[g]) :
                         srvq'[g][i] = srvq[g][j] /\ (g = gen => j = i + 1) /\ (g # gen => j = i)
    OBVIOUS
  <2>1. CASE g = gen
    <3>1. srvq'[g] = Tail(q) /\ Len(q) \in Nat
      BY <1>2, <1>5, <2>1
    <3>2. i \in 1 .. Len(q) - 1
      BY <1>2, <3>1
    <3>3. i + 1 \in 1 .. Len(q) /\ srvq'[g][i] = q[i + 1]
      BY <1>3, <3>1, <3>2
    <3> QED  BY <2>1, <3>3
  <2>2. CASE g # gen
    BY <1>5, <2>2
  <2> QED  BY <2>1, <2>2
<1> HIDE DEF m
<1>8. ASSUME NEW x
      PROVE  Waits(x)' <=> Waits(x) /\ x # m
  <2>1. ASSUME Waits(x)'
        PROVE  Waits(x) /\ x # m
    <3>1. PICK g \in Starts : \E i \in 1 .. Len(srvq'[g]) : srvq'[g][i] = x
      BY <2>1 DEF Waits
    <3>2. PICK i \in 1 .. Len(srvq'[g]) : srvq'[g][i] = x
      BY <3>1
    <3>3. PICK j \in 1 .. Len(srvq[g]) :
            srvq'[g][i] = srvq[g][j] /\ (g = gen => j = i + 1) /\ (g # gen => j = i)
      BY <1>7
    <3>4. x = m => g = gen /\ j = 1
      <4>1. x = m => srvq[g][j] = srvq[gen][1]
        BY <1>2, <3>2, <3>3
      <4> QED  BY <1>2, <4>1 DEF Once
    <3>5. i # 0 /\ i \in Nat
      BY <1>4, <1>5, <1>2
    <3> QED  BY <3>2, <3>3, <3>4, <3>5 DEF Waits
  <2>2. ASSUME Waits(x), x # m
        PROVE  Waits(x)'
    <3>1. PICK g \in Starts : \E i \in 1 .. Len(srvq[g]) : srvq[g][i] = x
      BY <2>2 DEF Waits
    <3>2. PICK i \in 1 .. Len(srvq[g]) : srvq[g][i] = x
      BY <3>1
    <3>3. CASE g = gen
      <4>1. i # 1 /\ i - 1 \in 1 .. Len(q) - 1
        BY <1>2, <2>2, <3>2, <3>3
      <4>2. Tail(q)[i - 1] = x
        BY <1>3, <3>2, <3>3, <4>1
      <4> QED  BY <1>2, <1>5, <3>3, <4>1, <4>2 DEF Waits
    <3>4. CASE g # gen
      BY <1>5, <3>2, <3>4 DEF Waits
    <3> QED  BY <3>3, <3>4
  <2> QED  BY <2>1, <2>2
<1>12. Once'
  <2> SUFFICES ASSUME NEW g \in Starts, NEW h \in Starts, NEW i \in 1 .. Len(srvq'[g]),
                      NEW j \in 1 .. Len(srvq'[h]), srvq'[g][i] = srvq'[h][j]
               PROVE  g = h /\ i = j
    BY DEF Once
  <2>1. PICK a \in 1 .. Len(srvq[g]) :
          srvq'[g][i] = srvq[g][a] /\ (g = gen => a = i + 1) /\ (g # gen => a = i)
    BY <1>7
  <2>2. PICK b \in 1 .. Len(srvq[h]) :
          srvq'[h][j] = srvq[h][b] /\ (h = gen => b = j + 1) /\ (h # gen => b = j)
    BY <1>7
  <2>3. g = h /\ a = b
    <3>1. srvq[g][a] = srvq[h][b]
      BY <2>1, <2>2
    <3> QED  BY <3>1 DEF Once
  <2> QED  BY <2>1, <2>2, <2>3
<1>9. PICK c \in Clients : \/ m = JoinRequest(c)
                           \/ \E k \in 0 .. MaxLines : m = Line(c, k) /\ Sent(c, k)
  BY <1>2 DEF Requests
<1>10. t = "J" => m = JoinRequest(m.from)
  BY <1>1, <1>9, Apart DEF m
<1>11. t = "M" => \E k \in 0 .. MaxLines : m = Line(c, k)
  BY <1>1, <1>9, Apart DEF m
<1> QED
  BY <1>2, <1>6, <1>8, <1>9, <1>10, <1>11, <1>12 DEF m

\* What a client puts into its server's queue waits behind the rest.
LEMMA PostsLast ==
    ASSUME Types, ClientThreads, Once, NEW c \in Clients, cpc[c] \notin {"new", "gone"},
           NEW m \in Messages, ~Waits(m), Posts(c, m)
    PROVE  Once' /\ \A x : Waits(x)' <=> Waits(x) \/ x = m
<1> DEFINE b == server_q[c]
<1>1. b \in Starts /\ srvq \in [Starts -> Seq(Messages)] /\ srvq[b] \in Seq(Messages)
  BY DEF ClientThreads, Types
<1>2. srvq' = [srvq EXCEPT ![b] = Append(@, m)]
  BY DEF Posts
<1>3. \A g \in Starts : srvq'[g] = IF g = b THEN Append(srvq[b], m) ELSE srvq[g]
  BY <1>1, <1>2
<1>4. /\ Len(srvq[b]) \in Nat /\ Len(Append(srvq[b], m)) = Len(srvq[b]) + 1
      /\ \A i \in 1 .. Len(srvq[b]) : Append(srvq[b], m)[i] = srvq[b][i]
      /\ Append(srvq[b], m)[Len(srvq[b]) + 1] = m
  BY <1>1, AppendProperties
<1> HIDE DEF b
<1>5. \A g \in Starts : \A i \in 1 .. Len(srvq'[g]) :
        \/ i \in 1 .. Len(srvq[g]) /\ srvq'[g][i] = srvq[g][i]
        \/ g = b /\ i = Len(srvq[b]) + 1 /\ srvq'[g][i] = m
  <2> TAKE g \in Starts
  <2> TAKE i \in 1 .. Len(srvq'[g])
  <2>1. CASE g = b
    <3>1. srvq'[g] = Append(srvq[b], m)
      BY <1>3, <2>1
    <3>2. i \in 1 .. Len(srvq[b]) + 1
      BY <1>4, <3>1
    <3> QED  BY <1>4, <2>1, <3>1, <3>2
  <2>2. CASE g # b
    BY <1>3, <2>2
  <2> QED  BY <2>1, <2>2
<1>6. \A g \in Starts : \A i \in 1 .. Len(srvq[g]) :
        i \in 1 .. Len(srvq'[g]) /\ srvq'[g][i] = srvq[g][i]
  <2> TAKE g \in Starts
  <2> TAKE i \in 1 .. Len(srvq[g])
  <2>1. CASE g = b
    <3>1. srvq'[g] = Append(srvq[b], m)
      BY <1>3, <2>1
    <3> QED  BY <1>4, <2>1, <3>1
  <2>2. CASE g # b
    BY <1>3, <2>2
  <2> QED  BY <2>1, <2>2
<1>7. Len(srvq[b]) + 1 \in 1 .. Len(srvq'[b]) /\ srvq'[b][Len(srvq[b]) + 1] = m
  <2>1. srvq'[b] = Append(srvq[b], m)
    BY <1>1, <1>3
  <2> QED  BY <1>4, <2>1
<1>8. \A g \in Starts : \A i \in 1 .. Len(srvq[g]) : srvq[g][i] # m
  BY DEF Waits
<1>9. Once'
  <2> SUFFICES ASSUME NEW g \in Starts, NEW h \in Starts, NEW i \in 1 .. Len(srvq'[g]),
                      NEW j \in 1 .. Len(srvq'[h]), srvq'[g][i] = srvq'[h][j]
               PROVE  g = h /\ i = j
    BY DEF Once
  <2>1. CASE i \in 1 .. Len(srvq[g]) /\ j \in 1 .. Len(srvq[h])
    <3>1. srvq[g][i] = srvq[h][j]
      BY <1>6, <2>1
    <3> QED  BY <2>1, <3>1 DEF Once
  <2>2. CASE ~(i \in 1 .. Len(srvq[g]) /\ j \in 1 .. Len(srvq[h]))
    BY <1>5, <1>8, <2>2
  <2> QED  BY <2>1, <2>2
<1>10. ASSUME NEW x
       PROVE  Waits(x)' <=> Waits(x) \/ x = m
  <2>1. ASSUME Waits(x)'
        PROVE  Waits(x) \/ x = m
    <3>1. PICK g \in Starts : \E i \in 1 .. Len(srvq'[g]) : srvq'[g][i] = x
      BY <2>1 DEF Waits
    <3> QED  BY <1>5, <3>1 DEF Waits
  <2>2. ASSUME Waits(x)
        PROVE  Waits(x)'
    <3>1. PICK g \in Starts : \E i \in 1 .. Len(srvq[g]) : srvq[g][i] = x
      BY <2>2 DEF Waits
    <3> QED  BY <1>6, <3>1 DEF Waits
  <2>3. ASSUME x = m
        PROVE  Waits(x)'
    BY <1>1, <1>7, <2>3 DEF Waits
  <2> QED  BY <2>1, <2>2, <2>3
<1> QED
  BY <1>9, <1>10

\* Requests, in the words of Waits.
LEMMA RequestsSay ==
    Requests <=> \A m : Waits(m) => \E c \in Clients :
                   \/ m = JoinRequest(c)
                   \/ \E k \in 0 .. MaxLines : m = Line(c, k) /\ Sent(c, k)
  BY DEF Requests, Waits

------------------------------------------------------------------------------
(* Where the threads are.                                                      *)

\* The threads of a client.
LEMMA ClientStepThreads ==
    ASSUME Types, ClientThreads, NEW c \in Clients,
           Open(c) \/ TypeLine(c) \/ TypeQuit(c) \/ Crash(c) \/ MainStep(c) \/ ReceiverStep(c)
    PROVE  ClientThreads'
<1> SUFFICES ASSUME NEW d \in Clients
             PROVE  /\ cpc'[d] \notin {"new", "gone"} => server_q'[d] \in Starts
                    /\ cpc'[d] \in {"new", "join", "gone"} => rpc'[d] = "off"
                    /\ rpc'[d] = "lock" => \E m \in Messages : held'[d] = <<m>>
                    /\ rpc'[d] # "lock" => held'[d] = <<>>
  BY DEF ClientThreads
<1>1. /\ cpc[d] \notin {"new", "gone"} => server_q[d] \in Starts
      /\ cpc[d] \in {"new", "join", "gone"} => rpc[d] = "off"
      /\ rpc[d] = "lock" => \E m \in Messages : held[d] = <<m>>
      /\ rpc[d] # "lock" => held[d] = <<>>
  BY DEF ClientThreads
<1>2. /\ cpc \in [Clients -> {"new", "join", "lock", "prompt", "send", "leave", "gone"}]
      /\ rpc \in [Clients -> {"off", "recv", "lock"}]
      /\ held \in [Clients -> Seq(Messages)] /\ server_q \in [Clients -> 0 .. MaxStarts]
      /\ cq \in [Clients -> Seq(Messages)]
  BY DEF Types
<1>3. CASE Open(c)
  <2>1. registered # 0 => registered \in Starts
    BY MqChatAssumption DEF Types, Starts
  <2> QED  BY <1>1, <1>2, <1>3, <2>1 DEF Open, Exit
<1>4. CASE Join(c)
  BY <1>1, <1>2, <1>4 DEF Join
<1>5. CASE Leave(c) \/ Crash(c)
  BY <1>1, <1>2, <1>5 DEF Leave, Crash, Exit
<1>6. CASE Lock(c) \/ TypeLine(c) \/ TypeQuit(c) \/ Send(c)
  BY <1>1, <1>2, <1>6 DEF Lock, TypeLine, TypeQuit, Send
<1>7. CASE Receive(c)
  <2>1. Head(cq[c]) \in Messages
    BY <1>2, <1>7, HeadTailProperties DEF Receive
  <2> QED  BY <1>1, <1>2, <1>7, <2>1 DEF Receive
<1>8. CASE Show(c)
  BY <1>1, <1>2, <1>8 DEF Show
<1> QED
  BY <1>3, <1>4, <1>5, <1>6, <1>7, <1>8 DEF MainStep, ReceiverStep

\* The loops of the server, apart from those steps that start one.
LEMMA ServerStepLoops ==
    ASSUME Types, ServerLoops, Requests, Once, NotYetJoined,
           ServerStep \/ ServerStarts \/ ServerStops \/ ServerCrashes
    PROVE  ServerLoops'
<1>1. /\ gen \in 0 .. MaxStarts /\ members \in Seq(Clients) /\ history \in Seq(Messages)
      /\ next \in Nat /\ MaxStarts \in Nat
  BY MqChatAssumption DEF Types
<1>2. Types'
  BY ServerTypes
<1>3. CASE HandleMessage
  <2>1. spc = "recv" /\ srvq[gen] # <<>>
    BY <1>3 DEF HandleMessage, Takes
  <2>2. Head(srvq[gen]) \in Messages /\ gen \in Starts
    BY <2>1, HeadType
  <2> QED  BY <1>1, <1>3, <2>2 DEF HandleMessage, ServerLoops
<1>4. CASE Reject \/ JoinFails
  BY <1>4 DEF Reject, JoinFails, server, ServerLoops, IsIn
<1>5. CASE Admit
  <2> DEFINE c == Head(srvq[gen]).from
  <2>1. spc = "recv" /\ srvq[gen] # <<>> /\ Head(srvq[gen]).type = "J"
    BY <1>5 DEF Admit, Takes
  <2>2. Head(srvq[gen]) \in Messages /\ gen \in Starts /\ c \in Clients
    BY <2>1, HeadType
  <2>3. members' = Append(members, c) /\ job' = Head(srvq[gen]) /\ next' = 1 /\ spc' = "replay"
        /\ gen' = gen /\ history' = history
    BY <1>5 DEF Admit
  <2>4. ~IsIn(c)
    <3>1. Takes("J")
      BY <1>5 DEF Admit
    <3>2. Waits(JoinRequest(c))
      BY <3>1, TakesHead
    <3> QED  BY <2>2, <3>2 DEF NotYetJoined
  <2>5. Len(members') = Len(members) + 1 /\ members'[Len(members) + 1] = c
        /\ \A i \in 1 .. Len(members) : members'[i] = members[i]
    BY <1>1, <2>2, <2>3, AppendProperties
  <2> QED  BY <1>1, <2>2, <2>3, <2>4, <2>5 DEF ServerLoops, IsIn
<1>6. CASE ReplayNext \/ SendNext
  BY <1>1, <1>6 DEF ReplayNext, SendNext, SendsTo, ServerLoops, IsIn
<1>7. CASE ReplayDone
  <2>1. Joined(job.from) \in Messages
    BY <1>7, Senders, MessageTypes DEF ReplayDone, ServerLoops
  <2> QED  BY <1>1, <1>7, <2>1 DEF ReplayDone, SendToAll, ServerLoops
<1>8. CASE SendDone
  BY <1>8 DEF SendDone, ServerLoops
<1>9. CASE ServerStarts
  BY <1>1, <1>9 DEF ServerStarts, ServerLoops, Starts
<1>10. CASE ServerStops \/ ServerCrashes
  BY <1>10 DEF ServerStops, ServerCrashes, ServerLoops
<1> QED
  BY <1>3, <1>4, <1>5, <1>6, <1>7, <1>8, <1>9, <1>10 DEF ServerStep

------------------------------------------------------------------------------
(* Order.                                                                      *)

\* A beginning of a list, and perhaps one message more.
Follows(t, s, m) ==
    \E n \in 0 .. Len(s) :
      /\ \A i \in 1 .. n : t[i] = s[i]
      /\ Len(t) = n \/ (Len(t) = n + 1 /\ t[n + 1] = m)

\* Two lists that agree still agree when each is cut, or gets the same new message.
LEMMA AgreesAfter ==
    ASSUME NEW s1 \in Seq(Messages), NEW s2 \in Seq(Messages), Agree(s1, s2), NEW m,
           \A i \in 1 .. Len(s1) : s1[i] # m, \A i \in 1 .. Len(s2) : s2[i] # m,
           NEW t1, Follows(t1, s1, m), NEW t2, Follows(t2, s2, m)
    PROVE  Agree(t1, t2)
<1>1. Len(s1) \in Nat /\ Len(s2) \in Nat
  OBVIOUS
<1>2. PICK a \in 0 .. Len(s1) : /\ \A i \in 1 .. a : t1[i] = s1[i]
                                /\ Len(t1) = a \/ (Len(t1) = a + 1 /\ t1[a + 1] = m)
  BY DEF Follows
<1>3. PICK b \in 0 .. Len(s2) : /\ \A i \in 1 .. b : t2[i] = s2[i]
                                /\ Len(t2) = b \/ (Len(t2) = b + 1 /\ t2[b + 1] = m)
  BY DEF Follows
<1>4. SUFFICES ASSUME NEW i \in 1 .. Len(t1), NEW j \in 1 .. Len(t1),
                      NEW k \in 1 .. Len(t2), NEW l \in 1 .. Len(t2),
                      t1[i] = t2[k], t1[j] = t2[l], i < j
               PROVE  k < l
  BY DEF Agree
<1>5. i \in 1 .. a /\ t1[i] = s1[i] /\ i \in 1 .. Len(s1)
  BY <1>1, <1>2, <1>4
<1>6. k \in 1 .. b /\ t2[k] = s2[k] /\ k \in 1 .. Len(s2)
  <2>1. t2[k] # m
    BY <1>4, <1>5
  <2>2. k \in 1 .. b
    BY <1>1, <1>3, <1>4, <2>1
  <2> QED  BY <1>1, <1>3, <2>2
<1>7. CASE j \in 1 .. a
  <2>1. t1[j] = s1[j] /\ j \in 1 .. Len(s1)
    BY <1>1, <1>2, <1>7
  <2>2. l \in 1 .. b /\ t2[l] = s2[l] /\ l \in 1 .. Len(s2)
    <3>1. t2[l] # m
      BY <1>4, <2>1
    <3>2. l \in 1 .. b
      BY <1>1, <1>3, <1>4, <3>1
    <3> QED  BY <1>1, <1>3, <3>2
  <2> QED  BY <1>4, <1>5, <1>6, <2>1, <2>2 DEF Agree
<1>8. CASE j \notin 1 .. a
  <2>1. t1[j] = m
    BY <1>1, <1>2, <1>4, <1>8
  <2>2. l \notin 1 .. b
    <3>1. l \in 1 .. b => t2[l] = s2[l] /\ l \in 1 .. Len(s2)
      BY <1>1, <1>3
    <3> QED  BY <1>4, <2>1, <3>1
  <2> QED  BY <1>1, <1>3, <1>4, <1>6, <2>2
<1> QED
  BY <1>7, <1>8

\* What the server still has to send, case by case.
LEMMA PendingIs ==
    \A c : /\ spc = "replay" /\ c = job.from => Pending(c) = SubSeq(history, next, Len(history))
           /\ spc = "replay" /\ c # job.from => Pending(c) = <<>>
           /\ spc = "send" => Pending(c) = IF \E i \in next .. Len(members) : members[i] = c
                                           THEN <<job>> ELSE <<>>
           /\ spc \notin {"replay", "send"} => Pending(c) = <<>>
  BY DEF Pending

\* Streams are lists of messages.
LEMMA StreamTypes ==
    Types /\ ServerLoops =>
      /\ \A c \in Clients : Pending(c) \in Seq(Messages) /\ Stream(c) \in Seq(Messages)
      /\ \A s \in Streams : s \in Seq(Messages)
<1> SUFFICES ASSUME Types, ServerLoops
             PROVE  /\ \A c \in Clients : Pending(c) \in Seq(Messages)
                                          /\ Stream(c) \in Seq(Messages)
                    /\ \A s \in Streams : s \in Seq(Messages)
  OBVIOUS
<1>1. ASSUME NEW c \in Clients
      PROVE  Pending(c) \in Seq(Messages)
  <2>1. CASE spc = "replay" /\ c = job.from
    <3>1. next \in Nat /\ history \in Seq(Messages) /\ next \in 1 .. Len(history) + 1
      BY <2>1 DEF Types, ServerLoops
    <3>2. \A i \in next .. Len(history) : history[i] \in Messages
      BY <3>1
    <3>3. SubSeq(history, next, Len(history)) \in Seq(Messages)
      BY <3>1, <3>2, SubSeqProperties
    <3> QED  BY <2>1, <3>3, PendingIs
  <2>2. CASE spc = "send"
    <3>1. <<job>> \in Seq(Messages) /\ <<>> \in Seq(Messages)
      BY <2>2 DEF ServerLoops
    <3> QED  BY <2>2, <3>1, PendingIs
  <2>3. CASE ~(spc = "replay" /\ c = job.from) /\ spc # "send"
    <3>1. Pending(c) = <<>>
      BY <2>3, PendingIs
    <3> QED  BY <3>1, EmptySeq
  <2> QED  BY <2>1, <2>2, <2>3
<1>2. ASSUME NEW c \in Clients
      PROVE  Stream(c) \in Seq(Messages)
  <2>1. screen[c] \in Seq(Messages) /\ held[c] \in Seq(Messages) /\ cq[c] \in Seq(Messages)
    BY DEF Types
  <2> QED  BY <1>1, <2>1, ConcatProperties DEF Stream
<1> QED
  BY <1>1, <1>2 DEF Streams, Types

\* A step that cuts the lists, or ends some of them with one message that nobody has
\* seen, keeps them in order and shows nothing else.
LEMMA OrderStep ==
    ASSUME Types, ServerLoops, InOrder, NEW m, ~Seen(m),
           \A t \in Streams' : \E s \in Streams : Follows(t, s, m)
    PROVE  InOrder' /\ \A x : Seen(x)' => Seen(x) \/ x = m
<1>1. ASSUME NEW s \in Streams
      PROVE  s \in Seq(Messages) /\ \A i \in 1 .. Len(s) : s[i] # m
  BY <1>1, StreamTypes DEF Seen
<1>2. ASSUME NEW t1 \in Streams', NEW t2 \in Streams'
      PROVE  Agree(t1, t2)
  <2>1. PICK s1 \in Streams : Follows(t1, s1, m)
    OBVIOUS
  <2>2. PICK s2 \in Streams : Follows(t2, s2, m)
    OBVIOUS
  <2>3. Agree(s1, s2)
    BY DEF InOrder
  <2> QED  BY <1>1, <2>1, <2>2, <2>3, AgreesAfter
<1>3. ASSUME NEW x, Seen(x)'
      PROVE  Seen(x) \/ x = m
  <2>1. PICK t \in Streams' : \E i \in 1 .. Len(t) : t[i] = x
    BY <1>3 DEF Seen
  <2>2. PICK i \in 1 .. Len(t) : t[i] = x
    BY <2>1
  <2>3. PICK s \in Streams : Follows(t, s, m)
    BY <2>1
  <2>4. PICK n \in 0 .. Len(s) : /\ \A j \in 1 .. n : t[j] = s[j]
                                 /\ Len(t) = n \/ (Len(t) = n + 1 /\ t[n + 1] = m)
    BY <2>3 DEF Follows
  <2>5. Len(s) \in Nat
    BY <1>1
  <2>6. CASE i \in 1 .. n
    <3>1. i \in 1 .. Len(s) /\ s[i] = x
      BY <2>2, <2>4, <2>5, <2>6
    <3> QED  BY <3>1 DEF Seen
  <2>7. CASE i \notin 1 .. n
    BY <2>2, <2>4, <2>5, <2>7
  <2> QED  BY <2>6, <2>7
<1> QED
  BY <1>2, <1>3 DEF InOrder, Agree

------------------------------------------------------------------------------
(* What a step does to the streams.                                            *)

\* A message that goes from the front of the queue to the receiver thread.
LEMMA MoveHead ==
    ASSUME NEW s \in Seq(Messages), NEW q \in Seq(Messages), NEW p \in Seq(Messages), q # <<>>
    PROVE  ((s \o <<>>) \o q) \o p = ((s \o <<Head(q)>>) \o Tail(q)) \o p
<1>1. Head(q) \in Messages /\ Tail(q) \in Seq(Messages) /\ <<Head(q)>> \in Seq(Messages)
  BY HeadTailProperties
<1>2. <<Head(q)>> \o Tail(q) = q
  <2>1. Len(q) \in Nat \ {0}
    BY EmptySeq
  <2>2. SubSeq(q, 1, Len(q)) = << q[1] >> \o SubSeq(q, 2, Len(q))
    BY <2>1, SubSeqRecursiveFirst
  <2> QED  BY <1>1, <2>1, <2>2, SubSeqFull, TailIsSubSeq DEF Head
<1>3. s \o (<<Head(q)>> \o Tail(q)) = (s \o <<Head(q)>>) \o Tail(q)
  BY <1>1, ConcatAssociative
<1> QED
  BY <1>2, <1>3, ConcatEmptySeq

\* A message that the server puts into the queue.
LEMMA MoveLast ==
    ASSUME NEW s \in Seq(Messages), NEW q \in Seq(Messages), NEW p \in Seq(Messages),
           NEW m \in Messages
    PROVE  (s \o q) \o (<<m>> \o p) = (s \o Append(q, m)) \o p
<1>1. <<m>> \in Seq(Messages) /\ s \o q \in Seq(Messages) /\ q \o <<m>> \in Seq(Messages)
  BY ConcatProperties
<1>2. (s \o q) \o (<<m>> \o p) = ((s \o q) \o <<m>>) \o p
  BY <1>1, ConcatAssociative
<1>3. (s \o q) \o <<m>> = s \o (q \o <<m>>)
  BY <1>1, ConcatAssociative
<1>4. q \o <<m>> = Append(q, m)
  BY AppendIsConcat
<1> QED
  BY <1>2, <1>3, <1>4

\* A client moves what is on its way to its screen, or is gone.
LEMMA ClientStreams ==
    ASSUME Types, ServerLoops, ClientThreads, NEW c \in Clients,
           Open(c) \/ TypeLine(c) \/ TypeQuit(c) \/ Crash(c) \/ MainStep(c) \/ ReceiverStep(c)
    PROVE  /\ UNCHANGED server
           /\ \A d \in Clients : \/ Stream(d)' = Stream(d)
                                 \/ cpc'[d] = "gone" /\ Stream(d)' = screen[d]
<1>1. UNCHANGED server
  BY DEF Open, TypeLine, TypeQuit, Crash, MainStep, Join, Lock, Send, Leave, ReceiverStep,
     Receive, Show
<1>2. \A d : Pending(d)' = Pending(d)
  BY <1>1 DEF Pending, server
<1>3. /\ cpc \in [Clients -> {"new", "join", "lock", "prompt", "send", "leave", "gone"}]
      /\ held \in [Clients -> Seq(Messages)] /\ cq \in [Clients -> Seq(Messages)]
      /\ screen \in [Clients -> Seq(Messages)]
  BY DEF Types
<1>4. ASSUME NEW d \in Clients,
             screen'[d] = screen[d], held'[d] = held[d], cq'[d] = cq[d],
             (cpc[d] # "gone" /\ cpc'[d] # "gone") \/ cpc'[d] = cpc[d]
      PROVE  Stream(d)' = Stream(d)
  BY <1>2, <1>4 DEF Stream
<1>5. ASSUME NEW d \in Clients, screen' = screen, cpc'[d] = "gone"
      PROVE  Stream(d)' = screen[d]
  BY <1>5 DEF Stream
<1>6. ASSUME NEW d \in Clients
      PROVE  Stream(d)' = Stream(d) \/ (cpc'[d] = "gone" /\ Stream(d)' = screen[d])
  <2>1. CASE Open(c)
    <3>1. CASE c = d /\ registered = 0
      BY <1>3, <1>5, <2>1, <3>1 DEF Open, Exit
    <3>2. CASE ~(c = d /\ registered = 0)
      BY <1>3, <1>4, <2>1, <3>2 DEF Open, Exit
    <3> QED  BY <3>1, <3>2
  <2>2. CASE Leave(c) \/ Crash(c)
    <3>1. CASE c = d
      BY <1>3, <1>5, <2>2, <3>1 DEF Leave, Crash, Exit
    <3>2. CASE c # d
      BY <1>3, <1>4, <2>2, <3>2 DEF Leave, Crash, Exit
    <3> QED  BY <3>1, <3>2
  <2>3. CASE Join(c) \/ Lock(c) \/ Send(c) \/ TypeLine(c) \/ TypeQuit(c)
    BY <1>3, <1>4, <2>3 DEF Join, Lock, Send, TypeLine, TypeQuit
  <2>4. CASE Receive(c)
    <3>1. CASE c = d
      <4>1. /\ held[c] = <<>> /\ held'[c] = <<Head(cq[c])>> /\ cq[c] # <<>>
            /\ cq'[c] = Tail(cq[c]) /\ screen' = screen /\ cpc' = cpc
        BY <1>3, <2>4 DEF Receive, ClientThreads
      <4>2. ((screen[c] \o <<>>) \o cq[c]) \o Pending(c)
            = ((screen[c] \o <<Head(cq[c])>>) \o Tail(cq[c])) \o Pending(c)
        <5>1. Pending(c) \in Seq(Messages) /\ screen[c] \in Seq(Messages)
              /\ cq[c] \in Seq(Messages)
          BY <1>3, StreamTypes
        <5> QED  BY <4>1, <5>1, MoveHead
      <4> QED  BY <1>2, <3>1, <4>1, <4>2 DEF Stream
    <3>2. CASE c # d
      BY <1>3, <1>4, <2>4, <3>2 DEF Receive
    <3> QED  BY <3>1, <3>2
  <2>5. CASE Show(c)
    <3>1. CASE c = d
      <4>1. /\ screen'[c] = screen[c] \o held[c] /\ held'[c] = <<>> /\ cq' = cq
            /\ rpc[c] = "lock" /\ cpc' = cpc
        BY <1>3, <2>5 DEF Show
      <4>2. cpc[c] # "gone"
        BY <4>1 DEF ClientThreads
      <4>3. screen[c] \o held[c] = (screen[c] \o held[c]) \o <<>>
        <5>1. screen[c] \o held[c] \in Seq(Messages)
          BY <1>3, ConcatProperties
        <5> QED  BY <5>1, ConcatEmptySeq
      <4> QED  BY <1>2, <3>1, <4>1, <4>2, <4>3 DEF Stream
    <3>2. CASE c # d
      BY <1>3, <1>4, <2>5, <3>2 DEF Show
    <3> QED  BY <3>1, <3>2
  <2> QED  BY <2>1, <2>2, <2>3, <2>4, <2>5 DEF MainStep, ReceiverStep
<1> QED
  BY <1>1, <1>6

\* The loops of the server only move what a client still has to hear into its queue.
LEMMA LoopStreams ==
    ASSUME Types, ServerLoops, ReplayNext \/ SendNext \/ SendDone \/ JoinFails
    PROVE  history' = history /\ \A d \in Clients : Stream(d)' = Stream(d)
<1>1. /\ history \in Seq(Messages) /\ members \in Seq(Clients) /\ next \in Nat
      /\ held \in [Clients -> Seq(Messages)] /\ cq \in [Clients -> Seq(Messages)]
      /\ screen \in [Clients -> Seq(Messages)]
  BY DEF Types
<1>2. UNCHANGED <<history, screen, held, cpc>>
  BY DEF ReplayNext, SendNext, SendDone, JoinFails, SendsTo, client, server
<1>3. ASSUME NEW d \in Clients, Pending(d)' = Pending(d), cq'[d] = cq[d]
      PROVE  Stream(d)' = Stream(d)
  BY <1>2, <1>3 DEF Stream
<1>4. ASSUME NEW d \in Clients, NEW m \in Messages, NEW p \in Seq(Messages),
             Pending(d) = <<m>> \o p, Pending(d)' = p, cq'[d] = Append(cq[d], m)
      PROVE  Stream(d)' = Stream(d)
  <2>1. screen[d] \o held[d] \in Seq(Messages) /\ cq[d] \in Seq(Messages)
    BY <1>1, ConcatProperties
  <2>2. ((screen[d] \o held[d]) \o cq[d]) \o (<<m>> \o p)
        = ((screen[d] \o held[d]) \o Append(cq[d], m)) \o p
    BY <1>4, <2>1, MoveLast
  <2> QED  BY <1>2, <1>4, <2>2 DEF Stream
<1>5. CASE ReplayNext
  <2>1. /\ spc = "replay" /\ next \in 1 .. Len(history) /\ SendsTo(job.from, history[next])
        /\ job.from \in Clients /\ history[next] \in Messages
    BY <1>1, <1>5, Senders DEF ReplayNext, ServerLoops
  <2>2. PICK c \in Clients, m \in Messages : c = job.from /\ m = history[next]
    BY <2>1
  <2>3. UNCHANGED <<spc, job, members>> /\ next' = next + 1 /\ cq' = [cq EXCEPT ![c] = Append(@, m)]
    BY <2>1, <2>2 DEF SendsTo
  <2>4. ASSUME NEW d \in Clients, d # c
        PROVE  Stream(d)' = Stream(d)
    <3>1. Pending(d) = <<>> /\ Pending(d)' = <<>>
      BY <2>1, <2>2, <2>3, <2>4 DEF Pending
    <3> QED  BY <1>1, <1>3, <2>3, <2>4, <3>1
  <2>5. Stream(c)' = Stream(c)
    <3>1. SubSeq(history, next + 1, Len(history)) \in Seq(Messages)
      <4>1. \A i \in next + 1 .. Len(history) : history[i] \in Messages
        BY <1>1, <2>1
      <4> QED  BY <1>1, <2>1, <4>1, SubSeqProperties
    <3>2. PICK p \in Seq(Messages) : p = SubSeq(history, next + 1, Len(history))
      BY <3>1
    <3>3. Pending(c) = SubSeq(history, next, Len(history)) /\ Pending(c)' = p
      BY <1>2, <2>1, <2>2, <2>3, <3>2 DEF Pending
    <3>4. SubSeq(history, next, Len(history)) = <<m>> \o p
      BY <1>1, <2>1, <2>2, <3>2, SubSeqRecursiveFirst
    <3>5. cq'[c] = Append(cq[c], m)
      BY <1>1, <2>3
    <3> QED  BY <1>4, <3>3, <3>4, <3>5
  <2> QED  BY <1>2, <2>4, <2>5
<1>6. CASE SendNext
  <2>1. /\ spc = "send" /\ next \in 1 .. Len(members) /\ SendsTo(members[next], job)
        /\ members[next] \in Clients /\ job \in Messages
    BY <1>1, <1>6 DEF SendNext, ServerLoops
  <2>2. PICK c \in Clients, m \in Messages : c = members[next] /\ m = job
    BY <2>1
  <2>3. UNCHANGED <<spc, job, members>> /\ next' = next + 1 /\ cq' = [cq EXCEPT ![c] = Append(@, m)]
    BY <2>1, <2>2 DEF SendsTo
  <2>4. ASSUME NEW d \in Clients
        PROVE  (\E i \in next .. Len(members) : members[i] = d)
               <=> d = c \/ \E i \in next + 1 .. Len(members) : members[i] = d
    BY <1>1, <2>1, <2>2
  <2>5. ~\E i \in next + 1 .. Len(members) : members[i] = c
    BY <1>1, <2>1, <2>2 DEF ServerLoops
  <2>6. ASSUME NEW d \in Clients, d # c
        PROVE  Stream(d)' = Stream(d)
    <3>1. Pending(d)' = Pending(d)
      BY <2>1, <2>3, <2>4, <2>6 DEF Pending
    <3> QED  BY <1>1, <1>3, <2>3, <2>6, <3>1
  <2>7. Stream(c)' = Stream(c)
    <3>1. Pending(c) = <<m>>
      BY <2>1, <2>2, <2>4 DEF Pending
    <3>2. Pending(c)' = <<>>
      BY <2>1, <2>3, <2>5 DEF Pending
    <3>3. <<m>> = <<m>> \o <<>> /\ <<>> \in Seq(Messages)
      BY ConcatEmptySeq
    <3>4. cq'[c] = Append(cq[c], m)
      BY <1>1, <2>3
    <3>5. Pending(c) = <<m>> \o <<>>
      BY <3>1, <3>3
    <3> QED  BY <1>4, <3>2, <3>3, <3>4, <3>5
  <2> QED  BY <1>2, <2>6, <2>7
<1>7. CASE SendDone
  <2>1. \A d : Pending(d) = <<>> /\ Pending(d)' = <<>>
    BY <1>1, <1>7 DEF SendDone, Pending
  <2>2. cq' = cq
    BY <1>7 DEF SendDone
  <2> QED  BY <1>2, <1>3, <2>1, <2>2
<1>8. CASE JoinFails
  <2>1. \A d : Pending(d)' = Pending(d)
    BY <1>8 DEF JoinFails, Pending, server
  <2>2. cq' = cq
    BY <1>8 DEF JoinFails
  <2> QED  BY <1>2, <1>3, <2>1, <2>2
<1> QED
  BY <1>5, <1>6, <1>7, <1>8

------------------------------------------------------------------------------
(* The traffic, step by step.                                                  *)

\* Nobody has seen the message that is none.
LEMMA NoMsgUnseen == Types /\ ServerLoops => ~Seen(NoMsg)
<1> SUFFICES ASSUME Types, ServerLoops, Seen(NoMsg)
             PROVE  FALSE
  OBVIOUS
<1>1. PICK s \in Streams : \E i \in 1 .. Len(s) : s[i] = NoMsg
  BY DEF Seen
<1>2. s \in Seq(Messages)
  BY StreamTypes
<1>3. NoMsg \in Messages
  BY <1>1, <1>2
<1> QED
  BY <1>3 DEF NoMsg, Msg, Messages

\* The real messages differ from it.
LEMMA NotNoMsg ==
    \A c, k : Joined(c) # NoMsg /\ Rejected(c) # NoMsg /\ Line(c, k) # NoMsg
              /\ JoinRequest(c) # NoMsg
  BY DEF Joined, Rejected, Line, JoinRequest, NoMsg, Msg

\* The ways in which a list follows another.
LEMMA FollowsCases ==
    ASSUME NEW s \in Seq(Messages), NEW m
    PROVE  /\ Follows(s, s, m) /\ Follows(<<>>, s, m)
           /\ m \in Messages => Follows(Append(s, m), s, m)
           /\ \A u \in Seq(Messages) : Follows(s, s \o u, m)
<1>1. Len(s) \in Nat
  OBVIOUS
<1>2. Follows(s, s, m)
  <2>1. Len(s) \in 0 .. Len(s)
    BY <1>1
  <2> QED  BY <2>1 DEF Follows
<1>3. Follows(<<>>, s, m)
  <2>1. 0 \in 0 .. Len(s) /\ Len(<<>>) = 0
    BY <1>1
  <2> QED  BY <2>1 DEF Follows
<1>4. ASSUME m \in Messages
      PROVE  Follows(Append(s, m), s, m)
  <2>1. Len(s) \in 0 .. Len(s)
    BY <1>1
  <2> QED  BY <1>4, <2>1, AppendProperties DEF Follows
<1>5. ASSUME NEW u \in Seq(Messages)
      PROVE  Follows(s, s \o u, m)
  <2>1. Len(u) \in Nat /\ Len(s \o u) = Len(s) + Len(u)
        /\ \A i \in 1 .. Len(s) : (s \o u)[i] = s[i]
    BY <1>1, ConcatProperties
  <2>2. Len(s) \in 0 .. Len(s \o u)
    BY <1>1, <2>1
  <2> QED  BY <2>1, <2>2 DEF Follows
<1> QED
  BY <1>2, <1>3, <1>4, <1>5

\* The first of four lists in a row.
LEMMA FirstOfFour ==
    ASSUME NEW s \in Seq(Messages), NEW h \in Seq(Messages), NEW q \in Seq(Messages),
           NEW p \in Seq(Messages), NEW m
    PROVE  Follows(s, ((s \o h) \o q) \o p, m)
<1>1. h \o (q \o p) \in Seq(Messages) /\ q \o p \in Seq(Messages) /\ s \o h \in Seq(Messages)
  BY ConcatProperties
<1>2. ((s \o h) \o q) \o p = (s \o h) \o (q \o p)
  BY <1>1, ConcatAssociative
<1>3. (s \o h) \o (q \o p) = s \o (h \o (q \o p))
  BY <1>1, ConcatAssociative
<1>4. Follows(s, s \o (h \o (q \o p)), m)
  BY <1>1, FollowsCases
<1> QED
  BY <1>2, <1>3, <1>4

\* The screen is the beginning of its stream, and so is all that is in the queue.
LEMMA StreamBegins ==
    ASSUME Types, ServerLoops, NEW d \in Clients, NEW m
    PROVE  /\ Follows(screen[d], Stream(d), m)
           /\ cpc[d] # "gone" => Follows(((screen[d] \o held[d]) \o cq[d]) \o <<>>, Stream(d), m)
<1>1. /\ screen[d] \in Seq(Messages) /\ held[d] \in Seq(Messages) /\ cq[d] \in Seq(Messages)
      /\ Pending(d) \in Seq(Messages)
  BY StreamTypes DEF Types
<1>2. (screen[d] \o held[d]) \o cq[d] \in Seq(Messages)
  BY <1>1, ConcatProperties
<1>3. ((screen[d] \o held[d]) \o cq[d]) \o <<>> = (screen[d] \o held[d]) \o cq[d]
  BY <1>2, ConcatEmptySeq
<1>4. CASE cpc[d] = "gone"
  BY <1>1, <1>4, FollowsCases DEF Stream
<1>5. CASE cpc[d] # "gone"
  <2>1. Stream(d) = ((screen[d] \o held[d]) \o cq[d]) \o Pending(d)
    BY <1>5 DEF Stream
  <2>2. Follows((screen[d] \o held[d]) \o cq[d], Stream(d), m)
    BY <1>1, <1>2, <2>1, FollowsCases
  <2>3. Follows(screen[d], Stream(d), m)
    BY <1>1, <2>1, FirstOfFour
  <2> QED  BY <1>3, <2>2, <2>3
<1> QED
  BY <1>4, <1>5

\* A line that was sent stays sent.
LEMMA SentStays ==
    ASSUME Types, NEW c \in Clients,
           Open(c) \/ TypeLine(c) \/ TypeQuit(c) \/ Crash(c) \/ MainStep(c) \/ ReceiverStep(c),
           NEW d \in Clients, NEW k \in 0 .. MaxLines, Sent(d, k)
    PROVE  Sent(d, k)'
<1>1. /\ cpc \in [Clients -> {"new", "join", "lock", "prompt", "send", "leave", "gone"}]
      /\ lines \in [Clients -> 0 .. MaxLines] /\ MaxLines \in Nat
  BY MqChatAssumption DEF Types
<1> USE DEF Sent
<1>2. CASE TypeLine(c)
  <2>1. lines'[d] = (IF c = d THEN lines[d] + 1 ELSE lines[d])
        /\ cpc'[d] = (IF c = d THEN "send" ELSE cpc[d])
    BY <1>1, <1>2 DEF TypeLine
  <2> QED  BY <1>1, <2>1
<1>3. CASE Open(c) \/ TypeQuit(c) \/ Crash(c)
  BY <1>1, <1>3 DEF Open, TypeQuit, Crash, Exit
<1>4. CASE MainStep(c)
  BY <1>1, <1>4 DEF MainStep, Join, Lock, Send, Leave, Exit
<1>5. CASE ReceiverStep(c)
  BY <1>5 DEF ReceiverStep, Receive, Show
<1> QED
  BY <1>2, <1>3, <1>4, <1>5

\* A message of a client's own threads: it asks once, and sends every line once.
LEMMA ClientTraffic ==
    ASSUME Types, ServerLoops, ClientThreads, Traffic, NEW c \in Clients,
           Open(c) \/ TypeLine(c) \/ TypeQuit(c) \/ Crash(c) \/ MainStep(c) \/ ReceiverStep(c)
    PROVE  Traffic'
<1>1. Requests /\ Once /\ NotYetJoined /\ NotYetSeen /\ InOrder /\ StreamIsHistory
  BY DEF Traffic
<1>2. UNCHANGED <<spc, history, members, job>>
      /\ \A d \in Clients : \/ Stream(d)' = Stream(d)
                            \/ cpc'[d] = "gone" /\ Stream(d)' = screen[d]
  BY ClientStreams DEF server
<1>3. \A d : IsIn(d)' = IsIn(d)
  BY <1>2 DEF IsIn
<1>4. /\ cpc \in [Clients -> {"new", "join", "lock", "prompt", "send", "leave", "gone"}]
      /\ lines \in [Clients -> 0 .. MaxLines] /\ cq \in [Clients -> Seq(Messages)]
      /\ held \in [Clients -> Seq(Messages)] /\ screen \in [Clients -> Seq(Messages)]
  BY DEF Types
\* What is seen.
<1>5. \A t \in Streams' : \E s \in Streams : Follows(t, s, NoMsg)
  <2> TAKE t \in Streams'
  <2>1. CASE t = history'
    <3>1. history \in Streams /\ history \in Seq(Messages)
      BY DEF Streams, Types
    <3> QED  BY <1>2, <2>1, <3>1, FollowsCases
  <2>2. CASE \E d \in Clients : t = Stream(d)'
    <3>1. PICK d \in Clients : t = Stream(d)'
      BY <2>2
    <3>2. Stream(d) \in Streams /\ Stream(d) \in Seq(Messages)
      BY StreamTypes DEF Streams
    <3>3. CASE Stream(d)' = Stream(d)
      BY <3>1, <3>2, <3>3, FollowsCases
    <3>4. CASE Stream(d)' = screen[d]
      BY <3>1, <3>2, <3>4, StreamBegins
    <3> QED  BY <1>2, <3>3, <3>4
  <2> QED  BY <2>1, <2>2 DEF Streams
<1>6. InOrder' /\ \A x : Seen(x)' => Seen(x) \/ x = NoMsg
  BY <1>1, <1>5, OrderStep, NoMsgUnseen
<1>7. \A d \in Clients : /\ ~Seen(Joined(d)) => ~Seen(Joined(d))'
                         /\ ~Seen(Rejected(d)) => ~Seen(Rejected(d))'
                         /\ \A k \in 0 .. MaxLines : ~Seen(Line(d, k)) => ~Seen(Line(d, k))'
  <2>1. \A x : Seen(x)' => Seen(x) \/ x = NoMsg
    BY <1>6
  <2>2. ASSUME NEW d \in Clients
        PROVE  /\ Seen(Joined(d))' => Seen(Joined(d))
               /\ Seen(Rejected(d))' => Seen(Rejected(d))
    <3>1. Joined(d)' = Joined(d) /\ Rejected(d)' = Rejected(d)
      BY DEF Joined, Rejected, Msg
    <3> QED  BY <2>1, <3>1, NotNoMsg
  <2>3. ASSUME NEW d \in Clients, NEW k \in 0 .. MaxLines
        PROVE  Seen(Line(d, k))' => Seen(Line(d, k))
    BY <2>1, NotNoMsg
  <2> QED  BY <2>2, <2>3
<1>8. \A d \in Clients : \A k \in 0 .. MaxLines : Sent(d, k) => Sent(d, k)'
  BY SentStays
\* What waits.
<1>9. Send(c) => /\ Posts(c, Line(c, lines[c])) /\ cpc[c] = "send" /\ lines[c] \in 0 .. MaxLines
                 /\ ~Sent(c, lines[c]) /\ ~Seen(Line(c, lines[c])) /\ ~Waits(Line(c, lines[c]))
                 /\ Sent(c, lines[c])' /\ lines' = lines
  <2>1. SUFFICES ASSUME Send(c)
                 PROVE  /\ ~Sent(c, lines[c]) /\ ~Waits(Line(c, lines[c])) /\ Sent(c, lines[c])'
                        /\ lines[c] \in 0 .. MaxLines /\ ~Seen(Line(c, lines[c]))
    BY DEF Send
  <2>2. lines[c] \in 0 .. MaxLines /\ cpc[c] = "send" /\ lines' = lines
        /\ cpc'[c] = "lock"
    BY <1>4, <2>1 DEF Send
  <2>3. ~Sent(c, lines[c]) /\ Sent(c, lines[c])'
    BY <2>2, MqChatAssumption DEF Sent
  <2>4. ~Seen(Line(c, lines[c]))
    BY <1>1, <2>2, <2>3 DEF NotYetSeen
  <2>5. ~Waits(Line(c, lines[c]))
    <3>1. Waits(Line(c, lines[c])) => \E d \in Clients : \E k \in 0 .. MaxLines :
                                         Line(c, lines[c]) = Line(d, k) /\ Sent(d, k)
      BY <1>1, RequestsSay, Apart
    <3> QED  BY <2>3, <3>1, Apart
  <2> QED  BY <2>2, <2>3, <2>4, <2>5
<1>10. Join(c) => /\ Posts(c, JoinRequest(c)) /\ cpc[c] = "join" /\ cpc'[c] = "lock"
                  /\ ~Waits(JoinRequest(c))
  BY <1>1, <1>4 DEF Join, NotYetJoined
<1>11. /\ Once'
       /\ \A x : Waits(x)' => \/ Waits(x)
                              \/ Join(c) /\ x = JoinRequest(c)
                              \/ Send(c) /\ x = Line(c, lines[c])
  <2>1. CASE Join(c)
    <3>1. JoinRequest(c) \in Messages
      BY MessageTypes
    <3> QED  BY <1>1, <1>10, <2>1, <3>1, PostsLast
  <2>2. CASE Send(c)
    <3>1. Line(c, lines[c]) \in Messages
      BY <1>9, <2>2, MessageTypes
    <3>2. PICK m \in Messages : m = Line(c, lines[c])
      BY <3>1
    <3>3. Once' /\ \A x : Waits(x)' <=> Waits(x) \/ x = m
      BY <1>1, <1>9, <2>2, <3>2, PostsLast
    <3> QED  BY <2>2, <3>2, <3>3
  <2>3. CASE ~Join(c) /\ ~Send(c)
    <3>1. srvq' = srvq
      BY <2>3 DEF Open, TypeLine, TypeQuit, Crash, MainStep, Lock, Leave, ReceiverStep, Receive, Show
    <3> QED  BY <1>1, <3>1 DEF Once, Waits
  <2> QED  BY <2>1, <2>2, <2>3
<1>12. Requests'
  <2>1. ASSUME NEW m, Waits(m)'
        PROVE  \E d \in Clients : \/ m = JoinRequest(d)
                                  \/ \E k \in 0 .. MaxLines : m = Line(d, k) /\ Sent(d, k)'
    <3>1. CASE Waits(m)
      BY <1>1, <1>8, <3>1, RequestsSay
    <3>2. CASE Join(c) /\ m = JoinRequest(c)
      BY <3>2
    <3>3. CASE Send(c) /\ m = Line(c, lines[c])
      <4>1. PICK k \in 0 .. MaxLines : k = lines[c]
        BY <1>9, <3>3
      <4>2. Sent(c, k)'
        BY <1>9, <3>3, <4>1 DEF Sent
      <4> QED  BY <3>3, <4>1, <4>2
    <3> QED  BY <1>11, <2>1, <3>1, <3>2, <3>3
  <2>2. ASSUME NEW m, NEW g \in Starts, NEW i \in 1 .. Len(srvq'[g]), srvq'[g][i] = m
        PROVE  \E d \in Clients : \/ m = JoinRequest(d)
                                  \/ \E k \in 0 .. MaxLines : m = Line(d, k) /\ Sent(d, k)'
    <3>1. Waits(m)'
      BY <2>2 DEF Waits
    <3> QED  BY <2>1, <3>1
  <2> QED  BY <2>2 DEF Requests
<1>13. NotYetJoined'
  <2> SUFFICES ASSUME NEW d \in Clients
               PROVE  /\ cpc'[d] \in {"new", "join"} => ~Waits(JoinRequest(d))'
                      /\ cpc'[d] \in {"new", "join"} \/ Waits(JoinRequest(d))' =>
                           /\ screen'[d] = <<>> /\ held'[d] = <<>> /\ cq'[d] = <<>> /\ ~IsIn(d)'
                           /\ ~Seen(Joined(d))' /\ ~Seen(Rejected(d))'
    BY DEF NotYetJoined
  <2>1. /\ cpc[d] \in {"new", "join"} => ~Waits(JoinRequest(d))
        /\ cpc[d] \in {"new", "join"} \/ Waits(JoinRequest(d)) =>
             /\ screen[d] = <<>> /\ held[d] = <<>> /\ cq[d] = <<>> /\ ~IsIn(d)
             /\ ~Seen(Joined(d)) /\ ~Seen(Rejected(d))
    BY <1>1 DEF NotYetJoined
  <2>2. cpc'[d] \in {"new", "join"} => cpc[d] \in {"new", "join"} /\ ~(Join(c) /\ d = c)
    <3>1. CASE Open(c) \/ TypeLine(c) \/ TypeQuit(c) \/ Crash(c)
      BY <1>4, <3>1 DEF Open, TypeLine, TypeQuit, Crash, Exit, Join
    <3>2. CASE MainStep(c)
      BY <1>4, <3>2 DEF MainStep, Join, Lock, Send, Leave, Exit
    <3>3. CASE ReceiverStep(c)
      <4>1. cpc' = cpc
        BY <3>3 DEF ReceiverStep, Receive, Show
      <4>2. Join(c) => cpc'[c] = "lock"
        BY <1>10
      <4> QED  BY <4>1, <4>2
    <3> QED  BY <3>1, <3>2, <3>3
  <2>3. Waits(JoinRequest(d))' => Waits(JoinRequest(d)) \/ (Join(c) /\ d = c)
    <3>1. \A x : Waits(x)' => \/ Waits(x)
                              \/ Join(c) /\ x = JoinRequest(c)
                              \/ Send(c) /\ x = Line(c, lines[c])
      BY <1>11
    <3>2. Waits(JoinRequest(d))' => \/ Waits(JoinRequest(d))
                                    \/ Join(c) /\ JoinRequest(d) = JoinRequest(c)
      BY <3>1, Apart
    <3> QED  BY <3>2, Apart
  <2>4. ASSUME cpc[d] \in {"new", "join"} \/ Waits(JoinRequest(d))
        PROVE  screen'[d] = <<>> /\ held'[d] = <<>> /\ cq'[d] = <<>>
    <3>1. screen[d] = <<>> /\ held[d] = <<>> /\ cq[d] = <<>>
      BY <2>1, <2>4
    <3>2. rpc[d] # "lock"
      BY <3>1 DEF ClientThreads
    <3>3. CASE Open(c) \/ TypeLine(c) \/ TypeQuit(c) \/ Crash(c)
      BY <1>4, <3>1, <3>3 DEF Open, TypeLine, TypeQuit, Crash, Exit
    <3>4. CASE MainStep(c)
      BY <1>4, <3>1, <3>4 DEF MainStep, Join, Lock, Send, Leave, Exit
    <3>5. CASE Receive(c)
      BY <1>4, <3>1, <3>5 DEF Receive
    <3>6. CASE Show(c)
      BY <1>4, <3>1, <3>2, <3>6 DEF Show
    <3> QED  BY <3>3, <3>4, <3>5, <3>6 DEF ReceiverStep
  <2>5. Join(c) /\ d = c => cpc[d] = "join"
    BY <1>10
  <2> QED  BY <1>3, <1>7, <2>1, <2>2, <2>3, <2>4, <2>5
<1>14. NotYetSeen'
  <2>1. ASSUME NEW d \in Clients, NEW k \in 0 .. MaxLines
        PROVE  /\ Waits(Line(d, k))' => ~Seen(Line(d, k))'
               /\ Seen(Line(d, k))' => Sent(d, k)'
    <3>1. Waits(Line(d, k))' => \/ Waits(Line(d, k))
                                \/ Send(c) /\ Line(d, k) = Line(c, lines[c])
      BY <1>11, Apart
    <3>2. Waits(Line(d, k)) => ~Seen(Line(d, k))
      BY <1>1 DEF NotYetSeen
    <3>3. Seen(Line(d, k)) => Sent(d, k)
      BY <1>1 DEF NotYetSeen
    <3> QED  BY <1>7, <1>8, <1>9, <3>1, <3>2, <3>3
  <2>2. spc' = "replay" => ~Seen(Joined(job.from))'
    <3>1. CASE spc = "replay"
      <4>1. job.from \in Clients /\ ~Seen(Joined(job.from))
        BY <1>1, <3>1, Senders DEF ServerLoops, NotYetSeen
      <4>2. PICK d \in Clients : d = job.from
        BY <4>1
      <4>3. ~Seen(Joined(d))' /\ job' = job
        BY <1>2, <1>7, <4>1, <4>2
      <4>4. d = job'.from
        BY <4>2, <4>3
      <4> QED  BY <4>3, <4>4
    <3> QED  BY <1>2, <3>1
  <2> QED  BY <2>1, <2>2 DEF NotYetSeen
<1>15. StreamIsHistory'
  <2> SUFFICES ASSUME Len(history') < MaxHistory, NEW d \in Clients, IsMember(d)', Running(d)'
               PROVE  ((screen'[d] \o held'[d]) \o cq'[d]) \o Pending(d)' = history'
    BY DEF StreamIsHistory
  <2>1. IsMember(d) /\ IsIn(d)
    BY <1>2 DEF IsMember, IsIn
  <2>2. cpc[d] \notin {"new", "join"}
    BY <1>1, <2>1 DEF NotYetJoined
  <2>3. Running(d) /\ cpc'[d] # "gone"
    <3>1. cpc[d] = "gone" => cpc'[d] = "gone"
      BY <1>4 DEF Open, TypeLine, TypeQuit, Crash, MainStep, Join, Lock, Send, Leave,
         ReceiverStep, Receive, Show, Exit
    <3> QED  BY <2>2, <3>1 DEF Running
  <2>4. Stream(d) = history
    BY <1>1, <1>2, <2>1, <2>3 DEF StreamIsHistory, Stream, Running
  <2> QED  BY <1>2, <2>3, <2>4 DEF Stream
<1> QED
  BY <1>6, <1>11, <1>12, <1>13, <1>14, <1>15 DEF Traffic

\* What a step of the server must do to keep the traffic in order: it takes messages
\* out of the server queue, and ends some lists with one message that is not waiting
\* and that nobody has seen, never those of a client that has not joined.
LEMMA ServerTraffic ==
    ASSUME Types, ServerLoops, Traffic, UNCHANGED client, Once',
           \A x : Waits(x)' => Waits(x),
           NEW m, ~Seen(m), \A t \in Streams' : \E s \in Streams : Follows(t, s, m),
           \A c \in Clients : \A k \in 0 .. MaxLines :
              m = Line(c, k) => Sent(c, k) /\ ~Waits(Line(c, k))',
           \A c \in Clients : cpc[c] \in {"new", "join"} \/ Waits(JoinRequest(c))' =>
              cq'[c] = <<>> /\ ~IsIn(c)' /\ m # Joined(c) /\ m # Rejected(c),
           spc' = "replay" =>
              \E c \in Clients : c = job'.from /\ ~Seen(Joined(c)) /\ m # Joined(c),
           StreamIsHistory'
    PROVE  Traffic'
<1>1. Requests /\ Once /\ NotYetJoined /\ NotYetSeen /\ InOrder
  BY DEF Traffic
<1>2. InOrder' /\ \A x : Seen(x)' => Seen(x) \/ x = m
  BY <1>1, OrderStep
<1>3. UNCHANGED <<cpc, lines, screen, held>> /\ \A c, k : Sent(c, k)' = Sent(c, k)
  BY DEF client, Sent
<1>4. Requests'
  <2>1. SUFFICES ASSUME NEW x, NEW g \in Starts, NEW i \in 1 .. Len(srvq'[g]), srvq'[g][i] = x
                 PROVE  \E d \in Clients : \/ x = JoinRequest(d)
                                           \/ \E k \in 0 .. MaxLines : x = Line(d, k) /\ Sent(d, k)'
    BY DEF Requests
  <2>2. Waits(x)'
    BY <2>1 DEF Waits
  <2>3. Waits(x)
    BY <2>2
  <2> QED  BY <1>1, <1>3, <2>3, RequestsSay
<1>5. NotYetJoined'
  <2> SUFFICES ASSUME NEW d \in Clients
               PROVE  /\ cpc'[d] \in {"new", "join"} => ~Waits(JoinRequest(d))'
                      /\ cpc'[d] \in {"new", "join"} \/ Waits(JoinRequest(d))' =>
                           /\ screen'[d] = <<>> /\ held'[d] = <<>> /\ cq'[d] = <<>> /\ ~IsIn(d)'
                           /\ ~Seen(Joined(d))' /\ ~Seen(Rejected(d))'
    BY DEF NotYetJoined
  <2>1. /\ cpc[d] \in {"new", "join"} => ~Waits(JoinRequest(d))
        /\ cpc[d] \in {"new", "join"} \/ Waits(JoinRequest(d)) =>
             /\ screen[d] = <<>> /\ held[d] = <<>>
             /\ ~Seen(Joined(d)) /\ ~Seen(Rejected(d))
    BY <1>1 DEF NotYetJoined
  <2>2. Waits(JoinRequest(d))' => Waits(JoinRequest(d))
    OBVIOUS
  <2>3. /\ Seen(Joined(d))' => Seen(Joined(d)) \/ Joined(d) = m
        /\ Seen(Rejected(d))' => Seen(Rejected(d)) \/ Rejected(d) = m
    <3>1. Joined(d)' = Joined(d) /\ Rejected(d)' = Rejected(d)
      BY DEF Joined, Rejected, Msg
    <3> QED  BY <1>2, <3>1
  <2>4. cpc[d] \in {"new", "join"} \/ Waits(JoinRequest(d))' =>
          cq'[d] = <<>> /\ ~IsIn(d)' /\ m # Joined(d) /\ m # Rejected(d)
    OBVIOUS
  <2> QED  BY <1>3, <2>1, <2>2, <2>3, <2>4
<1>6. NotYetSeen'
  <2>1. ASSUME NEW d \in Clients, NEW k \in 0 .. MaxLines
        PROVE  /\ Waits(Line(d, k))' => ~Seen(Line(d, k))'
               /\ Seen(Line(d, k))' => Sent(d, k)'
    <3>1. Waits(Line(d, k))' => Waits(Line(d, k))
      OBVIOUS
    <3>2. Seen(Line(d, k))' => Seen(Line(d, k)) \/ Line(d, k) = m
      BY <1>2
    <3>3. m = Line(d, k) => Sent(d, k) /\ ~Waits(Line(d, k))'
      OBVIOUS
    <3>4. Waits(Line(d, k)) => ~Seen(Line(d, k))
      BY <1>1 DEF NotYetSeen
    <3>5. Seen(Line(d, k)) => Sent(d, k)
      BY <1>1 DEF NotYetSeen
    <3> QED  BY <1>3, <3>1, <3>2, <3>3, <3>4, <3>5
  <2>2. spc' = "replay" => ~Seen(Joined(job.from))'
    <3>1. SUFFICES ASSUME spc' = "replay"
                   PROVE  ~Seen(Joined(job.from))'
      OBVIOUS
    <3>2. PICK c \in Clients : c = job'.from /\ ~Seen(Joined(c)) /\ m # Joined(c)
      BY <3>1
    <3>3. ~Seen(Joined(c))'
      BY <1>2, <3>2
    <3> QED  BY <3>2, <3>3
  <2> QED  BY <2>1, <2>2 DEF NotYetSeen
<1> QED
  BY <1>2, <1>4, <1>5, <1>6 DEF Traffic

\* The same when nothing new is shown to anybody.
LEMMA QuietTraffic ==
    ASSUME Types, ServerLoops, Traffic, UNCHANGED client, Once',
           \A x : Waits(x)' => Waits(x),
           \A t \in Streams' : \E s \in Streams : Follows(t, s, NoMsg),
           \A c \in Clients : cpc[c] \in {"new", "join"} \/ Waits(JoinRequest(c))' =>
              cq'[c] = <<>> /\ ~IsIn(c)',
           spc' = "replay" => \E c \in Clients : c = job'.from /\ ~Seen(Joined(c)),
           StreamIsHistory'
    PROVE  Traffic'
<1>1. /\ \A c \in Clients : \A k \in 0 .. MaxLines : NoMsg # Line(c, k)
      /\ \A c \in Clients : NoMsg # Joined(c) /\ NoMsg # Rejected(c)
  BY NotNoMsg
<1>2. PICK m : m = NoMsg
  OBVIOUS
<1>3. ~Seen(m) /\ \A t \in Streams' : \E s \in Streams : Follows(t, s, m)
  BY <1>2, NoMsgUnseen
<1>4. \A c \in Clients : \A k \in 0 .. MaxLines :
            m = Line(c, k) => Sent(c, k) /\ ~Waits(Line(c, k))'
  BY <1>1, <1>2
<1>5. \A c \in Clients : cpc[c] \in {"new", "join"} \/ Waits(JoinRequest(c))' =>
            cq'[c] = <<>> /\ ~IsIn(c)' /\ m # Joined(c) /\ m # Rejected(c)
  BY <1>1, <1>2
<1>6. spc' = "replay" =>
            \E c \in Clients : c = job'.from /\ ~Seen(Joined(c)) /\ m # Joined(c)
  BY <1>1, <1>2
<1> QED
  BY <1>3, <1>4, <1>5, <1>6, ServerTraffic

\* The loops, and a join that fails, change nothing that anybody will see.
LEMMA LoopTraffic ==
    ASSUME Types, ServerLoops, Traffic, ReplayNext \/ SendNext \/ SendDone \/ JoinFails
    PROVE  Traffic'
<1>1. Requests /\ Once /\ NotYetJoined /\ NotYetSeen /\ StreamIsHistory
  BY DEF Traffic
<1>2. UNCHANGED client /\ members' = members
  BY DEF ReplayNext, SendNext, SendDone, JoinFails, SendsTo, server
<1>3. history' = history /\ \A d \in Clients : Stream(d)' = Stream(d)
  BY LoopStreams
<1>4. ~Seen(NoMsg) /\ \A t \in Streams' : \E s \in Streams : Follows(t, s, NoMsg)
  <2>1. \A t \in Streams' : t \in Streams
    BY <1>3 DEF Streams
  <2> QED  BY <2>1, NoMsgUnseen, StreamTypes, FollowsCases
<1>5. Once' /\ \A x : Waits(x)' => Waits(x)
  <2>1. CASE JoinFails
    <3>1. Takes("J")
      BY <2>1 DEF JoinFails
    <3> QED  BY <1>1, <3>1, TakesHead
  <2>2. CASE ReplayNext \/ SendNext \/ SendDone
    <3>1. srvq' = srvq
      BY <2>2 DEF ReplayNext, SendNext, SendDone, SendsTo
    <3> QED  BY <1>1, <3>1 DEF Once, Waits
  <2> QED  BY <2>1, <2>2
<1>6. \A c : IsIn(c)' = IsIn(c)
  BY <1>2 DEF IsIn
<1>7. \A c \in Clients : cpc[c] \in {"new", "join"} \/ Waits(JoinRequest(c))' =>
              cq'[c] = <<>> /\ ~IsIn(c)'
  <2> SUFFICES ASSUME NEW c \in Clients, cpc[c] \in {"new", "join"} \/ Waits(JoinRequest(c))
               PROVE  cq'[c] = <<>> /\ ~IsIn(c)
    BY <1>5, <1>6
  <2>1. cq[c] = <<>> /\ ~IsIn(c)
    BY <1>1 DEF NotYetJoined
  <2>2. CASE ReplayNext
    BY <2>1, <2>2 DEF ReplayNext, SendsTo, ServerLoops, Types
  <2>3. CASE SendNext
    <3>1. IsIn(members[next])
      BY <2>3 DEF SendNext, IsIn, Types, ServerLoops
    <3> QED  BY <2>1, <2>3, <3>1 DEF SendNext, SendsTo, Types
  <2>4. CASE SendDone \/ JoinFails
    BY <2>1, <2>4 DEF SendDone, JoinFails
  <2> QED  BY <2>1, <2>2, <2>3, <2>4
<1>8. spc' = "replay" => \E c \in Clients : c = job'.from /\ ~Seen(Joined(c))
  <2>1. spc' = "replay" => spc = "replay" /\ job' = job
    BY DEF ReplayNext, SendNext, SendDone, JoinFails, SendsTo, server, Takes
  <2>2. spc = "replay" => job.from \in Clients /\ ~Seen(Joined(job.from))
    BY <1>1, Senders DEF ServerLoops, NotYetSeen
  <2> QED  BY <2>1, <2>2
<1>9. StreamIsHistory'
  <2> SUFFICES ASSUME Len(history') < MaxHistory, NEW d \in Clients, IsMember(d)', Running(d)'
               PROVE  ((screen'[d] \o held'[d]) \o cq'[d]) \o Pending(d)' = history'
    BY DEF StreamIsHistory
  <2>1. IsMember(d) /\ Running(d)
    <3>1. spc # "down"
      BY DEF ReplayNext, SendNext, SendDone, JoinFails, Takes
    <3>2. cpc' = cpc
      BY <1>2 DEF client
    <3> QED  BY <1>2, <3>1, <3>2 DEF IsMember, Running
  <2>2. Stream(d) = history
    BY <1>1, <1>3, <2>1 DEF StreamIsHistory, Stream, Running
  <2>3. cpc'[d] # "gone"
    BY DEF Running
  <2> QED  BY <1>3, <2>2, <2>3 DEF Stream
<1> QED
  BY <1>2, <1>4, <1>5, <1>7, <1>8, <1>9, QuietTraffic

\* A server that starts shows nothing, and one that ends leaves what is queued.
LEMMA StartStopTraffic ==
    ASSUME Types, ServerLoops, Traffic, ServerStarts \/ ServerStops \/ ServerCrashes
    PROVE  Traffic'
<1>1. Requests /\ Once /\ NotYetJoined
  BY DEF Traffic
<1>2. /\ UNCHANGED client /\ srvq' = srvq /\ cq' = cq /\ spc' # "replay"
      /\ members' \in {members, <<>>} /\ history' \in {history, <<>>}
      /\ spc' = "down" \/ members' = <<>>
      /\ UNCHANGED <<cpc, held, screen>>
  BY DEF ServerStarts, ServerStops, ServerCrashes, client
<1>3. Once' /\ \A x : Waits(x)' => Waits(x)
  BY <1>1, <1>2 DEF Once, Waits
<1>4. \A d : Pending(d)' = <<>>
  BY DEF ServerStarts, ServerStops, ServerCrashes, Pending
<1>5. \A t \in Streams' : \E s \in Streams : Follows(t, s, NoMsg)
  <2> TAKE t \in Streams'
  <2>1. CASE t = history'
    <3>1. history \in Streams /\ history \in Seq(Messages)
      BY DEF Streams, Types
    <3> QED  BY <1>2, <2>1, <3>1, FollowsCases
  <2>2. CASE \E d \in Clients : t = Stream(d)'
    <3>1. PICK d \in Clients : t = Stream(d)'
      BY <2>2
    <3>2. Stream(d) \in Streams /\ Stream(d) \in Seq(Messages)
      BY StreamTypes DEF Streams
    <3>3. CASE cpc[d] = "gone"
      <4>1. t = screen[d]
        BY <1>2, <3>1, <3>3 DEF Stream
      <4> QED  BY <3>2, <4>1, StreamBegins
    <3>4. CASE cpc[d] # "gone"
      <4>1. t = ((screen[d] \o held[d]) \o cq[d]) \o <<>>
        BY <1>2, <1>4, <3>1, <3>4 DEF Stream
      <4> QED  BY <3>2, <3>4, <4>1, StreamBegins
    <3> QED  BY <3>3, <3>4
  <2> QED  BY <2>1, <2>2 DEF Streams
<1>6. \A c \in Clients : cpc[c] \in {"new", "join"} \/ Waits(JoinRequest(c))' =>
              cq'[c] = <<>> /\ ~IsIn(c)'
  <2> SUFFICES ASSUME NEW c \in Clients, cpc[c] \in {"new", "join"} \/ Waits(JoinRequest(c))
               PROVE  cq'[c] = <<>> /\ ~IsIn(c)'
    BY <1>3
  <2>1. cq[c] = <<>> /\ ~IsIn(c)
    BY <1>1 DEF NotYetJoined
  <2>2. Len(<<>>) = 0
    OBVIOUS
  <2> QED  BY <1>2, <2>1, <2>2 DEF IsIn
<1>7. StreamIsHistory'
  <2>1. \A d : ~IsMember(d)'
    BY <1>2 DEF IsMember
  <2> QED  BY <2>1 DEF StreamIsHistory
<1> QED
  BY <1>2, <1>3, <1>5, <1>6, <1>7, QuietTraffic

\* A message that is announced ends the history, if there is room, and the stream of
\* every member.
LEMMA Announced ==
    ASSUME Types, ServerLoops, StreamIsHistory, \A d : Pending(d) = <<>>, spc # "down",
           UNCHANGED <<client, cq, members>>, NEW m \in Messages, Remember(m), job' = m,
           next' = 1, spc' = "send"
    PROVE  StreamIsHistory' /\ \A t \in Streams' : \E s \in Streams : Follows(t, s, m)
<1>1. /\ history \in Seq(Messages) /\ MaxHistory \in Nat
      /\ held \in [Clients -> Seq(Messages)] /\ cq \in [Clients -> Seq(Messages)]
      /\ screen \in [Clients -> Seq(Messages)]
      /\ UNCHANGED <<cpc, held, screen>>
  BY MqChatAssumption DEF Types, client
<1>2. history' = history \/ history' = Append(history, m)
  BY DEF Remember
<1>3. Len(history') < MaxHistory => Len(history) < MaxHistory /\ history' = Append(history, m)
  BY <1>1 DEF Remember
<1>4. ASSUME NEW d \in Clients
      PROVE  IF cpc[d] = "gone" \/ ~IsIn(d) THEN Stream(d)' = Stream(d)
                                           ELSE Stream(d)' = Append(Stream(d), m)
  <2>1. CASE cpc[d] = "gone"
    BY <1>1, <2>1 DEF Stream
  <2>2. CASE cpc[d] # "gone"
    <3>1. PICK s \in Seq(Messages) : s = (screen[d] \o held[d]) \o cq[d]
      BY <1>1, ConcatProperties
    <3>2. Stream(d) = s
      BY <2>2, <3>1, ConcatEmptySeq DEF Stream
    <3>3. Stream(d)' = s \o Pending(d)'
      BY <1>1, <2>2, <3>1 DEF Stream
    <3>4. Pending(d)' = IF IsIn(d) THEN <<m>> ELSE <<>>
      BY DEF Pending, IsIn
    <3>5. s \o <<m>> = Append(s, m) /\ s \o <<>> = s
      BY AppendIsConcat, ConcatEmptySeq
    <3> QED  BY <2>2, <3>2, <3>3, <3>4, <3>5
  <2> QED  BY <2>1, <2>2
<1>5. \A t \in Streams' : \E s \in Streams : Follows(t, s, m)
  <2> TAKE t \in Streams'
  <2>1. CASE t = history'
    <3>1. history \in Streams
      BY DEF Streams
    <3> QED  BY <1>1, <1>2, <2>1, <3>1, FollowsCases
  <2>2. CASE \E d \in Clients : t = Stream(d)'
    <3>1. PICK d \in Clients : t = Stream(d)'
      BY <2>2
    <3>2. Stream(d) \in Streams /\ Stream(d) \in Seq(Messages)
      BY StreamTypes DEF Streams
    <3>3. t = Stream(d) \/ t = Append(Stream(d), m)
      BY <1>4, <3>1
    <3> QED  BY <3>2, <3>3, FollowsCases
  <2> QED  BY <2>1, <2>2 DEF Streams
<1>6. StreamIsHistory'
  <2> SUFFICES ASSUME Len(history') < MaxHistory, NEW d \in Clients, IsMember(d)', Running(d)'
               PROVE  ((screen'[d] \o held'[d]) \o cq'[d]) \o Pending(d)' = history'
    BY DEF StreamIsHistory
  <2>1. IsMember(d) /\ IsIn(d) /\ Running(d)
    BY <1>1 DEF IsMember, IsIn, Running
  <2>2. Stream(d) = history
    BY <1>3, <2>1 DEF StreamIsHistory, Stream, Running
  <2>3. cpc'[d] # "gone" /\ Stream(d)' = Append(history, m)
    BY <1>1, <1>4, <2>1, <2>2 DEF Running
  <2> QED  BY <1>3, <2>3 DEF Stream
<1> QED
  BY <1>5, <1>6

\* A line, or the notice of a new member, reaches everybody once and in one order.
LEMMA AnnounceTraffic ==
    ASSUME Types, ServerLoops, Traffic, HandleMessage \/ ReplayDone
    PROVE  Traffic'
<1>1. Requests /\ Once /\ NotYetJoined /\ NotYetSeen /\ StreamIsHistory
  BY DEF Traffic
<1>2. UNCHANGED <<client, cq, members>> /\ next' = 1 /\ spc' = "send" /\ spc # "down"
  BY DEF HandleMessage, ReplayDone, SendToAll, Takes
<1>3. \A d : Pending(d) = <<>>
  <2>1. history \in Seq(Messages) /\ next \in Nat
    BY DEF Types
  <2>2. CASE HandleMessage
    BY <2>2 DEF HandleMessage, Takes, Pending
  <2>3. CASE ReplayDone
    <3>1. spc = "replay" /\ next > Len(history)
      BY <2>3 DEF ReplayDone
    <3>2. SubSeq(history, next, Len(history)) = <<>>
      BY <2>1, <3>1, SubSeqEmpty
    <3> QED  BY <3>1, <3>2, PendingIs
  <2> QED  BY <2>2, <2>3
<1>4. \A c \in Clients : cpc[c] \in {"new", "join"} \/ Waits(JoinRequest(c)) =>
              cq'[c] = <<>> /\ ~IsIn(c)'
  BY <1>1, <1>2 DEF NotYetJoined, IsIn
<1>5. CASE HandleMessage
  <2>1. Takes("M") /\ Remember(Head(srvq[gen])) /\ job' = Head(srvq[gen])
    BY <1>5 DEF HandleMessage
  <2>2. /\ Once' /\ Waits(Head(srvq[gen])) /\ \A x : Waits(x)' <=> Waits(x) /\ x # Head(srvq[gen])
        /\ \E c \in Clients : \E k \in 0 .. MaxLines : Head(srvq[gen]) = Line(c, k)
    BY <1>1, <2>1, TakesHead
  <2>3. PICK c \in Clients : \E k \in 0 .. MaxLines : Head(srvq[gen]) = Line(c, k)
    BY <2>2
  <2>4. PICK k \in 0 .. MaxLines : Head(srvq[gen]) = Line(c, k)
    BY <2>3
  <2>5. PICK m \in Messages : m = Line(c, k)
    BY MessageTypes
  <2>6. Remember(m) /\ job' = m /\ Waits(m) /\ \A x : Waits(x)' <=> Waits(x) /\ x # m
    BY <2>1, <2>2, <2>4, <2>5
  <2>7. StreamIsHistory' /\ \A t \in Streams' : \E s \in Streams : Follows(t, s, m)
    BY <1>1, <1>2, <1>3, <2>6, Announced
  <2>8. ~Seen(m)
    BY <1>1, <2>5, <2>6 DEF NotYetSeen
  <2>9. \A d \in Clients : \A l \in 0 .. MaxLines :
              m = Line(d, l) => Sent(d, l) /\ ~Waits(Line(d, l))'
    <3>1. Sent(c, k)
      <4>1. \E d \in Clients : \/ m = JoinRequest(d)
                               \/ \E l \in 0 .. MaxLines : m = Line(d, l) /\ Sent(d, l)
        BY <1>1, <2>6, RequestsSay
      <4> QED  BY <2>5, <4>1, Apart
    <3>2. \A d \in Clients : \A l \in 0 .. MaxLines : m = Line(d, l) => d = c /\ l = k
      <4>1. \A d, l : Line(c, k) = Line(d, l) => d = c /\ l = k
        BY Apart
      <4> QED  BY <2>5, <4>1
    <3> QED  BY <2>6, <3>1, <3>2
  <2>10. \A d \in Clients : m # Joined(d) /\ m # Rejected(d)
    <3>1. \A d : Line(c, k) # Joined(d) /\ Line(c, k) # Rejected(d)
      BY Apart
    <3> QED  BY <2>5, <3>1
  <2> QED
    BY <1>2, <1>4, <2>2, <2>6, <2>7, <2>8, <2>9, <2>10, ServerTraffic
<1>6. CASE ReplayDone
  <2>1. /\ srvq' = srvq /\ Remember(Joined(job.from)) /\ job' = Joined(job.from)
        /\ job.from \in Clients /\ IsIn(job.from) /\ ~Seen(Joined(job.from))
    BY <1>1, <1>6, Senders DEF ReplayDone, SendToAll, ServerLoops, NotYetSeen
  <2>2. PICK c \in Clients : c = job.from
    BY <2>1
  <2>3. PICK m \in Messages : m = Joined(c)
    BY MessageTypes
  <2>4. Remember(m) /\ job' = m /\ ~Seen(m) /\ IsIn(c)
    BY <2>1, <2>2, <2>3
  <2>5. StreamIsHistory' /\ \A t \in Streams' : \E s \in Streams : Follows(t, s, m)
    BY <1>1, <1>2, <1>3, <2>4, Announced
  <2>6. Once' /\ \A x : Waits(x)' => Waits(x)
    BY <1>1, <2>1 DEF Once, Waits
  <2>7. \A d \in Clients : \A l \in 0 .. MaxLines : m # Line(d, l)
    BY <2>3, Apart
  <2>8. \A d \in Clients : cpc[d] \in {"new", "join"} \/ Waits(JoinRequest(d)) =>
          m # Joined(d) /\ m # Rejected(d)
    <3>1. \A d \in Clients : m # Rejected(d) /\ (m = Joined(d) => d = c)
      BY <2>3, Apart
    <3>2. ~(cpc[c] \in {"new", "join"} \/ Waits(JoinRequest(c)))
      BY <1>1, <2>4 DEF NotYetJoined
    <3> QED  BY <3>1, <3>2
  <2> QED
    BY <1>2, <1>4, <2>4, <2>5, <2>6, <2>7, <2>8, ServerTraffic
<1> QED
  BY <1>5, <1>6

\* A client that is turned away hears so, and nothing else.
LEMMA RejectTraffic ==
    ASSUME Types, ServerLoops, Traffic, Reject
    PROVE  Traffic'
<1>1. Requests /\ Once /\ NotYetJoined /\ StreamIsHistory
  BY DEF Traffic
<1>2. Takes("J") /\ UNCHANGED client /\ UNCHANGED server
  BY DEF Reject
<1>3. /\ Once' /\ \A x : Waits(x)' <=> Waits(x) /\ x # Head(srvq[gen])
      /\ Waits(Head(srvq[gen])) /\ Head(srvq[gen]).from \in Clients
      /\ Head(srvq[gen]) = JoinRequest(Head(srvq[gen]).from)
  BY <1>1, <1>2, TakesHead
<1>4. PICK c \in Clients : c = Head(srvq[gen]).from
  BY <1>3
<1>5. /\ Waits(JoinRequest(c)) /\ ~Waits(JoinRequest(c))'
      /\ cq' = IF linked[c] THEN [cq EXCEPT ![c] = Append(@, Rejected(c))] ELSE cq
  BY <1>3, <1>4 DEF Reject
<1>6. PICK m \in Messages : m = Rejected(c)
  BY MessageTypes
<1>7. /\ cq \in [Clients -> Seq(Messages)] /\ held \in [Clients -> Seq(Messages)]
      /\ screen \in [Clients -> Seq(Messages)] /\ history \in Seq(Messages)
      /\ UNCHANGED <<cpc, held, screen, spc, members, history>>
  BY <1>2 DEF Types, client, server
<1>8. \A d : Pending(d) = <<>> /\ Pending(d)' = <<>>
  BY <1>2, <1>7 DEF Takes, Pending
<1>9. ASSUME NEW d \in Clients
      PROVE  /\ Stream(d)' = Stream(d) \/ Stream(d)' = Append(Stream(d), m)
             /\ d # c => Stream(d)' = Stream(d)
  <2>1. CASE cpc[d] = "gone"
    BY <1>7, <2>1 DEF Stream
  <2>2. CASE cpc[d] # "gone" /\ cq'[d] = cq[d]
    BY <1>7, <1>8, <2>2 DEF Stream
  <2>3. CASE cpc[d] # "gone" /\ d = c /\ cq'[d] = Append(cq[d], m)
    <3>1. PICK s \in Seq(Messages) : s = screen[d] \o held[d]
      BY <1>7, ConcatProperties
    <3>2. cq[d] \in Seq(Messages) /\ <<>> \in Seq(Messages) /\ <<m>> \in Seq(Messages)
      BY <1>7
    <3>3. (s \o cq[d]) \o (<<m>> \o <<>>) = (s \o Append(cq[d], m)) \o <<>>
      BY <3>2, MoveLast
    <3>4. PICK u \in Seq(Messages) : u = s \o cq[d]
      BY <3>2, ConcatProperties
    <3>5. <<m>> \o <<>> = <<m>> /\ u \o <<m>> = Append(u, m) /\ u \o <<>> = u
      BY <3>2, AppendIsConcat, ConcatEmptySeq
    <3>6. Stream(d) = u
      BY <1>8, <2>3, <3>1, <3>4, <3>5 DEF Stream
    <3>7. Stream(d)' = (s \o Append(cq[d], m)) \o <<>>
      BY <1>7, <1>8, <2>3, <3>1 DEF Stream
    <3> QED  BY <2>3, <3>3, <3>4, <3>5, <3>6, <3>7
  <2>4. cq'[d] = cq[d] \/ (d = c /\ cq'[d] = Append(cq[d], m))
    BY <1>5, <1>6, <1>7
  <2>5. d # c => cq'[d] = cq[d]
    BY <1>5, <1>7
  <2> QED  BY <2>1, <2>2, <2>3, <2>4, <2>5
<1>10. \A t \in Streams' : \E s \in Streams : Follows(t, s, m)
  <2> TAKE t \in Streams'
  <2>1. CASE t = history'
    <3>1. history \in Streams
      BY DEF Streams
    <3> QED  BY <1>7, <2>1, <3>1, FollowsCases
  <2>2. CASE \E d \in Clients : t = Stream(d)'
    <3>1. PICK d \in Clients : t = Stream(d)'
      BY <2>2
    <3>2. Stream(d) \in Streams /\ Stream(d) \in Seq(Messages)
      BY StreamTypes DEF Streams
    <3> QED  BY <1>9, <3>1, <3>2, FollowsCases
  <2> QED  BY <2>1, <2>2 DEF Streams
<1>11. ~Seen(m) /\ ~IsIn(c) /\ cpc[c] \notin {"new", "join"}
  BY <1>1, <1>5, <1>6 DEF NotYetJoined
<1>12. ASSUME NEW d \in Clients, cpc[d] \in {"new", "join"} \/ Waits(JoinRequest(d))'
       PROVE  cq'[d] = <<>> /\ ~IsIn(d)' /\ m # Joined(d) /\ m # Rejected(d)
  <2>1. d # c
    BY <1>5, <1>11, <1>12
  <2>2. cpc[d] \in {"new", "join"} \/ Waits(JoinRequest(d))
    BY <1>3, <1>12
  <2>3. cq[d] = <<>> /\ ~IsIn(d)
    BY <1>1, <2>2 DEF NotYetJoined
  <2>4. cq'[d] = cq[d] /\ IsIn(d)' = IsIn(d)
    BY <1>5, <1>7, <2>1 DEF IsIn
  <2>5. Rejected(c) # Joined(d) /\ Rejected(c) # Rejected(d)
    BY <2>1, Apart
  <2> QED  BY <1>6, <2>3, <2>4, <2>5
<1>13. \A d \in Clients : \A k \in 0 .. MaxLines : m # Line(d, k)
  BY <1>6, Apart
<1>14. StreamIsHistory'
  <2> SUFFICES ASSUME Len(history') < MaxHistory, NEW d \in Clients, IsMember(d)', Running(d)'
               PROVE  ((screen'[d] \o held'[d]) \o cq'[d]) \o Pending(d)' = history'
    BY DEF StreamIsHistory
  <2>1. IsMember(d) /\ IsIn(d) /\ Running(d)
    BY <1>7 DEF IsMember, IsIn, Running
  <2>2. d # c
    BY <1>11, <2>1
  <2>3. Stream(d) = history
    BY <1>1, <1>7, <2>1 DEF StreamIsHistory, Stream, Running
  <2>4. cpc'[d] # "gone" /\ Stream(d)' = Stream(d)
    BY <1>9, <2>2 DEF Running
  <2> QED  BY <1>7, <2>3, <2>4 DEF Stream
<1>15. spc' # "replay"
  BY <1>2, <1>7 DEF Takes
<1> QED
  BY <1>2, <1>3, <1>10, <1>11, <1>12, <1>13, <1>14, <1>15, ServerTraffic

\* A client that is let in is to hear the history from its beginning.
LEMMA AdmitTraffic ==
    ASSUME Types, ServerLoops, Traffic, Admit
    PROVE  Traffic'
<1>1. Requests /\ Once /\ NotYetJoined /\ StreamIsHistory
  BY DEF Traffic
<1>2. Takes("J") /\ UNCHANGED <<client, cq, history>> /\ next' = 1 /\ spc' = "replay"
  BY DEF Admit
<1>3. /\ Once' /\ \A x : Waits(x)' <=> Waits(x) /\ x # Head(srvq[gen])
      /\ Waits(Head(srvq[gen])) /\ Head(srvq[gen]).from \in Clients
      /\ Head(srvq[gen]) = JoinRequest(Head(srvq[gen]).from)
  BY <1>1, <1>2, TakesHead
<1>4. PICK c \in Clients : c = Head(srvq[gen]).from
  BY <1>3
<1>5. /\ Waits(JoinRequest(c)) /\ ~Waits(JoinRequest(c))'
      /\ members' = Append(members, c) /\ job'.from = c
  BY <1>3, <1>4 DEF Admit
<1>6. /\ cq \in [Clients -> Seq(Messages)] /\ held \in [Clients -> Seq(Messages)]
      /\ screen \in [Clients -> Seq(Messages)] /\ history \in Seq(Messages)
      /\ members \in Seq(Clients) /\ UNCHANGED <<cpc, held, screen>>
  BY <1>2 DEF Types, client
<1>7. /\ screen[c] = <<>> /\ held[c] = <<>> /\ cq[c] = <<>> /\ ~Seen(Joined(c))
      /\ cpc[c] \notin {"new", "join"}
  BY <1>1, <1>5 DEF NotYetJoined
<1>8. \A d : /\ Pending(d) = <<>>
             /\ Pending(d)' = IF d = c THEN history ELSE <<>>
  <2>1. SubSeq(history, 1, Len(history)) = history
    BY <1>6, SubSeqFull
  <2> QED  BY <1>2, <1>5, <2>1 DEF Pending, Takes
<1>9. ASSUME NEW d \in Clients
      PROVE  /\ Stream(d)' = Stream(d) \/ Stream(d)' = history
             /\ d # c => Stream(d)' = Stream(d)
             /\ d = c /\ cpc[d] # "gone" => Stream(d)' = history
  <2>1. CASE cpc[d] = "gone" \/ d # c
    BY <1>2, <1>6, <1>8, <2>1 DEF Stream
  <2>2. CASE cpc[d] # "gone" /\ d = c
    <3>1. Stream(d)' = ((<<>> \o <<>>) \o <<>>) \o history
      BY <1>2, <1>6, <1>7, <1>8, <2>2 DEF Stream
    <3>2. <<>> \in Seq(Messages)
      OBVIOUS
    <3> QED  BY <1>6, <2>2, <3>1, <3>2, ConcatEmptySeq
  <2> QED  BY <2>1, <2>2
<1>10. \A t \in Streams' : \E s \in Streams : Follows(t, s, NoMsg)
  <2>1. \A t \in Streams' : t \in Streams
    BY <1>2, <1>9 DEF Streams
  <2> QED  BY <2>1, StreamTypes, FollowsCases
<1>11. \A d : IsIn(d)' => IsIn(d) \/ d = c
  <2>1. \A i \in 1 .. Len(members') : \/ i \in 1 .. Len(members) /\ members'[i] = members[i]
                                      \/ members'[i] = c
    BY <1>5, <1>6, AppendProperties
  <2> QED  BY <2>1 DEF IsIn
<1>12. ASSUME NEW d \in Clients, cpc[d] \in {"new", "join"} \/ Waits(JoinRequest(d))'
       PROVE  cq'[d] = <<>> /\ ~IsIn(d)'
  <2>1. d # c
    BY <1>5, <1>7, <1>12
  <2>2. cpc[d] \in {"new", "join"} \/ Waits(JoinRequest(d))
    BY <1>3, <1>12
  <2>3. cq[d] = <<>> /\ ~IsIn(d)
    BY <1>1, <2>2 DEF NotYetJoined
  <2> QED  BY <1>2, <1>11, <2>1, <2>3
<1>13. StreamIsHistory'
  <2> SUFFICES ASSUME Len(history') < MaxHistory, NEW d \in Clients, IsMember(d)', Running(d)'
               PROVE  ((screen'[d] \o held'[d]) \o cq'[d]) \o Pending(d)' = history'
    BY DEF StreamIsHistory
  <2>1. cpc'[d] # "gone" /\ cpc[d] # "gone"
    BY <1>6 DEF Running
  <2>2. CASE d = c
    BY <1>2, <1>9, <2>1, <2>2 DEF Stream
  <2>3. CASE d # c
    <3>1. IsMember(d) /\ Running(d)
      <4>1. IsIn(d)
        <5>1. IsIn(d)'
          BY DEF IsMember, IsIn
        <5> QED  BY <1>11, <2>3, <5>1
      <4>2. spc # "down"
        BY <1>2 DEF Takes
      <4> QED  BY <1>6, <4>1, <4>2 DEF IsMember, IsIn, Running
    <3>2. Stream(d) = history
      BY <1>1, <1>2, <2>1, <3>1 DEF StreamIsHistory, Stream
    <3>3. Stream(d)' = history'
      BY <1>2, <1>9, <2>3, <3>2
    <3> QED  BY <2>1, <3>3 DEF Stream
  <2> QED  BY <2>2, <2>3
<1>14. spc' = "replay" => \E d \in Clients : d = job'.from /\ ~Seen(Joined(d))
  BY <1>5, <1>7
<1> QED
  BY <1>2, <1>3, <1>10, <1>12, <1>13, <1>14, QuietTraffic

------------------------------------------------------------------------------
(* The invariant.                                                              *)

\* It holds at the start, ...
LEMMA InitInvariant == Init => IInv
<1> SUFFICES ASSUME Init
             PROVE  IInv
  OBVIOUS
<1> USE DEF Init
<1>1. Len(<<>>) = 0 /\ <<>> \in Seq(Messages) /\ <<>> \in Seq(Clients)
  OBVIOUS
<1>2. Types
  BY <1>1, MqChatAssumption DEF Types
<1>3. Bounded
  BY <1>1, MqChatAssumption DEF Bounded
<1>4. ServerLoops /\ ClientThreads
  BY <1>1, MqChatAssumption DEF ServerLoops, ClientThreads
<1>5. \A m : ~Waits(m)
  BY <1>1 DEF Waits
<1>6. \A d : Pending(d) = <<>>
  BY DEF Pending
<1>7. \A s \in Streams : s = <<>>
  <2>1. ((<<>> \o <<>>) \o <<>>) \o <<>> = <<>>
    BY <1>1, ConcatEmptySeq
  <2> QED  BY <1>6, <2>1 DEF Streams, Stream
<1>8. (\A m : ~Seen(m)) /\ InOrder
  BY <1>1, <1>7 DEF Seen, InOrder, Agree
<1>9. Requests /\ Once
  BY <1>1 DEF Requests, Once
<1>10. NotYetJoined /\ NotYetSeen
  BY <1>1, <1>5, <1>8 DEF NotYetJoined, NotYetSeen, IsIn
<1>11. StreamIsHistory
  BY DEF StreamIsHistory, IsMember
<1> QED
  BY <1>2, <1>3, <1>4, <1>8, <1>9, <1>10, <1>11 DEF IInv, Traffic

\* ... and every step keeps it.
LEMMA StepInvariant == IInv /\ [Next]_vars => IInv'
<1> SUFFICES ASSUME IInv, [Next]_vars
             PROVE  IInv'
  OBVIOUS
<1>1. /\ Types /\ Bounded /\ ServerLoops /\ ClientThreads /\ Traffic
      /\ Requests /\ Once /\ NotYetJoined
  BY DEF IInv, Traffic
<1>2. ASSUME NEW c \in Clients,
             Open(c) \/ TypeLine(c) \/ TypeQuit(c) \/ Crash(c) \/ MainStep(c) \/ ReceiverStep(c)
      PROVE  IInv'
  <2>1. Types'
    BY <1>1, <1>2, MainTypes, ReceiverTypes
  <2>2. Bounded' /\ ClientThreads' /\ Traffic'
    BY <1>1, <1>2, ClientBounded, ClientStepThreads, ClientTraffic
  <2>3. ServerLoops'
    <3>1. UNCHANGED server
      BY <1>1, <1>2, ClientStreams
    <3> QED  BY <1>1, <3>1 DEF ServerLoops, server, IsIn
  <2> QED  BY <2>1, <2>2, <2>3 DEF IInv
<1>3. CASE ServerStep \/ ServerStarts \/ ServerStops \/ ServerCrashes
  <2>1. Types' /\ Bounded' /\ ServerLoops'
    BY <1>1, <1>3, ServerTypes, ServerBounded, ServerStepLoops
  <2>2. Traffic'
    BY <1>1, <1>3, LoopTraffic, AnnounceTraffic, RejectTraffic, AdmitTraffic, StartStopTraffic
       DEF ServerStep
  <2>3. ClientThreads'
    <3>1. UNCHANGED client
      BY <1>3 DEF ServerStep, HandleMessage, Reject, JoinFails, Admit, ReplayNext, ReplayDone,
         SendNext, SendDone, SendsTo, ServerStarts, ServerStops, ServerCrashes
    <3> QED  BY <1>1, <3>1 DEF ClientThreads, client
  <2> QED  BY <2>1, <2>2, <2>3 DEF IInv
<1>4. CASE UNCHANGED vars
  <2>1. UNCHANGED <<spc, gen, registered, members, history, job, next, cpc, rpc, server_q, lines,
                    mutex, held, linked, screen, srvq, cq>>
    BY <1>4 DEF vars, server, client
  <2>2. Types' /\ Bounded' /\ ServerLoops' /\ ClientThreads'
    BY <1>1, <2>1 DEF Types, Bounded, ServerLoops, ClientThreads, IsIn
  <2>3. \A d : Pending(d)' = Pending(d) /\ Stream(d)' = Stream(d)
    BY <2>1 DEF Pending, Stream
  <2>4. Streams' = Streams
    BY <2>1, <2>3 DEF Streams
  <2>5. \A m : (Waits(m)' <=> Waits(m)) /\ (Seen(m)' <=> Seen(m))
    BY <2>1, <2>4 DEF Waits, Seen
  <2>6. \A d, k : Sent(d, k)' = Sent(d, k)
    BY <2>1 DEF Sent
  <2>7. Requests' /\ Once'
    BY <1>1, <2>1, <2>6 DEF Requests, Once
  <2>8. NotYetJoined'
    BY <1>1, <2>1, <2>5 DEF NotYetJoined, IsIn, Joined, Rejected, JoinRequest, Msg
  <2>9. NotYetSeen'
    BY <1>1, <2>1, <2>5, <2>6 DEF NotYetSeen, Traffic, Joined, Line, Msg
  <2>10. InOrder' /\ StreamIsHistory'
    BY <1>1, <2>1, <2>3, <2>4 DEF InOrder, StreamIsHistory, IsMember, Running, Traffic, Agree
  <2> QED  BY <2>2, <2>7, <2>8, <2>9, <2>10 DEF IInv, Traffic
<1> QED
  BY <1>2, <1>3, <1>4 DEF Next, UserStep

\* Every reachable state has the invariant, whatever is killed or restarted.
THEOREM Invariant == SafeSpec => []IInv
<1> QED
  BY InitInvariant, StepInvariant, PTL DEF SafeSpec

\* Queues, table, history and threads stay within their types and limits.
THEOREM TypeCorrect == SafeSpec => []TypeOK
<1>1. IInv => TypeOK
  <2> SUFFICES ASSUME IInv
               PROVE  TypeOK
    OBVIOUS
  <2>1. Types /\ Bounded /\ ClientThreads
    BY DEF IInv
  <2>2. held \in [Clients -> {<<>>} \cup {<<m>> : m \in Messages}]
    <3>1. \A c \in Clients : held[c] \in {<<>>} \cup {<<m>> : m \in Messages}
      BY <2>1 DEF ClientThreads
    <3> QED  BY <2>1, <3>1 DEF Types
  <2>3. /\ \A g \in Starts : srvq[g] \in Seq(Messages)
        /\ \A c \in Clients : cq[c] \in Seq(Messages) /\ screen[c] \in Seq(Messages)
    BY <2>1 DEF Types
  <2>4. /\ \A g \in Starts : Len(srvq[g]) <= QueueCap
        /\ \A c \in Clients : Len(cq[c]) <= QueueCap
        /\ Len(members) <= MaxClients /\ Len(history) <= MaxHistory
    BY <2>1 DEF Bounded
  <2>5. /\ spc \in {"down", "recv", "replay", "send"}
        /\ gen \in 0 .. MaxStarts /\ registered \in 0 .. gen
        /\ members \in Seq(Clients) /\ history \in Seq(Messages)
        /\ job \in Messages \cup {NoMsg} /\ next \in Nat
        /\ cpc \in [Clients -> {"new", "join", "lock", "prompt", "send", "leave", "gone"}]
        /\ rpc \in [Clients -> {"off", "recv", "lock"}]
        /\ server_q \in [Clients -> 0 .. MaxStarts]
        /\ lines \in [Clients -> 0 .. MaxLines]
        /\ mutex \in [Clients -> {"free", "main"}] /\ linked \in [Clients -> BOOLEAN]
    BY <2>1 DEF Types
  <2> QED  BY <2>2, <2>3, <2>4, <2>5 DEF TypeOK
<1> QED
  BY <1>1, Invariant, PTL

\* Until the history is full, a running member's screen, its queue and what the server
\* still sends it make up the history, each message once and in its place.
THEOREM MembersHearTheHistory == SafeSpec => []StreamIsHistory
<1>1. IInv => StreamIsHistory
  BY DEF IInv, Traffic
<1> QED
  BY <1>1, Invariant, PTL

\* The screens are beginnings of the streams, and so agree with each other.
LEMMA ScreensInOrder == IInv => \A c, d \in Clients : Agree(screen[c], screen[d])
<1> SUFFICES ASSUME IInv, NEW c \in Clients, NEW d \in Clients
             PROVE  Agree(screen[c], screen[d])
  OBVIOUS
<1>1. Types /\ ServerLoops /\ InOrder
  BY DEF IInv, Traffic
<1>2. PICK m : m = NoMsg
  OBVIOUS
<1>3. ~Seen(m)
  BY <1>1, <1>2, NoMsgUnseen
<1>4. ASSUME NEW e \in Clients
      PROVE  /\ Stream(e) \in Streams /\ Stream(e) \in Seq(Messages)
             /\ Follows(screen[e], Stream(e), m)
             /\ \A i \in 1 .. Len(Stream(e)) : Stream(e)[i] # m
  <2>1. Stream(e) \in Streams /\ Stream(e) \in Seq(Messages)
    BY <1>1, StreamTypes DEF Streams
  <2>2. Follows(screen[e], Stream(e), m)
    BY <1>1, StreamBegins
  <2> QED  BY <1>3, <2>1, <2>2 DEF Seen
<1>5. Agree(Stream(c), Stream(d))
  BY <1>1, <1>4 DEF InOrder
<1> QED
  BY <1>4, <1>5, AgreesAfter

\* No screen shows a message twice, and two screens show what both show in one order:
\* also across full histories, members that leave and restarts of the server.
THEOREM ScreensInOneOrder == SafeSpec => []ScreensAgree
<1>1. IInv => ScreensAgree
  <2> SUFFICES ASSUME IInv
               PROVE  ScreensAgree
    OBVIOUS
  <2>1. \A c, d \in Clients : Agree(screen[c], screen[d])
    BY ScreensInOrder
  <2>2. ASSUME NEW c \in Clients
        PROVE  screen[c] \in Seq(Messages) /\ Len(screen[c]) \in Nat
    BY DEF IInv, Types
  <2>3. ASSUME NEW c \in Clients
        PROVE  Cardinality(Shows(c)) = Len(screen[c])
    <3> DEFINE s == screen[c]
               f == [i \in 1 .. Len(s) |-> s[i]]
    <3>1. s \in Seq(Messages) /\ Len(s) \in Nat
      BY <2>2
    <3>2. \A i, j \in 1 .. Len(s) : s[i] = s[j] => i = j
      <4>1. Agree(s, s)
        BY <2>1
      <4> QED  BY <3>1, <4>1 DEF Agree
    <3>3. f \in Bijection(1 .. Len(s), Shows(c))
      BY <3>1, <3>2 DEF Bijection, Injection, Surjection, IsInjective, Shows
    <3>4. ExistsBijection(1 .. Len(s), Shows(c))
      BY <3>3 DEF ExistsBijection
    <3> QED  BY <3>1, <3>4, FS_CountingElements
  <2>4. ASSUME NEW c \in Clients, NEW a \in Shows(c)
        PROVE  Position(c, a) \in 1 .. Len(screen[c]) /\ screen[c][Position(c, a)] = a
    <3>1. \E i \in 1 .. Len(screen[c]) : screen[c][i] = a
      BY DEF Shows
    <3> QED  BY <3>1 DEF Position
  <2>5. ASSUME NEW c \in Clients, NEW d \in Clients, NEW a \in Shows(c) \cap Shows(d),
               NEW b \in Shows(c) \cap Shows(d), Position(c, a) < Position(c, b)
        PROVE  Position(d, a) < Position(d, b)
    BY <2>1, <2>4, <2>5 DEF Agree
  <2> QED  BY <2>3, <2>5 DEF ScreensAgree
<1> QED
  BY <1>1, Invariant, PTL
=============================================================================
