--------------------------- MODULE ShmChatProofs ---------------------------
(* Theorems about ShmChat, for every set of clients, log, number of lines,     *)
(* signals, kills and starts of the server.                                    *)
EXTENDS ShmChat, FiniteSetTheorems, SequenceTheorems, TLAPS

------------------------------------------------------------------------------
(* The inductive invariant.                                                    *)

Entry == {Nobody} \cup (Clients \X (0 .. MaxLines))

\* The types of TypeOK, except that the three counters have no upper bounds yet.
Types ==
    /\ srv \in {"down", "cleared", "setup", "up", "stopping", "removed"}
    /\ starts \in 0 .. MaxStarts /\ running \in BOOLEAN
    /\ client_count \in Nat
    /\ message_count \in Nat
    /\ messages \in [1 .. MaxMessages -> Entry]
    /\ semOn \in BOOLEAN /\ sem \in Nat
    /\ pc \in [Threads -> {"new", "off", "loop", "prompt", "lock", "join", "end", "gone",
                           "in", "name", "count", "notice", "put", "bump", "unlock"}]
    /\ idx \in [Threads -> Nat]
    /\ \A t \in Threads : pc[t] \in {"put", "bump"} => idx[t] \in 0 .. MaxMessages - 1
    /\ g_running \in [Clients -> BOOLEAN]
    /\ last_seen \in [Clients -> 0 .. MaxMessages]
    /\ shown \in [Clients -> Seq(Entry)]
    /\ lines \in [Clients -> 0 .. MaxLines]
    /\ signals \in 0 .. MaxSignals /\ kills \in 0 .. MaxKills /\ broken \in BOOLEAN

\* The clients whose main thread is past the store of client_count, or was never to
\* come to it.
Registered == {c \in Clients : pc[Main(c)] \notin {"new", "lock", "in", "name", "count"}}

Inside  == {t \in Threads : pc[t] \in InSection}
Writing == {t \in Threads : pc[t] \in {"put", "bump"}}

\* Where the three threads of a client can be: the other two run only while the
\* main thread waits for them, and only the receiver thread never writes.
PlacesOf(c) ==
    /\ pc[Main(c)] \in {"new", "lock", "join", "gone"} \cup InSection
    /\ pc[Receiver(c)] \notin {"put", "bump"}
    /\ pc[Main(c)] \in {"new", "lock"} \cup InSection =>
         pc[Sender(c)] = "off" /\ pc[Receiver(c)] = "off"
    /\ pc[Main(c)] = "gone" =>
         pc[Sender(c)] \in {"off", "end", "gone"} /\ pc[Receiver(c)] \in {"off", "end", "gone"}
    /\ pc[Main(c)] = "new" => last_seen[c] = 0 /\ shown[c] = <<>> /\ lines[c] = 0

Places == \A c \in Clients : PlacesOf(c)

\* What is inside, or will be counted, fits the bounds of the types.
Bounded ==
    /\ sem <= 1 + 3 * Cardinality(Clients)
    /\ semOn => sem + Cardinality(Inside) <= 1 + 3 * Cardinality(Clients)
    /\ message_count + Cardinality(Writing) <= MaxMessages + 2 * Cardinality(Clients)

\* No client is counted twice, whatever count its main() read; and as long as no lock
\* failed nobody else counts between the test of a main() and its store.
Counted ==
    /\ client_count <= Cardinality(Registered)
    /\ \A c \in Clients : pc[Main(c)] = "count" => idx[Main(c)] <= Cardinality(Registered)
    /\ ~broken =>
         /\ client_count <= MaxClients
         /\ \A c \in Clients : /\ pc[Main(c)] \in {"name", "count"} => client_count < MaxClients
                               /\ pc[Main(c)] = "count" => idx[Main(c)] = client_count

\* As long as no lock failed: one thread at most is inside, and none while the
\* semaphore is free.
Exclusive ==
    ~broken =>
      /\ sem <= 1
      /\ sem = 1 => Inside = {}
      /\ \A t, u \in Inside : t = u

\* A thread that writes has the first free entry, and has filled it when it counts.
WritesNext ==
    ~broken =>
      /\ message_count <= MaxMessages
      /\ \A t \in Threads :
           /\ pc[t] \in {"put", "bump"} => idx[t] = message_count
           /\ pc[t] = "bump" => messages[idx[t] + 1] = Text(t)

IInv ==
    /\ Types /\ Places /\ Bounded /\ Counted /\ Exclusive /\ WritesNext
    /\ ScreenIsPrefix /\ PostedIsKept

------------------------------------------------------------------------------
(* Threads.                                                                    *)

\* A thread is the main, the sender or the receiver thread of one client.
LEMMA ThreadNames ==
    /\ \A c \in Clients :
         /\ Main(c) \in Threads /\ Sender(c) \in Threads /\ Receiver(c) \in Threads
         /\ Main(c)[1] = c /\ Sender(c)[1] = c /\ Receiver(c)[1] = c
         /\ Main(c)[2] = "main" /\ Sender(c)[2] # "main" /\ Receiver(c)[2] # "main"
    /\ \A c, d : Main(c) # Sender(d) /\ Main(c) # Receiver(d) /\ Sender(c) # Receiver(d)
    /\ \A c, d : /\ Main(c) = Main(d) => c = d
                 /\ Sender(c) = Sender(d) => c = d
                 /\ Receiver(c) = Receiver(d) => c = d
    /\ \A t \in Threads : t[1] \in Clients
    /\ \A t \in Threads : t \in {Main(t[1]), Sender(t[1]), Receiver(t[1])}
  BY DEF Threads, Roles, Main, Sender, Receiver

\* What a thread writes is an entry of the log.
LEMMA TextType ==
    ASSUME Types, NEW t \in Threads
    PROVE  Text(t) \in Entry
<1>1. t[1] \in Clients
  BY ThreadNames
<1>2. lines[t[1]] \in 0 .. MaxLines /\ 0 \in 0 .. MaxLines
  BY <1>1, ShmChatAssumption DEF Types
<1>3. Notice(t[1]) \in Entry /\ Line(t[1], lines[t[1]]) \in Entry
  BY <1>1, <1>2 DEF Notice, Line, Entry
<1> QED
  BY <1>3 DEF Text

\* A function on 1 .. n is a sequence.
LEMMA FunctionIsSeq ==
    ASSUME NEW S, NEW n \in Nat, NEW f \in [1 .. n -> S]
    PROVE  f \in Seq(S) /\ Len(f) = n
  BY SeqDef

------------------------------------------------------------------------------
(* Types.                                                                      *)

\* The steps at the semaphore and in the section keep the types.
LEMMA ThreadTypes ==
    ASSUME Types, NEW t \in Threads, ThreadStep(t)
    PROVE  Types'
<1> USE DEF Types, segment, server, screen, counts, Goes
<1>1. CASE Lock(t)
  BY <1>1 DEF Lock
<1>2. CASE LockFails(t)
  BY <1>2, ShmChatAssumption DEF LockFails
<1>3. CASE Put(t)
  <2>1. Text(t) \in Entry
    BY TextType
  <2> QED  BY <1>3, <2>1 DEF Put
<1>4. CASE Bump(t)
  BY <1>4, ShmChatAssumption DEF Bump
<1>5. CASE ThreadUnlocks(t)
  BY <1>5 DEF ThreadUnlocks, Unlock, Add
<1> QED
  BY <1>1, <1>2, <1>3, <1>4, <1>5 DEF ThreadStep

\* Taking an entry keeps the types of what it changes.
LEMMA ReservesTypes ==
    ASSUME Types, NEW t \in Threads, Reserves(t)
    PROVE  /\ idx' \in [Threads -> Nat]
           /\ \A u \in Threads : pc'[u] \in {"put", "bump"} => idx'[u] \in 0 .. MaxMessages - 1
           /\ pc' \in [Threads -> {"new", "off", "loop", "prompt", "lock", "join", "end", "gone",
                                   "in", "name", "count", "notice", "put", "bump", "unlock"}]
<1>1. CASE Room
  <2>1. message_count \in 0 .. MaxMessages - 1
    BY <1>1, ShmChatAssumption DEF Room, Types
  <2> QED  BY <1>1, <2>1 DEF Types, Reserves, Goes
<1>2. CASE ~Room
  BY <1>2 DEF Types, Reserves, Goes
<1> QED
  BY <1>1, <1>2

\* So do those of a client's own threads.
LEMMA ClientTypes ==
    ASSUME Types, NEW c \in Clients, ClientStep(c) \/ Attach(c) \/ Type(c) \/ Kill(c)
    PROVE  Types'
<1> USE DEF Types, segment, server, screen, counts, Goes
<1>1. Main(c) \in Threads /\ Sender(c) \in Threads /\ Receiver(c) \in Threads
  BY ThreadNames
<1>2. CASE Register(c)
  BY <1>1, <1>2 DEF Register
<1>12. CASE ReadCount(c)
  BY <1>1, <1>12 DEF ReadCount
<1>13. CASE CountName(c)
  BY <1>1, <1>13 DEF CountName
<1>14. CASE Announce(c)
  BY <1>1, <1>14, ReservesTypes DEF Announce
<1>3. CASE StartThreads(c)
  <2>1. sem' \in Nat
    BY <1>3 DEF StartThreads, Add
  <2> DEFINE states == {"new", "off", "loop", "prompt", "lock", "join", "end", "gone",
                        "in", "name", "count", "notice", "put", "bump", "unlock"}
  <2>2. "join" \in states /\ "loop" \in states /\ pc \in [Threads -> states]
    OBVIOUS
  <2> HIDE DEF states
  <2>3. pc' \in [Threads -> states]
    BY <1>1, <1>3, <2>2 DEF StartThreads
  <2> QED  BY <1>3, <2>1, <2>3 DEF StartThreads, states
<1>4. CASE Loop(c)
  BY <1>1, <1>4 DEF Loop
<1>5. CASE Post(c)
  BY <1>1, <1>5, ReservesTypes DEF Post
<1>6. CASE Read(c)
  <2> DEFINE upto == IF message_count < MaxMessages THEN message_count ELSE MaxMessages
  <2>1. upto \in 0 .. MaxMessages /\ last_seen[c] \in 0 .. MaxMessages
    BY ShmChatAssumption
  <2>2. ASSUME last_seen[c] < upto
        PROVE  News(c, upto) \in Seq(Entry)
    <3>1. \A i \in 1 .. upto - last_seen[c] : messages[last_seen[c] + i] \in Entry
      BY <2>1, <2>2, ShmChatAssumption
    <3>2. upto - last_seen[c] \in Nat
      BY <2>1, <2>2
    <3> HIDE DEF upto
    <3>3. News(c, upto) \in [1 .. upto - last_seen[c] -> Entry]
      BY <3>1 DEF News
    <3> QED  BY <3>2, <3>3, FunctionIsSeq
  <2>3. CASE last_seen[c] < upto
    <3>1. shown' = [shown EXCEPT ![c] = @ \o News(c, upto)]
          /\ last_seen' = [last_seen EXCEPT ![c] = upto]
      BY <1>6, <2>3 DEF Read
    <3>2. shown' \in [Clients -> Seq(Entry)]
      BY <2>2, <2>3, <3>1
    <3> HIDE DEF upto
    <3>3. last_seen' \in [Clients -> 0 .. MaxMessages]
      BY <2>1, <3>1
    <3> QED  BY <1>1, <1>6, <3>2, <3>3 DEF Read
  <2>4. CASE ~(last_seen[c] < upto)
    BY <1>1, <1>6, <2>4 DEF Read
  <2> QED  BY <2>3, <2>4
<1>7. CASE JoinThreads(c)
  BY <1>1, <1>7 DEF JoinThreads
<1>8. CASE Attach(c)
  BY <1>1, <1>8 DEF Attach
<1>9. CASE TypeLine(c)
  BY <1>1, <1>9, ShmChatAssumption DEF TypeLine
<1>10. CASE TypeNothing(c) \/ TypeQuit(c)
  BY <1>1, <1>10 DEF TypeNothing, TypeQuit
<1>11. CASE Kill(c)
  BY <1>11, ShmChatAssumption DEF Kill
<1> QED
  BY <1>2, <1>3, <1>4, <1>5, <1>6, <1>7, <1>8, <1>9, <1>10, <1>11, <1>12, <1>13, <1>14
     DEF ClientStep, Type

\* So do those of the server.
LEMMA ServerTypes ==
    ASSUME Types,
           ServerStarts \/ ServerRuns \/ ServerSets \/ ServerStops \/ ServerRemoves \/ ServerCrashes
    PROVE  Types'
<1> USE DEF Types, segment, server, screen, counts
<1>1. CASE ServerStarts
  <2>1. messages' \in [1 .. MaxMessages -> Entry]
    BY <1>1 DEF ServerStarts, Entry
  <2>2. starts' \in 0 .. MaxStarts /\ client_count' \in Nat
    BY <1>1, ShmChatAssumption DEF ServerStarts
  <2>3. broken' \in BOOLEAN
    BY <1>1 DEF ServerStarts
  <2> QED  BY <1>1, <2>1, <2>2, <2>3 DEF ServerStarts
<1>2. CASE ServerRuns
  BY <1>2 DEF ServerRuns
<1>3. CASE ServerSets
  BY <1>3 DEF ServerSets, InitialValue
<1>4. CASE ServerStops \/ ServerRemoves \/ ServerCrashes
  BY <1>4 DEF ServerStops, FlagCleared, ServerRemoves, ServerCrashes
<1> QED
  BY <1>1, <1>2, <1>3, <1>4

------------------------------------------------------------------------------
(* Places.                                                                     *)

\* A thread that goes from one place in the section to the next, or into it, or back
\* to its loop, does not change what is said of the three threads of its client.
LEMMA ThreadPlaces ==
    ASSUME Types, Places, NEW t \in Threads, ThreadStep(t)
    PROVE  Places'
<1> SUFFICES ASSUME NEW d \in Clients
             PROVE  PlacesOf(d)'
  BY DEF Places
<1>1. PlacesOf(d)
  BY DEF Places
<1> USE DEF PlacesOf, screen, Goes, InSection
<1>2. pc \in [Threads -> {"new", "off", "loop", "prompt", "lock", "join", "end", "gone",
                         "in", "name", "count", "notice", "put", "bump", "unlock"}]
  BY DEF Types
<1>3. CASE Lock(t) \/ LockFails(t)
  BY <1>1, <1>2, <1>3, ThreadNames DEF Lock, LockFails
<1>4. CASE Put(t)
  BY <1>1, <1>2, <1>4, ThreadNames DEF Put
<1>5. CASE Bump(t)
  BY <1>1, <1>2, <1>5, ThreadNames DEF Bump
<1>6. CASE ThreadUnlocks(t)
  BY <1>1, <1>2, <1>6, ThreadNames DEF ThreadUnlocks, Unlock
<1> QED
  BY <1>3, <1>4, <1>5, <1>6 DEF ThreadStep

\* The steps of a client keep its threads in step.
LEMMA ClientPlaces ==
    ASSUME Types, Places, NEW c \in Clients, ClientStep(c) \/ Attach(c) \/ Type(c) \/ Kill(c)
    PROVE  Places'
<1> SUFFICES ASSUME NEW d \in Clients
             PROVE  PlacesOf(d)'
  BY DEF Places
<1>1. PlacesOf(d) /\ PlacesOf(c)
  BY DEF Places
<1> USE DEF PlacesOf, screen, Goes, InSection
<1>2. pc \in [Threads -> {"new", "off", "loop", "prompt", "lock", "join", "end", "gone",
                         "in", "name", "count", "notice", "put", "bump", "unlock"}]
  BY DEF Types
<1>3. CASE Register(c)
  BY <1>1, <1>2, <1>3, ThreadNames DEF Register
<1>13. CASE ReadCount(c)
  BY <1>1, <1>2, <1>13, ThreadNames DEF ReadCount
<1>14. CASE CountName(c)
  BY <1>1, <1>2, <1>14, ThreadNames DEF CountName
<1>15. CASE Announce(c)
  BY <1>1, <1>2, <1>15, ThreadNames DEF Announce, Reserves
<1>4. CASE StartThreads(c)
  BY <1>1, <1>2, <1>4, ThreadNames DEF StartThreads
<1>5. CASE Loop(c)
  BY <1>1, <1>2, <1>5, ThreadNames DEF Loop
<1>6. CASE Post(c)
  BY <1>1, <1>2, <1>6, ThreadNames DEF Post, Reserves
<1>7. CASE Read(c)
  <2>1. \A e \in Clients \ {c} : last_seen'[e] = last_seen[e] /\ shown'[e] = shown[e]
    BY <1>7 DEF Read, Types
  <2> QED  BY <1>1, <1>2, <1>7, <2>1, ThreadNames DEF Read
<1>8. CASE JoinThreads(c)
  BY <1>1, <1>2, <1>8, ThreadNames DEF JoinThreads
<1>9. CASE Attach(c)
  BY <1>1, <1>2, <1>9, ThreadNames DEF Attach
<1>10. CASE TypeLine(c)
  <2>1. \A e \in Clients \ {c} : lines'[e] = lines[e]
    BY <1>10 DEF TypeLine, Types
  <2> QED  BY <1>1, <1>2, <1>10, <2>1, ThreadNames DEF TypeLine
<1>11. CASE TypeNothing(c) \/ TypeQuit(c)
  BY <1>1, <1>2, <1>11, ThreadNames DEF TypeNothing, TypeQuit
<1>12. CASE Kill(c)
  BY <1>1, <1>2, <1>12, ThreadNames DEF Kill
<1> QED
  BY <1>3, <1>4, <1>5, <1>6, <1>7, <1>8, <1>9, <1>10, <1>11, <1>12, <1>13, <1>14, <1>15
     DEF ClientStep, Type

\* The server moves no thread.
LEMMA ServerPlaces ==
    ASSUME Places,
           ServerStarts \/ ServerRuns \/ ServerSets \/ ServerStops \/ ServerRemoves \/ ServerCrashes
    PROVE  Places'
  BY DEF Places, PlacesOf, screen, ServerStarts, ServerRuns, ServerSets, ServerStops,
     ServerRemoves, ServerCrashes

------------------------------------------------------------------------------
(* Bounds.                                                                     *)

\* There are finitely many threads, and Places tells how many of them may write.
LEMMA CountThreads ==
    Types /\ Places =>
      /\ Cardinality(Clients) \in Nat
      /\ IsFiniteSet(Inside) /\ Cardinality(Inside) \in 0 .. 3 * Cardinality(Clients)
      /\ IsFiniteSet(Writing) /\ Cardinality(Writing) \in 0 .. 2 * Cardinality(Clients)
<1> SUFFICES ASSUME Types, Places
             PROVE  /\ Cardinality(Clients) \in Nat
                    /\ IsFiniteSet(Inside)
                    /\ Cardinality(Inside) \in 0 .. 3 * Cardinality(Clients)
                    /\ IsFiniteSet(Writing)
                    /\ Cardinality(Writing) \in 0 .. 2 * Cardinality(Clients)
  OBVIOUS
<1> DEFINE Writers == Clients \X {"main", "send"}
<1>1. IsFiniteSet(Clients) /\ Cardinality(Clients) \in Nat
  BY ShmChatAssumption, FS_CardinalityType
<1>2. IsFiniteSet({"main", "send"}) /\ Cardinality({"main", "send"}) = 2
  <2>1. {"main", "send"} = {"main"} \cup {"send"} /\ "send" \notin {"main"}
    OBVIOUS
  <2>2. IsFiniteSet({"main"}) /\ Cardinality({"main"}) = 1
    BY FS_Singleton
  <2>3. IsFiniteSet({"main"} \cup {"send"}) /\ Cardinality({"main"} \cup {"send"}) = 1 + 1
    BY <2>1, <2>2, FS_AddElement
  <2> QED  BY <2>1, <2>3
<1>3. IsFiniteSet(Roles) /\ Cardinality(Roles) = 3
  <2>1. Roles = {"main", "send"} \cup {"recv"}
    BY DEF Roles
  <2>2. "recv" \notin {"main", "send"}
    OBVIOUS
  <2> QED  BY <1>2, <2>1, <2>2, FS_AddElement
<1>4. IsFiniteSet(Threads) /\ Cardinality(Threads) = 3 * Cardinality(Clients)
  <2>1. IsFiniteSet(Clients \X Roles)
        /\ Cardinality(Clients \X Roles) = Cardinality(Clients) * Cardinality(Roles)
    BY <1>1, <1>3, FS_Product
  <2> QED  BY <1>1, <1>3, <2>1 DEF Threads
<1>5. IsFiniteSet(Writers) /\ Cardinality(Writers) = 2 * Cardinality(Clients)
  <2>1. IsFiniteSet(Writers)
        /\ Cardinality(Writers) = Cardinality(Clients) * Cardinality({"main", "send"})
    BY <1>1, <1>2, FS_Product
  <2> QED  BY <1>1, <1>2, <2>1
<1>6. Inside \in SUBSET Threads
  BY DEF Inside
<1>7. Writing \in SUBSET Writers
  <2>1. ASSUME NEW t \in Writing
        PROVE  t \in Writers
    <3>1. t \in Threads /\ t[1] \in Clients /\ pc[t] \in {"put", "bump"}
      BY ThreadNames DEF Writing
    <3>2. t # Receiver(t[1])
      BY <3>1 DEF Places, PlacesOf
    <3>3. t = Main(t[1]) \/ t = Sender(t[1])
      BY <3>1, <3>2, ThreadNames
    <3> QED  BY <3>1, <3>3 DEF Main, Sender
  <2> QED  BY <2>1
<1> HIDE DEF Writers
<1>8. IsFiniteSet(Inside) /\ Cardinality(Inside) <= 3 * Cardinality(Clients)
  BY <1>4, <1>6, FS_Subset
<1>9. IsFiniteSet(Writing) /\ Cardinality(Writing) <= 2 * Cardinality(Clients)
  BY <1>5, <1>7, FS_Subset
<1> QED
  BY <1>1, <1>8, <1>9, FS_CardinalityType

\* What a step of one thread does to the threads inside and to those that write.
LEMMA Moves ==
    ASSUME Types, NEW t \in Threads, NEW to, Goes(t, to)
    PROVE  /\ Inside' = IF to \in InSection THEN Inside \cup {t} ELSE Inside \ {t}
           /\ Writing' = IF to \in {"put", "bump"} THEN Writing \cup {t} ELSE Writing \ {t}
<1>1. \A u \in Threads : pc'[u] = IF u = t THEN to ELSE pc[u]
  BY DEF Types, Goes
<1> QED
  BY <1>1 DEF Inside, Writing

\* The steps at the semaphore and in the section keep the bounds: what enters has
\* taken from the semaphore, or found nothing there, and who counts stops writing.
LEMMA ThreadBounded ==
    ASSUME Types, Places, Bounded, NEW t \in Threads, ThreadStep(t)
    PROVE  Bounded'
<1> USE DEF Bounded
<1>1. Types' /\ Places'
  BY ThreadTypes, ThreadPlaces
<1>2. Cardinality(Inside) \in 0 .. 3 * Cardinality(Clients) /\ IsFiniteSet(Inside)
      /\ Cardinality(Writing) \in 0 .. 2 * Cardinality(Clients) /\ IsFiniteSet(Writing)
      /\ Cardinality(Clients) \in Nat
  BY CountThreads
<1>3. /\ (Cardinality(Inside) \in 0 .. 3 * Cardinality(Clients))'
      /\ (Cardinality(Writing) \in 0 .. 2 * Cardinality(Clients))'
  BY <1>1, CountThreads, PTL
<1>4. sem \in Nat /\ message_count \in Nat /\ semOn \in BOOLEAN /\ MaxMessages \in Nat
  BY ShmChatAssumption DEF Types
<1>5. CASE Lock(t)
  <2>1. pc[t] = "lock" /\ Goes(t, "in") /\ sem > 0 /\ sem' = sem - 1
        /\ semOn /\ UNCHANGED <<semOn, message_count>>
    BY <1>5 DEF Lock, segment
  <2>2. t \notin Inside /\ t \notin Writing
    BY <2>1 DEF Inside, Writing, InSection
  <2>3. Inside' = Inside \cup {t} /\ Writing' = Writing
    BY <2>1, <2>2, Moves DEF InSection
  <2>4. Cardinality(Inside') = Cardinality(Inside) + 1
    BY <1>2, <2>2, <2>3, FS_AddElement
  <2> QED  BY <1>2, <1>4, <2>1, <2>3, <2>4
<1>6. CASE LockFails(t)
  <2>1. pc[t] = "lock" /\ Goes(t, "in") /\ (~semOn \/ sem = 0)
        /\ UNCHANGED <<semOn, sem, message_count>>
    BY <1>6 DEF LockFails, segment
  <2>2. Writing' = Writing
    <3>1. t \notin Writing
      BY <2>1 DEF Writing
    <3> QED  BY <2>1, <3>1, Moves
  <2> QED  BY <1>2, <1>3, <1>4, <2>1, <2>2
<1>7. CASE Put(t)
  <2>1. pc[t] = "put" /\ Goes(t, "bump") /\ UNCHANGED <<semOn, sem, message_count>>
    BY <1>7 DEF Put
  <2>2. t \in Inside /\ t \in Writing
    BY <2>1 DEF Inside, Writing, InSection
  <2>3. Inside' = Inside /\ Writing' = Writing
    BY <2>1, <2>2, Moves DEF InSection
  <2> QED  BY <2>1, <2>3
<1>8. CASE Bump(t)
  <2>1. pc[t] = "bump" /\ Goes(t, "unlock") /\ UNCHANGED <<semOn, sem>>
        /\ (message_count' = idx[t] + 1 \/ message_count' = message_count + 1)
    BY <1>8 DEF Bump
  <2>2. t \in Inside /\ t \in Writing
    BY <2>1 DEF Inside, Writing, InSection
  <2>3. Inside' = Inside /\ Writing' = Writing \ {t}
    BY <2>1, <2>2, Moves DEF InSection
  <2>4. Cardinality(Writing') = Cardinality(Writing) - 1 /\ idx[t] \in 0 .. MaxMessages - 1
    <3>1. idx[t] \in 0 .. MaxMessages - 1
      BY <1>8 DEF Bump, Types
    <3> QED  BY <1>2, <2>2, <2>3, <3>1, FS_RemoveElement
  <2>5. message_count' + Cardinality(Writing') <= MaxMessages + 2 * Cardinality(Clients)
    BY <1>2, <1>3, <1>4, <2>1, <2>4
  <2> QED  BY <2>1, <2>3, <2>5
<1>9. CASE ThreadUnlocks(t)
  <2>1. pc[t] = "unlock" /\ Goes(t, "loop") /\ UNCHANGED <<semOn, message_count>>
        /\ sem' = IF semOn THEN sem + 1 ELSE sem
    BY <1>9 DEF ThreadUnlocks, Unlock, Add, segment
  <2>2. t \in Inside /\ t \notin Writing
    BY <2>1 DEF Inside, Writing, InSection
  <2>3. Inside' = Inside \ {t} /\ Writing' = Writing
    BY <2>1, <2>2, Moves DEF InSection
  <2>4. Cardinality(Inside') = Cardinality(Inside) - 1
    BY <1>2, <2>2, <2>3, FS_RemoveElement
  <2> QED  BY <1>2, <1>3, <1>4, <2>1, <2>3, <2>4
<1> QED
  BY <1>5, <1>6, <1>7, <1>8, <1>9 DEF ThreadStep

\* A step that takes an entry starts to write only where the log had room.
LEMMA ReservesBounded ==
    ASSUME Types, Places, (Types /\ Places)', Bounded, NEW t \in Threads,
           pc[t] \in {"in", "notice"}, Reserves(t), UNCHANGED <<semOn, sem, message_count>>
    PROVE  Bounded' /\ Inside' = Inside
<1>1. Cardinality(Clients) \in Nat /\ message_count \in Nat /\ MaxMessages \in Nat
  BY CountThreads, ShmChatAssumption DEF Types
<1>2. (Cardinality(Writing) \in 0 .. 2 * Cardinality(Clients))'
  BY CountThreads, PTL
<1>3. t \in Inside /\ t \notin Writing
  BY DEF Inside, Writing, InSection
<1>4. CASE Room /\ Goes(t, "put")
  <2>1. Inside' = Inside
    BY <1>3, <1>4, Moves DEF InSection
  <2>2. message_count < MaxMessages
    BY <1>4 DEF Room
  <2> QED  BY <1>1, <1>2, <2>1, <2>2 DEF Bounded
<1>5. CASE Goes(t, "unlock")
  <2>1. Inside' = Inside /\ Writing' = Writing
    BY <1>3, <1>5, Moves DEF InSection
  <2> QED  BY <2>1 DEF Bounded
<1> QED
  BY <1>4, <1>5 DEF Reserves

\* The other steps of a client keep the bounds.
LEMMA ClientBounded ==
    ASSUME Types, Places, Bounded, NEW c \in Clients,
           ClientStep(c) \/ Attach(c) \/ Type(c) \/ Kill(c)
    PROVE  Bounded'
<1> USE DEF segment
<1>1. Types' /\ Places'
  BY ClientTypes, ClientPlaces
<1>2. /\ Main(c) \in Threads /\ Sender(c) \in Threads /\ Receiver(c) \in Threads
      /\ Main(c) # Sender(c) /\ Main(c) # Receiver(c) /\ Sender(c) # Receiver(c)
  BY ThreadNames
<1>3. Cardinality(Inside) \in 0 .. 3 * Cardinality(Clients) /\ IsFiniteSet(Inside)
      /\ Cardinality(Writing) \in 0 .. 2 * Cardinality(Clients) /\ IsFiniteSet(Writing)
      /\ Cardinality(Clients) \in Nat
  BY CountThreads
<1>4. /\ (Cardinality(Inside) \in 0 .. 3 * Cardinality(Clients))'
      /\ (Cardinality(Writing) \in 0 .. 2 * Cardinality(Clients))'
  BY <1>1, CountThreads, PTL
<1>5. sem \in Nat /\ message_count \in Nat /\ semOn \in BOOLEAN /\ MaxMessages \in Nat
  BY ShmChatAssumption DEF Types
<1>6. ASSUME NEW t \in Threads, pc[t] \notin InSection, NEW to, to \notin InSection, Goes(t, to),
             UNCHANGED <<semOn, sem, message_count>>
      PROVE  Bounded'
  <2>1. t \notin Inside /\ t \notin Writing
    BY <1>6 DEF Inside, Writing, InSection
  <2>2. Inside' = Inside /\ Writing' = Writing
    BY <1>6, <2>1, Moves DEF InSection
  <2> QED  BY <1>6, <2>2 DEF Bounded
<1>7. CASE Announce(c) \/ Post(c)
  BY <1>1, <1>2, <1>7, ReservesBounded DEF Announce, Post
<1>15. ASSUME NEW to, pc[Main(c)] \in {"in", "name", "count"},
              to \in {"name", "count", "notice", "unlock"}, Goes(Main(c), to),
              UNCHANGED <<semOn, sem, message_count>>
       PROVE  Bounded'
  <2>1. Main(c) \in Inside /\ Main(c) \notin Writing
    BY <1>2, <1>15 DEF Inside, Writing, InSection
  <2>2. Inside' = Inside /\ Writing' = Writing
    BY <1>2, <1>15, <2>1, Moves DEF InSection
  <2> QED  BY <1>15, <2>2 DEF Bounded
<1>16. CASE Register(c) \/ ReadCount(c) \/ CountName(c)
  BY <1>15, <1>16 DEF Register, ReadCount, CountName
<1>8. CASE StartThreads(c)
  <2>1. Inside' = Inside \ {Main(c)} /\ Writing' = Writing
    <3>1. \A u \in Threads : pc'[u] = IF u = Main(c) THEN "join"
                                      ELSE IF u \in {Sender(c), Receiver(c)} THEN "loop" ELSE pc[u]
      BY <1>2, <1>8 DEF StartThreads, Types
    <3>2. pc[Sender(c)] = "off" /\ pc[Receiver(c)] = "off" /\ pc[Main(c)] = "unlock"
      BY <1>8 DEF StartThreads, Places, PlacesOf, InSection
    <3> QED  BY <3>1, <3>2 DEF Inside, Writing, InSection
  <2>2. Main(c) \in Inside
    BY <1>2, <1>8 DEF StartThreads, Inside, InSection
  <2>3. Cardinality(Inside') = Cardinality(Inside) - 1
    BY <1>3, <2>1, <2>2, FS_RemoveElement
  <2>4. UNCHANGED <<semOn, message_count>> /\ sem' = IF semOn THEN sem + 1 ELSE sem
    BY <1>8 DEF StartThreads, Add
  <2> QED  BY <1>3, <1>4, <1>5, <2>1, <2>3, <2>4 DEF Bounded
<1>9. CASE Read(c)
  <2>1. Receiver(c) \in Inside /\ Receiver(c) \notin Writing /\ Goes(Receiver(c), "unlock")
    BY <1>2, <1>9 DEF Read, Inside, Writing, InSection
  <2>2. Inside' = Inside /\ Writing' = Writing
    BY <1>2, <2>1, Moves DEF InSection
  <2>3. UNCHANGED <<semOn, sem, message_count>>
    BY <1>9 DEF Read
  <2> QED  BY <2>2, <2>3 DEF Bounded
<1>10. CASE Loop(c)
  BY <1>2, <1>6, <1>10 DEF Loop, InSection
<1>11. CASE JoinThreads(c)
  BY <1>2, <1>6, <1>11 DEF JoinThreads, InSection
<1>12. CASE Attach(c)
  BY <1>2, <1>6, <1>12 DEF Attach, InSection
<1>13. CASE Type(c)
  BY <1>2, <1>6, <1>13 DEF Type, TypeLine, TypeNothing, TypeQuit, InSection
<1>14. CASE Kill(c)
  <2>1. Inside' \in SUBSET Inside /\ Writing' \in SUBSET Writing
    BY <1>14 DEF Kill, Inside, Writing, InSection
  <2>2. Cardinality(Inside') <= Cardinality(Inside) /\ Cardinality(Writing') <= Cardinality(Writing)
    BY <1>3, <2>1, FS_Subset
  <2>3. UNCHANGED <<semOn, sem, message_count>>
    BY <1>14 DEF Kill
  <2> QED  BY <1>3, <1>4, <1>5, <2>2, <2>3 DEF Bounded
<1> QED
  BY <1>7, <1>8, <1>9, <1>10, <1>11, <1>12, <1>13, <1>14, <1>16 DEF ClientStep

\* So does the server, wherever the threads are.
LEMMA ServerBounded ==
    ASSUME Types, Places, Bounded,
           ServerStarts \/ ServerRuns \/ ServerSets \/ ServerStops \/ ServerRemoves \/ ServerCrashes
    PROVE  Bounded'
<1>1. pc' = pc
  BY DEF ServerStarts, ServerRuns, ServerSets, ServerStops, ServerRemoves, ServerCrashes
<1>2. Inside' = Inside /\ Writing' = Writing
  BY <1>1 DEF Inside, Writing
<1>3. Cardinality(Inside) \in 0 .. 3 * Cardinality(Clients) /\ Cardinality(Clients) \in Nat
      /\ Cardinality(Writing) \in 0 .. 2 * Cardinality(Clients)
  BY CountThreads
<1>4. MaxMessages \in Nat
  BY ShmChatAssumption
<1> USE <1>2 DEF Bounded, segment
<1>5. CASE ServerStarts
  BY <1>3, <1>4, <1>5 DEF ServerStarts
<1>6. CASE ServerSets
  BY <1>3, <1>4, <1>6 DEF ServerSets, InitialValue
<1>7. CASE ServerRuns \/ ServerStops \/ ServerRemoves \/ ServerCrashes
  BY <1>7 DEF ServerRuns, ServerStops, ServerRemoves, ServerCrashes
<1> QED
  BY <1>5, <1>6, <1>7

------------------------------------------------------------------------------
(* The semaphore keeps threads apart.                                          *)

\* With no client attached nobody is inside.
LEMMA NobodyInside ==
    ASSUME Types, Places, Attached = {}
    PROVE  Inside = {}
<1>1. ASSUME NEW t \in Inside
      PROVE  FALSE
  <2>1. t[1] \in Clients /\ t \in {Main(t[1]), Sender(t[1]), Receiver(t[1])}
        /\ pc[t] \in InSection
    BY ThreadNames DEF Inside
  <2>2. pc[Main(t[1])] \in {"new", "gone"} /\ PlacesOf(t[1])
    BY <2>1 DEF Attached, Places
  <2> QED  BY <2>1, <2>2 DEF PlacesOf, InSection
<1> QED
  BY <1>1

\* No lock is served while a thread is inside, unless a lock failed before.
LEMMA ThreadExclusive ==
    ASSUME Types, Exclusive, NEW t \in Threads, ThreadStep(t)
    PROVE  Exclusive'
<1> SUFFICES ASSUME ~broken'
             PROVE  /\ sem' <= 1
                    /\ sem' = 1 => Inside' = {}
                    /\ \A u, v \in Inside' : u = v
  BY DEF Exclusive
<1>1. ~broken /\ sem \in 0 .. 1 /\ (sem = 1 => Inside = {}) /\ \A u, v \in Inside : u = v
  BY DEF Exclusive, ThreadStep, Lock, LockFails, Put, Bump, ThreadUnlocks, counts, Types
<1>2. CASE Lock(t)
  <2>1. sem = 1 /\ sem' = 0 /\ Inside' = {t}
    BY <1>1, <1>2, Moves DEF Lock, InSection
  <2> QED  BY <2>1
<1>3. CASE LockFails(t)
  BY <1>3 DEF LockFails
<1>4. CASE Put(t) \/ Bump(t)
  <2>1. t \in Inside
    BY <1>4 DEF Put, Bump, Inside, InSection
  <2>2. Inside' = Inside /\ sem' = sem
    BY <1>4, <2>1, Moves DEF Put, Bump, InSection
  <2> QED  BY <1>1, <2>2
<1>5. CASE ThreadUnlocks(t)
  <2>1. t \in Inside
    BY <1>5 DEF ThreadUnlocks, Unlock, Inside, InSection
  <2>2. Inside' = {} /\ sem = 0
    BY <1>1, <1>5, <2>1, Moves DEF ThreadUnlocks, Unlock, InSection
  <2>3. sem' \in 0 .. 1
    BY <1>5, <2>2 DEF ThreadUnlocks, Unlock, Add
  <2> QED  BY <2>2, <2>3
<1> QED
  BY <1>2, <1>3, <1>4, <1>5 DEF ThreadStep

\* A client's own threads leave the section as they entered it.
LEMMA ClientExclusive ==
    ASSUME Types, Places, Exclusive, NEW c \in Clients,
           ClientStep(c) \/ Attach(c) \/ Type(c) \/ Kill(c)
    PROVE  Exclusive'
<1> SUFFICES ASSUME ~broken'
             PROVE  /\ sem' <= 1
                    /\ sem' = 1 => Inside' = {}
                    /\ \A u, v \in Inside' : u = v
  BY DEF Exclusive
<1>1. ~broken /\ sem \in 0 .. 1 /\ (sem = 1 => Inside = {}) /\ \A u, v \in Inside : u = v
  BY DEF Exclusive, ClientStep, Register, ReadCount, CountName, Announce,
     StartThreads, Loop, Post, Read, JoinThreads, Attach,
     Type, TypeLine, TypeNothing, TypeQuit, Kill, counts, Types
<1>2. /\ Main(c) \in Threads /\ Sender(c) \in Threads /\ Receiver(c) \in Threads
      /\ Main(c) # Sender(c) /\ Main(c) # Receiver(c) /\ Sender(c) # Receiver(c)
  BY ThreadNames
<1>3. ASSUME NEW t \in Threads, NEW to, Goes(t, to), sem' = sem,
             pc[t] \in InSection <=> to \in InSection
      PROVE  Inside' = Inside
  <2>1. t \in Inside <=> to \in InSection
    BY <1>3 DEF Inside
  <2> QED  BY <1>3, <2>1, Moves
<1>4. CASE StartThreads(c)
  <2>1. Main(c) \in Inside
    BY <1>2, <1>4 DEF StartThreads, Inside, InSection
  <2>2. Inside = {Main(c)} /\ sem = 0
    BY <1>1, <2>1
  <2>3. sem' \in 0 .. 1
    BY <1>4, <2>2 DEF StartThreads, Add
  <2>4. \A u \in Threads : pc'[u] = IF u = Main(c) THEN "join"
                                    ELSE IF u \in {Sender(c), Receiver(c)} THEN "loop" ELSE pc[u]
    BY <1>2, <1>4 DEF StartThreads, Types
  <2>5. Inside' = {}
    BY <2>2, <2>4 DEF Inside, InSection
  <2> QED  BY <2>3, <2>5
<1>5. CASE Kill(c)
  <2>1. Inside' \in SUBSET Inside /\ sem' = sem
    BY <1>5 DEF Kill, Inside, InSection
  <2> QED  BY <1>1, <2>1
<1>6. CASE Register(c)
  <2>1. Inside' = Inside /\ sem' = sem
    BY <1>2, <1>3, <1>6 DEF Register, InSection
  <2> QED  BY <1>1, <2>1
<1>13. CASE ReadCount(c) \/ CountName(c)
  <2>1. Inside' = Inside /\ sem' = sem
    BY <1>2, <1>3, <1>13 DEF ReadCount, CountName, InSection
  <2> QED  BY <1>1, <2>1
<1>14. CASE Announce(c)
  <2>1. Inside' = Inside /\ sem' = sem
    BY <1>2, <1>3, <1>14 DEF Announce, Reserves, InSection
  <2> QED  BY <1>1, <2>1
<1>7. CASE Post(c)
  <2>1. Inside' = Inside /\ sem' = sem
    BY <1>2, <1>3, <1>7 DEF Post, Reserves, InSection
  <2> QED  BY <1>1, <2>1
<1>8. CASE Read(c)
  <2>1. Inside' = Inside /\ sem' = sem
    BY <1>2, <1>3, <1>8 DEF Read, InSection
  <2> QED  BY <1>1, <2>1
<1>9. CASE Loop(c)
  <2>1. Inside' = Inside /\ sem' = sem
    BY <1>2, <1>3, <1>9 DEF Loop, InSection
  <2> QED  BY <1>1, <2>1
<1>10. CASE JoinThreads(c)
  <2>1. Inside' = Inside /\ sem' = sem
    BY <1>2, <1>3, <1>10 DEF JoinThreads, InSection
  <2> QED  BY <1>1, <2>1
<1>11. CASE Attach(c)
  <2>1. Inside' = Inside /\ sem' = sem
    BY <1>2, <1>3, <1>11 DEF Attach, InSection
  <2> QED  BY <1>1, <2>1
<1>12. CASE Type(c)
  <2>1. Inside' = Inside /\ sem' = sem
    BY <1>2, <1>3, <1>12 DEF Type, TypeLine, TypeNothing, TypeQuit, InSection
  <2> QED  BY <1>1, <2>1
<1> QED
  BY <1>4, <1>5, <1>6, <1>7, <1>8, <1>9, <1>10, <1>11, <1>12, <1>13, <1>14 DEF ClientStep

\* A server sets the semaphore to 1 only over an empty section, or over attached
\* clients, after which nothing is promised.
LEMMA ServerExclusive ==
    ASSUME Types, Places, Exclusive,
           ServerStarts \/ ServerRuns \/ ServerSets \/ ServerStops \/ ServerRemoves \/ ServerCrashes
    PROVE  Exclusive'
<1>1. pc' = pc
  BY DEF ServerStarts, ServerRuns, ServerSets, ServerStops, ServerRemoves, ServerCrashes
<1>2. Inside' = Inside
  BY <1>1 DEF Inside
<1>3. CASE ServerSets
  <2>1. sem' = 1 /\ (broken' = FALSE => Attached = {}) /\ broken' \in BOOLEAN
    BY <1>3 DEF ServerSets, InitialValue, Types
  <2>2. Attached = {} => Inside' = {}
    BY <1>2, NobodyInside
  <2> QED  BY <2>1, <2>2 DEF Exclusive
<1>4. CASE ServerStarts
  BY <1>2, <1>4 DEF ServerStarts, Exclusive
<1>5. CASE ServerRuns \/ ServerStops \/ ServerRemoves \/ ServerCrashes
  BY <1>2, <1>5 DEF ServerRuns, ServerStops, ServerRemoves, ServerCrashes, Exclusive, counts
<1> QED
  BY <1>3, <1>4, <1>5

------------------------------------------------------------------------------
(* The count of the names.                                                     *)

\* A step that leaves client_count alone, and moves no main thread to its test or its
\* read of it, keeps what is said of the count.
LEMMA CountedKept ==
    ASSUME Counted, client_count' = client_count, ~broken' => ~broken,
           \A c \in Clients :
             /\ c \in Registered => c \in Registered'
             /\ pc'[Main(c)] \in {"name", "count"} =>
                  pc'[Main(c)] = pc[Main(c)] /\ idx'[Main(c)] = idx[Main(c)],
           client_count \in Nat, idx \in [Threads -> Nat]
    PROVE  Counted'
<1>1. Registered \in SUBSET Registered' /\ Registered' \in SUBSET Clients
  BY DEF Registered
<1>2. IsFiniteSet(Registered') /\ Cardinality(Registered') \in Nat
  <2>1. IsFiniteSet(Registered')
    BY <1>1, ShmChatAssumption, FS_Subset
  <2> QED  BY <2>1, FS_CardinalityType
<1>3. Cardinality(Registered) <= Cardinality(Registered') /\ IsFiniteSet(Registered)
  BY <1>1, <1>2, FS_Subset
<1>4. Cardinality(Registered) \in Nat
  BY <1>3, FS_CardinalityType
<1>5. client_count' <= Cardinality(Registered')
  BY <1>2, <1>3, <1>4 DEF Counted
<1>6. ASSUME NEW c \in Clients, pc'[Main(c)] = "count"
      PROVE  idx'[Main(c)] <= Cardinality(Registered')
  <2>1. Main(c) \in Threads /\ idx'[Main(c)] = idx[Main(c)] /\ pc[Main(c)] = "count"
    BY <1>6, ThreadNames
  <2> QED  BY <1>2, <1>3, <1>4, <1>6, <2>1 DEF Counted
<1> QED
  BY <1>5, <1>6 DEF Counted

\* The steps at the semaphore and those that fill and count an entry of the log leave
\* the count of the names alone.
LEMMA ThreadCounted ==
    ASSUME Types, Counted, NEW t \in Threads, ThreadStep(t)
    PROVE  Counted'
<1>1. pc \in [Threads -> {"new", "off", "loop", "prompt", "lock", "join", "end", "gone",
                         "in", "name", "count", "notice", "put", "bump", "unlock"}]
      /\ client_count \in Nat /\ idx \in [Threads -> Nat]
  BY DEF Types
<1>2. client_count' = client_count /\ idx' = idx /\ (~broken' => ~broken)
  BY DEF ThreadStep, Lock, LockFails, Put, Bump, ThreadUnlocks, segment, counts
<1>3. ASSUME NEW c \in Clients
      PROVE  /\ c \in Registered => c \in Registered'
             /\ pc'[Main(c)] \in {"name", "count"} => pc'[Main(c)] = pc[Main(c)]
  BY <1>1, ThreadNames DEF ThreadStep, Lock, LockFails, Put, Bump, ThreadUnlocks, Unlock, Goes,
     Registered
<1> QED
  BY <1>1, <1>2, <1>3, CountedKept

\* A main thread tests, reads and stores the count: what it stores counts itself once
\* more than those that stored before it.
LEMMA ClientCounted ==
    ASSUME Types, Exclusive, Counted, NEW c \in Clients,
           ClientStep(c) \/ Attach(c) \/ Type(c) \/ Kill(c)
    PROVE  Counted'
<1>1. pc \in [Threads -> {"new", "off", "loop", "prompt", "lock", "join", "end", "gone",
                         "in", "name", "count", "notice", "put", "bump", "unlock"}]
      /\ client_count \in Nat /\ idx \in [Threads -> Nat] /\ MaxClients \in Nat
  BY ShmChatAssumption DEF Types
<1>2. /\ Main(c) \in Threads /\ Sender(c) \in Threads /\ Receiver(c) \in Threads
      /\ \A d \in Clients : Main(d) \in Threads /\ Main(d) # Sender(c) /\ Main(d) # Receiver(c)
                            /\ (Main(d) = Main(c) => d = c)
  BY ThreadNames
<1>3. broken' = broken
  BY DEF ClientStep, Register, ReadCount, CountName, Announce, StartThreads, Loop, Post, Read,
     JoinThreads, Attach, Type, TypeLine, TypeNothing, TypeQuit, Kill, counts
<1>4. IsFiniteSet(Registered) /\ Cardinality(Registered) \in Nat
  <2>1. Registered \in SUBSET Clients
    BY DEF Registered
  <2>2. IsFiniteSet(Registered)
    BY <2>1, ShmChatAssumption, FS_Subset
  <2> QED  BY <2>2, FS_CardinalityType
<1>5. CASE ReadCount(c)
  <2>1. /\ client_count' = client_count /\ pc[Main(c)] = "name"
        /\ \A d \in Clients : /\ pc'[Main(d)] = IF d = c THEN "count" ELSE pc[Main(d)]
                              /\ idx'[Main(d)] = IF d = c THEN client_count ELSE idx[Main(d)]
    BY <1>1, <1>2, <1>5 DEF ReadCount, Goes, segment
  <2>2. Registered' = Registered
    BY <2>1 DEF Registered
  <2> QED  BY <1>3, <2>1, <2>2 DEF Counted
<1>6. CASE CountName(c)
  <2>1. /\ client_count' = idx[Main(c)] + 1 /\ idx' = idx /\ pc[Main(c)] = "count"
        /\ \A d \in Clients : pc'[Main(d)] = IF d = c THEN "notice" ELSE pc[Main(d)]
    BY <1>1, <1>2, <1>6 DEF CountName, Goes
  <2>2. Registered' = Registered \cup {c} /\ c \notin Registered
    BY <2>1 DEF Registered
  <2>3. Cardinality(Registered') = Cardinality(Registered) + 1
    BY <1>4, <2>2, FS_AddElement
  <2>4. idx[Main(c)] <= Cardinality(Registered) /\ idx[Main(c)] \in Nat
    BY <1>1, <1>2, <2>1 DEF Counted
  <2>5. client_count' <= Cardinality(Registered')
    BY <1>4, <2>1, <2>3, <2>4
  <2>6. ASSUME NEW d \in Clients, pc'[Main(d)] = "count"
        PROVE  idx'[Main(d)] <= Cardinality(Registered')
    <3>1. idx[Main(d)] <= Cardinality(Registered) /\ idx[Main(d)] \in Nat /\ idx' = idx
      BY <1>1, <1>2, <2>1, <2>6 DEF Counted
    <3> QED  BY <1>4, <2>3, <3>1
  <2>7. ASSUME ~broken'
        PROVE  /\ client_count' <= MaxClients
               /\ \A d \in Clients : pc'[Main(d)] \notin {"name", "count"}
    <3>1. idx[Main(c)] = client_count /\ client_count < MaxClients
      BY <1>3, <2>1, <2>7 DEF Counted
    <3>2. Main(c) \in Inside /\ \A u, v \in Inside : u = v
      BY <1>2, <1>3, <2>1, <2>7 DEF Exclusive, Inside, InSection
    <3>3. \A d \in Clients : pc[Main(d)] \in {"name", "count"} => Main(d) \in Inside
      BY <1>2 DEF Inside, InSection
    <3> QED  BY <1>1, <1>2, <2>1, <3>1, <3>2, <3>3
  <2> QED  BY <2>5, <2>6, <2>7 DEF Counted
<1>7. CASE Register(c) /\ NamesLeft
  <2>1. /\ client_count' = client_count /\ idx' = idx /\ pc[Main(c)] = "in"
        /\ client_count < MaxClients
        /\ \A d \in Clients : pc'[Main(d)] = IF d = c THEN "name" ELSE pc[Main(d)]
    BY <1>1, <1>2, <1>7 DEF Register, NamesLeft, Goes, segment
  <2>2. Registered' = Registered
    BY <2>1 DEF Registered
  <2> QED  BY <1>3, <2>1, <2>2 DEF Counted
<1>8. ASSUME client_count' = client_count,
             \A d \in Clients :
               /\ d \in Registered => d \in Registered'
               /\ pc'[Main(d)] \in {"name", "count"} =>
                    pc'[Main(d)] = pc[Main(d)] /\ idx'[Main(d)] = idx[Main(d)]
      PROVE  Counted'
  BY <1>1, <1>3, <1>8, CountedKept
<1>9. CASE Register(c) /\ ~NamesLeft
  <2>1. /\ client_count' = client_count /\ idx' = idx
        /\ \A d \in Clients : pc'[Main(d)] = IF d = c THEN "unlock" ELSE pc[Main(d)]
    BY <1>1, <1>2, <1>9 DEF Register, Goes, segment
  <2> QED  BY <1>8, <2>1 DEF Registered
<1>10. CASE Announce(c)
  <2>1. client_count' = client_count /\ pc[Main(c)] = "notice"
    BY <1>10 DEF Announce, segment
  <2>2. \A d \in Clients : /\ d # c => pc'[Main(d)] = pc[Main(d)] /\ idx'[Main(d)] = idx[Main(d)]
                           /\ d = c => pc'[Main(d)] \in {"put", "unlock"}
    BY <1>1, <1>2, <1>10 DEF Announce, Reserves, Goes
  <2> QED  BY <1>8, <2>1, <2>2 DEF Registered
<1>11. CASE Post(c)
  <2>1. client_count' = client_count
    BY <1>11 DEF Post, segment
  <2>2. \A d \in Clients : pc'[Main(d)] = pc[Main(d)] /\ idx'[Main(d)] = idx[Main(d)]
    BY <1>1, <1>2, <1>11 DEF Post, Reserves, Goes
  <2> QED  BY <1>8, <2>1, <2>2 DEF Registered
<1>12. CASE StartThreads(c) \/ JoinThreads(c) \/ Attach(c) \/ Kill(c)
  <2>1. client_count' = client_count /\ idx' = idx
    BY <1>12 DEF StartThreads, JoinThreads, Attach, Kill, segment
  <2>2. \A d \in Clients : /\ d # c => pc'[Main(d)] = pc[Main(d)]
                           /\ pc'[Main(c)] \in {"join", "gone", "lock"}
                           /\ pc'[Main(c)] = "lock" => pc[Main(c)] = "new"
    <3>1. CASE StartThreads(c)
      BY <1>1, <1>2, <3>1 DEF StartThreads
    <3>2. CASE JoinThreads(c)
      BY <1>1, <1>2, <3>2 DEF JoinThreads, Goes
    <3>3. CASE Attach(c)
      BY <1>1, <1>2, <3>3 DEF Attach, Goes
    <3>4. CASE Kill(c)
      BY <1>2, <3>4, ThreadNames DEF Kill
    <3> QED  BY <1>12, <3>1, <3>2, <3>3, <3>4
  <2> QED  BY <1>8, <2>1, <2>2 DEF Registered
<1>13. CASE Loop(c) \/ Read(c) \/ Type(c)
  <2>1. client_count' = client_count /\ idx' = idx
    BY <1>13 DEF Loop, Read, Type, TypeLine, TypeNothing, TypeQuit, segment
  <2>2. \A d \in Clients : pc'[Main(d)] = pc[Main(d)]
    BY <1>1, <1>2, <1>13 DEF Loop, Read, Type, TypeLine, TypeNothing, TypeQuit, Goes
  <2> QED  BY <1>8, <2>1, <2>2 DEF Registered
<1> QED
  BY <1>5, <1>6, <1>7, <1>9, <1>10, <1>11, <1>12, <1>13 DEF ClientStep

\* A start of the server sets the count to zero, while nobody is between the test and
\* the store or with clients attached.
LEMMA ServerCounted ==
    ASSUME Types, Places, Counted,
           ServerStarts \/ ServerRuns \/ ServerSets \/ ServerStops \/ ServerRemoves \/ ServerCrashes
    PROVE  Counted'
<1>1. pc' = pc /\ idx' = idx /\ Registered' = Registered
  BY DEF ServerStarts, ServerRuns, ServerSets, ServerStops, ServerRemoves, ServerCrashes, Registered
<1>2. CASE ServerStarts
  <2>1. client_count' = 0 /\ (~broken' => Attached = {} /\ ~broken)
    BY <1>2 DEF ServerStarts
  <2>2. Cardinality(Registered) \in Nat
    <3>1. Registered \in SUBSET Clients
      BY DEF Registered
    <3>2. IsFiniteSet(Registered)
      BY <3>1, ShmChatAssumption, FS_Subset
    <3> QED  BY <3>2, FS_CardinalityType
  <2>3. Attached = {} => \A c \in Clients : pc'[Main(c)] \notin {"name", "count"}
    BY <1>1 DEF Attached
  <2> QED  BY <1>1, <2>1, <2>2, <2>3, ShmChatAssumption DEF Counted
<1>3. CASE ServerRuns \/ ServerSets \/ ServerStops \/ ServerRemoves \/ ServerCrashes
  <2>1. client_count' = client_count /\ (~broken' => ~broken)
    <3>1. CASE ServerSets
      BY <3>1 DEF ServerSets, segment
    <3>2. CASE ServerRuns \/ ServerStops \/ ServerRemoves \/ ServerCrashes
      BY <3>2 DEF ServerRuns, ServerStops, ServerRemoves, ServerCrashes, segment, counts
    <3> QED  BY <1>3, <3>1, <3>2
  <2> QED  BY <1>1, <2>1, CountedKept DEF Types
<1> QED
  BY <1>2, <1>3

------------------------------------------------------------------------------
(* The log.                                                                    *)

\* A thread that enters, fills or counts an entry is the only one that writes.
LEMMA ThreadWritesNext ==
    ASSUME Types, Places, Exclusive, WritesNext, NEW t \in Threads, ThreadStep(t)
    PROVE  WritesNext'
<1> SUFFICES ASSUME ~broken'
             PROVE  /\ message_count' <= MaxMessages
                    /\ \A u \in Threads :
                         /\ pc'[u] \in {"put", "bump"} => idx'[u] = message_count'
                         /\ pc'[u] = "bump" => messages'[idx'[u] + 1] = Text(u)'
  BY DEF WritesNext
<1>1. /\ ~broken /\ message_count <= MaxMessages
      /\ \A u \in Threads : /\ pc[u] \in {"put", "bump"} => idx[u] = message_count
                            /\ pc[u] = "bump" => messages[idx[u] + 1] = Text(u)
  BY DEF WritesNext, ThreadStep, Lock, LockFails, Put, Bump, ThreadUnlocks, counts
<1>2. lines' = lines /\ idx' = idx
  BY DEF ThreadStep, Lock, LockFails, Put, Bump, ThreadUnlocks, screen
<1>3. \A u \in Threads : Text(u)' = Text(u)
  BY <1>2 DEF Text, Line
<1>4. message_count \in Nat /\ MaxMessages \in Nat /\ idx \in [Threads -> Nat]
      /\ messages \in [1 .. MaxMessages -> Entry]
  BY ShmChatAssumption DEF Types
<1>5. ASSUME NEW to, to \notin {"put", "bump"}, Goes(t, to)
      PROVE  \A u \in Threads : pc'[u] \in {"put", "bump"} => u # t /\ pc'[u] = pc[u]
  BY <1>5 DEF Goes, Types
<1>6. CASE Lock(t) \/ LockFails(t) \/ ThreadUnlocks(t)
  <2>1. UNCHANGED <<message_count, messages>>
    BY <1>6 DEF Lock, LockFails, ThreadUnlocks, segment
  <2>2. \A u \in Threads : pc'[u] \in {"put", "bump"} => u # t /\ pc'[u] = pc[u]
    BY <1>5, <1>6 DEF Lock, LockFails, ThreadUnlocks, Unlock
  <2> QED  BY <1>1, <1>2, <1>3, <2>1, <2>2
<1>7. ASSUME pc[t] \in {"put", "bump"}
      PROVE  \A u \in Threads : pc[u] \in {"put", "bump"} => u = t
  BY <1>1, <1>7 DEF Exclusive, Inside, InSection
<1>8. CASE Put(t)
  <2>1. \A u \in Threads : pc'[u] = IF u = t THEN "bump" ELSE pc[u]
    BY <1>8 DEF Put, Goes, Types
  <2>2. messages'[idx[t] + 1] = Text(t)
    <3>1. idx[t] \in 0 .. MaxMessages - 1
      BY <1>8 DEF Put, Types
    <3> QED  BY <1>4, <1>8, <3>1 DEF Put
  <2>3. message_count' = message_count /\ idx[t] = message_count
    BY <1>1, <1>8 DEF Put
  <2>4. \A u \in Threads : pc'[u] \in {"put", "bump"} => u = t
    BY <1>7, <1>8, <2>1 DEF Put
  <2> QED  BY <1>1, <1>2, <1>3, <2>2, <2>3, <2>4
<1>9. CASE Bump(t)
  <2>1. \A u \in Threads : pc'[u] \notin {"put", "bump"}
    BY <1>5, <1>7, <1>9 DEF Bump
  <2>2. idx[t] = message_count /\ idx[t] \in 0 .. MaxMessages - 1
    BY <1>1, <1>9 DEF Bump, Types
  <2>3. message_count' = message_count + 1
    BY <1>9, <2>2 DEF Bump
  <2> QED  BY <1>4, <2>1, <2>2, <2>3
<1> QED
  BY <1>6, <1>8, <1>9 DEF ThreadStep

\* An entry is taken while no other thread writes, and nobody types while it fills it.
LEMMA ClientWritesNext ==
    ASSUME Types, Places, Exclusive, WritesNext, NEW c \in Clients,
           ClientStep(c) \/ Attach(c) \/ Type(c) \/ Kill(c)
    PROVE  WritesNext'
<1> SUFFICES ASSUME ~broken'
             PROVE  /\ message_count' <= MaxMessages
                    /\ \A u \in Threads :
                         /\ pc'[u] \in {"put", "bump"} => idx'[u] = message_count'
                         /\ pc'[u] = "bump" => messages'[idx'[u] + 1] = Text(u)'
  BY DEF WritesNext
<1> USE DEF segment, screen
<1>1. /\ ~broken /\ message_count <= MaxMessages
      /\ \A u \in Threads : /\ pc[u] \in {"put", "bump"} => idx[u] = message_count
                            /\ pc[u] = "bump" => messages[idx[u] + 1] = Text(u)
  <2>1. broken' = broken
    BY DEF ClientStep, Register, ReadCount, CountName, Announce,
       StartThreads, Loop, Post, Read, JoinThreads, Attach,
       Type, TypeLine, TypeNothing, TypeQuit, Kill, counts
  <2> QED  BY <2>1 DEF WritesNext
<1>2. UNCHANGED <<message_count, messages>>
  BY DEF ClientStep, Register, ReadCount, CountName, Announce,
     StartThreads, Loop, Post, Read, JoinThreads, Attach,
     Type, TypeLine, TypeNothing, TypeQuit, Kill
<1>3. /\ Main(c) \in Threads /\ Sender(c) \in Threads /\ Receiver(c) \in Threads
      /\ Main(c) # Sender(c) /\ Main(c) # Receiver(c) /\ Sender(c) # Receiver(c)
  BY ThreadNames
<1>4. message_count \in Nat /\ MaxMessages \in Nat /\ idx \in [Threads -> Nat]
  BY ShmChatAssumption DEF Types
<1>5. ASSUME UNCHANGED <<idx, lines>>,
             \A u \in Threads : pc'[u] \in {"put", "bump"} => pc'[u] = pc[u]
      PROVE  /\ message_count' <= MaxMessages
             /\ \A u \in Threads :
                  /\ pc'[u] \in {"put", "bump"} => idx'[u] = message_count'
                  /\ pc'[u] = "bump" => messages'[idx'[u] + 1] = Text(u)'
  <2>1. \A u \in Threads : Text(u)' = Text(u)
    BY <1>5 DEF Text, Line
  <2> QED  BY <1>1, <1>2, <1>5, <2>1
<1>6. ASSUME NEW t \in Threads, NEW to, to \notin {"put", "bump"}, Goes(t, to)
      PROVE  \A u \in Threads : pc'[u] \in {"put", "bump"} => pc'[u] = pc[u]
  BY <1>6 DEF Goes, Types
<1>7. ASSUME NEW t \in Threads, pc[t] \in {"in", "notice"}, Room,
             idx' = [idx EXCEPT ![t] = message_count], Goes(t, "put")
      PROVE  \A u \in Threads : /\ pc'[u] \in {"put", "bump"} => idx'[u] = message_count
                                /\ pc'[u] # "bump"
  <2>1. \A u \in Threads : pc[u] \in {"put", "bump"} => u = t
    BY <1>1, <1>7 DEF Exclusive, Inside, InSection
  <2>2. \A u \in Threads : pc'[u] = IF u = t THEN "put" ELSE pc[u]
    BY <1>7 DEF Goes, Types
  <2>3. idx'[t] = message_count
    BY <1>4, <1>7
  <2> QED  BY <1>7, <2>1, <2>2, <2>3
<1>8. ASSUME NEW t \in Threads, pc[t] \in {"in", "notice"}, Reserves(t), UNCHANGED lines
      PROVE  /\ message_count' <= MaxMessages
             /\ \A u \in Threads :
                  /\ pc'[u] \in {"put", "bump"} => idx'[u] = message_count'
                  /\ pc'[u] = "bump" => messages'[idx'[u] + 1] = Text(u)'
  <2>1. CASE Reserves(t) /\ Room
    BY <1>1, <1>2, <1>7, <1>8, <2>1 DEF Reserves
  <2>2. CASE ~(Reserves(t) /\ Room)
    <3>1. Goes(t, "unlock") /\ idx' = idx
      BY <1>8, <2>2 DEF Reserves
    <3> QED  BY <1>5, <1>6, <1>8, <3>1
  <2> QED  BY <2>1, <2>2
<1>9. CASE Register(c)
  <2>1. \A u \in Threads : pc'[u] \in {"put", "bump"} => pc'[u] = pc[u]
    BY <1>3, <1>6, <1>9 DEF Register
  <2> QED  BY <1>5, <1>9, <2>1 DEF Register
<1>16. CASE ReadCount(c)
  <2>1. \A u \in Threads : pc'[u] \in {"put", "bump"} => u # Main(c) /\ pc'[u] = pc[u]
    BY <1>3, <1>16 DEF ReadCount, Goes, Types
  <2>2. \A u \in Threads : u # Main(c) => idx'[u] = idx[u]
    BY <1>3, <1>4, <1>16 DEF ReadCount
  <2>3. \A u \in Threads : Text(u)' = Text(u)
    BY <1>16 DEF ReadCount, Text, Line
  <2> QED  BY <1>1, <1>2, <2>1, <2>2, <2>3
<1>17. CASE CountName(c)
  <2>1. \A u \in Threads : pc'[u] \in {"put", "bump"} => pc'[u] = pc[u]
    BY <1>3, <1>6, <1>17 DEF CountName
  <2> QED  BY <1>5, <1>17, <2>1 DEF CountName
<1>18. CASE Announce(c)
  <2>1. pc[Main(c)] = "notice" /\ UNCHANGED lines /\ Reserves(Main(c))
    BY <1>18 DEF Announce
  <2> QED  BY <1>3, <1>8, <2>1
<1>15. CASE Post(c)
  <2>1. pc[Sender(c)] = "in" /\ UNCHANGED lines /\ Reserves(Sender(c))
    BY <1>15 DEF Post
  <2> QED  BY <1>3, <1>8, <2>1
<1>10. CASE StartThreads(c)
  <2>1. \A u \in Threads : pc'[u] = IF u = Main(c) THEN "join"
                                    ELSE IF u \in {Sender(c), Receiver(c)} THEN "loop" ELSE pc[u]
    BY <1>3, <1>10 DEF StartThreads, Types
  <2>2. \A u \in Threads : pc'[u] \in {"put", "bump"} => pc'[u] = pc[u]
    BY <2>1
  <2> QED  BY <1>5, <1>10, <2>2 DEF StartThreads
<1>11. CASE Kill(c)
  <2>1. \A u \in Threads : pc'[u] \in {"put", "bump"} => pc'[u] = pc[u]
    BY <1>11 DEF Kill
  <2> QED  BY <1>5, <1>11, <2>1 DEF Kill
<1>12. CASE Loop(c)
  <2>1. \A u \in Threads : pc'[u] \in {"put", "bump"} => pc'[u] = pc[u]
    BY <1>3, <1>6, <1>12 DEF Loop
  <2> QED  BY <1>5, <1>12, <2>1 DEF Loop
<1>13. CASE Read(c) \/ JoinThreads(c) \/ Attach(c) \/ TypeNothing(c) \/ TypeQuit(c)
  <2>1. \A u \in Threads : pc'[u] \in {"put", "bump"} => pc'[u] = pc[u]
    BY <1>3, <1>6, <1>13 DEF Read, JoinThreads, Attach, TypeNothing, TypeQuit
  <2> QED  BY <1>5, <1>13, <2>1 DEF Read, JoinThreads, Attach, TypeNothing, TypeQuit
<1>14. CASE TypeLine(c)
  <2>1. \A u \in Threads : pc'[u] = IF u = Sender(c) THEN "lock" ELSE pc[u]
    BY <1>3, <1>14 DEF TypeLine, Goes, Types
  <2>2. pc[Main(c)] \notin {"put", "bump"} /\ pc[Receiver(c)] \notin {"put", "bump"}
    BY <1>14 DEF TypeLine, Places, PlacesOf, InSection
  <2>3. \A u \in Threads : u[1] = c => pc'[u] \notin {"put", "bump"}
    <3>1. \A u \in Threads : u[1] = c => u \in {Main(c), Sender(c), Receiver(c)}
      BY ThreadNames
    <3> QED  BY <1>3, <2>1, <2>2, <3>1
  <2>4. \A u \in Threads : u[1] # c => Text(u)' = Text(u)
    <3>1. \A u \in Threads : u[1] # c => lines'[u[1]] = lines[u[1]]
      BY <1>14, ThreadNames DEF TypeLine, Types
    <3> QED  BY <3>1 DEF Text, Line
  <2>5. idx' = idx
    BY <1>14 DEF TypeLine
  <2> QED  BY <1>1, <1>2, <2>1, <2>3, <2>4, <2>5
<1> QED
  BY <1>9, <1>10, <1>11, <1>12, <1>13, <1>14, <1>15, <1>16, <1>17, <1>18 DEF ClientStep, Type

\* A start of the server clears the log when nobody writes, or with clients attached.
LEMMA ServerWritesNext ==
    ASSUME Types, Places, WritesNext,
           ServerStarts \/ ServerRuns \/ ServerSets \/ ServerStops \/ ServerRemoves \/ ServerCrashes
    PROVE  WritesNext'
<1>1. pc' = pc /\ idx' = idx /\ lines' = lines
  BY DEF ServerStarts, ServerRuns, ServerSets, ServerStops, ServerRemoves, ServerCrashes, screen
<1>2. \A u \in Threads : Text(u)' = Text(u)
  BY <1>1 DEF Text, Line
<1>3. CASE ServerStarts
  <2>1. message_count' = 0 /\ 0 <= MaxMessages
    BY <1>3, ShmChatAssumption DEF ServerStarts
  <2>2. ~broken' => Attached = {}
    BY <1>3 DEF ServerStarts
  <2>3. Attached = {} => \A u \in Threads : pc'[u] \notin {"put", "bump"}
    BY <1>1, NobodyInside DEF Inside, InSection
  <2> QED  BY <2>1, <2>2, <2>3 DEF WritesNext
<1>4. CASE ServerRuns \/ ServerSets \/ ServerStops \/ ServerRemoves \/ ServerCrashes
  <2>1. UNCHANGED <<message_count, messages>> /\ (broken => broken')
    <3>1. CASE ServerSets
      BY <3>1 DEF ServerSets, segment, Types
    <3>2. CASE ServerRuns \/ ServerStops \/ ServerRemoves \/ ServerCrashes
      BY <3>2 DEF ServerRuns, ServerStops, ServerRemoves, ServerCrashes, segment, counts
    <3> QED  BY <1>4, <3>1, <3>2
  <2> QED  BY <1>1, <1>2, <2>1 DEF WritesNext
<1> QED
  BY <1>3, <1>4

\* As long as no lock failed and a client is attached, a step leaves the log alone or
\* counts the entry that follows it.
LEMMA LogGrows ==
    ASSUME Types, WritesNext, Next, ~broken', Attached # {}
    PROVE  /\ ~broken /\ message_count' \in {message_count, message_count + 1}
           /\ \A i \in 1 .. message_count : messages'[i] = messages[i]
<1>1. broken \in BOOLEAN /\ message_count \in Nat /\ MaxMessages \in Nat
      /\ idx \in [Threads -> Nat] /\ messages \in [1 .. MaxMessages -> Entry]
  BY ShmChatAssumption DEF Types
<1> USE DEF segment, counts
<1>2. ASSUME NEW t \in Threads, ThreadStep(t)
      PROVE  /\ ~broken /\ message_count' \in {message_count, message_count + 1}
             /\ \A i \in 1 .. message_count : messages'[i] = messages[i]
  <2>1. CASE Put(t)
    <3>1. ~broken /\ message_count' = message_count /\ idx[t] = message_count
      BY <2>1 DEF Put, WritesNext
    <3>2. messages' = [messages EXCEPT ![message_count + 1] = Text(t)]
      BY <2>1, <3>1 DEF Put
    <3> QED  BY <1>1, <3>1, <3>2
  <2>2. CASE Bump(t)
    <3>1. ~broken /\ messages' = messages /\ idx[t] = message_count
      BY <2>2 DEF Bump, WritesNext
    <3>2. message_count' = message_count + 1
      BY <2>2, <3>1 DEF Bump
    <3> QED  BY <3>1, <3>2
  <2>3. CASE Lock(t) \/ LockFails(t) \/ ThreadUnlocks(t)
    BY <2>3 DEF Lock, LockFails, ThreadUnlocks
  <2> QED  BY <1>2, <2>1, <2>2, <2>3 DEF ThreadStep
<1>3. ASSUME NEW c \in Clients, ClientStep(c) \/ Attach(c) \/ Type(c) \/ Kill(c)
      PROVE  UNCHANGED <<broken, message_count, messages>>
  BY <1>3 DEF ClientStep, Register, ReadCount, CountName, Announce,
     StartThreads, Loop, Post, Read, JoinThreads, Attach,
     Type, TypeLine, TypeNothing, TypeQuit, Kill
<1>4. CASE ServerStarts
  BY <1>4 DEF ServerStarts
<1>5. CASE ServerSets
  BY <1>1, <1>5 DEF ServerSets
<1>6. CASE ServerRuns \/ ServerStops \/ ServerRemoves \/ ServerCrashes
  BY <1>6 DEF ServerRuns, ServerStops, ServerRemoves, ServerCrashes
<1> QED
  BY <1>2, <1>3, <1>4, <1>5, <1>6 DEF Next

\* A client that is attached was attached before, or is new.
LEMMA Attaches ==
    ASSUME Types, Places, Next, NEW d \in Attached'
    PROVE  d \in Attached \/ (d \in Clients /\ pc[Main(d)] = "new")
<1>1. d \in Clients /\ pc'[Main(d)] # "gone" /\ Main(d) \in Threads
  BY ThreadNames DEF Attached
<1>2. SUFFICES ASSUME pc[Main(d)] = "gone"
               PROVE  FALSE
  BY <1>1 DEF Attached
<1>3. pc \in [Threads -> {"new", "off", "loop", "prompt", "lock", "join", "end", "gone",
                         "in", "name", "count", "notice", "put", "bump", "unlock"}]
  BY DEF Types
<1>4. ASSUME NEW t \in Threads, ThreadStep(t)
      PROVE  FALSE
  BY <1>1, <1>2, <1>3, <1>4 DEF ThreadStep, Lock, LockFails, Put, Bump, ThreadUnlocks, Unlock, Goes
<1>5. ASSUME NEW c \in Clients, ClientStep(c) \/ Attach(c) \/ Type(c) \/ Kill(c)
      PROVE  FALSE
  <2>1. CASE Announce(c) \/ Post(c)
    BY <1>1, <1>2, <1>3, <2>1, ThreadNames DEF Announce, Post, Reserves, Goes
  <2>6. CASE Register(c) \/ ReadCount(c) \/ CountName(c)
    BY <1>1, <1>2, <1>3, <2>6, ThreadNames DEF Register, ReadCount, CountName, Goes
  <2>2. CASE StartThreads(c) \/ Loop(c)
    BY <1>1, <1>2, <1>3, <2>2, ThreadNames DEF StartThreads, Loop, Goes
  <2>3. CASE Read(c) \/ JoinThreads(c) \/ Attach(c)
    BY <1>1, <1>2, <1>3, <2>3, ThreadNames DEF Read, JoinThreads, Attach, Goes
  <2>4. CASE Type(c)
    BY <1>1, <1>2, <1>3, <2>4, ThreadNames DEF Type, TypeLine, TypeNothing, TypeQuit, Goes
  <2>5. CASE Kill(c)
    BY <1>1, <1>2, <2>5 DEF Kill
  <2> QED  BY <1>5, <2>1, <2>2, <2>3, <2>4, <2>5, <2>6 DEF ClientStep
<1>6. CASE ServerStarts \/ ServerRuns \/ ServerSets \/ ServerStops \/ ServerRemoves \/ ServerCrashes
  BY <1>1, <1>2, <1>6 DEF ServerStarts, ServerRuns, ServerSets, ServerStops, ServerRemoves,
     ServerCrashes
<1> QED
  BY <1>4, <1>5, <1>6 DEF Next

------------------------------------------------------------------------------
(* What a screen shows and what a user posted.                                 *)

\* The beginning of a log and what follows make a longer beginning.
LEMMA Continued ==
    ASSUME NEW m, NEW a \in Nat, NEW b \in Nat, a <= b, NEW S, \A i \in 1 .. b : m[i] \in S
    PROVE  [i \in 1 .. a |-> m[i]] \o [i \in 1 .. b - a |-> m[a + i]] = [i \in 1 .. b |-> m[i]]
<1> DEFINE f == [i \in 1 .. a |-> m[i]]
           g == [i \in 1 .. b - a |-> m[a + i]]
           h == [i \in 1 .. b |-> m[i]]
<1>1. f \in [1 .. a -> S] /\ g \in [1 .. b - a -> S] /\ h \in [1 .. b -> S] /\ b - a \in Nat
  OBVIOUS
<1>2. f \in Seq(S) /\ Len(f) = a /\ g \in Seq(S) /\ Len(g) = b - a /\ h \in Seq(S) /\ Len(h) = b
  <2> HIDE DEF f, g, h
  <2> QED  BY <1>1, FunctionIsSeq
<1>3. \A i \in 1 .. a : f[i] = h[i]
  OBVIOUS
<1>4. \A i \in 1 .. b : i > a => g[i - a] = h[i]
  OBVIOUS
<1> HIDE DEF f, g, h
<1>5. f \o g \in Seq(S) /\ Len(f \o g) = b
      /\ \A i \in 1 .. b : (f \o g)[i] = IF i <= a THEN f[i] ELSE g[i - a]
  BY <1>2
<1>6. \A i \in 1 .. b : (f \o g)[i] = h[i]
  BY <1>3, <1>4, <1>5
<1>7. f \o g = h
  BY <1>2, <1>5, <1>6, SeqEqual
<1> QED
  BY <1>7 DEF f, g, h

\* The screen of a client other than the one that reads stays the beginning of the log.
LEMMA ScreenKept ==
    ASSUME Types, Places, WritesNext, ScreenIsPrefix, Next, ~broken', NEW d \in Attached',
           last_seen'[d] = last_seen[d], shown'[d] = shown[d]
    PROVE  /\ last_seen'[d] <= message_count'
           /\ shown'[d] = [i \in 1 .. last_seen'[d] |-> messages'[i]]
<1>1. message_count \in Nat /\ last_seen \in [Clients -> 0 .. MaxMessages] /\ MaxMessages \in Nat
  BY ShmChatAssumption DEF Types
<1>2. Types'
  BY ThreadTypes, ClientTypes, ServerTypes DEF Next
<1>3. CASE d \in Attached
  <2>1. /\ ~broken /\ message_count' \in {message_count, message_count + 1}
        /\ \A i \in 1 .. message_count : messages'[i] = messages[i]
    BY <1>3, LogGrows
  <2>2. /\ d \in Clients /\ last_seen[d] <= message_count
        /\ shown[d] = [i \in 1 .. last_seen[d] |-> messages[i]]
    BY <1>3, <2>1 DEF ScreenIsPrefix, Attached
  <2>3. \A i \in 1 .. last_seen[d] : messages'[i] = messages[i]
    BY <1>1, <2>1, <2>2
  <2> QED  BY <1>1, <2>1, <2>2, <2>3
<1>4. CASE d \in Clients /\ pc[Main(d)] = "new"
  <2>1. last_seen[d] = 0 /\ shown[d] = <<>>
    BY <1>4 DEF Places, PlacesOf
  <2>2. <<>> = [i \in 1 .. 0 |-> messages'[i]]
    OBVIOUS
  <2>3. message_count' \in Nat
    BY <1>2 DEF Types
  <2> QED  BY <2>1, <2>2, <2>3
<1> QED
  BY <1>3, <1>4, Attaches

\* A step keeps every screen a beginning of the log.
LEMMA ScreenStep ==
    ASSUME Types, Places, WritesNext, ScreenIsPrefix, Next
    PROVE  ScreenIsPrefix'
<1> SUFFICES ASSUME ~broken', NEW d \in Attached'
             PROVE  /\ last_seen'[d] <= message_count'
                    /\ shown'[d] = [i \in 1 .. last_seen'[d] |-> messages'[i]]
  BY DEF ScreenIsPrefix
<1>1. d \in Clients
  BY DEF Attached
<1>2. CASE last_seen'[d] = last_seen[d] /\ shown'[d] = shown[d]
  BY <1>2, ScreenKept
<1>3. CASE \E c \in Clients : Read(c)
  <2>1. PICK c \in Clients : Read(c)
    BY <1>3
  <2>2. CASE c # d
    <3>1. last_seen'[d] = last_seen[d] /\ shown'[d] = shown[d]
      BY <1>1, <2>1, <2>2 DEF Read, screen, Types
    <3> QED  BY <1>2, <3>1
  <2>3. CASE c = d
    <3>1. ~broken /\ UNCHANGED <<message_count, messages>>
      BY <2>1 DEF Read, counts, segment
    <3>2. d \in Attached
      <4>1. PlacesOf(c) /\ pc[Receiver(c)] = "in"
        BY <2>1 DEF Places, Read
      <4> QED  BY <2>3, <4>1 DEF Attached, PlacesOf, InSection
    <3>3. /\ last_seen[d] <= message_count
          /\ shown[d] = [i \in 1 .. last_seen[d] |-> messages[i]]
      BY <3>1, <3>2 DEF ScreenIsPrefix
    <3>4. message_count \in Nat /\ message_count <= MaxMessages /\ last_seen[d] \in Nat
          /\ \A i \in 1 .. message_count : messages[i] \in Entry
      BY <1>1, <3>1, ShmChatAssumption DEF WritesNext, Types
    <3> DEFINE upto == IF message_count < MaxMessages THEN message_count ELSE MaxMessages
    <3>7. upto = message_count
      BY <3>4, ShmChatAssumption
    <3>8. IF last_seen[d] < upto
          THEN /\ shown' = [shown EXCEPT ![d] = @ \o News(d, upto)]
               /\ last_seen' = [last_seen EXCEPT ![d] = upto]
          ELSE UNCHANGED screen
      BY <2>1, <2>3 DEF Read
    <3> HIDE DEF upto
    <3>5. CASE last_seen[d] < message_count
      <4>1. shown' = [shown EXCEPT ![d] = @ \o News(d, message_count)]
            /\ last_seen' = [last_seen EXCEPT ![d] = message_count]
        BY <3>5, <3>7, <3>8
      <4>2. shown'[d] = shown[d] \o News(d, message_count) /\ last_seen'[d] = message_count
        BY <1>1, <4>1 DEF Types
      <4>3. shown[d] \o News(d, message_count) = [i \in 1 .. message_count |-> messages[i]]
        <5>1. [i \in 1 .. last_seen[d] |-> messages[i]]
                \o [i \in 1 .. message_count - last_seen[d] |-> messages[last_seen[d] + i]]
              = [i \in 1 .. message_count |-> messages[i]]
          BY <3>3, <3>4, Continued
        <5> QED  BY <3>3, <5>1 DEF News
      <4> QED  BY <3>1, <3>4, <4>2, <4>3
    <3>6. CASE ~(last_seen[d] < message_count)
      <4>1. UNCHANGED <<last_seen, shown>>
        BY <3>6, <3>7, <3>8 DEF screen
      <4> QED  BY <3>1, <3>3, <4>1
    <3> QED  BY <3>5, <3>6
  <2> QED  BY <2>2, <2>3
<1>4. ASSUME ~\E c \in Clients : Read(c)
      PROVE  UNCHANGED <<last_seen, shown>>
  <2>1. CASE \E t \in Threads : ThreadStep(t)
    BY <2>1 DEF ThreadStep, Lock, LockFails, Put, Bump, ThreadUnlocks, screen
  <2>2. CASE \E c \in Clients : ClientStep(c) \/ Attach(c) \/ Type(c) \/ Kill(c)
    BY <1>4, <2>2 DEF ClientStep, Register, ReadCount, CountName, Announce,
       StartThreads, Loop, Post, JoinThreads, Attach,
       Type, TypeLine, TypeNothing, TypeQuit, Kill, screen
  <2>3. CASE ServerStarts \/ ServerRuns \/ ServerSets \/ ServerStops \/ ServerRemoves
             \/ ServerCrashes
    BY <2>3 DEF ServerStarts, ServerRuns, ServerSets, ServerStops, ServerRemoves,
       ServerCrashes, screen
  <2> QED  BY <2>1, <2>2, <2>3 DEF Next
<1> QED
  BY <1>2, <1>3, <1>4

\* Where a line is sent and which lines were typed change only in these steps.
LEMMA PostedBefore ==
    ASSUME Types, Places, Exclusive, WritesNext, Next, ~broken', NEW d \in Attached,
           message_count' < MaxMessages, NEW k \in 1 .. lines'[d],
           k < lines'[d] \/ pc'[Sender(d)] \notin {"lock", "in", "put", "bump"},
           d \in Attached'
    PROVE  \/ /\ k \in 1 .. lines[d]
              /\ k < lines[d] \/ pc[Sender(d)] \notin {"lock", "in", "put", "bump"}
           \/ message_count' = message_count + 1 /\ messages'[message_count + 1] = Line(d, k)
<1>1. d \in Clients /\ Sender(d) \in Threads /\ Main(d) \in Threads
  BY ThreadNames DEF Attached
<1>2. lines \in [Clients -> 0 .. MaxLines] /\ MaxLines \in Nat /\ message_count \in Nat
      /\ MaxMessages \in Nat /\ idx \in [Threads -> Nat]
  BY ShmChatAssumption DEF Types
<1>3. pc \in [Threads -> {"new", "off", "loop", "prompt", "lock", "join", "end", "gone",
                         "in", "name", "count", "notice", "put", "bump", "unlock"}]
  BY DEF Types
<1> DEFINE Sending == {"lock", "in", "put", "bump"}
<1>4. ASSUME lines'[d] = lines[d], pc[Sender(d)] \in Sending => pc'[Sender(d)] \in Sending
      PROVE  /\ k \in 1 .. lines[d]
             /\ k < lines[d] \/ pc[Sender(d)] \notin Sending
  BY <1>4
<1>5. ASSUME NEW t \in Threads, ThreadStep(t)
      PROVE  \/ /\ k \in 1 .. lines[d]
                /\ k < lines[d] \/ pc[Sender(d)] \notin Sending
             \/ message_count' = message_count + 1 /\ messages'[message_count + 1] = Line(d, k)
  <2>1. lines' = lines
    BY <1>5 DEF ThreadStep, Lock, LockFails, Put, Bump, ThreadUnlocks
  <2>2. CASE Lock(t) \/ LockFails(t) \/ Put(t) \/ ThreadUnlocks(t)
    <3>1. pc[Sender(d)] \in Sending => pc'[Sender(d)] \in Sending
      BY <1>1, <1>3, <2>2 DEF Lock, LockFails, Put, ThreadUnlocks, Unlock, Goes
    <3> QED  BY <1>4, <2>1, <3>1
  <2>3. CASE Bump(t) /\ t # Sender(d)
    <3>1. pc'[Sender(d)] = pc[Sender(d)]
      BY <1>1, <1>3, <2>3 DEF Bump, Goes
    <3> QED  BY <1>4, <2>1, <3>1
  <2>4. CASE Bump(t) /\ t = Sender(d)
    <3>1. ~broken /\ messages' = messages /\ pc[t] = "bump"
      BY <2>4 DEF Bump, counts
    <3>2. idx[t] = message_count /\ messages[message_count + 1] = Text(t)
      BY <1>5, <3>1 DEF WritesNext
    <3>3. message_count' = message_count + 1
      BY <2>4, <3>2 DEF Bump
    <3>4. Text(t) = Line(d, lines[d])
      BY <1>1, <2>4, ThreadNames DEF Text
    <3>5. k < lines[d] \/ k = lines[d]
      BY <1>1, <1>2, <2>1
    <3> QED  BY <2>1, <3>1, <3>2, <3>3, <3>4, <3>5
  <2> QED  BY <1>5, <2>2, <2>3, <2>4 DEF ThreadStep
<1>6. ASSUME NEW c \in Clients, ClientStep(c) \/ Attach(c) \/ Type(c) \/ Kill(c)
      PROVE  /\ k \in 1 .. lines[d]
             /\ k < lines[d] \/ pc[Sender(d)] \notin Sending
  <2>1. Sender(c) = Sender(d) <=> c = d
    BY ThreadNames
  <2>2. /\ Main(c) \in Threads /\ Sender(c) \in Threads /\ Receiver(c) \in Threads
        /\ Main(c) # Sender(d) /\ Receiver(c) # Sender(d)
    BY ThreadNames
  <2>3. CASE TypeLine(c) /\ c = d
    <3>1. pc[Sender(d)] = "prompt" /\ lines'[d] = lines[d] + 1 /\ pc'[Sender(d)] = "lock"
      BY <1>1, <1>2, <1>3, <2>3 DEF TypeLine, Goes
    <3> QED  BY <1>1, <1>2, <3>1
  <2>4. CASE TypeLine(c) /\ c # d
    <3>1. lines'[d] = lines[d] /\ pc'[Sender(d)] = pc[Sender(d)]
      BY <1>1, <1>2, <1>3, <2>1, <2>2, <2>4 DEF TypeLine, Goes
    <3> QED  BY <1>4, <3>1
  <2>5. CASE Read(c) \/ JoinThreads(c) \/ Attach(c)
    <3>1. lines' = lines /\ pc'[Sender(d)] = pc[Sender(d)]
      BY <1>1, <1>3, <2>2, <2>5 DEF Read, JoinThreads, Attach, Goes
    <3> QED  BY <1>4, <3>1
  <2>10. CASE Register(c) \/ ReadCount(c) \/ CountName(c) \/ Announce(c)
    <3>1. lines' = lines /\ pc'[Sender(d)] = pc[Sender(d)]
      BY <1>1, <1>3, <2>2, <2>10 DEF Register, ReadCount, CountName, Announce, Reserves, Goes
    <3> QED  BY <1>4, <3>1
  <2>6. CASE StartThreads(c)
    <3>1. pc[Sender(c)] = "off"
      BY <2>6 DEF StartThreads, Places, PlacesOf, InSection
    <3>2. pc[Sender(d)] \in Sending => pc'[Sender(d)] = pc[Sender(d)]
      BY <1>1, <1>3, <2>1, <2>2, <2>6, <3>1 DEF StartThreads
    <3>3. lines' = lines
      BY <2>6 DEF StartThreads
    <3> QED  BY <1>4, <3>2, <3>3
  <2>7. CASE Loop(c) \/ TypeNothing(c) \/ TypeQuit(c)
    <3>1. lines' = lines /\ (pc[Sender(d)] \in Sending => pc'[Sender(d)] \in Sending)
      BY <1>1, <1>3, <2>1, <2>2, <2>7 DEF Loop, TypeNothing, TypeQuit, Goes
    <3> QED  BY <1>4, <3>1
  <2>8. CASE Post(c)
    <3>1. Room
      BY <1>2, <2>8 DEF Room, Post, segment
    <3>2. lines' = lines /\ (pc[Sender(d)] \in Sending => pc'[Sender(d)] \in Sending)
      BY <1>1, <1>3, <2>1, <2>2, <2>8, <3>1 DEF Post, Reserves, Goes
    <3> QED  BY <1>4, <3>2
  <2>9. CASE Kill(c)
    <3>1. c # d
      BY <1>1, <2>9, ThreadNames DEF Kill, Attached
    <3>2. lines' = lines /\ pc'[Sender(d)] = pc[Sender(d)]
      BY <1>1, <2>9, <3>1, ThreadNames DEF Kill
    <3> QED  BY <1>4, <3>2
  <2> QED  BY <1>6, <2>3, <2>4, <2>5, <2>6, <2>7, <2>8, <2>9, <2>10 DEF ClientStep, Type
<1>7. CASE ServerStarts \/ ServerRuns \/ ServerSets \/ ServerStops \/ ServerRemoves
           \/ ServerCrashes
  <2>1. lines' = lines /\ pc' = pc
    BY <1>7 DEF ServerStarts, ServerRuns, ServerSets, ServerStops, ServerRemoves, ServerCrashes
  <2> QED  BY <1>4, <2>1
<1> QED
  BY <1>5, <1>6, <1>7 DEF Next

\* A step keeps every posted line in the log.
LEMMA PostedStep ==
    ASSUME Types, Places, Exclusive, WritesNext, PostedIsKept, Next
    PROVE  PostedIsKept'
<1> SUFFICES ASSUME ~broken', message_count' < MaxMessages, NEW d \in Attached',
                    NEW k \in 1 .. lines'[d],
                    k < lines'[d] \/ pc'[Sender(d)] \notin {"lock", "in", "put", "bump"}
             PROVE  \E i \in 1 .. message_count' : messages'[i] = Line(d, k)
  BY DEF PostedIsKept, Line
<1>1. message_count \in Nat /\ MaxMessages \in Nat
  BY ShmChatAssumption DEF Types
<1>2. CASE d \in Attached
  <2>1. /\ ~broken /\ message_count' \in {message_count, message_count + 1}
        /\ \A i \in 1 .. message_count : messages'[i] = messages[i]
    BY <1>2, LogGrows
  <2>2. CASE /\ k \in 1 .. lines[d]
             /\ k < lines[d] \/ pc[Sender(d)] \notin {"lock", "in", "put", "bump"}
    <3>1. message_count < MaxMessages
      BY <1>1, <2>1
    <3>2. PICK i \in 1 .. message_count : messages[i] = Line(d, k)
      BY <1>2, <2>1, <2>2, <3>1 DEF PostedIsKept
    <3>3. i \in 1 .. message_count' /\ messages'[i] = Line(d, k)
      BY <1>1, <2>1, <3>2
    <3> QED  BY <3>3
  <2>3. CASE message_count' = message_count + 1 /\ messages'[message_count + 1] = Line(d, k)
    <3>1. message_count + 1 \in 1 .. message_count'
      BY <1>1, <2>3
    <3> QED  BY <2>3, <3>1
  <2> QED  BY <1>2, <2>2, <2>3, PostedBefore
<1>3. CASE d \in Clients /\ pc[Main(d)] = "new"
  <2>1. lines[d] = 0
    BY <1>3 DEF Places, PlacesOf
  <2>2. lines'[d] = lines[d]
    <3>1. CASE \E t \in Threads : ThreadStep(t)
      BY <3>1 DEF ThreadStep, Lock, LockFails, Put, Bump, ThreadUnlocks
    <3>2. CASE \E c \in Clients : TypeLine(c)
      <4>1. PICK c \in Clients : TypeLine(c)
        BY <3>2
      <4>2. c # d
        BY <1>3, <4>1 DEF TypeLine, Places, PlacesOf
      <4> QED  BY <1>3, <4>1, <4>2 DEF TypeLine, Types
    <3>3. CASE \E c \in Clients : ClientStep(c) \/ Attach(c) \/ TypeNothing(c) \/ TypeQuit(c)
                                    \/ Kill(c)
      BY <3>3 DEF ClientStep, Register, ReadCount, CountName, Announce,
         StartThreads, Loop, Post, Read, JoinThreads, Attach, TypeNothing, TypeQuit, Kill
    <3>4. CASE ServerStarts \/ ServerRuns \/ ServerSets \/ ServerStops \/ ServerRemoves
               \/ ServerCrashes
      BY <3>4 DEF ServerStarts, ServerRuns, ServerSets, ServerStops, ServerRemoves, ServerCrashes
    <3> QED  BY <3>1, <3>2, <3>3, <3>4 DEF Next, Type
  <2> QED  BY <2>1, <2>2
<1> QED
  BY <1>2, <1>3, Attaches

------------------------------------------------------------------------------
(* The theorems.                                                               *)

\* The program starts in the invariant.
LEMMA InitInvariant == Init => IInv
<1> SUFFICES ASSUME Init
             PROVE  IInv
  OBVIOUS
<1> USE DEF Init
<1>1. Types
  <2>1. 0 \in 0 .. MaxStarts
        /\ 0 \in 0 .. MaxMessages /\ 0 \in 0 .. MaxLines /\ 0 \in 0 .. MaxSignals
        /\ 0 \in 0 .. MaxKills
    BY ShmChatAssumption
  <2>2. messages \in [1 .. MaxMessages -> Entry]
    BY DEF Entry
  <2>3. <<>> \in Seq(Entry)
    OBVIOUS
  <2> QED  BY <2>1, <2>2, <2>3 DEF Types
<1>2. \A c \in Clients : pc[Main(c)] = "new" /\ pc[Sender(c)] = "off" /\ pc[Receiver(c)] = "off"
  BY ThreadNames
<1>3. Places
  BY <1>2 DEF Places, PlacesOf, InSection
<1>4. Attached = {} /\ Inside = {}
  BY <1>2, ThreadNames DEF Attached, Inside, InSection
<1>5. Bounded
  <2>1. MaxMessages \in Nat
    BY ShmChatAssumption
  <2> QED  BY <1>1, <1>3, <2>1, CountThreads DEF Bounded
<1>9. Counted
  <2>1. Cardinality(Registered) \in Nat
    <3>1. Registered \in SUBSET Clients
      BY DEF Registered
    <3>2. IsFiniteSet(Registered)
      BY <3>1, ShmChatAssumption, FS_Subset
    <3> QED  BY <3>2, FS_CardinalityType
  <2> QED  BY <1>2, <2>1, ShmChatAssumption DEF Counted
<1>6. Exclusive
  BY <1>4 DEF Exclusive
<1>7. WritesNext
  <2>1. \A t \in Threads : pc[t] \in {"new", "off"}
    OBVIOUS
  <2> QED  BY <2>1, ShmChatAssumption DEF WritesNext
<1>8. ScreenIsPrefix /\ PostedIsKept
  BY <1>4 DEF ScreenIsPrefix, PostedIsKept
<1> QED
  BY <1>1, <1>3, <1>5, <1>6, <1>7, <1>8, <1>9 DEF IInv

\* Every step, and every stutter, stays in it.
LEMMA StepInvariant == IInv /\ [Next]_vars => IInv'
<1> SUFFICES ASSUME IInv, [Next]_vars
             PROVE  IInv'
  OBVIOUS
<1>1. Types /\ Places /\ Bounded /\ Counted /\ Exclusive /\ WritesNext /\ ScreenIsPrefix
      /\ PostedIsKept
  BY DEF IInv
<1>2. CASE Next
  <2>1. Types'
    BY <1>1, <1>2, ThreadTypes, ClientTypes, ServerTypes DEF Next
  <2>2. Places'
    BY <1>1, <1>2, ThreadPlaces, ClientPlaces, ServerPlaces DEF Next
  <2>3. Bounded'
    BY <1>1, <1>2, ThreadBounded, ClientBounded, ServerBounded DEF Next
  <2>4. Exclusive'
    BY <1>1, <1>2, ThreadExclusive, ClientExclusive, ServerExclusive DEF Next
  <2>5. WritesNext'
    BY <1>1, <1>2, ThreadWritesNext, ClientWritesNext, ServerWritesNext DEF Next
  <2>6. ScreenIsPrefix' /\ PostedIsKept'
    BY <1>1, <1>2, ScreenStep, PostedStep
  <2>7. Counted'
    BY <1>1, <1>2, ThreadCounted, ClientCounted, ServerCounted DEF Next
  <2> QED  BY <2>1, <2>2, <2>3, <2>4, <2>5, <2>6, <2>7 DEF IInv
<1>3. CASE UNCHANGED vars
  <2> USE <1>1, <1>3 DEF vars, segment, server, screen, counts
  <2>1. Types'
    BY DEF Types
  <2>2. Places'
    BY DEF Places, PlacesOf
  <2>3. Bounded' /\ Exclusive'
    BY DEF Bounded, Exclusive, Inside, Writing
  <2>7. Counted'
    BY DEF Counted, Registered
  <2>4. WritesNext'
    BY DEF WritesNext, Text, Line
  <2>5. ScreenIsPrefix'
    BY DEF ScreenIsPrefix, Attached
  <2>6. PostedIsKept'
    BY DEF PostedIsKept, Attached, Line
  <2> QED  BY <2>1, <2>2, <2>3, <2>4, <2>5, <2>6, <2>7 DEF IInv
<1> QED
  BY <1>2, <1>3

\* The inductive invariant holds in every behaviour.
THEOREM Invariant == SafeSpec => []IInv
  BY InitInvariant, StepInvariant, PTL DEF SafeSpec

\* The variables keep their types: client_count never counts a client twice, and the
\* MAX_CLIENTS of main() bounds it until a lock_sem() fails, whereupon two main threads
\* may pass the test together; message_count and the semaphore stay within what the
\* numbers of writers and of threads give; and no entry beyond messages[] is written.
THEOREM TypeCorrect == SafeSpec => []TypeOK
<1>1. IInv => TypeOK
  <2> SUFFICES ASSUME IInv
               PROVE  TypeOK
    OBVIOUS
  <2>1. Types /\ Places /\ Bounded /\ Counted
    BY DEF IInv
  <2>2. Cardinality(Clients) \in Nat /\ Cardinality(Writing) \in Nat
    BY <2>1, CountThreads
  <2>3. message_count \in 0 .. MaxMessages + 2 * Cardinality(Clients)
        /\ sem \in 0 .. 1 + 3 * Cardinality(Clients)
    BY <2>1, <2>2, ShmChatAssumption DEF Types, Bounded
  <2>4. Cardinality(Registered) <= Cardinality(Clients) /\ Cardinality(Registered) \in Nat
    <3>1. Registered \in SUBSET Clients
      BY DEF Registered
    <3>2. IsFiniteSet(Registered) /\ Cardinality(Registered) <= Cardinality(Clients)
      BY <3>1, ShmChatAssumption, FS_Subset
    <3> QED  BY <3>2, FS_CardinalityType
  <2>5. client_count \in 0 .. Cardinality(Clients) /\ (broken \/ client_count <= MaxClients)
    BY <2>1, <2>2, <2>4 DEF Types, Counted
  <2>6. \A t \in Threads : pc[t] \in {"put", "bump"} => idx[t] < MaxMessages
    BY <2>1, ShmChatAssumption DEF Types
  <2> QED  BY <2>1, <2>3, <2>5, <2>6 DEF TypeOK, Types, Entry, InSection
<1> QED
  BY <1>1, Invariant, PTL

\* The semaphore lets one thread into the section, and stays at zero while it is there:
\* lock_sem() and unlock_sem() of the two programs, until a semop() fails or a server
\* starts over attached clients.
THEOREM MutualExclusion == SafeSpec => []OneInside
<1>1. IInv => OneInside
  <2> SUFFICES ASSUME IInv, ~broken
               PROVE  sem + Cardinality(Inside) <= 1
    BY DEF OneInside, Inside
  <2>1. sem \in 0 .. 1 /\ (sem = 1 => Inside = {}) /\ \A t, u \in Inside : t = u
    BY DEF IInv, Types, Exclusive
  <2>2. CASE Inside = {}
    BY <2>1, <2>2, FS_EmptySet
  <2>3. CASE Inside # {}
    <3>1. PICK t \in Inside : Inside = {t}
      BY <2>1, <2>3
    <3>2. sem = 0
      BY <2>1, <2>3
    <3> QED  BY <3>1, <3>2, FS_Singleton
  <2> QED  BY <2>2, <2>3
<1> QED
  BY <1>1, Invariant, PTL

\* The log only grows, one message at a time, and what is in it stays: the writers of
\* messages[] and message_count never overwrite or skip an entry.
THEOREM LogAppendsOnly == SafeSpec => AppendOnly
<1> DEFINE Appends ==
      ~broken' /\ Attached # {} =>
         /\ message_count' \in {message_count, message_count + 1}
         /\ \A i \in 1 .. message_count : messages'[i] = messages[i]
<1>1. IInv /\ [Next]_vars => [Appends]_vars
  BY LogGrows DEF IInv
<1> HIDE DEF Appends
<1>2. SafeSpec => [][Appends]_vars
  BY <1>1, Invariant, PTL DEF SafeSpec
<1> QED
  BY <1>2 DEF AppendOnly, Appends

\* The receiver thread shows the log from its beginning, in order and without gaps.
THEOREM ScreensShowTheLog == SafeSpec => []ScreenIsPrefix
<1>1. IInv => ScreenIsPrefix
  BY DEF IInv
<1> QED
  BY <1>1, Invariant, PTL

\* What the sender thread has posted is found in the log, as long as that is not full.
THEOREM PostedStays == SafeSpec => []PostedIsKept
<1>1. IInv => PostedIsKept
  BY DEF IInv
<1> QED
  BY <1>1, Invariant, PTL
============================================================================
