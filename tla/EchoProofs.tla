----------------------------- MODULE EchoProofs ------------------------------
(* Theorems about Echo, for all clients, addresses, hash functions and bounds on *)
(* what the network and the users may do.                                        *)
EXTENDS Echo, FiniteSetTheorems, SequenceTheorems, TLAPS

P == INSTANCE ClientTableProofs

-----------------------------------------------------------------------------
(* The inductive invariant.                                                   *)

Texts ==
    [line : {<<>>} \cup (Clients \X (1 .. MaxLines)), size : 0 .. MaxPayload,
     counters : Seq(0 .. CounterMod - 1)]

AllPackets == [src : Keys, dst : Keys, text : Texts]

\* The types of TypeOK, with those of the sockets and of what is shown.
Typed ==
    /\ pc \in [Clients -> {"off", "prompt", "waiting"}]
    /\ sessions \in [Clients -> 0 .. MaxSessions] /\ typed \in [Clients -> 0 .. MaxLines]
    /\ shown \in [Clients -> Seq(Texts)]
    /\ inbox \in [Clients -> Seq(AllPackets)]
    /\ up \in BOOLEAN /\ rs \in Seq(AllPackets)
    /\ P!TableTypeOK /\ P!OneNodePerKey
    /\ IsABag(net) /\ BagToSet(net) \subseteq AllPackets
    /\ faults \in [loss : 0 .. MaxLosses, dup : 0 .. MaxDups,
                   interrupt : 0 .. MaxInterrupts, crash : 0 .. MaxCrashes]

\* Who is not there hears nothing; a client that runs was started.
Sockets ==
    /\ \A c \in Clients : pc[c] = "off" => shown[c] = <<>> /\ inbox[c] = <<>>
    /\ \A c \in Clients : pc[c] # "off" => sessions[c] > 0
    /\ ~up => rs = <<>>

\* All packets on the way, in the network and in the sockets.
Packets ==
    BagToSet(net) \cup {rs[i] : i \in DOMAIN rs}
      \cup UNION {{inbox[c][i] : i \in DOMAIN inbox[c]} : c \in Clients}

\* They go to the server or come from it; what its socket holds is for its host.
ByServer ==
    /\ \A p \in Packets : Server \in {p.src, p.dst}
    /\ \A i \in DOMAIN rs : rs[i].dst.host = Server.host

\* A packet of a client with an address of its own is "shutdown" or a line of it, and
\* an answer to it one of its lines with one counter.
OwnLines ==
    \A c \in Clients : HasOwnAddress(c) => \A p \in Packets :
      /\ p.src = Addr[c] => p.text = Shutdown \/ (p.text.line # <<>> /\ p.text.line[1] = c
                                                  /\ p.text.counters = <<>>)
      /\ p.dst = Addr[c] => p.text.line # <<>> /\ p.text.line[1] = c /\ Len(p.text.counters) = 1

\* A line on its way to the server, and its answer on the way back.
Request(c, p) == p.src = Addr[c] /\ p.dst = Server /\ p.text # Shutdown
Reply(c, p) == p.src = Server /\ p.dst = Addr[c]
Either(c, p) == Request(c, p) \/ Reply(c, p)

InNet(c) == \E p \in BagToSet(net) : Either(c, p)
InServer(c) == \E i \in DOMAIN rs : Request(c, rs[i])
InClient(c) == \E i \in DOMAIN inbox[c] : Reply(c, inbox[c][i])

\* A client that does not wait has nothing on the way; one that does, its last line or
\* the answer to it, and that once.
OneOnItsWay(c) ==
    /\ pc[c] # "waiting" => ~InNet(c) /\ ~InServer(c) /\ ~InClient(c)
    /\ ~(InNet(c) /\ InServer(c)) /\ ~(InNet(c) /\ InClient(c)) /\ ~(InServer(c) /\ InClient(c))
    /\ \A p, q \in BagToSet(net) : Either(c, p) /\ Either(c, q) => p = q /\ net[p] = 1
    /\ \A i, j \in DOMAIN rs : Request(c, rs[i]) /\ Request(c, rs[j]) => i = j
    /\ \A i, j \in DOMAIN inbox[c] : Reply(c, inbox[c][i]) /\ Reply(c, inbox[c][j]) => i = j
    /\ \A p \in BagToSet(net) : Either(c, p) => p.text.line = <<c, typed[c]>>
    /\ \A i \in DOMAIN rs : Request(c, rs[i]) => rs[i].text.line = <<c, typed[c]>>
    /\ \A i \in DOMAIN inbox[c] :
         Reply(c, inbox[c][i]) => inbox[c][i].text.line = <<c, typed[c]>>

Calm == faults.dup = 0 /\ faults.interrupt = 0

OneByOne == Calm => \A c \in Clients : HasOwnAddress(c) => OneOnItsWay(c)

\* The server's counter of a client is n, unless a shutdown of an earlier session
\* came in between.
CounterIs(c, n) ==
    \/ Addr[c] \in P!Heard /\ P!Value(Addr[c]) = n
    \/ Addr[c] \notin P!Heard /\ sessions[c] > 1

Last(c) == shown[c][Len(shown[c])].counters[1]

Follows(c, n) ==
    shown[c] # <<>> => n = (Last(c) + 1) % CounterMod \/ (n = 1 /\ sessions[c] > 1)

\* A line of the client is on its way; the answers that it may take.
Asked(c) == InServer(c) \/ \E p \in BagToSet(net) : Request(c, p)
Replies(c) == {p \in BagToSet(net) \cup {inbox[c][i] : i \in DOMAIN inbox[c]} : Reply(c, p)}

\* A shutdown on the way is of an earlier session; the server's counter is that of the
\* last answer, shown or on its way.
Numbered(c) ==
    /\ \A p \in Packets : p.src = Addr[c] /\ p.text = Shutdown =>
         sessions[c] > 0 /\ (pc[c] # "off" => sessions[c] > 1)
    /\ shown[c] # <<>> /\ (pc[c] = "prompt" \/ Asked(c)) => CounterIs(c, Last(c))
    /\ \A p \in Replies(c) : /\ CounterIs(c, p.text.counters[1])
                             /\ Follows(c, p.text.counters[1])

InTurn ==
    Calm /\ faults.crash = 0 => \A c \in Clients : HasOwnAddress(c) => Numbered(c)

IInv ==
    /\ Typed /\ Sockets /\ ByServer /\ OwnLines /\ NoCrossTalk
    /\ OneByOne /\ InTurn /\ ConsecutiveNumbers

-----------------------------------------------------------------------------
(* Packets and bags.                                                          *)

\* What EchoAssumption says of the table's constants.
LEMMA TableAssumption == P!ClientTableAssumption
  BY EchoAssumption DEF P!ClientTableAssumption

\* A packet for the server's host and port is for the server.
LEMMA ToServer ==
    ASSUME NEW k \in Keys, k.host = Server.host, k.port = Server.port
    PROVE  k = Server
<1>1. Server \in Keys
  BY DEF Keys
<1>2. k = [host |-> k.host, port |-> k.port]
  BY EchoAssumption
<1>3. Server = [host |-> Server.host, port |-> Server.port]
  BY <1>1, EchoAssumption
<1> QED
  BY <1>2, <1>3

\* A packet that is sent joins those on the way.
LEMMA BagSent ==
    ASSUME IsABag(net), NEW p
    PROVE  /\ IsABag(Sent(p)) /\ BagToSet(Sent(p)) = BagToSet(net) \cup {p}
           /\ \A q \in BagToSet(net) : q # p => Sent(p)[q] = net[q]
           /\ p \notin BagToSet(net) => Sent(p)[p] = 1
<1>1. /\ DOMAIN SetToBag({p}) = {p} /\ SetToBag({p})[p] = 1
      /\ net \in [DOMAIN net -> {n \in Nat : n > 0}]
  BY DEF SetToBag, IsABag
<1>2. Sent(p) = [e \in DOMAIN net \cup {p} |->
                   (IF e \in DOMAIN net THEN net[e] ELSE 0)
                   + (IF e \in {p} THEN SetToBag({p})[e] ELSE 0)]
  BY <1>1 DEF Sent, (+)
<1>3. ASSUME NEW e \in DOMAIN net \cup {p}
      PROVE  /\ Sent(p)[e] \in {n \in Nat : n > 0}
             /\ e # p => Sent(p)[e] = net[e]
             /\ e = p /\ e \notin DOMAIN net => Sent(p)[e] = 1
  <2>1. CASE e \in DOMAIN net /\ e # p
    BY <1>1, <1>2, <2>1
  <2>2. CASE e \in DOMAIN net /\ e = p
    <3>1. Sent(p)[e] = net[e] + 1
      BY <1>1, <1>2, <2>2
    <3> QED  BY <1>1, <2>2, <3>1
  <2>3. CASE e \notin DOMAIN net
    <3>1. e = p /\ Sent(p)[e] = 0 + 1
      BY <1>1, <1>2, <2>3
    <3> QED  BY <3>1
  <2> QED  BY <2>1, <2>2, <2>3
<1>4. DOMAIN Sent(p) = DOMAIN net \cup {p}
  BY <1>2
<1>5. Sent(p) \in [DOMAIN net \cup {p} -> {n \in Nat : n > 0}]
  BY <1>2, <1>3
<1> QED
  BY <1>3, <1>4, <1>5 DEF IsABag, BagToSet

\* A packet that arrives is one less on the way.
LEMMA BagLeft ==
    ASSUME IsABag(net), NEW p \in BagToSet(net)
    PROVE  /\ IsABag(Left(p)) /\ BagToSet(Left(p)) \subseteq BagToSet(net)
           /\ \A q \in BagToSet(net) \ {p} : q \in BagToSet(Left(p)) /\ Left(p)[q] = net[q]
           /\ net[p] = 1 => p \notin BagToSet(Left(p))
<1>1. /\ DOMAIN SetToBag({p}) = {p} /\ SetToBag({p})[p] = 1
      /\ net \in [DOMAIN net -> {n \in Nat : n > 0}]
  BY DEF SetToBag, IsABag
<1> DEFINE B == [e \in DOMAIN net |-> IF e \in {p} THEN net[e] - SetToBag({p})[e] ELSE net[e]]
           D == {d \in DOMAIN B : B[d] > 0}
<1>2. Left(p) = [e \in D |-> B[e]]
  BY <1>1 DEF Left, (-)
<1>3. DOMAIN B = DOMAIN net /\ \A e \in DOMAIN net : B[e] = IF e = p THEN net[e] - 1 ELSE net[e]
  BY <1>1
<1> HIDE DEF B
<1>4. DOMAIN Left(p) = D /\ \A e \in D : Left(p)[e] = B[e]
  BY <1>2
<1>5. Left(p) \in [D -> {n \in Nat : n > 0}]
  <2>1. ASSUME NEW e \in D
        PROVE  B[e] \in {n \in Nat : n > 0}
    <3>1. net[e] \in Nat /\ B[e] > 0
      BY <1>1, <1>3
    <3> QED  BY <1>3, <3>1
  <2> QED  BY <1>2, <2>1
<1>6. ASSUME NEW q \in DOMAIN net, q # p
      PROVE  q \in D /\ Left(p)[q] = net[q]
  BY <1>1, <1>3, <1>4, <1>6
<1>7. net[p] = 1 => p \notin D
  BY <1>3
<1> QED
  BY <1>3, <1>4, <1>5, <1>6, <1>7 DEF IsABag, BagToSet

\* The packets on the way are those in the network and in the sockets.
LEMMA InPackets ==
    /\ \A p \in BagToSet(net) : p \in Packets
    /\ \A i \in DOMAIN rs : rs[i] \in Packets
    /\ \A c \in Clients : \A i \in DOMAIN inbox[c] : inbox[c][i] \in Packets
  BY DEF Packets

\* The number of digits is a number.
LEMMA SuffixType == \A n : Suffix(n) \in Nat
<1> SUFFICES ASSUME NEW n
             PROVE  Suffix(n) \in Nat
  OBVIOUS
<1> DEFINE S == {d \in 1 .. 9 : 10 ^ d <= n}
<1>1. IsFiniteSet(1 .. 9)
  <2>1. 1 \in Int /\ 9 \in Int
    OBVIOUS
  <2> QED  BY <2>1, FS_Interval
<1>2. IsFiniteSet(S)
  BY <1>1, FS_Subset
<1>3. Cardinality(S) \in Nat
  BY <1>2, FS_CardinalityType
<1> HIDE DEF S
<1>4. Digits(n) = 1 + Cardinality(S)
  BY DEF Digits, S
<1> QED
  BY <1>3, <1>4 DEF Suffix

\* What is sent back is a text, if it fits, of the same line with one counter more.
LEMMA EchoedType ==
    ASSUME NEW t \in Texts, NEW n \in 0 .. CounterMod - 1
    PROVE  /\ Fits(Echoed(t, n)) => Echoed(t, n) \in Texts
           /\ Echoed(t, n).line = t.line /\ Echoed(t, n).counters = Append(t.counters, n)
<1>1. /\ t.size \in 0 .. MaxPayload /\ t.counters \in Seq(0 .. CounterMod - 1)
      /\ t.line \in {<<>>} \cup (Clients \X (1 .. MaxLines))
      /\ t = [line |-> t.line, size |-> t.size, counters |-> t.counters]
  BY DEF Texts
<1>2. Append(t.counters, n) \in Seq(0 .. CounterMod - 1)
  BY <1>1, AppendProperties
<1>3. Echoed(t, n) = [line |-> t.line, size |-> t.size + Suffix(n),
                      counters |-> Append(t.counters, n)]
  <2> DEFINE u == Echoed(t, n)
  <2>1. DOMAIN t = {"line", "size", "counters"}
    BY <1>1
  <2>2. DOMAIN u = DOMAIN t /\ u = [x \in DOMAIN t |-> u[x]]
    BY DEF Echoed
  <2>3. u.line = t.line
    BY <2>1 DEF Echoed
  <2>4. u.size = t.size + Suffix(n)
    BY <2>1 DEF Echoed
  <2>5. u.counters = Append(t.counters, n)
    BY <2>1 DEF Echoed
  <2> HIDE DEF u
  <2>6. u = [line |-> t.line, size |-> t.size + Suffix(n), counters |-> Append(t.counters, n)]
    BY <2>1, <2>2, <2>3, <2>4, <2>5
  <2> QED  BY <2>6 DEF u
<1>4. t.size + Suffix(n) \in Nat
  BY <1>1, SuffixType, EchoAssumption
<1>5. Fits(Echoed(t, n)) => t.size + Suffix(n) \in 0 .. MaxPayload
  BY <1>3, <1>4, EchoAssumption DEF Fits
<1> QED
  BY <1>1, <1>2, <1>3, <1>5 DEF Texts

-----------------------------------------------------------------------------
(* What the steps do.                                                         *)

\* Each client step, with its client.
ClientStep(c) == User(c) \/ Interrupt(c) \/ Receive(c)

\* The environment only counts up; a packet that is duplicated, a user who gives up
\* and a server that stops leave their mark.
LEMMA FaultsCount ==
    ASSUME Typed, Next
    PROVE  /\ faults' \in [loss : 0 .. MaxLosses, dup : 0 .. MaxDups,
                           interrupt : 0 .. MaxInterrupts, crash : 0 .. MaxCrashes]
           /\ faults'.dup >= faults.dup /\ faults'.interrupt >= faults.interrupt
           /\ faults'.crash >= faults.crash
           /\ faults.dup \in Nat /\ faults.interrupt \in Nat /\ faults.crash \in Nat
           /\ Duplicate => faults'.dup > faults.dup
           /\ Crash => faults'.crash > faults.crash
           /\ \A c \in Clients : Interrupt(c) => faults'.interrupt > faults.interrupt
<1>1. /\ faults \in [loss : 0 .. MaxLosses, dup : 0 .. MaxDups,
                     interrupt : 0 .. MaxInterrupts, crash : 0 .. MaxCrashes]
      /\ MaxLosses \in Nat /\ MaxDups \in Nat /\ MaxInterrupts \in Nat /\ MaxCrashes \in Nat
  BY EchoAssumption DEF Typed
<1>2. /\ faults.loss < MaxLosses /\ Fault("loss") => faults' \in
           [loss : 0 .. MaxLosses, dup : 0 .. MaxDups,
            interrupt : 0 .. MaxInterrupts, crash : 0 .. MaxCrashes]
           /\ faults'.dup = faults.dup /\ faults'.interrupt = faults.interrupt
           /\ faults'.crash = faults.crash
      /\ faults.dup < MaxDups /\ Fault("dup") => faults' \in
           [loss : 0 .. MaxLosses, dup : 0 .. MaxDups,
            interrupt : 0 .. MaxInterrupts, crash : 0 .. MaxCrashes]
           /\ faults'.dup = faults.dup + 1 /\ faults'.interrupt = faults.interrupt
           /\ faults'.crash = faults.crash
      /\ faults.interrupt < MaxInterrupts /\ Fault("interrupt") => faults' \in
           [loss : 0 .. MaxLosses, dup : 0 .. MaxDups,
            interrupt : 0 .. MaxInterrupts, crash : 0 .. MaxCrashes]
           /\ faults'.dup = faults.dup /\ faults'.interrupt = faults.interrupt + 1
           /\ faults'.crash = faults.crash
      /\ faults.crash < MaxCrashes /\ Fault("crash") => faults' \in
           [loss : 0 .. MaxLosses, dup : 0 .. MaxDups,
            interrupt : 0 .. MaxInterrupts, crash : 0 .. MaxCrashes]
           /\ faults'.dup = faults.dup /\ faults'.interrupt = faults.interrupt
           /\ faults'.crash = faults.crash + 1
  BY <1>1 DEF Fault
<1>3. /\ faults.dup \in Nat /\ faults.interrupt \in Nat /\ faults.crash \in Nat
      /\ \/ faults' = faults \/ (faults.loss < MaxLosses /\ Fault("loss"))
         \/ (faults.dup < MaxDups /\ Fault("dup"))
         \/ (faults.interrupt < MaxInterrupts /\ Fault("interrupt"))
         \/ (faults.crash < MaxCrashes /\ Fault("crash"))
  <2>1. CASE Deliver
    BY <1>1, <2>1 DEF Deliver, Arrive
  <2>2. CASE ~Deliver
    BY <1>1, <2>2 DEF Next, User, Open, SendLine, SendFails, SendShutdown, EndOfInput, Interrupt,
       Receive, Serve, Crash, Restart, Duplicate
  <2> QED  BY <2>1, <2>2
<1>4. /\ Duplicate => faults.dup < MaxDups /\ Fault("dup")
      /\ Crash => faults.crash < MaxCrashes /\ Fault("crash")
      /\ \A c \in Clients : Interrupt(c) => faults.interrupt < MaxInterrupts /\ Fault("interrupt")
  BY DEF Duplicate, Crash, Interrupt
<1> QED
  BY <1>1, <1>2, <1>3, <1>4

\* A packet that arrives, and who hears it.
LEMMA DeliverIs ==
    ASSUME Typed, Deliver
    PROVE  \E p \in BagToSet(net), got \in SUBSET Listeners :
             /\ p \in AllPackets /\ net' = Left(p)
             /\ Server \in got => up /\ p.dst.host = Server.host
             /\ rs' = IF Server \in got THEN Append(rs, p) ELSE rs
             /\ inbox' \in [Clients -> Seq(AllPackets)]
             /\ \A c \in Clients : /\ c \in got => pc[c] # "off"
                                   /\ inbox'[c] = IF c \in got THEN Append(inbox[c], p)
                                                               ELSE inbox[c]
             /\ UNCHANGED <<pc, sessions, typed, shown, up, buckets>>
<1>1. PICK p \in BagToSet(net), got \in SUBSET Listeners : Arrive(p, got)
  BY DEF Deliver
<1>2. p \in AllPackets /\ inbox \in [Clients -> Seq(AllPackets)]
  BY DEF Typed
<1>3. inbox' \in [Clients -> Seq(AllPackets)]
      /\ \A c \in Clients : inbox'[c] = IF c \in got THEN Append(inbox[c], p) ELSE inbox[c]
  <2>1. \A c \in Clients : Append(inbox[c], p) \in Seq(AllPackets)
    BY <1>2, AppendProperties
  <2> QED  BY <1>1, <1>2, <2>1 DEF Arrive
<1>4. /\ Server \in got => up /\ p.dst.host = Server.host
      /\ \A c \in Clients : c \in got => pc[c] # "off"
  <2>1. got \subseteq {c \in Clients : Hears(c, p)}
                       \cup (IF up /\ p.dst.host = Server.host THEN {Server} ELSE {})
    BY <1>1 DEF Arrive
  <2> QED  BY <2>1, EchoAssumption DEF Hears
<1> QED
  BY <1>1, <1>2, <1>3, <1>4 DEF Arrive

\* The packet at the head of the server's socket, and what becomes of it.
LEMMA ServeIs ==
    ASSUME Typed, ByServer, Serve
    PROVE  \E h \in AllPackets :
             /\ up /\ rs # <<>> /\ h = Head(rs) /\ rs' = Tail(rs) /\ UNCHANGED <<client, up, faults>>
             /\ h.src \in Keys /\ h.text \in Texts
             /\ \/ h.dst # Server /\ UNCHANGED <<buckets, net>>
                \/ h.dst = Server /\ h.text = Shutdown /\ P!CtReset(h.src) /\ net' = net
                \/ /\ h.dst = Server /\ h.text # Shutdown /\ P!CtNext(h.src)
                   /\ \E n \in 0 .. CounterMod - 1 :
                        /\ n = P!Issued(h.src)
                        /\ \/ net' = net
                           \/ /\ Packet(Server, h.src, Echoed(h.text, n)) \in AllPackets
                              /\ net' = Sent(Packet(Server, h.src, Echoed(h.text, n)))
<1>1. rs # <<>> /\ rs \in Seq(AllPackets)
  BY DEF Typed, Serve
<1>2. Head(rs) \in AllPackets /\ Head(rs) = rs[1] /\ 1 \in DOMAIN rs
  BY <1>1, HeadTailProperties, EmptySeq
<1>3. PICK h \in AllPackets : h = Head(rs)
  BY <1>2
<1>4. h.src \in Keys /\ h.dst \in Keys /\ h.text \in Texts /\ h.dst.host = Server.host
  BY <1>2, <1>3 DEF AllPackets, ByServer
<1>5. h.dst.port = Server.port <=> h.dst = Server
  BY <1>4, ToServer
<1>6. Server \in Keys
  BY DEF Keys
<1>7. /\ up /\ rs' = Tail(rs) /\ UNCHANGED <<client, up, faults>>
      /\ \/ h.dst.port # Server.port /\ UNCHANGED <<buckets, net>>
         \/ h.dst.port = Server.port /\ h.text = Shutdown /\ CT!CtReset(h.src) /\ net' = net
         \/ /\ h.dst.port = Server.port /\ h.text # Shutdown /\ CT!CtNext(h.src)
            /\ net' = Answer(h, CT!Issued(h.src))
  BY <1>3 DEF Serve
<1>8. /\ CT!CtReset(h.src) <=> P!CtReset(h.src)
      /\ CT!CtNext(h.src) <=> P!CtNext(h.src)
      /\ CT!Issued(h.src) = P!Issued(h.src)
  BY DEF CT!CtReset, CT!CtNext, CT!Issued, CT!Present, CT!Place, CT!Chain, CT!Step, CT!Unlinked,
     P!CtReset, P!CtNext, P!Issued, P!Present, P!Place, P!Chain, P!Step, P!Unlinked
<1>9. P!Issued(h.src) \in 0 .. CounterMod - 1
  BY <1>4, TableAssumption, P!IssuedType DEF Typed, P!TableInv
<1>10. CASE h.dst # Server
  BY <1>1, <1>3, <1>4, <1>5, <1>7, <1>10
<1>11. CASE h.dst = Server /\ h.text = Shutdown
  BY <1>1, <1>3, <1>4, <1>5, <1>7, <1>8, <1>11
<1>12. CASE h.dst = Server /\ h.text # Shutdown
  <2>1. PICK n \in 0 .. CounterMod - 1 : n = P!Issued(h.src)
    BY <1>9
  <2>2. P!CtNext(h.src) /\ net' = Answer(h, n)
    BY <1>5, <1>7, <1>8, <1>12, <2>1
  <2>3. \/ net' = net
        \/ /\ Packet(Server, h.src, Echoed(h.text, n)) \in AllPackets
           /\ net' = Sent(Packet(Server, h.src, Echoed(h.text, n)))
    <3>1. Fits(Echoed(h.text, n)) => Packet(Server, h.src, Echoed(h.text, n)) \in AllPackets
      <4>1. Fits(Echoed(h.text, n)) => Echoed(h.text, n) \in Texts
        BY <1>4, EchoedType
      <4> QED  BY <1>4, <1>6, <4>1 DEF Packet, AllPackets
    <3> QED  BY <1>12, <2>2, <3>1 DEF Answer
  <2> QED  BY <1>1, <1>3, <1>4, <1>7, <1>12, <2>1, <2>2, <2>3
<1> QED
  BY <1>10, <1>11, <1>12

\* What a client sends: a packet to the server.
LEMMA ClientSends ==
    ASSUME Typed, NEW c \in Clients, ClientStep(c)
    PROVE  /\ UNCHANGED <<up, rs, buckets>>
           /\ \A d \in Clients \ {c} : /\ pc'[d] = pc[d] /\ typed'[d] = typed[d]
                                       /\ sessions'[d] = sessions[d]
                                       /\ shown'[d] = shown[d] /\ inbox'[d] = inbox[d]
           /\ \/ net' = net /\ ~SendLine(c) /\ ~SendShutdown(c)
              \/ \E n \in Sizes : \E k \in 1 .. MaxLines :
                   /\ SendLine(c) /\ k = typed'[c]
                   /\ net' = Sent(Packet(Addr[c], Server, Line(c, k, n)))
                   /\ Packet(Addr[c], Server, Line(c, k, n)) \in AllPackets
              \/ /\ SendShutdown(c) /\ net' = Sent(Packet(Addr[c], Server, Shutdown))
                 /\ Packet(Addr[c], Server, Shutdown) \in AllPackets
<1>1. /\ pc \in [Clients -> {"off", "prompt", "waiting"}]
      /\ sessions \in [Clients -> 0 .. MaxSessions] /\ typed \in [Clients -> 0 .. MaxLines]
      /\ shown \in [Clients -> Seq(Texts)] /\ inbox \in [Clients -> Seq(AllPackets)]
      /\ MaxLines \in Nat /\ MaxPayload \in Nat /\ 8 <= MaxPayload
      /\ Sizes \subseteq 0 .. MaxPayload - 1
  BY EchoAssumption DEF Typed
<1>2. Addr[c] \in Keys /\ Server \in Keys
  BY DEF Keys
<1>3. <<>> \in Seq(0 .. CounterMod - 1)
  OBVIOUS
<1>4. ASSUME NEW n \in Sizes, NEW k \in 1 .. MaxLines
      PROVE  Packet(Addr[c], Server, Line(c, k, n)) \in AllPackets
  <2>1. <<c, k>> \in Clients \X (1 .. MaxLines) /\ n \in 0 .. MaxPayload
    BY <1>1, <1>4
  <2> QED  BY <1>2, <1>3, <2>1 DEF Packet, AllPackets, Line, Texts
<1>5. Packet(Addr[c], Server, Shutdown) \in AllPackets
  BY <1>1, <1>2, <1>3 DEF Packet, AllPackets, Shutdown, Texts
<1> USE DEF server, Close, Types
<1>6. CASE SendLine(c)
  <2>1. typed'[c] \in 1 .. MaxLines
    BY <1>1, <1>6 DEF SendLine
  <2>2. PICK n \in Sizes : net' = Sent(Packet(Addr[c], Server, Line(c, typed'[c], n)))
    BY <1>6 DEF SendLine
  <2>3. PICK k \in 1 .. MaxLines : k = typed'[c]
    BY <2>1
  <2> QED  BY <1>1, <1>4, <1>6, <2>2, <2>3 DEF SendLine
<1>7. CASE SendShutdown(c)
  BY <1>1, <1>5, <1>7 DEF SendShutdown
<1>8. CASE Open(c)
  <2>1. pc[c] = "off"
    BY <1>8 DEF Open
  <2>2. ~SendLine(c) /\ ~SendShutdown(c)
    BY <2>1 DEF SendLine, SendShutdown
  <2> QED  BY <1>1, <1>8, <2>2 DEF Open
<1>9. CASE ~SendLine(c) /\ ~SendShutdown(c) /\ ~Open(c)
  BY <1>1, <1>9 DEF ClientStep, User, SendFails, EndOfInput, Interrupt, Receive, WaitsOn
<1> QED
  BY <1>6, <1>7, <1>8, <1>9

\* Types are kept.
LEMMA TypedStep ==
    ASSUME Typed, Sockets, ByServer, Next
    PROVE  Typed'
<1>1. /\ pc \in [Clients -> {"off", "prompt", "waiting"}]
      /\ sessions \in [Clients -> 0 .. MaxSessions] /\ typed \in [Clients -> 0 .. MaxLines]
      /\ shown \in [Clients -> Seq(Texts)] /\ inbox \in [Clients -> Seq(AllPackets)]
      /\ MaxLines \in Nat /\ MaxSessions \in Nat /\ rs \in Seq(AllPackets) /\ up \in BOOLEAN
      /\ IsABag(net) /\ BagToSet(net) \subseteq AllPackets
  BY EchoAssumption DEF Typed
<1>2. faults' \in [loss : 0 .. MaxLosses, dup : 0 .. MaxDups,
                   interrupt : 0 .. MaxInterrupts, crash : 0 .. MaxCrashes]
  BY FaultsCount
<1>3. ASSUME NEW p \in AllPackets, net' = Sent(p)
      PROVE  IsABag(net)' /\ (BagToSet(net) \subseteq AllPackets)'
  <2>1. IsABag(Sent(p)) /\ BagToSet(Sent(p)) = BagToSet(net) \cup {p}
    BY <1>1, BagSent
  <2> QED  BY <1>1, <1>3, <2>1 DEF IsABag, BagToSet
<1>4. net' = net => IsABag(net)' /\ (BagToSet(net) \subseteq AllPackets)'
  BY <1>1 DEF IsABag, BagToSet
<1>5. buckets' = buckets => P!TableTypeOK' /\ P!OneNodePerKey'
  BY DEF Typed, P!TableTypeOK, P!OneNodePerKey
<1>6. ASSUME NEW c \in Clients, ClientStep(c)
      PROVE  Typed'
  <2>1. UNCHANGED <<up, rs, buckets>>
    BY <1>6, ClientSends
  <2>2. IsABag(net)' /\ (BagToSet(net) \subseteq AllPackets)'
    BY <1>3, <1>4, <1>6, ClientSends
  <2>3. /\ pc' \in [Clients -> {"off", "prompt", "waiting"}]
        /\ sessions' \in [Clients -> 0 .. MaxSessions] /\ typed' \in [Clients -> 0 .. MaxLines]
        /\ shown' \in [Clients -> Seq(Texts)] /\ inbox' \in [Clients -> Seq(AllPackets)]
    <3>1. CASE Receive(c)
      <4>1. Head(inbox[c]) \in AllPackets /\ Tail(inbox[c]) \in Seq(AllPackets)
        BY <1>1, <3>1, HeadTailProperties DEF Receive
      <4>2. Head(inbox[c]).text \in Texts
        BY <4>1 DEF AllPackets
      <4>3. Append(shown[c], Head(inbox[c]).text) \in Seq(Texts)
        BY <1>1, <4>2, AppendProperties
      <4> QED  BY <1>1, <3>1, <4>1, <4>3 DEF Receive, WaitsOn
    <3>2. /\ Close(c) => /\ pc' \in [Clients -> {"off", "prompt", "waiting"}]
                         /\ shown' \in [Clients -> Seq(Texts)]
                         /\ inbox' \in [Clients -> Seq(AllPackets)]
          /\ Types(c) => typed' \in [Clients -> 0 .. MaxLines]
      <4>1. <<>> \in Seq(Texts) /\ <<>> \in Seq(AllPackets)
        OBVIOUS
      <4>2. Close(c) => /\ pc' \in [Clients -> {"off", "prompt", "waiting"}]
                        /\ shown' \in [Clients -> Seq(Texts)]
                        /\ inbox' \in [Clients -> Seq(AllPackets)]
        BY <1>1, <4>1 DEF Close
      <4>3. Types(c) => typed' \in [Clients -> 0 .. MaxLines]
        BY <1>1 DEF Types
      <4> QED  BY <4>2, <4>3
    <3>3. CASE Open(c)
      BY <1>1, <3>3 DEF Open
    <3>4. CASE SendLine(c)
      BY <1>1, <3>2, <3>4 DEF SendLine
    <3>5. CASE SendFails(c) \/ SendShutdown(c) \/ EndOfInput(c) \/ Interrupt(c)
      BY <1>1, <3>2, <3>5 DEF SendFails, SendShutdown, EndOfInput, Interrupt
    <3> QED  BY <1>6, <3>1, <3>3, <3>4, <3>5 DEF ClientStep, User
  <2> QED  BY <1>1, <1>2, <1>5, <2>1, <2>2, <2>3 DEF Typed
<1>7. CASE Deliver
  <2>1. PICK p \in BagToSet(net), got \in SUBSET Listeners :
             /\ p \in AllPackets /\ net' = Left(p)
             /\ rs' = IF Server \in got THEN Append(rs, p) ELSE rs
             /\ inbox' \in [Clients -> Seq(AllPackets)]
             /\ UNCHANGED <<pc, sessions, typed, shown, up, buckets>>
    BY <1>7, DeliverIs
  <2>2. rs' \in Seq(AllPackets)
    BY <1>1, <2>1, AppendProperties
  <2>3. IsABag(net)' /\ (BagToSet(net) \subseteq AllPackets)'
    BY <1>1, <2>1, BagLeft DEF IsABag, BagToSet
  <2> QED  BY <1>1, <1>2, <1>5, <2>1, <2>2, <2>3 DEF Typed
<1>8. CASE Duplicate
  BY <1>1, <1>2, <1>3, <1>5, <1>8 DEF Typed, Duplicate, client, server
<1>9. CASE Serve
  <2>1. PICK h \in AllPackets :
             /\ rs # <<>> /\ rs' = Tail(rs) /\ UNCHANGED <<client, up, faults>> /\ h.src \in Keys
             /\ \/ UNCHANGED <<buckets, net>>
                \/ P!CtReset(h.src) /\ net' = net
                \/ /\ P!CtNext(h.src)
                   /\ net' = net \/ \E p \in AllPackets : net' = Sent(p)
    BY <1>9, ServeIs
  <2>2. P!TableTypeOK' /\ P!OneNodePerKey'
    <3>1. P!TableInv
      BY DEF Typed, P!TableInv
    <3>2. CASE P!CtReset(h.src) \/ P!CtNext(h.src)
      <4>1. P!TableInv'
        BY <2>1, <3>1, <3>2, TableAssumption, P!NextStep, P!ResetStep
      <4> QED  BY <4>1 DEF P!TableInv
    <3> QED  BY <1>5, <2>1, <3>2
  <2>3. rs' \in Seq(AllPackets)
    BY <1>1, <2>1, HeadTailProperties
  <2>4. IsABag(net)' /\ (BagToSet(net) \subseteq AllPackets)'
    BY <1>3, <1>4, <2>1
  <2> QED  BY <1>1, <1>2, <2>1, <2>2, <2>3, <2>4 DEF Typed, client
<1>10. CASE Crash
  <2>1. P!TableTypeOK' /\ P!OneNodePerKey'
    <3>1. buckets' = [b \in Buckets |-> <<>>]
      BY <1>10 DEF Crash
    <3> QED  BY <3>1 DEF P!TableTypeOK, P!OneNodePerKey
  <2>2. rs' \in Seq(AllPackets) /\ up' \in BOOLEAN /\ net' = net
        /\ UNCHANGED <<pc, sessions, typed, shown, inbox>>
    <3>1. <<>> \in Seq(AllPackets)
      OBVIOUS
    <3> QED  BY <1>10, <3>1 DEF Crash, client
  <2>3. IsABag(net)' /\ (BagToSet(net) \subseteq AllPackets)'
    BY <1>4, <2>2
  <2> QED  BY <1>1, <1>2, <2>1, <2>2, <2>3 DEF Typed
<1>11. CASE Restart
  BY <1>1, <1>2, <1>4, <1>5, <1>11 DEF Typed, Restart, client
<1> QED
  BY <1>6, <1>7, <1>8, <1>9, <1>10, <1>11 DEF Next, ClientStep

\* What is not there keeps hearing nothing.
LEMMA SocketsStep ==
    ASSUME Typed, Sockets, ByServer, Next
    PROVE  Sockets'
<1>1. /\ pc \in [Clients -> {"off", "prompt", "waiting"}]
      /\ sessions \in [Clients -> 0 .. MaxSessions]
      /\ shown \in [Clients -> Seq(Texts)] /\ inbox \in [Clients -> Seq(AllPackets)]
  BY DEF Typed
<1>2. /\ \A c \in Clients : pc[c] = "off" => shown[c] = <<>> /\ inbox[c] = <<>>
      /\ \A c \in Clients : pc[c] # "off" => sessions[c] > 0
      /\ ~up => rs = <<>>
  BY DEF Sockets
<1>3. ASSUME NEW c \in Clients, ClientStep(c)
      PROVE  Sockets'
  <2>1. /\ pc'[c] = "off" => shown'[c] = <<>> /\ inbox'[c] = <<>>
        /\ pc'[c] # "off" => sessions'[c] > 0
    <3> USE DEF Close, Types
    <3>1. CASE Open(c)
      BY <1>1, <3>1 DEF Open
    <3>2. CASE SendLine(c) \/ SendFails(c)
      BY <1>1, <1>2, <3>2 DEF SendLine, SendFails
    <3>3. CASE SendShutdown(c) \/ EndOfInput(c) \/ Interrupt(c)
      BY <1>1, <1>2, <3>3 DEF SendShutdown, EndOfInput, Interrupt
    <3>4. CASE Receive(c)
      BY <1>1, <1>2, <3>4 DEF Receive, WaitsOn
    <3> QED  BY <1>3, <3>1, <3>2, <3>3, <3>4 DEF ClientStep, User
  <2>2. /\ UNCHANGED <<up, rs, buckets>>
        /\ \A d \in Clients \ {c} : /\ pc'[d] = pc[d] /\ sessions'[d] = sessions[d]
                                    /\ shown'[d] = shown[d] /\ inbox'[d] = inbox[d]
    BY <1>3, ClientSends
  <2> QED  BY <1>2, <2>1, <2>2 DEF Sockets
<1>4. CASE Deliver
  <2>1. PICK p \in BagToSet(net), got \in SUBSET Listeners :
             /\ Server \in got => up
             /\ rs' = IF Server \in got THEN Append(rs, p) ELSE rs
             /\ \A c \in Clients : /\ c \in got => pc[c] # "off"
                                   /\ inbox'[c] = IF c \in got THEN Append(inbox[c], p)
                                                               ELSE inbox[c]
             /\ UNCHANGED <<pc, sessions, typed, shown, up, buckets>>
    BY <1>4, DeliverIs
  <2> QED  BY <1>2, <2>1 DEF Sockets
<1>5. CASE Serve
  BY <1>2, <1>5 DEF Serve, Sockets, client
<1>6. CASE Crash \/ Restart \/ Duplicate
  BY <1>2, <1>6 DEF Crash, Restart, Duplicate, Sockets, client, server
<1> QED
  BY <1>3, <1>4, <1>5, <1>6 DEF Next, ClientStep

\* A packet is on its way because it was, or because it has just been sent: as a line,
\* as "shutdown", or as the echo of what reached the server.
LEMMA PacketsGrow ==
    ASSUME Typed, ByServer, Next, NEW p \in Packets'
    PROVE  \/ p \in Packets
           \/ \E c \in Clients, n \in Sizes, k \in 1 .. MaxLines :
                SendLine(c) /\ p = Packet(Addr[c], Server, Line(c, k, n))
           \/ \E c \in Clients : SendShutdown(c) /\ p = Packet(Addr[c], Server, Shutdown)
           \/ \E h \in Packets : \E n \in 0 .. CounterMod - 1 :
                /\ h \in AllPackets /\ h.dst = Server /\ h.text # Shutdown
                /\ p = Packet(Server, h.src, Echoed(h.text, n))
<1>1. /\ inbox \in [Clients -> Seq(AllPackets)] /\ rs \in Seq(AllPackets) /\ IsABag(net)
  BY DEF Typed
<1>2. \/ p \in BagToSet(net)'
      \/ \E i \in DOMAIN rs' : rs'[i] = p
      \/ \E c \in Clients : \E i \in DOMAIN inbox'[c] : inbox'[c][i] = p
  BY DEF Packets, BagToSet
<1>3. /\ \A q \in BagToSet(net) : q \in Packets
      /\ \A i \in DOMAIN rs : rs[i] \in Packets
      /\ \A c \in Clients : \A i \in DOMAIN inbox[c] : inbox[c][i] \in Packets
  BY InPackets
<1>4. ASSUME NEW q, net' = Sent(q)
      PROVE  BagToSet(net)' = BagToSet(net) \cup {q}
  BY <1>1, <1>4, BagSent DEF BagToSet
<1>5. ASSUME NEW s \in Seq(AllPackets), s # <<>>
      PROVE  \A i \in DOMAIN Tail(s) : i + 1 \in DOMAIN s /\ Tail(s)[i] = s[i + 1]
  BY <1>5, HeadTailProperties, EmptySeq
<1>6. ASSUME NEW s \in Seq(AllPackets), NEW q \in AllPackets, NEW i \in DOMAIN Append(s, q)
      PROVE  Append(s, q)[i] = q \/ (i \in DOMAIN s /\ Append(s, q)[i] = s[i])
  BY <1>6, AppendProperties
<1>7. ASSUME NEW c \in Clients, ClientStep(c)
      PROVE  \/ p \in Packets
             \/ \E n \in Sizes, k \in 1 .. MaxLines :
                  SendLine(c) /\ p = Packet(Addr[c], Server, Line(c, k, n))
             \/ SendShutdown(c) /\ p = Packet(Addr[c], Server, Shutdown)
  <2>1. /\ UNCHANGED <<up, rs, buckets>>
        /\ \A d \in Clients \ {c} : inbox'[d] = inbox[d]
    BY <1>7, ClientSends
  <2>2. \A i \in DOMAIN inbox'[c] : inbox'[c][i] \in Packets
    <3>1. CASE Receive(c)
      <4>1. inbox[c] # <<>> /\ inbox'[c] = Tail(inbox[c])
        BY <1>1, <3>1 DEF Receive
      <4> QED  BY <1>1, <1>3, <1>5, <4>1
    <3>2. CASE ~Receive(c)
      <4>1. inbox'[c] = inbox[c] \/ inbox'[c] = <<>>
        BY <1>1, <1>7, <3>2 DEF ClientStep, User, Open, SendLine, SendFails, SendShutdown,
           EndOfInput, Interrupt, Close
      <4> QED  BY <1>3, <4>1
    <3> QED  BY <3>1, <3>2
  <2>3. CASE p \in BagToSet(net)'
    <3>1. CASE net' = net
      BY <1>3, <2>3, <3>1 DEF BagToSet
    <3>2. CASE SendLine(c) /\ \E n \in Sizes, k \in 1 .. MaxLines :
                                net' = Sent(Packet(Addr[c], Server, Line(c, k, n)))
      BY <1>3, <1>4, <2>3, <3>2
    <3>3. CASE SendShutdown(c) /\ net' = Sent(Packet(Addr[c], Server, Shutdown))
      BY <1>3, <1>4, <2>3, <3>3
    <3> QED  BY <1>7, <3>1, <3>2, <3>3, ClientSends
  <2> QED  BY <1>2, <1>3, <2>1, <2>2, <2>3
<1>8. CASE Deliver
  <2>1. PICK q \in BagToSet(net), got \in SUBSET Listeners :
             /\ q \in AllPackets /\ net' = Left(q)
             /\ rs' = IF Server \in got THEN Append(rs, q) ELSE rs
             /\ \A c \in Clients : inbox'[c] = IF c \in got THEN Append(inbox[c], q)
                                                           ELSE inbox[c]
    BY <1>8, DeliverIs
  <2>2. BagToSet(net)' \subseteq BagToSet(net)
    BY <1>1, <2>1, BagLeft DEF BagToSet
  <2>3. \A i \in DOMAIN rs' : rs'[i] \in Packets
    BY <1>1, <1>3, <1>6, <2>1
  <2>4. \A c \in Clients : \A i \in DOMAIN inbox'[c] : inbox'[c][i] \in Packets
    <3> TAKE c \in Clients
    <3>1. CASE c \in got
      <4>1. inbox'[c] = Append(inbox[c], q) /\ inbox[c] \in Seq(AllPackets)
        BY <1>1, <2>1, <3>1
      <4> QED  BY <1>3, <1>6, <2>1, <4>1
    <3>2. CASE c \notin got
      BY <1>3, <2>1, <3>2
    <3> QED  BY <3>1, <3>2
  <2> QED  BY <1>2, <1>3, <2>2, <2>3, <2>4
<1>9. CASE Duplicate
  <2>1. PICK q \in BagToSet(net) : net' = Sent(q)
    BY <1>9 DEF Duplicate
  <2>2. UNCHANGED <<rs, inbox>>
    BY <1>9 DEF Duplicate, client, server
  <2> QED  BY <1>2, <1>3, <1>4, <2>1, <2>2
<1>10. CASE Serve
  <2>1. PICK h \in AllPackets :
             /\ rs # <<>> /\ h = Head(rs) /\ rs' = Tail(rs) /\ UNCHANGED <<client, up, faults>>
             /\ \/ net' = net
                \/ /\ h.dst = Server /\ h.text # Shutdown
                   /\ \E n \in 0 .. CounterMod - 1 :
                        net' = Sent(Packet(Server, h.src, Echoed(h.text, n)))
    BY <1>10, ServeIs
  <2>2. h \in Packets
    <3>1. Head(rs) = rs[1] /\ 1 \in DOMAIN rs
      BY <1>1, <2>1, EmptySeq
    <3> QED  BY <1>3, <2>1, <3>1
  <2>3. \A i \in DOMAIN rs' : rs'[i] \in Packets
    BY <1>1, <1>3, <1>5, <2>1
  <2>4. inbox' = inbox
    BY <2>1 DEF client
  <2>5. CASE p \in BagToSet(net)'
    <3>1. CASE net' = net
      BY <1>3, <2>5, <3>1 DEF BagToSet
    <3>2. CASE h.dst = Server /\ h.text # Shutdown /\ \E n \in 0 .. CounterMod - 1 :
                 net' = Sent(Packet(Server, h.src, Echoed(h.text, n)))
      BY <1>3, <1>4, <2>2, <2>5, <3>2
    <3> QED  BY <2>1, <3>1, <3>2
  <2> QED  BY <1>2, <1>3, <2>3, <2>4, <2>5
<1>11. CASE Crash \/ Restart
  <2>1. UNCHANGED <<inbox, net>> /\ rs' \in {rs, <<>>}
    BY <1>11 DEF Crash, Restart, client
  <2> QED  BY <1>2, <1>3, <2>1 DEF BagToSet
<1> QED
  BY <1>7, <1>8, <1>9, <1>10, <1>11 DEF Next, ClientStep

-----------------------------------------------------------------------------
(* Nobody is shown what is another's.                                         *)

\* The fields of a packet.
LEMMA PacketFields ==
    \A a, b, t : Packet(a, b, t).src = a /\ Packet(a, b, t).dst = b /\ Packet(a, b, t).text = t
  BY DEF Packet

\* Packets go to the server or come from it.
LEMMA ByServerStep ==
    ASSUME Typed, ByServer, Next
    PROVE  ByServer'
<1>1. ASSUME NEW p \in Packets'
      PROVE  Server \in {p.src, p.dst}
  <2>1. CASE p \in Packets
    BY <2>1 DEF ByServer
  <2>2. CASE p \notin Packets
    BY <1>1, <2>2, PacketsGrow, PacketFields
  <2> QED  BY <2>1, <2>2
<1>2. \A i \in DOMAIN rs' : rs'[i].dst.host = Server.host
  <2>1. rs \in Seq(AllPackets) /\ \A i \in DOMAIN rs : rs[i].dst.host = Server.host
    BY DEF Typed, ByServer
  <2>2. CASE Deliver
    <3>1. PICK p \in BagToSet(net), got \in SUBSET Listeners :
             /\ p \in AllPackets
             /\ Server \in got => up /\ p.dst.host = Server.host
             /\ rs' = IF Server \in got THEN Append(rs, p) ELSE rs
      BY <2>2, DeliverIs
    <3>2. CASE Server \in got
      <4>1. rs' = Append(rs, p) /\ p.dst.host = Server.host
        BY <3>1, <3>2
      <4> QED  BY <2>1, <3>1, <4>1, AppendProperties
    <3> QED  BY <2>1, <3>1, <3>2
  <2>3. CASE Serve
    <3>1. rs # <<>> /\ rs' = Tail(rs)
      BY <2>3 DEF Serve
    <3>2. \A i \in DOMAIN Tail(rs) : i + 1 \in DOMAIN rs /\ Tail(rs)[i] = rs[i + 1]
      BY <2>1, <3>1, HeadTailProperties, EmptySeq
    <3> QED  BY <2>1, <3>1, <3>2
  <2>4. CASE Crash
    BY <2>4 DEF Crash
  <2>5. CASE Restart \/ Duplicate \/ \E c \in Clients : ClientStep(c)
    <3>1. rs' = rs
      BY <2>5, ClientSends DEF Restart, Duplicate, server
    <3> QED  BY <2>1, <3>1
  <2> QED  BY <2>2, <2>3, <2>4, <2>5 DEF Next, ClientStep
<1> QED
  BY <1>1, <1>2 DEF ByServer

\* A client with an address of its own is the only one to send from it.
LEMMA OwnAddress ==
    ASSUME NEW c \in Clients, HasOwnAddress(c)
    PROVE  Addr[c] # Server /\ \A d \in Clients : Addr[d] = Addr[c] => d = c
  BY DEF HasOwnAddress

\* Its packets hold its lines, and what comes back holds them too.
LEMMA OwnLinesStep ==
    ASSUME Typed, ByServer, OwnLines, Next
    PROVE  OwnLines'
<1> SUFFICES ASSUME NEW c \in Clients, HasOwnAddress(c), NEW p \in Packets'
             PROVE  /\ p.src = Addr[c] => p.text = Shutdown \/ (p.text.line # <<>> /\ p.text.line[1] = c
                                                  /\ p.text.counters = <<>>)
                    /\ p.dst = Addr[c] => p.text.line # <<>> /\ p.text.line[1] = c
                                          /\ Len(p.text.counters) = 1
  BY DEF OwnLines, HasOwnAddress, Shutdown
<1>1. Addr[c] # Server /\ \A d \in Clients : Addr[d] = Addr[c] => d = c
  BY OwnAddress
<1>2. CASE p \in Packets
  BY <1>2 DEF OwnLines
<1>3. ASSUME NEW d \in Clients, NEW n \in Sizes, NEW k \in 1 .. MaxLines,
             p = Packet(Addr[d], Server, Line(d, k, n))
      PROVE  /\ p.src = Addr[c] => p.text.line # <<>> /\ p.text.line[1] = c
                                   /\ p.text.counters = <<>>
             /\ p.dst # Addr[c]
  BY <1>1, <1>3, PacketFields DEF Line
<1>4. ASSUME NEW d \in Clients, p = Packet(Addr[d], Server, Shutdown)
      PROVE  p.text = Shutdown /\ p.dst # Addr[c]
  BY <1>1, <1>4, PacketFields
<1>5. ASSUME NEW h \in Packets, NEW n \in 0 .. CounterMod - 1, h \in AllPackets, h.dst = Server,
             h.text # Shutdown, p = Packet(Server, h.src, Echoed(h.text, n))
      PROVE  /\ p.src # Addr[c]
             /\ p.dst = Addr[c] => p.text.line # <<>> /\ p.text.line[1] = c
                                   /\ Len(p.text.counters) = 1
  <2>1. p.src = Server /\ p.dst = h.src /\ p.text = Echoed(h.text, n) /\ h.text \in Texts
    BY <1>5, PacketFields DEF AllPackets
  <2>2. p.text.line = h.text.line /\ p.text.counters = Append(h.text.counters, n)
    BY <2>1, EchoedType
  <2>3. h.src = Addr[c] => h.text.line # <<>> /\ h.text.line[1] = c /\ h.text.counters = <<>>
    BY <1>5 DEF OwnLines
  <2>4. Len(Append(<<>>, n)) = 1
    OBVIOUS
  <2> QED  BY <1>1, <2>1, <2>2, <2>3, <2>4
<1> QED
  BY <1>2, <1>3, <1>4, <1>5, PacketsGrow

\* What is shown is what was on the screen, or the answer at the head of the socket.
LEMMA ShownGrows ==
    ASSUME Typed, Sockets, ByServer, Next, NEW c \in Clients
    PROVE  \/ shown'[c] = shown[c] \/ shown'[c] = <<>>
           \/ /\ Receive(c) /\ inbox[c] # <<>> /\ pc[c] = "waiting" /\ pc'[c] = "prompt"
              /\ \E p \in AllPackets :
                   /\ p = inbox[c][1] /\ 1 \in DOMAIN inbox[c] /\ p \in Packets /\ Reply(c, p)
                   /\ shown'[c] = Append(shown[c], p.text)
<1>1. /\ shown \in [Clients -> Seq(Texts)] /\ inbox \in [Clients -> Seq(AllPackets)]
      /\ pc \in [Clients -> {"off", "prompt", "waiting"}]
  BY DEF Typed
<1>2. CASE Receive(c)
  <2>1. inbox[c] # <<>> /\ pc[c] = "waiting"
    BY <1>2 DEF Receive
  <2>2. Head(inbox[c]) \in AllPackets /\ Head(inbox[c]) = inbox[c][1] /\ 1 \in DOMAIN inbox[c]
    BY <1>1, <2>1, HeadTailProperties, EmptySeq
  <2>3. PICK p \in AllPackets : p = Head(inbox[c])
    BY <2>2
  <2>4. p \in Packets
    BY <2>2, <2>3, InPackets
  <2>5. CASE ForMe(c, p)
    <3>1. shown'[c] = Append(shown[c], p.text) /\ pc'[c] = "prompt"
      BY <1>1, <1>2, <2>3, <2>5 DEF Receive
    <3>2. Reply(c, p)
      BY <2>5 DEF ForMe, Reply
    <3> QED  BY <1>2, <2>1, <2>2, <2>3, <2>4, <3>1, <3>2
  <2>6. CASE ~ForMe(c, p)
    BY <1>2, <2>3, <2>6 DEF Receive
  <2> QED  BY <2>5, <2>6
<1>3. CASE ~Receive(c) /\ ClientStep(c)
  BY <1>1, <1>3 DEF ClientStep, User, Open, SendLine, SendFails, SendShutdown, EndOfInput,
     Interrupt, Close
<1>4. CASE \E d \in Clients \ {c} : ClientStep(d)
  BY <1>4, ClientSends
<1>5. CASE Deliver
  BY <1>5, DeliverIs
<1>6. CASE Serve \/ Crash \/ Restart \/ Duplicate
  BY <1>6 DEF Serve, Crash, Restart, Duplicate, client
<1> QED
  BY <1>2, <1>3, <1>4, <1>5, <1>6 DEF Next, ClientStep

\* So a client prints echoes of its own lines only.
LEMMA NoCrossTalkStep ==
    ASSUME Typed, Sockets, ByServer, OwnLines, NoCrossTalk, Next
    PROVE  NoCrossTalk'
<1> SUFFICES ASSUME NEW c \in Clients, HasOwnAddress(c), NEW i \in DOMAIN shown'[c]
             PROVE  shown'[c][i].line[1] = c /\ Len(shown'[c][i].counters) = 1
  BY DEF NoCrossTalk, HasOwnAddress
<1>1. /\ \A j \in DOMAIN shown[c] : shown[c][j].line[1] = c /\ Len(shown[c][j].counters) = 1
      /\ shown[c] \in Seq(Texts)
  BY DEF NoCrossTalk, Typed
<1>2. CASE shown'[c] = shown[c] \/ shown'[c] = <<>>
  BY <1>1, <1>2
<1>3. CASE ~(shown'[c] = shown[c] \/ shown'[c] = <<>>)
  <2>1. PICK p \in AllPackets : /\ p \in Packets /\ Reply(c, p)
                                /\ shown'[c] = Append(shown[c], p.text)
    BY <1>3, ShownGrows
  <2>2. p.text.line[1] = c /\ Len(p.text.counters) = 1 /\ p.text \in Texts
    BY <2>1 DEF OwnLines, Reply, AllPackets
  <2>3. \/ i \in DOMAIN shown[c] /\ shown'[c][i] = shown[c][i]
        \/ shown'[c][i] = p.text
    BY <1>1, <2>1, <2>2, AppendProperties
  <2> QED  BY <1>1, <2>2, <2>3
<1> QED
  BY <1>2, <1>3

-----------------------------------------------------------------------------
(* A client that waits has one packet on the way.                             *)

\* A step that adds nothing of a client, and takes at most from the front of the
\* sockets, leaves it with one packet at most.
LEMMA OneKept ==
    ASSUME NEW c \in Clients, OneOnItsWay(c), pc'[c] = pc[c], typed'[c] = typed[c],
           \A p \in BagToSet(net)' : Either(c, p) => p \in BagToSet(net) /\ net'[p] = net[p],
           NEW a \in Nat, NEW b \in Nat, DOMAIN rs' \subseteq Nat, DOMAIN inbox'[c] \subseteq Nat,
           \A i \in DOMAIN rs' :
              Request(c, rs'[i]) => i + a \in DOMAIN rs /\ rs'[i] = rs[i + a],
           \A i \in DOMAIN inbox'[c] :
              Reply(c, inbox'[c][i]) => i + b \in DOMAIN inbox[c] /\ inbox'[c][i] = inbox[c][i + b]
    PROVE  OneOnItsWay(c)'
<1>1. /\ InNet(c)' => InNet(c) /\ \E p \in BagToSet(net) : p \in BagToSet(net)'
      /\ InServer(c)' => InServer(c)
      /\ InClient(c)' => InClient(c)
  BY DEF InNet, InServer, InClient
<1>2. \A p, q \in BagToSet(net)' : Either(c, p) /\ Either(c, q) => p = q /\ net'[p] = 1
  BY DEF OneOnItsWay
<1>3. \A i, j \in DOMAIN rs' : Request(c, rs'[i]) /\ Request(c, rs'[j]) => i = j
  <2> SUFFICES ASSUME NEW i \in DOMAIN rs', NEW j \in DOMAIN rs',
                      Request(c, rs'[i]), Request(c, rs'[j])
               PROVE  i = j
    OBVIOUS
  <2>1. i + a = j + a
    BY DEF OneOnItsWay
  <2> QED  BY <2>1
<1>4. \A i, j \in DOMAIN inbox'[c] : Reply(c, inbox'[c][i]) /\ Reply(c, inbox'[c][j]) => i = j
  <2> SUFFICES ASSUME NEW i \in DOMAIN inbox'[c], NEW j \in DOMAIN inbox'[c],
                      Reply(c, inbox'[c][i]), Reply(c, inbox'[c][j])
               PROVE  i = j
    OBVIOUS
  <2>1. i + b = j + b
    BY DEF OneOnItsWay
  <2> QED  BY <2>1
<1>5. /\ \A p \in BagToSet(net)' : Either(c, p) => p.text.line = <<c, typed'[c]>>
      /\ \A i \in DOMAIN rs' : Request(c, rs'[i]) => rs'[i].text.line = <<c, typed'[c]>>
      /\ \A i \in DOMAIN inbox'[c] :
           Reply(c, inbox'[c][i]) => inbox'[c][i].text.line = <<c, typed'[c]>>
  BY DEF OneOnItsWay
<1>6. /\ pc'[c] # "waiting" => ~InNet(c)' /\ ~InServer(c)' /\ ~InClient(c)'
      /\ ~(InNet(c)' /\ InServer(c)') /\ ~(InNet(c)' /\ InClient(c)')
      /\ ~(InServer(c)' /\ InClient(c)')
  BY <1>1 DEF OneOnItsWay
<1> QED
  BY <1>2, <1>3, <1>4, <1>5, <1>6 DEF OneOnItsWay, Either, Request, Reply

\* Nothing on the way is fine, too.
LEMMA OneNone ==
    ASSUME NEW c \in Clients, \A p \in BagToSet(net)' : ~Either(c, p),
           \A i \in DOMAIN rs' : ~Request(c, rs'[i]),
           \A i \in DOMAIN inbox'[c] : ~Reply(c, inbox'[c][i])
    PROVE  OneOnItsWay(c)'
  BY DEF OneOnItsWay, InNet, InServer, InClient, Either, Request, Reply

\* A message that a socket gets or gives.
LEMMA SocketIndices ==
    ASSUME NEW s \in Seq(AllPackets)
    PROVE  /\ DOMAIN s \subseteq Nat
           /\ \A q \in AllPackets : DOMAIN Append(s, q) \subseteq Nat /\
                \A i \in DOMAIN Append(s, q) :
                  \/ Append(s, q)[i] = q /\ i = Len(s) + 1
                  \/ i \in DOMAIN s /\ Append(s, q)[i] = s[i]
           /\ s # <<>> => /\ 1 \in DOMAIN s /\ Head(s) = s[1] /\ DOMAIN Tail(s) \subseteq Nat
                          /\ \A i \in DOMAIN Tail(s) : /\ i + 1 \in DOMAIN s /\ i + 1 # 1
                                                       /\ Tail(s)[i] = s[i + 1]
<1>1. DOMAIN s = 1 .. Len(s) /\ Len(s) \in Nat
  OBVIOUS
<1>2. \A q \in AllPackets : DOMAIN Append(s, q) \subseteq Nat /\
        \A i \in DOMAIN Append(s, q) : \/ Append(s, q)[i] = q /\ i = Len(s) + 1
                                       \/ i \in DOMAIN s /\ Append(s, q)[i] = s[i]
  <2> TAKE q \in AllPackets
  <2>1. DOMAIN Append(s, q) = 1 .. Len(s) + 1
    BY AppendProperties
  <2> QED  BY <1>1, <2>1, AppendProperties
<1>3. s # <<>> => /\ 1 \in DOMAIN s /\ Head(s) = s[1] /\ DOMAIN Tail(s) \subseteq Nat
                  /\ \A i \in DOMAIN Tail(s) : /\ i + 1 \in DOMAIN s /\ i + 1 # 1
                                               /\ Tail(s)[i] = s[i + 1]
  BY <1>1, HeadTailProperties, EmptySeq
<1> QED
  BY <1>1, <1>2, <1>3

\* A packet that does not concern a client leaves those that do.
LEMMA NetOthers ==
    ASSUME IsABag(net), NEW c \in Clients, NEW q, ~Either(c, q),
           net' = net \/ net' = Sent(q) \/ (q \in BagToSet(net) /\ net' = Left(q))
    PROVE  \A p : Either(c, p) => /\ p \in BagToSet(net)' <=> p \in BagToSet(net)
                                  /\ p \in BagToSet(net) => net'[p] = net[p]
<1>1. CASE net' = net
  BY <1>1 DEF BagToSet
<1>2. CASE net' = Sent(q)
  <2>1. /\ BagToSet(net)' = BagToSet(net) \cup {q}
        /\ \A p \in BagToSet(net) : p # q => net'[p] = net[p]
    BY <1>2, BagSent DEF BagToSet
  <2> QED  BY <2>1
<1>3. CASE q \in BagToSet(net) /\ net' = Left(q)
  <2>1. /\ BagToSet(net)' \subseteq BagToSet(net)
        /\ \A p \in BagToSet(net) \ {q} : p \in BagToSet(net)' /\ net'[p] = net[p]
    BY <1>3, BagLeft DEF BagToSet
  <2> QED  BY <2>1
<1> QED
  BY <1>1, <1>2, <1>3

\* One packet, and that in the network.
LEMMA OneInNet ==
    ASSUME NEW c \in Clients, pc'[c] = "waiting", NEW p, p.text.line = <<c, typed'[c]>>,
           \A q \in BagToSet(net)' : Either(c, q) => q = p /\ net'[q] = 1,
           \A i \in DOMAIN rs' : ~Request(c, rs'[i]),
           \A i \in DOMAIN inbox'[c] : ~Reply(c, inbox'[c][i])
    PROVE  OneOnItsWay(c)'
  BY DEF OneOnItsWay, InNet, InServer, InClient, Either, Request, Reply

\* A packet that arrives.
LEMMA OneDeliver ==
    ASSUME Typed, NEW c \in Clients, HasOwnAddress(c), OneOnItsWay(c), Deliver
    PROVE  OneOnItsWay(c)'
<1>1. /\ rs \in Seq(AllPackets) /\ inbox[c] \in Seq(AllPackets) /\ IsABag(net)
  BY DEF Typed
<1>2. PICK p \in BagToSet(net), got \in SUBSET Listeners :
         /\ p \in AllPackets /\ net' = Left(p)
         /\ rs' = IF Server \in got THEN Append(rs, p) ELSE rs
         /\ inbox'[c] = IF c \in got THEN Append(inbox[c], p) ELSE inbox[c]
         /\ UNCHANGED <<pc, typed>>
  BY DeliverIs
<1>3. /\ BagToSet(net)' \subseteq BagToSet(net)
      /\ \A q \in BagToSet(net) \ {p} : q \in BagToSet(net)' /\ net'[q] = net[q]
      /\ net[p] = 1 => p \notin BagToSet(net)'
  BY <1>1, <1>2, BagLeft DEF BagToSet
<1>4. /\ DOMAIN rs' \subseteq Nat /\ DOMAIN inbox'[c] \subseteq Nat
      /\ \A i \in DOMAIN rs' : \/ rs'[i] = p /\ i = Len(rs) + 1
                               \/ i \in DOMAIN rs /\ rs'[i] = rs[i]
      /\ \A i \in DOMAIN inbox'[c] : \/ inbox'[c][i] = p /\ i = Len(inbox[c]) + 1
                                     \/ i \in DOMAIN inbox[c] /\ inbox'[c][i] = inbox[c][i]
  BY <1>1, <1>2, SocketIndices
<1>5. CASE Either(c, p)
  <2>1. /\ pc[c] = "waiting" /\ net[p] = 1 /\ p.text.line = <<c, typed[c]>>
        /\ \A q \in BagToSet(net) : Either(c, q) => q = p
        /\ \A i \in DOMAIN rs : ~Request(c, rs[i])
        /\ \A i \in DOMAIN inbox[c] : ~Reply(c, inbox[c][i])
    BY <1>5 DEF OneOnItsWay, InNet, InServer, InClient
  <2>2. ~(Request(c, p) /\ Reply(c, p))
    BY OwnAddress DEF Request, Reply
  <2>3. \A q \in BagToSet(net)' : ~Either(c, q)
    BY <1>3, <2>1
  <2>4. PICK m, n : m = Len(rs) + 1 /\ n = Len(inbox[c]) + 1
    OBVIOUS
  <2>5. \A i \in DOMAIN rs' : Request(c, rs'[i]) => i = m /\ rs'[i] = p
    BY <1>4, <2>1, <2>4
  <2>6. \A i \in DOMAIN inbox'[c] : Reply(c, inbox'[c][i]) => i = n /\ inbox'[c][i] = p
    BY <1>4, <2>1, <2>4
  <2>7. pc'[c] = "waiting" /\ p.text.line = <<c, typed'[c]>>
    BY <1>2, <2>1
  <2>8. ~(InServer(c)' /\ InClient(c)') /\ ~InNet(c)'
    BY <2>2, <2>3, <2>5, <2>6 DEF InNet, InServer, InClient, Either, Request, Reply
  <2> QED  BY <2>3, <2>5, <2>6, <2>7, <2>8 DEF OneOnItsWay, Either, Request, Reply
<1>6. CASE ~Either(c, p)
  <2>1. \A q : Either(c, q) => /\ q \in BagToSet(net)' <=> q \in BagToSet(net)
                               /\ q \in BagToSet(net) => net'[q] = net[q]
    BY <1>1, <1>2, <1>6, NetOthers
  <2>2. \A i \in DOMAIN rs' : Request(c, rs'[i]) => i + 0 \in DOMAIN rs /\ rs'[i] = rs[i + 0]
    BY <1>4, <1>6 DEF Either
  <2>3. \A i \in DOMAIN inbox'[c] :
          Reply(c, inbox'[c][i]) => i + 0 \in DOMAIN inbox[c] /\ inbox'[c][i] = inbox[c][i + 0]
    BY <1>4, <1>6 DEF Either
  <2> QED  BY <1>2, <1>4, <2>1, <2>2, <2>3, OneKept
<1> QED
  BY <1>5, <1>6

\* A packet that the server takes up.
LEMMA OneServe ==
    ASSUME Typed, ByServer, NEW c \in Clients, HasOwnAddress(c), OneOnItsWay(c), Serve
    PROVE  OneOnItsWay(c)'
<1>1. /\ rs \in Seq(AllPackets) /\ inbox[c] \in Seq(AllPackets) /\ IsABag(net)
  BY DEF Typed
<1>2. PICK h \in AllPackets :
         /\ rs # <<>> /\ h = Head(rs) /\ rs' = Tail(rs) /\ UNCHANGED client /\ h.text \in Texts
         /\ \/ net' = net
            \/ /\ h.dst = Server /\ h.text # Shutdown
               /\ \E n \in 0 .. CounterMod - 1 :
                    net' = Sent(Packet(Server, h.src, Echoed(h.text, n)))
  BY ServeIs
<1>3. /\ 1 \in DOMAIN rs /\ rs[1] = h /\ DOMAIN rs' \subseteq Nat
      /\ \A i \in DOMAIN rs' : i + 1 \in DOMAIN rs /\ i + 1 # 1 /\ rs'[i] = rs[i + 1]
  BY <1>1, <1>2, SocketIndices
<1>4. pc'[c] = pc[c] /\ typed'[c] = typed[c] /\ inbox'[c] = inbox[c]
      /\ DOMAIN inbox[c] \subseteq Nat
  BY <1>1, <1>2, SocketIndices DEF client
<1>5. CASE Request(c, h)
  <2>1. /\ pc[c] = "waiting" /\ h.text.line = <<c, typed[c]>> /\ h.src = Addr[c]
        /\ \A q \in BagToSet(net) : ~Either(c, q)
        /\ \A i \in DOMAIN rs : Request(c, rs[i]) => i = 1
        /\ \A i \in DOMAIN inbox[c] : ~Reply(c, inbox[c][i])
    BY <1>3, <1>5 DEF OneOnItsWay, InNet, InServer, InClient, Request
  <2>2. \A i \in DOMAIN rs' : ~Request(c, rs'[i])
    BY <1>3, <2>1
  <2>3. CASE net' = net
    <3>1. \A q \in BagToSet(net)' : ~Either(c, q)
      BY <2>1, <2>3 DEF BagToSet
    <3> QED  BY <1>4, <2>1, <2>2, <3>1, OneNone
  <2>4. ASSUME NEW n \in 0 .. CounterMod - 1,
               net' = Sent(Packet(Server, h.src, Echoed(h.text, n)))
        PROVE  OneOnItsWay(c)'
    <3>1. PICK p : p = Packet(Server, h.src, Echoed(h.text, n))
      OBVIOUS
    <3>2. p.src = Server /\ p.dst = Addr[c] /\ p.text.line = <<c, typed[c]>>
      <4>1. p.text = Echoed(h.text, n) /\ p.src = Server /\ p.dst = Addr[c]
        BY <2>1, <3>1, PacketFields
      <4>2. Echoed(h.text, n).line = h.text.line
        BY <1>2, EchoedType
      <4> QED  BY <2>1, <4>1, <4>2
    <3>3. Either(c, p)
      BY <3>2 DEF Either, Reply
    <3>4. BagToSet(net)' = BagToSet(net) \cup {p} /\ (p \notin BagToSet(net) => net'[p] = 1)
      BY <1>1, <2>4, <3>1, BagSent DEF BagToSet
    <3>5. \A q \in BagToSet(net)' : Either(c, q) => q = p /\ net'[q] = 1
      BY <2>1, <3>3, <3>4
    <3> QED  BY <1>4, <2>1, <2>2, <3>2, <3>5, OneInNet
  <2> QED  BY <1>2, <2>3, <2>4
<1>6. CASE ~Request(c, h)
  <2>1. \A q : Either(c, q) => /\ q \in BagToSet(net)' <=> q \in BagToSet(net)
                               /\ q \in BagToSet(net) => net'[q] = net[q]
    <3>1. CASE net' = net
      BY <3>1 DEF BagToSet
    <3>2. ASSUME NEW n \in 0 .. CounterMod - 1, h.dst = Server, h.text # Shutdown,
                 net' = Sent(Packet(Server, h.src, Echoed(h.text, n)))
          PROVE  \A q : Either(c, q) => /\ q \in BagToSet(net)' <=> q \in BagToSet(net)
                                        /\ q \in BagToSet(net) => net'[q] = net[q]
      <4>1. PICK p : p = Packet(Server, h.src, Echoed(h.text, n))
        OBVIOUS
      <4>2. h.src # Addr[c]
        BY <1>6, <3>2 DEF Request
      <4>3. ~Either(c, p)
        BY <4>1, <4>2, OwnAddress, PacketFields DEF Either, Request, Reply
      <4>4. net' = Sent(p)
        BY <3>2, <4>1
      <4> QED  BY <1>1, <4>3, <4>4, NetOthers
    <3> QED  BY <1>2, <3>1, <3>2
  <2>2. \A i \in DOMAIN inbox'[c] :
          Reply(c, inbox'[c][i]) => i + 0 \in DOMAIN inbox[c] /\ inbox'[c][i] = inbox[c][i + 0]
    BY <1>4
  <2> QED  BY <1>3, <1>4, <2>1, <2>2, OneKept
<1> QED
  BY <1>5, <1>6

\* What another client does.
LEMMA OneOther ==
    ASSUME Typed, NEW c \in Clients, HasOwnAddress(c), OneOnItsWay(c),
           NEW d \in Clients \ {c}, ClientStep(d)
    PROVE  OneOnItsWay(c)'
<1>1. rs \in Seq(AllPackets) /\ inbox[c] \in Seq(AllPackets) /\ IsABag(net)
  BY DEF Typed
<1>2. /\ rs' = rs /\ pc'[c] = pc[c] /\ typed'[c] = typed[c] /\ inbox'[c] = inbox[c]
      /\ \/ net' = net
         \/ \E t : net' = Sent(Packet(Addr[d], Server, t))
  BY ClientSends
<1>3. DOMAIN rs \subseteq Nat /\ DOMAIN inbox[c] \subseteq Nat
  BY <1>1, SocketIndices
<1>4. \A q : Either(c, q) => /\ q \in BagToSet(net)' <=> q \in BagToSet(net)
                             /\ q \in BagToSet(net) => net'[q] = net[q]
  <2>1. CASE net' = net
    BY <2>1 DEF BagToSet
  <2>2. ASSUME NEW t, net' = Sent(Packet(Addr[d], Server, t))
        PROVE  \A q : Either(c, q) => /\ q \in BagToSet(net)' <=> q \in BagToSet(net)
                                      /\ q \in BagToSet(net) => net'[q] = net[q]
    <3>1. PICK p : p = Packet(Addr[d], Server, t)
      OBVIOUS
    <3>2. ~Either(c, p)
      BY <3>1, OwnAddress, PacketFields DEF Either, Request, Reply
    <3>3. net' = Sent(p)
      BY <2>2, <3>1
    <3> QED  BY <1>1, <3>2, <3>3, NetOthers
  <2> QED  BY <1>2, <2>1, <2>2
<1>5. \A i \in DOMAIN rs' : Request(c, rs'[i]) => i + 0 \in DOMAIN rs /\ rs'[i] = rs[i + 0]
  BY <1>2, <1>3
<1>6. \A i \in DOMAIN inbox'[c] :
        Reply(c, inbox'[c][i]) => i + 0 \in DOMAIN inbox[c] /\ inbox'[c][i] = inbox[c][i + 0]
  BY <1>2, <1>3
<1> QED
  BY <1>2, <1>3, <1>4, <1>5, <1>6, OneKept

\* What the client itself does: it sends when nothing is on the way.
LEMMA OneOwn ==
    ASSUME Typed, NEW c \in Clients, HasOwnAddress(c), OneOnItsWay(c), ClientStep(c),
           ~Interrupt(c)
    PROVE  OneOnItsWay(c)'
<1>1. /\ rs \in Seq(AllPackets) /\ inbox[c] \in Seq(AllPackets) /\ IsABag(net)
      /\ pc \in [Clients -> {"off", "prompt", "waiting"}] /\ typed \in [Clients -> 0 .. MaxLines]
      /\ inbox \in [Clients -> Seq(AllPackets)]
  BY DEF Typed
<1>2. /\ rs' = rs
      /\ \/ net' = net /\ ~SendLine(c) /\ ~SendShutdown(c)
         \/ \E n \in Sizes : \E k \in 1 .. MaxLines :
              /\ SendLine(c) /\ k = typed'[c]
              /\ net' = Sent(Packet(Addr[c], Server, Line(c, k, n)))
         \/ SendShutdown(c) /\ net' = Sent(Packet(Addr[c], Server, Shutdown))
  BY ClientSends
<1>3. pc[c] # "waiting" => /\ \A q \in BagToSet(net) : ~Either(c, q)
                           /\ \A i \in DOMAIN rs : ~Request(c, rs[i])
                           /\ \A i \in DOMAIN inbox[c] : ~Reply(c, inbox[c][i])
  BY DEF OneOnItsWay, InNet, InServer, InClient
<1>4. CASE Receive(c)
  <2>1. /\ inbox[c] # <<>> /\ pc[c] = "waiting" /\ inbox'[c] = Tail(inbox[c])
        /\ UNCHANGED <<typed, net>>
    BY <1>1, <1>4 DEF Receive
  <2>2. /\ 1 \in DOMAIN inbox[c] /\ Head(inbox[c]) = inbox[c][1] /\ DOMAIN inbox'[c] \subseteq Nat
        /\ DOMAIN rs \subseteq Nat
        /\ \A i \in DOMAIN inbox'[c] : /\ i + 1 \in DOMAIN inbox[c] /\ i + 1 # 1
                                       /\ inbox'[c][i] = inbox[c][i + 1]
    BY <1>1, <2>1, SocketIndices
  <2>3. ForMe(c, Head(inbox[c])) <=> Reply(c, inbox[c][1])
    BY <2>2 DEF ForMe, Reply
  <2>4. CASE Reply(c, inbox[c][1])
    <3>1. /\ \A q \in BagToSet(net) : ~Either(c, q)
          /\ \A i \in DOMAIN rs : ~Request(c, rs[i])
          /\ \A i \in DOMAIN inbox[c] : Reply(c, inbox[c][i]) => i = 1
      BY <2>2, <2>4 DEF OneOnItsWay, InNet, InServer, InClient
    <3>2. \A i \in DOMAIN inbox'[c] : ~Reply(c, inbox'[c][i])
      BY <2>2, <3>1
    <3>3. \A q \in BagToSet(net)' : ~Either(c, q)
      BY <2>1, <3>1 DEF BagToSet
    <3>4. \A i \in DOMAIN rs' : ~Request(c, rs'[i])
      BY <1>2, <3>1
    <3> QED  BY <3>2, <3>3, <3>4, OneNone
  <2>5. CASE ~Reply(c, inbox[c][1])
    <3>1. pc'[c] = pc[c] /\ typed'[c] = typed[c]
      BY <1>4, <2>1, <2>3, <2>5 DEF Receive, WaitsOn
    <3>2. \A q \in BagToSet(net)' : Either(c, q) => q \in BagToSet(net) /\ net'[q] = net[q]
      BY <2>1 DEF BagToSet
    <3>3. \A i \in DOMAIN rs' : Request(c, rs'[i]) => i + 0 \in DOMAIN rs /\ rs'[i] = rs[i + 0]
      BY <1>2, <2>2
    <3>4. DOMAIN rs' \subseteq Nat
      BY <1>2, <2>2
    <3> QED  BY <2>2, <3>1, <3>2, <3>3, <3>4, OneKept
  <2> QED  BY <2>4, <2>5
<1>5. CASE SendLine(c)
  <2>1. /\ pc[c] = "prompt" /\ pc'[c] = "waiting" /\ inbox' = inbox
    BY <1>1, <1>5 DEF SendLine, Types
  <2>2. ~SendShutdown(c)
    BY <1>1, <2>1 DEF SendShutdown, Close
  <2>3. PICK n \in Sizes, k \in 1 .. MaxLines :
          k = typed'[c] /\ net' = Sent(Packet(Addr[c], Server, Line(c, k, n)))
    BY <1>2, <1>5, <2>2
  <2>4. PICK p : p = Packet(Addr[c], Server, Line(c, k, n))
    OBVIOUS
  <2>5. Either(c, p) /\ p.text.line = <<c, typed'[c]>>
    <3>1. p.src = Addr[c] /\ p.dst = Server /\ p.text = Line(c, k, n)
      BY <2>4, PacketFields
    <3>2. Line(c, k, n).line = <<c, k>> /\ Shutdown.line = <<>>
      BY DEF Line, Shutdown
    <3>3. <<c, k>> # <<>>
      OBVIOUS
    <3> QED  BY <2>3, <3>1, <3>2, <3>3 DEF Either, Request
  <2>6. BagToSet(net)' = BagToSet(net) \cup {p} /\ (p \notin BagToSet(net) => net'[p] = 1)
    BY <1>1, <2>3, <2>4, BagSent DEF BagToSet
  <2>7. \A q \in BagToSet(net)' : Either(c, q) => q = p /\ net'[q] = 1
    BY <1>3, <2>1, <2>5, <2>6
  <2>8. /\ \A i \in DOMAIN rs' : ~Request(c, rs'[i])
        /\ \A i \in DOMAIN inbox'[c] : ~Reply(c, inbox'[c][i])
    BY <1>2, <1>3, <2>1
  <2> QED  BY <2>1, <2>5, <2>7, <2>8, OneInNet
<1>6. CASE ~Receive(c) /\ ~SendLine(c)
  <2>1. pc[c] # "waiting" /\ (inbox'[c] = inbox[c] \/ inbox'[c] = <<>>)
    BY <1>1, <1>6 DEF ClientStep, User, Open, SendFails, SendShutdown, EndOfInput, Types, Close
  <2>2. \A q \in BagToSet(net)' : ~Either(c, q)
    <3>1. CASE net' = net
      BY <1>3, <2>1, <3>1 DEF BagToSet
    <3>2. CASE net' = Sent(Packet(Addr[c], Server, Shutdown))
      <4>1. PICK p : p = Packet(Addr[c], Server, Shutdown)
        OBVIOUS
      <4>2. ~Either(c, p)
        BY <4>1, OwnAddress, PacketFields DEF Either, Request, Reply
      <4>3. BagToSet(net)' = BagToSet(net) \cup {p}
        BY <1>1, <3>2, <4>1, BagSent DEF BagToSet
      <4> QED  BY <1>3, <2>1, <4>2, <4>3
    <3> QED  BY <1>2, <1>6, <3>1, <3>2
  <2>3. /\ \A i \in DOMAIN rs' : ~Request(c, rs'[i])
        /\ \A i \in DOMAIN inbox'[c] : ~Reply(c, inbox'[c][i])
    BY <1>2, <1>3, <2>1
  <2> QED  BY <2>2, <2>3, OneNone
<1> QED
  BY <1>4, <1>5, <1>6

\* The server is stopped and started: what it held is gone.
LEMMA OneRestart ==
    ASSUME Typed, NEW c \in Clients, OneOnItsWay(c), Crash \/ Restart
    PROVE  OneOnItsWay(c)'
<1>1. rs \in Seq(AllPackets) /\ inbox[c] \in Seq(AllPackets)
  BY DEF Typed
<1>2. /\ UNCHANGED <<pc, typed, inbox, net>> /\ (rs' = rs \/ rs' = <<>>)
  BY DEF Crash, Restart, client
<1>3. DOMAIN rs \subseteq Nat /\ DOMAIN inbox[c] \subseteq Nat /\ DOMAIN rs' \subseteq Nat
  BY <1>1, <1>2, SocketIndices
<1>4. \A q \in BagToSet(net)' : Either(c, q) => q \in BagToSet(net) /\ net'[q] = net[q]
  BY <1>2 DEF BagToSet
<1>5. \A i \in DOMAIN rs' : Request(c, rs'[i]) => i + 0 \in DOMAIN rs /\ rs'[i] = rs[i + 0]
  BY <1>2, <1>3
<1>6. \A i \in DOMAIN inbox'[c] :
        Reply(c, inbox'[c][i]) => i + 0 \in DOMAIN inbox[c] /\ inbox'[c][i] = inbox[c][i + 0]
  BY <1>2, <1>3
<1> QED
  BY <1>2, <1>3, <1>4, <1>5, <1>6, OneKept

\* As long as nothing is duplicated and nobody gives up, no step leaves a client with
\* two packets, or with one that it does not wait for.
LEMMA OneByOneStep ==
    ASSUME Typed, ByServer, OneByOne, Next
    PROVE  OneByOne'
<1> SUFFICES ASSUME Calm', NEW c \in Clients, HasOwnAddress(c)
             PROVE  OneOnItsWay(c)'
  BY DEF OneByOne, HasOwnAddress
<1>1. /\ Calm /\ ~Duplicate /\ \A d \in Clients : ~Interrupt(d)
  BY FaultsCount DEF Calm
<1>2. OneOnItsWay(c)
  BY <1>1 DEF OneByOne
<1>3. CASE Deliver
  BY <1>2, <1>3, OneDeliver
<1>4. CASE Serve
  BY <1>2, <1>4, OneServe
<1>5. CASE Crash \/ Restart
  BY <1>2, <1>5, OneRestart
<1>6. CASE ClientStep(c)
  BY <1>1, <1>2, <1>6, OneOwn
<1>7. CASE \E d \in Clients \ {c} : ClientStep(d)
  BY <1>2, <1>7, OneOther
<1> QED
  BY <1>1, <1>3, <1>4, <1>5, <1>6, <1>7 DEF Next, ClientStep

\* So the answer a client takes is that to its last line.
LEMMA AnswerStep ==
    ASSUME Typed, Sockets, ByServer, OneByOne, Next, Calm, NEW c \in Clients, HasOwnAddress(c),
           Len(shown'[c]) > Len(shown[c])
    PROVE  shown'[c][Len(shown'[c])].line = <<c, typed[c]>>
<1>1. shown[c] \in Seq(Texts) /\ Len(shown[c]) \in Nat
  BY DEF Typed
<1>2. shown'[c] # shown[c] /\ shown'[c] # <<>>
  BY <1>1
<1>3. PICK p \in AllPackets :
        /\ p = inbox[c][1] /\ 1 \in DOMAIN inbox[c] /\ Reply(c, p)
        /\ shown'[c] = Append(shown[c], p.text)
  BY <1>2, ShownGrows
<1>4. p.text.line = <<c, typed[c]>>
  BY <1>3 DEF OneByOne, OneOnItsWay
<1>5. shown'[c][Len(shown'[c])] = p.text
  <2>1. p.text \in Texts
    BY DEF AllPackets
  <2> QED  BY <1>1, <1>3, <2>1, AppendProperties
<1> QED
  BY <1>4, <1>5

-----------------------------------------------------------------------------
(* The answers of a session are numbered one after the other.                 *)

\* A shutdown on the way was, or the client has just left with it.
LEMMA ShutdownsGrow ==
    ASSUME Typed, ByServer, Next, NEW c \in Clients, HasOwnAddress(c), NEW p \in Packets',
           p.src = Addr[c], p.text = Shutdown
    PROVE  p \in Packets \/ (pc[c] = "prompt" /\ pc'[c] = "off" /\ UNCHANGED sessions)
<1>1. Addr[c] # Server /\ \A d \in Clients : Addr[d] = Addr[c] => d = c
  BY OwnAddress
<1>2. \A d \in Clients, n \in Sizes, k \in 1 .. MaxLines :
        p # Packet(Addr[d], Server, Line(d, k, n))
  <2> TAKE d \in Clients, n \in Sizes, k \in 1 .. MaxLines
  <2>1. Line(d, k, n).line # Shutdown.line
    BY DEF Line, Shutdown
  <2> QED  BY <2>1, PacketFields
<1>3. \A h, n : p # Packet(Server, h.src, Echoed(h.text, n))
  BY <1>1, PacketFields
<1>4. p \in Packets \/ \E d \in Clients : SendShutdown(d) /\ p = Packet(Addr[d], Server, Shutdown)
  BY <1>2, <1>3, PacketsGrow
<1>5. SendShutdown(c) => pc[c] = "prompt" /\ pc'[c] = "off" /\ UNCHANGED sessions
  <2>1. pc \in [Clients -> {"off", "prompt", "waiting"}]
    BY DEF Typed
  <2> QED  BY <2>1 DEF SendShutdown, Types, Close
<1> QED
  BY <1>1, <1>4, <1>5, PacketFields

\* A client that is shown something, or that an answer is on its way to, runs.
LEMMA Running ==
    ASSUME Sockets, NEW c \in Clients, OneOnItsWay(c)
    PROVE  /\ shown[c] # <<>> => pc[c] # "off"
           /\ Replies(c) # {} => pc[c] = "waiting"
<1>1. Replies(c) # {} => InNet(c) \/ InClient(c)
  BY DEF Replies, InNet, InClient, Either
<1> QED
  BY <1>1 DEF Sockets, OneOnItsWay

\* A step that leaves a client, its counter and its packets alone.
LEMMA NumberedKept ==
    ASSUME Typed, Sockets, ByServer, Next, NEW c \in Clients, HasOwnAddress(c), OneOnItsWay(c),
           Numbered(c),
           pc'[c] = pc[c], sessions'[c] = sessions[c], shown'[c] = shown[c],
           pc[c] # "off" => \A n : CounterIs(c, n) => CounterIs(c, n)',
           Asked(c)' => Asked(c), Replies(c)' \subseteq Replies(c)
    PROVE  Numbered(c)'
<1>1. \A p \in Packets' : p.src = Addr[c] /\ p.text = Shutdown =>
         sessions'[c] > 0 /\ (pc'[c] # "off" => sessions'[c] > 1)
  <2> SUFFICES ASSUME NEW p \in Packets', p.src = Addr[c], p.text = Shutdown
               PROVE  sessions'[c] > 0 /\ (pc'[c] # "off" => sessions'[c] > 1)
    OBVIOUS
  <2>1. p \in Packets
    BY ShutdownsGrow
  <2> QED  BY <2>1 DEF Numbered
<1>2. PICK last : last = Last(c)
  OBVIOUS
<1>3. Last(c)' = last
  BY <1>2 DEF Last
<1>4. shown'[c] # <<>> /\ (pc'[c] = "prompt" \/ Asked(c)') => CounterIs(c, last)'
  BY <1>2, Running DEF Numbered
<1>5. \A p \in Replies(c)' : CounterIs(c, p.text.counters[1])'
  BY Running DEF Numbered
<1>6. \A p \in Replies(c)' : Follows(c, p.text.counters[1])'
  <2>1. \A n : Follows(c, n) => Follows(c, n)'
    BY <1>2, <1>3 DEF Follows
  <2> QED  BY <2>1 DEF Numbered
<1>7. CounterIs(c, last)' => CounterIs(c, Last(c))'
  BY <1>3 DEF CounterIs
<1> QED
  BY <1>1, <1>4, <1>5, <1>6, <1>7 DEF Numbered

\* The counter of a client where the table stays as it is.
LEMMA CounterSame ==
    ASSUME NEW c \in Clients, buckets' = buckets, sessions'[c] = sessions[c]
    PROVE  \A n : CounterIs(c, n) => CounterIs(c, n)'
<1>1. P!Heard' = P!Heard /\ P!Value(Addr[c])' = P!Value(Addr[c])
  BY DEF P!Heard, P!Value, P!Present, P!Place, P!Chain
<1> QED
  BY <1>1 DEF CounterIs

\* The counter of a client where the server serves another key.
LEMMA CounterOther ==
    ASSUME Typed, NEW c \in Clients, NEW k \in Keys, k # Addr[c], P!CtNext(k) \/ P!CtReset(k),
           sessions'[c] = sessions[c]
    PROVE  \A n : CounterIs(c, n) => CounterIs(c, n)'
<1>1. P!TableInv
  BY DEF Typed, P!TableInv
<1>2. Addr[c] \in Keys \ {k}
  BY DEF Keys
<1>3. /\ Addr[c] \in P!Heard' <=> Addr[c] \in P!Heard
      /\ Addr[c] \in P!Heard => P!Value(Addr[c])' = P!Value(Addr[c])
  <2>1. CASE P!CtNext(k)
    BY <1>1, <1>2, <2>1, TableAssumption, P!NextStep
  <2>2. CASE P!CtReset(k)
    BY <1>1, <1>2, <2>2, TableAssumption, P!ResetStep
  <2> QED  BY <2>1, <2>2
<1> QED
  BY <1>2, <1>3 DEF CounterIs

\* A packet that arrives.
LEMMA NumberedDeliver ==
    ASSUME Typed, Sockets, ByServer, Next, NEW c \in Clients, HasOwnAddress(c), OneOnItsWay(c),
           Numbered(c), Deliver
    PROVE  Numbered(c)'
<1>1. rs \in Seq(AllPackets) /\ inbox[c] \in Seq(AllPackets) /\ IsABag(net)
  BY DEF Typed
<1>2. PICK p \in BagToSet(net), got \in SUBSET Listeners :
         /\ p \in AllPackets /\ net' = Left(p)
         /\ rs' = IF Server \in got THEN Append(rs, p) ELSE rs
         /\ inbox'[c] = IF c \in got THEN Append(inbox[c], p) ELSE inbox[c]
         /\ UNCHANGED <<pc, sessions, shown, buckets>>
  BY DeliverIs
<1>3. BagToSet(net)' \subseteq BagToSet(net)
  BY <1>1, <1>2, BagLeft DEF BagToSet
<1>4. /\ \A i \in DOMAIN rs' : rs'[i] = p \/ (i \in DOMAIN rs /\ rs'[i] = rs[i])
      /\ \A i \in DOMAIN inbox'[c] : \/ inbox'[c][i] = p
                                     \/ i \in DOMAIN inbox[c] /\ inbox'[c][i] = inbox[c][i]
  BY <1>1, <1>2, SocketIndices
<1>5. Asked(c)' => Asked(c)
  BY <1>2, <1>3, <1>4 DEF Asked, InServer, Request
<1>6. Replies(c)' \subseteq Replies(c)
  BY <1>2, <1>3, <1>4 DEF Replies, Reply
<1> QED
  BY <1>2, <1>5, <1>6, CounterSame, NumberedKept

\* What another client does.
LEMMA NumberedOther ==
    ASSUME Typed, Sockets, ByServer, Next, NEW c \in Clients, HasOwnAddress(c), OneOnItsWay(c),
           Numbered(c), NEW d \in Clients \ {c}, ClientStep(d)
    PROVE  Numbered(c)'
<1>1. IsABag(net)
  BY DEF Typed
<1>2. /\ rs' = rs /\ buckets' = buckets /\ pc'[c] = pc[c] /\ sessions'[c] = sessions[c]
      /\ shown'[c] = shown[c] /\ inbox'[c] = inbox[c]
      /\ \/ net' = net
         \/ \E t : net' = Sent(Packet(Addr[d], Server, t))
  BY ClientSends
<1>3. \A q \in BagToSet(net)' : Either(c, q) => q \in BagToSet(net)
  <2>1. CASE net' = net
    BY <2>1 DEF BagToSet
  <2>2. ASSUME NEW t, net' = Sent(Packet(Addr[d], Server, t))
        PROVE  \A q \in BagToSet(net)' : Either(c, q) => q \in BagToSet(net)
    <3>1. PICK p : p = Packet(Addr[d], Server, t)
      OBVIOUS
    <3>2. ~Either(c, p)
      BY <3>1, OwnAddress, PacketFields DEF Either, Request, Reply
    <3>3. BagToSet(net)' = BagToSet(net) \cup {p}
      BY <1>1, <2>2, <3>1, BagSent DEF BagToSet
    <3> QED  BY <3>2, <3>3
  <2> QED  BY <1>2, <2>1, <2>2
<1>4. Asked(c)' => Asked(c)
  BY <1>2, <1>3 DEF Asked, InServer, Request, Either
<1>5. Replies(c)' \subseteq Replies(c)
  BY <1>2, <1>3 DEF Replies, Reply, Either
<1> QED
  BY <1>2, <1>4, <1>5, CounterSame, NumberedKept

\* The server is started again.
LEMMA NumberedRestart ==
    ASSUME Typed, Sockets, ByServer, Next, NEW c \in Clients, HasOwnAddress(c), OneOnItsWay(c),
           Numbered(c), Restart
    PROVE  Numbered(c)'
<1>1. UNCHANGED <<pc, sessions, shown, inbox, net, rs, buckets>>
  BY DEF Restart, client
<1>2. Asked(c)' => Asked(c)
  BY <1>1 DEF Asked, InServer, Request, BagToSet
<1>3. Replies(c)' \subseteq Replies(c)
  BY <1>1 DEF Replies, Reply, BagToSet
<1> QED
  BY <1>1, <1>2, <1>3, CounterSame, NumberedKept

\* The line of a client is counted: its counter is the next one.
LEMMA CounterNext ==
    ASSUME Typed, NEW c \in Clients, NEW n, NEW k \in Keys, k = Addr[c], P!CtNext(k),
           n = P!Issued(k), sessions'[c] = sessions[c]
    PROVE  /\ CounterIs(c, n)'
           /\ \A m : CounterIs(c, m) => n = (m + 1) % CounterMod \/ (n = 1 /\ sessions[c] > 1)
<1>1. P!TableInv
  BY DEF Typed, P!TableInv
<1>2. k \in P!Heard' /\ P!Value(k)' = n
  BY <1>1, TableAssumption, P!NextStep
<1>3. k \in P!Heard <=> P!Present(k)
  BY DEF P!Heard
<1>4. /\ k \in P!Heard => n = (P!Value(k) + 1) % CounterMod
      /\ k \notin P!Heard => n = 1
  BY <1>3 DEF P!Issued, P!Step, P!Value
<1> QED
  BY <1>2, <1>4 DEF CounterIs

\* The shutdown of a client: there is no counter.
LEMMA CounterReset ==
    ASSUME Typed, NEW c \in Clients, NEW k \in Keys, k = Addr[c], P!CtReset(k),
           sessions'[c] > 1
    PROVE  \A n : CounterIs(c, n)'
<1>1. P!TableInv
  BY DEF Typed, P!TableInv
<1>2. k \notin P!Heard'
  BY <1>1, TableAssumption, P!ResetStep
<1> QED
  BY <1>2 DEF CounterIs

\* A packet that the server takes up.
LEMMA NumberedServe ==
    ASSUME Typed, Sockets, ByServer, OwnLines, Next, NEW c \in Clients, HasOwnAddress(c),
           OneOnItsWay(c), Numbered(c), Serve
    PROVE  Numbered(c)'
<1>1. /\ rs \in Seq(AllPackets) /\ inbox[c] \in Seq(AllPackets) /\ IsABag(net)
  BY DEF Typed
<1>2. PICK h \in AllPackets :
         /\ rs # <<>> /\ h = Head(rs) /\ rs' = Tail(rs) /\ UNCHANGED client
         /\ h.src \in Keys /\ h.text \in Texts
         /\ \/ h.dst # Server /\ UNCHANGED <<buckets, net>>
            \/ h.dst = Server /\ h.text = Shutdown /\ P!CtReset(h.src) /\ net' = net
            \/ /\ h.dst = Server /\ h.text # Shutdown /\ P!CtNext(h.src)
               /\ \E n \in 0 .. CounterMod - 1 :
                    /\ n = P!Issued(h.src)
                    /\ (net' = net \/ net' = Sent(Packet(Server, h.src, Echoed(h.text, n))))
  BY ServeIs
<1>3. /\ 1 \in DOMAIN rs /\ rs[1] = h
      /\ \A i \in DOMAIN rs' : i + 1 \in DOMAIN rs /\ i + 1 # 1 /\ rs'[i] = rs[i + 1]
  BY <1>1, <1>2, SocketIndices
<1>4. pc'[c] = pc[c] /\ sessions'[c] = sessions[c] /\ shown'[c] = shown[c] /\ inbox'[c] = inbox[c]
  BY <1>2 DEF client
<1>5. h \in Packets
  BY <1>3, InPackets
<1>6. InServer(c)' => InServer(c)
  BY <1>3 DEF InServer, Request
<1>7. CASE ~Request(c, h)
  <2>1. pc[c] # "off" => \A n : CounterIs(c, n) => CounterIs(c, n)'
    <3>1. CASE buckets' = buckets
      BY <1>4, <3>1, CounterSame
    <3>2. CASE h.src # Addr[c] /\ (P!CtReset(h.src) \/ P!CtNext(h.src))
      BY <1>2, <1>4, <3>2, CounterOther
    <3>3. CASE pc[c] # "off" /\ h.src = Addr[c] /\ h.text = Shutdown /\ P!CtReset(h.src)
      <4>1. sessions'[c] > 1
        BY <1>4, <1>5, <3>3 DEF Numbered
      <4> QED  BY <1>2, <3>3, <4>1, CounterReset
    <3> QED  BY <1>2, <1>7, <3>1, <3>2, <3>3 DEF Request
  <2>2. \A q \in BagToSet(net)' : Either(c, q) => q \in BagToSet(net)
    <3>1. CASE net' = net
      BY <3>1 DEF BagToSet
    <3>2. ASSUME NEW n, h.dst = Server, h.text # Shutdown,
                 net' = Sent(Packet(Server, h.src, Echoed(h.text, n)))
          PROVE  \A q \in BagToSet(net)' : Either(c, q) => q \in BagToSet(net)
      <4>1. PICK p : p = Packet(Server, h.src, Echoed(h.text, n))
        OBVIOUS
      <4>2. h.src # Addr[c]
        BY <1>7, <3>2 DEF Request
      <4>3. ~Either(c, p)
        BY <4>1, <4>2, OwnAddress, PacketFields DEF Either, Request, Reply
      <4>4. BagToSet(net)' = BagToSet(net) \cup {p}
        BY <1>1, <3>2, <4>1, BagSent DEF BagToSet
      <4> QED  BY <4>3, <4>4
    <3> QED  BY <1>2, <3>1, <3>2
  <2>3. Asked(c)' => Asked(c)
    BY <1>6, <2>2 DEF Asked, Request, Either
  <2>4. Replies(c)' \subseteq Replies(c)
    BY <1>4, <2>2 DEF Replies, Reply, Either
  <2> QED  BY <1>4, <2>1, <2>3, <2>4, NumberedKept
<1>8. CASE Request(c, h)
  <2>1. /\ pc[c] = "waiting" /\ h.src = Addr[c] /\ h.dst = Server /\ h.text # Shutdown
        /\ \A q \in BagToSet(net) : ~Either(c, q)
        /\ \A i \in DOMAIN rs : Request(c, rs[i]) => i = 1
        /\ \A i \in DOMAIN inbox[c] : ~Reply(c, inbox[c][i])
        /\ Asked(c)
    BY <1>3, <1>8 DEF OneOnItsWay, InNet, InServer, InClient, Asked, Request
  <2>2. h.text.counters = <<>>
    BY <1>5, <2>1 DEF OwnLines
  <2>3. ~InServer(c)'
    BY <1>3, <2>1 DEF InServer, Request
  <2>4. PICK n \in 0 .. CounterMod - 1 :
          /\ n = P!Issued(h.src)
          /\ (net' = net \/ net' = Sent(Packet(Server, h.src, Echoed(h.text, n))))
    BY <1>2, <2>1
  <2>5. /\ CounterIs(c, n)'
        /\ \A m : CounterIs(c, m) => n = (m + 1) % CounterMod \/ (n = 1 /\ sessions[c] > 1)
    BY <1>2, <1>4, <2>1, <2>4, CounterNext
  <2>6. \A q \in BagToSet(net)' : Either(c, q) => Reply(c, q) /\ q.text.counters[1] = n
    <3>1. CASE net' = net
      BY <2>1, <3>1 DEF BagToSet
    <3>2. CASE net' = Sent(Packet(Server, h.src, Echoed(h.text, n)))
      <4>1. PICK p : p = Packet(Server, h.src, Echoed(h.text, n))
        OBVIOUS
      <4>2. p.src = Server /\ p.dst = Addr[c] /\ p.text = Echoed(h.text, n)
        BY <2>1, <4>1, PacketFields
      <4>3. p.text.counters = Append(<<>>, n)
        BY <1>2, <2>2, <4>2, EchoedType
      <4>4. p.text.counters[1] = n
        BY <4>3
      <4>5. BagToSet(net)' = BagToSet(net) \cup {p}
        BY <1>1, <3>2, <4>1, BagSent DEF BagToSet
      <4> QED  BY <2>1, <4>2, <4>4, <4>5 DEF Reply
    <3> QED  BY <2>4, <3>1, <3>2
  <2>7. ~Asked(c)'
    <3>1. \A q : ~(Request(c, q) /\ Reply(c, q))
      BY OwnAddress DEF Request, Reply
    <3>2. \A q \in BagToSet(net)' : ~Request(c, q)
      BY <2>6, <3>1 DEF Either
    <3> QED  BY <2>3, <3>2 DEF Asked, Request
  <2>8. \A q \in Replies(c)' : q.text.counters[1] = n
    BY <1>4, <2>1, <2>6 DEF Replies, Reply, Either
  <2>9. Follows(c, n)'
    <3>1. shown[c] # <<>> => CounterIs(c, Last(c))
      BY <2>1 DEF Numbered
    <3>2. PICK last : last = Last(c)
      OBVIOUS
    <3>3. Last(c)' = last
      BY <1>4, <3>2 DEF Last
    <3> QED  BY <1>4, <2>5, <3>1, <3>2, <3>3 DEF Follows
  <2>10. \A p \in Packets' : p.src = Addr[c] /\ p.text = Shutdown =>
           sessions'[c] > 0 /\ (pc'[c] # "off" => sessions'[c] > 1)
    <3> SUFFICES ASSUME NEW p \in Packets', p.src = Addr[c], p.text = Shutdown
                 PROVE  sessions'[c] > 0 /\ (pc'[c] # "off" => sessions'[c] > 1)
      OBVIOUS
    <3>1. p \in Packets
      BY <2>1, ShutdownsGrow
    <3> QED  BY <1>4, <3>1 DEF Numbered
  <2>11. \A q \in Replies(c)' : CounterIs(c, q.text.counters[1])' /\ Follows(c, q.text.counters[1])'
    BY <2>5, <2>8, <2>9
  <2> QED  BY <1>4, <2>1, <2>7, <2>10, <2>11 DEF Numbered
<1> QED
  BY <1>7, <1>8

\* What the client itself does.
LEMMA NumberedOwn ==
    ASSUME Typed, Sockets, ByServer, Next, NEW c \in Clients, HasOwnAddress(c), OneOnItsWay(c),
           Numbered(c), ClientStep(c), ~Interrupt(c)
    PROVE  Numbered(c)'
<1>1. /\ inbox[c] \in Seq(AllPackets) /\ IsABag(net) /\ shown[c] \in Seq(Texts)
      /\ pc \in [Clients -> {"off", "prompt", "waiting"}] /\ shown \in [Clients -> Seq(Texts)]
      /\ inbox \in [Clients -> Seq(AllPackets)] /\ sessions \in [Clients -> 0 .. MaxSessions]
      /\ MaxSessions \in Nat
  BY EchoAssumption DEF Typed
<1>2. /\ rs' = rs /\ buckets' = buckets
      /\ \/ net' = net /\ ~SendLine(c) /\ ~SendShutdown(c)
         \/ \E t : net' = Sent(Packet(Addr[c], Server, t))
  BY ClientSends
<1>3. \A q \in BagToSet(net)' : Reply(c, q) => q \in BagToSet(net)
  <2>1. CASE net' = net
    BY <2>1 DEF BagToSet
  <2>2. ASSUME NEW t, net' = Sent(Packet(Addr[c], Server, t))
        PROVE  \A q \in BagToSet(net)' : Reply(c, q) => q \in BagToSet(net)
    <3>1. PICK p : p = Packet(Addr[c], Server, t)
      OBVIOUS
    <3>2. ~Reply(c, p)
      BY <3>1, OwnAddress, PacketFields DEF Reply
    <3>3. BagToSet(net)' = BagToSet(net) \cup {p}
      BY <1>1, <2>2, <3>1, BagSent DEF BagToSet
    <3> QED  BY <3>2, <3>3
  <2> QED  BY <1>2, <2>1, <2>2
<1>4. CASE Receive(c)
  <2>1. /\ inbox[c] # <<>> /\ pc[c] = "waiting" /\ inbox'[c] = Tail(inbox[c])
        /\ UNCHANGED <<sessions, net>>
    BY <1>1, <1>4 DEF Receive
  <2>2. /\ 1 \in DOMAIN inbox[c] /\ Head(inbox[c]) = inbox[c][1]
        /\ \A i \in DOMAIN inbox'[c] : /\ i + 1 \in DOMAIN inbox[c] /\ i + 1 # 1
                                       /\ inbox'[c][i] = inbox[c][i + 1]
    BY <1>1, <2>1, SocketIndices
  <2>3. PICK p \in AllPackets : p = inbox[c][1]
    BY <1>1, <2>2
  <2>4. ForMe(c, Head(inbox[c])) <=> Reply(c, p)
    BY <2>2, <2>3 DEF ForMe, Reply
  <2>5. Asked(c)' => Asked(c)
    BY <1>2, <2>1 DEF Asked, InServer, Request, BagToSet
  <2>6. Replies(c)' \subseteq Replies(c)
    BY <1>3, <2>2 DEF Replies, Reply
  <2>7. CASE Reply(c, p)
    <3>1. /\ \A q \in BagToSet(net) : ~Either(c, q)
          /\ \A i \in DOMAIN rs : ~Request(c, rs[i])
          /\ \A i \in DOMAIN inbox[c] : Reply(c, inbox[c][i]) => i = 1
      BY <2>2, <2>3, <2>7 DEF OneOnItsWay, InNet, InServer, InClient
    <3>2. Replies(c)' = {}
      BY <1>3, <2>2, <3>1 DEF Replies, Reply, Either
    <3>3. pc'[c] = "prompt" /\ shown'[c] = Append(shown[c], p.text)
      BY <1>1, <1>4, <2>2, <2>3, <2>4, <2>7 DEF Receive
    <3>4. PICK n : n = p.text.counters[1]
      OBVIOUS
    <3>5. CounterIs(c, n)
      <4>1. p \in Replies(c)
        BY <2>2, <2>3, <2>7 DEF Replies
      <4> QED  BY <3>4, <4>1 DEF Numbered
    <3>6. Last(c)' = n
      <4>1. p.text \in Texts
        BY DEF AllPackets
      <4>2. shown'[c][Len(shown'[c])] = p.text
        BY <1>1, <3>3, <4>1, AppendProperties
      <4> QED  BY <3>4, <4>2 DEF Last
    <3>7. CounterIs(c, n)'
      BY <1>2, <2>1, <3>5, CounterSame
    <3>8. CounterIs(c, Last(c))'
      BY <3>6, <3>7 DEF CounterIs
    <3>9. \A q \in Packets' : q.src = Addr[c] /\ q.text = Shutdown =>
            sessions'[c] > 0 /\ (pc'[c] # "off" => sessions'[c] > 1)
      <4> SUFFICES ASSUME NEW q \in Packets', q.src = Addr[c], q.text = Shutdown
                   PROVE  sessions'[c] > 1
        BY <1>1, <2>1
      <4>1. q \in Packets
        BY <2>1, ShutdownsGrow
      <4> QED  BY <2>1, <4>1 DEF Numbered
    <3> QED  BY <3>2, <3>8, <3>9 DEF Numbered
  <2>8. CASE ~Reply(c, p)
    <3>1. pc'[c] = pc[c] /\ shown'[c] = shown[c]
      BY <1>4, <2>1, <2>4, <2>8 DEF Receive, WaitsOn
    <3> QED  BY <1>2, <2>1, <2>5, <2>6, <3>1, CounterSame, NumberedKept
  <2> QED  BY <2>7, <2>8
<1>5. CASE ~Receive(c)
  <2>1. pc[c] # "waiting" /\ (inbox'[c] = inbox[c] \/ inbox'[c] = <<>>)
    BY <1>1, <1>5 DEF ClientStep, User, Open, SendLine, SendFails, SendShutdown, EndOfInput, Types,
       Close
  <2>2. \/ shown'[c] = <<>>
        \/ pc[c] = "prompt" /\ UNCHANGED <<sessions, shown>>
    BY <1>1, <1>5 DEF ClientStep, User, Open, SendLine, SendFails, SendShutdown, EndOfInput, Types,
       Close
  <2>3. Replies(c)' = {}
    <3>1. Replies(c)' \subseteq Replies(c)
      BY <1>3, <2>1 DEF Replies, Reply
    <3> QED  BY <2>1, <3>1, Running
  <2>4. shown'[c] # <<>> => CounterIs(c, Last(c))'
    <3> SUFFICES ASSUME shown'[c] # <<>>
                 PROVE  CounterIs(c, Last(c))'
      OBVIOUS
    <3>1. pc[c] = "prompt" /\ UNCHANGED <<sessions, shown>>
      BY <2>2
    <3>2. PICK last : last = Last(c)
      OBVIOUS
    <3>3. Last(c)' = last
      BY <3>1, <3>2 DEF Last
    <3>4. CounterIs(c, last)
      BY <3>1, <3>2 DEF Numbered
    <3>5. CounterIs(c, last)'
      BY <1>2, <3>1, <3>4, CounterSame
    <3> QED  BY <3>3, <3>5 DEF CounterIs
  <2>5. \A q \in Packets' : q.src = Addr[c] /\ q.text = Shutdown =>
          sessions'[c] > 0 /\ (pc'[c] # "off" => sessions'[c] > 1)
    <3> SUFFICES ASSUME NEW q \in Packets', q.src = Addr[c], q.text = Shutdown
                 PROVE  sessions'[c] > 0 /\ (pc'[c] # "off" => sessions'[c] > 1)
      OBVIOUS
    <3>1. CASE q \in Packets
      <4>1. sessions[c] > 0 /\ (pc[c] # "off" => sessions[c] > 1)
        BY <3>1 DEF Numbered
      <4>2. CASE Open(c)
        BY <1>1, <4>1, <4>2 DEF Open
      <4>3. CASE ~Open(c)
        <5>1. sessions' = sessions /\ pc[c] # "off"
          BY <1>5, <4>3 DEF ClientStep, User, SendLine, SendFails, SendShutdown, EndOfInput, Types
        <5> QED  BY <4>1, <5>1
      <4> QED  BY <4>2, <4>3
    <3>2. CASE q \notin Packets
      <4>1. pc[c] = "prompt" /\ pc'[c] = "off" /\ UNCHANGED sessions
        BY <3>2, ShutdownsGrow
      <4> QED  BY <4>1 DEF Sockets
    <3> QED  BY <3>1, <3>2
  <2> QED  BY <2>3, <2>4, <2>5 DEF Numbered
<1> QED
  BY <1>4, <1>5

\* As long as nothing is duplicated, nobody gives up and the server does not stop, every
\* step keeps the counters in turn.
LEMMA InTurnStep ==
    ASSUME Typed, Sockets, ByServer, OwnLines, OneByOne, InTurn, Next
    PROVE  InTurn'
<1> SUFFICES ASSUME Calm', faults'.crash = 0, NEW c \in Clients, HasOwnAddress(c)
             PROVE  Numbered(c)'
  BY DEF InTurn, HasOwnAddress
<1>1. Calm /\ faults.crash = 0 /\ ~Duplicate /\ ~Crash /\ \A d \in Clients : ~Interrupt(d)
  BY FaultsCount DEF Calm
<1>2. OneOnItsWay(c) /\ Numbered(c)
  BY <1>1 DEF OneByOne, InTurn
<1>3. CASE Deliver
  BY <1>2, <1>3, NumberedDeliver
<1>4. CASE Serve
  BY <1>2, <1>4, NumberedServe
<1>5. CASE Restart
  BY <1>2, <1>5, NumberedRestart
<1>6. CASE ClientStep(c)
  BY <1>1, <1>2, <1>6, NumberedOwn
<1>7. CASE \E d \in Clients \ {c} : ClientStep(d)
  BY <1>2, <1>7, NumberedOther
<1> QED
  BY <1>1, <1>3, <1>4, <1>5, <1>6, <1>7 DEF Next, ClientStep

\* A client is started again, never back.
LEMMA SessionsGrow ==
    ASSUME Typed, Next, NEW c \in Clients
    PROVE  sessions[c] \in Nat /\ sessions'[c] \in Nat /\ sessions'[c] >= sessions[c]
<1>1. sessions \in [Clients -> 0 .. MaxSessions] /\ MaxSessions \in Nat
  BY EchoAssumption DEF Typed
<1>2. CASE ClientStep(c)
  BY <1>1, <1>2 DEF ClientStep, User, Open, SendLine, SendFails, SendShutdown, EndOfInput,
     Interrupt, Receive
<1>3. CASE \E d \in Clients \ {c} : ClientStep(d)
  <2>1. sessions'[c] = sessions[c]
    BY <1>3, ClientSends
  <2> QED  BY <1>1, <2>1
<1>4. CASE Deliver
  BY <1>1, <1>4, DeliverIs
<1>5. CASE Serve \/ Crash \/ Restart \/ Duplicate
  BY <1>1, <1>5 DEF Serve, Crash, Restart, Duplicate, client
<1> QED
  BY <1>2, <1>3, <1>4, <1>5 DEF Next, ClientStep

\* So the answer that is printed has the number after the one before.
LEMMA ConsecutiveStep ==
    ASSUME Typed, Sockets, ByServer, InTurn, ConsecutiveNumbers, Next
    PROVE  ConsecutiveNumbers'
<1> SUFFICES ASSUME Calm', faults'.crash = 0, NEW c \in Clients, HasOwnAddress(c),
                    NEW i \in 2 .. Len(shown'[c])
             PROVE  \/ shown'[c][i].counters[1]
                          = (shown'[c][i - 1].counters[1] + 1) % CounterMod
                    \/ shown'[c][i].counters[1] = 1 /\ sessions'[c] > 1
  BY DEF ConsecutiveNumbers, HasOwnAddress, Calm
<1>1. Calm /\ faults.crash = 0
  BY FaultsCount DEF Calm
<1>2. shown[c] \in Seq(Texts) /\ Len(shown[c]) \in Nat
  BY DEF Typed
<1>3. \A j \in 2 .. Len(shown[c]) :
        \/ shown[c][j].counters[1] = (shown[c][j - 1].counters[1] + 1) % CounterMod
        \/ shown[c][j].counters[1] = 1 /\ sessions[c] > 1
  BY <1>1 DEF ConsecutiveNumbers, Calm
<1>4. sessions[c] \in Nat /\ sessions'[c] \in Nat /\ sessions'[c] >= sessions[c]
  BY SessionsGrow
<1>5. sessions[c] > 1 => sessions'[c] > 1
  BY <1>4
<1>6. CASE shown'[c] = shown[c]
  BY <1>3, <1>5, <1>6
<1>7. CASE shown'[c] = <<>>
  BY <1>7
<1>8. CASE shown'[c] # shown[c] /\ shown'[c] # <<>>
  <2>1. PICK p \in AllPackets :
          /\ p = inbox[c][1] /\ 1 \in DOMAIN inbox[c] /\ Reply(c, p)
          /\ shown'[c] = Append(shown[c], p.text)
    BY <1>8, ShownGrows
  <2>2. Follows(c, p.text.counters[1])
    <3>1. p \in Replies(c)
      BY <2>1 DEF Replies
    <3> QED  BY <1>1, <3>1 DEF InTurn, Numbered
  <2>3. p.text \in Texts
    BY DEF AllPackets
  <2>4. /\ Len(shown'[c]) = Len(shown[c]) + 1 /\ shown'[c][Len(shown[c]) + 1] = p.text
        /\ \A j \in 1 .. Len(shown[c]) : shown'[c][j] = shown[c][j]
    BY <1>2, <2>1, <2>3, AppendProperties
  <2>5. CASE i = Len(shown[c]) + 1
    <3>1. Len(shown[c]) \in 1 .. Len(shown[c]) /\ shown[c] # <<>> /\ i - 1 = Len(shown[c])
      BY <1>2, <2>4, <2>5
    <3>2. \/ p.text.counters[1] = (shown[c][Len(shown[c])].counters[1] + 1) % CounterMod
          \/ p.text.counters[1] = 1 /\ sessions[c] > 1
      BY <2>2, <3>1 DEF Follows, Last
    <3> QED  BY <1>5, <2>4, <2>5, <3>1, <3>2
  <2>6. CASE i # Len(shown[c]) + 1
    <3>1. i \in 2 .. Len(shown[c]) /\ i - 1 \in 1 .. Len(shown[c]) /\ i \in 1 .. Len(shown[c])
      BY <1>2, <2>4, <2>6
    <3> QED  BY <1>3, <1>5, <2>4, <3>1
  <2> QED  BY <2>5, <2>6
<1> QED
  BY <1>6, <1>7, <1>8

-----------------------------------------------------------------------------
(* The theorems.                                                              *)

\* Nothing is on the way at first.
LEMMA InitInvariant == Init => IInv
<1> SUFFICES ASSUME Init
             PROVE  IInv
  OBVIOUS
<1> USE DEF Init
<1>1. Typed
  <2>1. /\ MaxLines \in Nat /\ MaxSessions \in Nat /\ MaxLosses \in Nat /\ MaxDups \in Nat
        /\ MaxInterrupts \in Nat /\ MaxCrashes \in Nat
    BY EchoAssumption
  <2>2. <<>> \in Seq(Texts) /\ <<>> \in Seq(AllPackets)
    OBVIOUS
  <2>3. P!TableTypeOK /\ P!OneNodePerKey
    <3>1. buckets = [b \in Buckets |-> <<>>]
      BY DEF CT!CtInit
    <3> QED  BY <3>1 DEF P!TableTypeOK, P!OneNodePerKey
  <2>4. IsABag(net) /\ BagToSet(net) = {}
    BY DEF EmptyBag, SetToBag, IsABag, BagToSet
  <2>5. faults \in [loss : 0 .. MaxLosses, dup : 0 .. MaxDups,
                    interrupt : 0 .. MaxInterrupts, crash : 0 .. MaxCrashes]
    BY <2>1 DEF NoFaults
  <2> QED  BY <2>1, <2>2, <2>3, <2>4, <2>5 DEF Typed
<1>2. Packets = {} /\ BagToSet(net) = {}
  <2>1. BagToSet(net) = {}
    BY DEF EmptyBag, SetToBag, BagToSet
  <2>2. \A c \in Clients : inbox[c] = <<>>
    OBVIOUS
  <2> QED  BY <2>1, <2>2 DEF Packets
<1>3. Sockets /\ NoCrossTalk /\ ConsecutiveNumbers
  BY DEF Sockets, NoCrossTalk, ConsecutiveNumbers
<1>4. ByServer /\ OwnLines
  BY <1>2 DEF ByServer, OwnLines
<1>5. \A c \in Clients : OneOnItsWay(c)
  BY <1>2 DEF OneOnItsWay, InNet, InServer, InClient
<1>6. \A c \in Clients : Numbered(c)
  <2> TAKE c \in Clients
  <2>1. Replies(c) = {} /\ shown[c] = <<>>
    BY <1>2 DEF Replies
  <2> QED  BY <1>2, <2>1 DEF Numbered
<1> QED
  BY <1>1, <1>3, <1>4, <1>5, <1>6 DEF IInv, OneByOne, InTurn

\* The invariant is inductive.
LEMMA StepInvariant == IInv /\ [Next]_vars => IInv'
<1> SUFFICES ASSUME IInv, [Next]_vars
             PROVE  IInv'
  OBVIOUS
<1>1. CASE Next
  <2>1. /\ Typed /\ Sockets /\ ByServer /\ OwnLines /\ NoCrossTalk
        /\ OneByOne /\ InTurn /\ ConsecutiveNumbers
    BY DEF IInv
  <2>2. Typed' /\ Sockets' /\ ByServer' /\ OwnLines'
    BY <1>1, <2>1, TypedStep, SocketsStep, ByServerStep, OwnLinesStep
  <2>3. NoCrossTalk' /\ OneByOne'
    BY <1>1, <2>1, NoCrossTalkStep, OneByOneStep
  <2>4. InTurn' /\ ConsecutiveNumbers'
    BY <1>1, <2>1, InTurnStep, ConsecutiveStep
  <2> QED  BY <2>2, <2>3, <2>4 DEF IInv
<1>2. CASE UNCHANGED vars
  <2>1. /\ UNCHANGED <<pc, sessions, typed, shown, inbox, up, rs, buckets, net, faults>>
        /\ BagToSet(net)' = BagToSet(net)
    BY <1>2 DEF vars, client, server, BagToSet
  <2>2. Typed' /\ Sockets' /\ NoCrossTalk' /\ ConsecutiveNumbers'
    BY <2>1 DEF IInv, Typed, Sockets, NoCrossTalk, ConsecutiveNumbers, P!TableTypeOK,
       P!OneNodePerKey, IsABag
  <2>3. Packets' = Packets
    BY <2>1 DEF Packets
  <2>4. ByServer' /\ OwnLines'
    BY <2>1, <2>3 DEF IInv, ByServer, OwnLines
  <2>5. OneByOne'
    BY <2>1 DEF IInv, OneByOne, Calm, OneOnItsWay, InNet, InServer, InClient
  <2>6. \A c \in Clients : /\ (\A n : CounterIs(c, n) => CounterIs(c, n)')
                           /\ Asked(c)' = Asked(c) /\ Replies(c)' = Replies(c) /\ Last(c)' = Last(c)
    <3> TAKE c \in Clients
    <3>1. \A n : CounterIs(c, n) => CounterIs(c, n)'
      BY <2>1, CounterSame
    <3> QED  BY <2>1, <3>1 DEF Asked, InServer, Replies, Last
  <2>7. InTurn'
    <3> SUFFICES ASSUME Calm', faults'.crash = 0, NEW c \in Clients, HasOwnAddress(c)
                 PROVE  Numbered(c)'
      BY DEF InTurn, HasOwnAddress
    <3>1. Numbered(c)
      BY <2>1 DEF IInv, InTurn, Calm
    <3>2. PICK last : last = Last(c)
      OBVIOUS
    <3>3. shown'[c] # <<>> /\ (pc'[c] = "prompt" \/ Asked(c)') => CounterIs(c, Last(c))'
      <4>1. shown'[c] # <<>> /\ (pc'[c] = "prompt" \/ Asked(c)') => CounterIs(c, last)'
        BY <2>1, <2>6, <3>1, <3>2 DEF Numbered
      <4>2. Last(c)' = last
        BY <2>6, <3>2
      <4> QED  BY <4>1, <4>2 DEF CounterIs
    <3>4. \A p \in Replies(c)' : CounterIs(c, p.text.counters[1])'
                                 /\ Follows(c, p.text.counters[1])'
      BY <2>1, <2>6, <3>1 DEF Numbered, Follows
    <3> QED  BY <2>1, <2>3, <3>1, <3>3, <3>4 DEF Numbered
  <2> QED  BY <2>2, <2>4, <2>5, <2>7 DEF IInv
<1> QED
  BY <1>1, <1>2

\* The inductive invariant holds in every reachable state.
THEOREM Invariant == SafeSpec => []IInv
<1> QED
  BY InitInvariant, StepInvariant, PTL DEF SafeSpec

\* Packets are packets, texts fit their packets, the counters their width, and the bounds
\* on users and network are kept.
THEOREM TypeCorrect == SafeSpec => []TypeOK
<1>1. IInv => TypeOK
  <2> SUFFICES ASSUME IInv
               PROVE  TypeOK
    OBVIOUS
  <2>1. Typed /\ Sockets /\ ByServer
    BY DEF IInv
  <2>2. CT!TableTypeOK
    BY <2>1 DEF Typed, P!TableTypeOK, CT!TableTypeOK, P!Node, CT!Node
  <2>3. \A p \in BagToSet(net) : /\ Server \in {p.src, p.dst} /\ {p.src, p.dst} \subseteq Keys
                                 /\ p.text.size <= MaxPayload
    <3> TAKE p \in BagToSet(net)
    <3>1. p \in AllPackets /\ Server \in {p.src, p.dst}
      BY <2>1, InPackets DEF Typed, ByServer
    <3>2. p.src \in Keys /\ p.dst \in Keys /\ p.text.size \in 0 .. MaxPayload
      BY <3>1 DEF AllPackets, Texts
    <3> QED  BY <3>1, <3>2, EchoAssumption
  <2> QED  BY <2>1, <2>2, <2>3 DEF Typed, Sockets, TypeOK
<1> QED
  BY <1>1, Invariant, PTL

\* Whatever is lost, duplicated or late, and whoever shares its host, a client with an
\* address of its own prints echoes of its own lines only.
THEOREM EchoesOwnLines == SafeSpec => []NoCrossTalk
<1>1. IInv => NoCrossTalk
  BY DEF IInv
<1> QED
  BY <1>1, Invariant, PTL

\* Without duplicates, interrupted clients and restarts of the server the answers of a
\* session are numbered one after the other.
THEOREM AnswersInTurn == SafeSpec => []ConsecutiveNumbers
<1>1. IInv => ConsecutiveNumbers
  BY DEF IInv
<1> QED
  BY <1>1, Invariant, PTL

\* Without duplicates and interrupted clients an answer is that to the last line sent.
THEOREM AnswersLastLine == SafeSpec => AnswersItsLine
<1> DEFINE Taken == faults.dup = 0 /\ faults.interrupt = 0 =>
         \A c \in Clients : HasOwnAddress(c) /\ Len(shown'[c]) > Len(shown[c]) =>
           shown'[c][Len(shown'[c])].line = <<c, typed[c]>>
<1>1. IInv /\ [Next]_vars => [Taken]_vars
  <2> SUFFICES ASSUME IInv, Next
               PROVE  Taken
    OBVIOUS
  <2>1. ASSUME Calm, NEW c \in Clients, HasOwnAddress(c), Len(shown'[c]) > Len(shown[c])
        PROVE  shown'[c][Len(shown'[c])].line = <<c, typed[c]>>
    BY <2>1, AnswerStep DEF IInv
  <2> QED  BY <2>1 DEF Calm
<1> QED
  BY <1>1, Invariant, PTL DEF SafeSpec, AnswersItsLine
=============================================================================
