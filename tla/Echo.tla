-------------------------------- MODULE Echo ---------------------------------
(* src/echo_raw: the echo server, its clients and the packets between them.  All *)
(* of them use raw sockets: every UDP packet that reaches a host is copied to    *)
(* every process there, which sorts out its own by address and port, and nothing *)
(* is checked, acknowledged or sent again.  The table of counters is ClientTable. *)
EXTENDS Naturals, Sequences, FiniteSets, Bags

CONSTANTS
    Clients,        \* client processes
    Addr,           \* their addresses, as a function; records of host and port
    Server,         \* the server's address
    Buckets, HashKey, CounterMod,     \* see ClientTable
    MaxPayload,     \* RAWUDP_MAX_PAYLOAD
    Sizes,          \* lengths of the lines users type, "shutdown" aside
    MaxLines,       \* bound: lines of a user, without the shutdowns
    MaxSessions,    \* bound: times a client is started
    MaxLosses,      \* bound: packets lost on the way to some process
    MaxDups,        \* bound: packets duplicated
    MaxInterrupts,  \* bound: clients stopped while they wait
    MaxCrashes      \* bound: times the server is stopped and started again

Keys == {Addr[c] : c \in Clients} \cup {Server}

\* An address is its host and port; the table takes them as keys; "shutdown" fits
\* into a packet.
ASSUME EchoAssumption ==
    /\ Server \notin Clients /\ \A k \in Keys : k = [host |-> k.host, port |-> k.port]
    /\ HashKey \in [Keys -> Buckets] /\ CounterMod \in Nat \ {0, 1}
    /\ Sizes \subseteq 0 .. MaxPayload - 1 /\ 8 <= MaxPayload
    /\ MaxPayload \in Nat /\ MaxLines \in Nat /\ MaxSessions \in Nat
    /\ MaxLosses \in Nat /\ MaxDups \in Nat /\ MaxInterrupts \in Nat /\ MaxCrashes \in Nat

VARIABLES
    pc,             \* each client: "off", "prompt" or "waiting" for its answer
    sessions,       \* times it was started
    typed,          \* lines its user typed, over all sessions
    shown,          \* answers it printed in this session
    inbox,          \* its raw receiving socket
    up, rs,         \* whether the server runs, and its raw receiving socket
    buckets,        \* its table
    net,            \* the bag of packets on the way
    faults          \* what the environment did so far

CT == INSTANCE ClientTable

client == <<pc, sessions, typed, shown, inbox>>
server == <<up, rs, buckets>>
vars   == <<client, server, net, faults>>

NoFaults == [loss |-> 0, dup |-> 0, interrupt |-> 0, crash |-> 0]

\* A payload: what a user typed, then one " <counter>" for each time it was echoed.
Shutdown == [line |-> <<>>, size |-> 8, counters |-> <<>>]
Line(c, k, size) == [line |-> <<c, k>>, size |-> size, counters |-> <<>>]
Packet(from, to, text) == [src |-> from, dst |-> to, text |-> text]

\* The length of " %u".
Digits(n) == 1 + Cardinality({d \in 1 .. 9 : 10 ^ d <= n})
Suffix(n) == 1 + Digits(n)

TypeOK ==
    /\ pc \in [Clients -> {"off", "prompt", "waiting"}]
    /\ sessions \in [Clients -> 0 .. MaxSessions] /\ typed \in [Clients -> 0 .. MaxLines]
    /\ up \in BOOLEAN /\ CT!TableTypeOK /\ IsABag(net)
    /\ faults.loss \in 0 .. MaxLosses /\ faults.dup \in 0 .. MaxDups
    /\ faults.interrupt \in 0 .. MaxInterrupts /\ faults.crash \in 0 .. MaxCrashes
    /\ \A p \in BagToSet(net) : /\ Server \in {p.src, p.dst} /\ {p.src, p.dst} \subseteq Keys
                                /\ p.text.size <= MaxPayload
    /\ \A c \in Clients : shown[c] # <<>> => pc[c] # "off"
    /\ ~up => rs = <<>>

Fault(f) == faults' = [faults EXCEPT ![f] = @ + 1]

-----------------------------------------------------------------------------
(* The network.                                                               *)

Sent(p) == net (+) SetToBag({p})
Left(p) == net (-) SetToBag({p})

Hears(c, p) == pc[c] # "off" /\ Addr[c].host = p.dst.host

\* A packet reaches its host: the kernel copies it to the sockets of the processes
\* there, whatever the port.  A copy may be lost (also: calloc() fails later).
Arrive(p, got) ==
    LET all == {c \in Clients : Hears(c, p)}
                 \cup (IF up /\ p.dst.host = Server.host THEN {Server} ELSE {})
    IN  /\ BagIn(p, net) /\ got \subseteq all
        /\ IF got = all THEN UNCHANGED faults ELSE faults.loss < MaxLosses /\ Fault("loss")
        /\ net' = Left(p)
        /\ inbox' = [c \in Clients |-> IF c \in got THEN Append(inbox[c], p) ELSE inbox[c]]
        /\ rs' = IF Server \in got THEN Append(rs, p) ELSE rs
        /\ UNCHANGED <<pc, sessions, typed, shown, up, buckets>>

Listeners == Clients \cup {Server}

Deliver == \E p \in BagToSet(net) : \E got \in SUBSET Listeners : Arrive(p, got)

Duplicate ==
    /\ faults.dup < MaxDups /\ Fault("dup")
    /\ \E p \in BagToSet(net) : net' = Sent(p)
    /\ UNCHANGED <<client, server>>

-----------------------------------------------------------------------------
(* The client.                                                                *)

\* It opens its raw sockets; a socket of an earlier session is gone.
Open(c) ==
    /\ pc[c] = "off" /\ sessions[c] < MaxSessions
    /\ sessions' = [sessions EXCEPT ![c] = @ + 1]
    /\ pc' = [pc EXCEPT ![c] = "prompt"]
    /\ shown' = [shown EXCEPT ![c] = <<>>]
    /\ inbox' = [inbox EXCEPT ![c] = <<>>]
    /\ UNCHANGED <<typed, server, net, faults>>

Close(c) ==
    /\ pc' = [pc EXCEPT ![c] = "off"]
    /\ shown' = [shown EXCEPT ![c] = <<>>]
    /\ inbox' = [inbox EXCEPT ![c] = <<>>]

Types(c) ==
    /\ pc[c] = "prompt" /\ typed[c] < MaxLines
    /\ typed' = [typed EXCEPT ![c] = @ + 1]

\* A line is sent, and its answer awaited for as long as it takes.
SendLine(c) ==
    /\ Types(c)
    /\ \E n \in Sizes : net' = Sent(Packet(Addr[c], Server, Line(c, typed'[c], n)))
    /\ pc' = [pc EXCEPT ![c] = "waiting"]
    /\ UNCHANGED <<sessions, shown, inbox, server, faults>>

\* sendto() fails: the next line, please.
SendFails(c) ==
    /\ Types(c)
    /\ UNCHANGED <<pc, sessions, shown, inbox, server, net, faults>>

\* "shutdown", not counted with the lines, is sent and not waited for.
SendShutdown(c) ==
    /\ pc[c] = "prompt"
    /\ net' = Sent(Packet(Addr[c], Server, Shutdown))
    /\ Close(c)
    /\ UNCHANGED <<sessions, typed, server, faults>>

EndOfInput(c) ==
    /\ pc[c] = "prompt" /\ Close(c)
    /\ UNCHANGED <<sessions, typed, server, net, faults>>

\* The user gives up waiting.
Interrupt(c) ==
    /\ pc[c] = "waiting" /\ faults.interrupt < MaxInterrupts /\ Fault("interrupt")
    /\ Close(c)
    /\ UNCHANGED <<sessions, typed, server, net>>

\* The three comparisons of the waiting loop.
\* (Mutant: the port the packet is for is not compared.)
FromServer(c, p) == p.src = Server /\ p.dst.host = Addr[c].host
ForMe(c, p) == p.src = Server /\ p.dst = Addr[c]

\* A packet that is not for this client: wait on.
\* (Mutant: break for continue.)
GivesUp(c) == pc' = [pc EXCEPT ![c] = "prompt"]
WaitsOn(c) == UNCHANGED pc

Receive(c) ==
    /\ pc[c] = "waiting" /\ inbox[c] # <<>>
    /\ inbox' = [inbox EXCEPT ![c] = Tail(@)]
    /\ LET p == Head(inbox[c])
       IN  IF ForMe(c, p)
           THEN /\ shown' = [shown EXCEPT ![c] = Append(@, p.text)]
                /\ pc' = [pc EXCEPT ![c] = "prompt"]
           ELSE WaitsOn(c) /\ UNCHANGED shown
    /\ UNCHANGED <<sessions, typed, server, net, faults>>

-----------------------------------------------------------------------------
(* The server.                                                                *)

Echoed(text, n) == [text EXCEPT !.size = @ + Suffix(n), !.counters = Append(@, n)]

\* rawudp_build_ipv4_udp() refuses what exceeds the payload; no answer then.
\* (Mutants: the last byte is not used; the length is not looked at; the answer
\* is cut to the payload.)
FitsAlways(text) == TRUE
FitsBelow(text) == text.size < MaxPayload
Fits(text) == text.size <= MaxPayload

Cut(p, n) == Sent(Packet(p.dst, p.src, IF Fits(Echoed(p.text, n)) THEN Echoed(p.text, n)
                                                                   ELSE p.text))
Answer(p, n) == IF Fits(Echoed(p.text, n))
                THEN Sent(Packet(p.dst, p.src, Echoed(p.text, n)))
                ELSE net

Serve ==
    /\ up /\ rs # <<>>
    /\ rs' = Tail(rs)
    /\ LET p == Head(rs)
       IN  \/ /\ p.dst.port # Server.port
              /\ UNCHANGED <<buckets, net>>
           \/ /\ p.dst.port = Server.port /\ p.text = Shutdown
              /\ CT!CtReset(p.src)
              /\ UNCHANGED net
           \/ /\ p.dst.port = Server.port /\ p.text # Shutdown
              /\ CT!CtNext(p.src)
              /\ net' = Answer(p, CT!Issued(p.src))
    /\ UNCHANGED <<client, up, faults>>

\* Stopped: the table goes with the process.
Crash ==
    /\ up /\ faults.crash < MaxCrashes /\ Fault("crash")
    /\ up' = FALSE /\ rs' = <<>>
    /\ buckets' = [b \in Buckets |-> <<>>]
    /\ UNCHANGED <<client, net>>

Restart ==
    /\ ~up /\ up' = TRUE
    /\ UNCHANGED <<client, rs, buckets, net, faults>>

-----------------------------------------------------------------------------
Init ==
    /\ pc = [c \in Clients |-> "off"]
    /\ sessions = [c \in Clients |-> 0] /\ typed = [c \in Clients |-> 0]
    /\ shown = [c \in Clients |-> <<>>] /\ inbox = [c \in Clients |-> <<>>]
    /\ up = TRUE /\ rs = <<>> /\ CT!CtInit
    /\ net = EmptyBag /\ faults = NoFaults

User(c) == Open(c) \/ SendLine(c) \/ SendFails(c) \/ SendShutdown(c) \/ EndOfInput(c)

Next ==
    \/ \E c \in Clients : User(c) \/ Interrupt(c) \/ Receive(c)
    \/ Serve \/ Crash \/ Restart
    \/ Deliver \/ Duplicate

\* The processes run and a packet arrives in the end; whether all of it arrives,
\* and what users do, is left open.
Fairness == WF_vars(Serve) /\ WF_vars(Deliver) /\ \A c \in Clients : WF_vars(Receive(c))

SafeSpec == Init /\ [][Next]_vars

Spec == SafeSpec /\ Fairness

-----------------------------------------------------------------------------
(* Safety.                                                                    *)

\* A client whose address no other client and not the server has.
HasOwnAddress(c) ==
    Addr[c] # Server /\ \A d \in Clients \ {c} : Addr[d] # Addr[c]

\* Whatever is lost, duplicated or late, a client with an address of its own prints
\* echoes of its own lines only, each echoed once.
NoCrossTalk ==
    \A c \in Clients : HasOwnAddress(c) =>
      \A i \in DOMAIN shown[c] : /\ shown[c][i].line[1] = c
                                 /\ Len(shown[c][i].counters) = 1

\* While nothing is duplicated and no client was stopped waiting, what a client
\* prints is the echo of the line it sent last: there is no number in a request by
\* which an answer could be matched, and late answers are told apart by nothing
\* but the waiting for each.
AnswersItsLine ==
    [][faults.dup = 0 /\ faults.interrupt = 0 =>
         \A c \in Clients : HasOwnAddress(c) /\ Len(shown'[c]) > Len(shown[c]) =>
           shown'[c][Len(shown'[c])].line = <<c, typed[c]>>]_vars

\* As long as nothing is duplicated, nobody gives up and the server does not stop,
\* the answers of a session are numbered one after the other, except that the
\* shutdown of an earlier session may come late and start again from 1.
ConsecutiveNumbers ==
    faults.dup = 0 /\ faults.interrupt = 0 /\ faults.crash = 0 =>
      \A c \in Clients : HasOwnAddress(c) =>
        \A i \in 2 .. Len(shown[c]) :
          LET before == shown[c][i - 1].counters[1]
              now    == shown[c][i].counters[1]
          IN  now = (before + 1) % CounterMod \/ (now = 1 /\ sessions[c] > 1)

-----------------------------------------------------------------------------
(* Liveness.                                                                  *)

\* A line that leaves room for the longest counter is answered, unless a packet
\* was lost or the server stopped: then the client waits for ever.
RoomForAnswer == \A n \in Sizes : n + Suffix(CounterMod - 1) <= MaxPayload

Answered ==
    RoomForAnswer =>
      \A c \in Clients :
        pc[c] = "waiting" ~> (pc[c] # "waiting" \/ faults.loss > 0 \/ faults.crash > 0)

\* Also when a client has the server's own address, so that the server answers its
\* own answers: they outgrow the payload.
EchoesEnd == <>[](net = EmptyBag /\ rs = <<>>)
=============================================================================
