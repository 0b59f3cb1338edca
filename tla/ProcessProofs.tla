---------------------------- MODULE ProcessProofs -----------------------------
(* Theorems about the exchanges over a queue, a segment and a FIFO, for any number of *)
(* servers and clients, and about the signal examples, the shell and the kernel module. *)
EXTENDS QueueExchange, SegmentExchange, FifoExchange, Signals, Shell, ProcSysVar, FiniteSetTheorems,
        SequenceTheorems, TLAPS

-------------------------------------------------------------------------------
(* The inductive invariant of the queues.                                        *)

QueueRecords == [messages : Seq(QProcesses), destroyed : BOOLEAN]

\* The types of QTypeOK; who sends, receives or removes has a queue.
QTyped ==
    /\ QTypeOK /\ qown \in [QProcesses -> Nat]
    /\ \A p \in QProcesses : qpc[p] \in {"send", "receive", "remove"} => qown[p] # NoQueue

\* A POSIX queue is never destroyed, a System V one loses its key with that; while it
\* can be found, a server is still to remove it: with System V one that has this queue.
Keeper(s) ==
    /\ qpc[s] \in {"send", "receive", "remove"}
    /\ qapi = "sysv" => qown[s] = qnamed
QKept ==
    /\ qapi = "posix" => \A q \in DOMAIN queues : ~queues[q].destroyed
    /\ qnamed # NoQueue => ~queues[qnamed].destroyed
    /\ qnamed # NoQueue /\ qkills = 0 => \E s \in QServers : Keeper(s)

QInv == QTyped /\ QKept /\ QDirectionsApart

-------------------------------------------------------------------------------
(* The inductive invariant of the segments.                                      *)

\* The types of STypeOK; who has started has a segment, unless it gave up; every segment
\* was made by a server.
STyped ==
    /\ STypeOK /\ sown \in [SProcesses -> Nat]
    /\ \A p \in SProcesses : spc[p] = "start" => sown[p] = NoSegment
    /\ \A p \in SProcesses : spc[p] \notin {"start", "end", "killed"} => sown[p] # NoSegment
    /\ \A p \in SProcesses : sheard[p] # Silence => sown[p] # NoSegment
    /\ \A c \in SClients : spc[c] \notin {"size", "clear", "remove"}
    /\ \A q \in DOMAIN segments : \E s \in SServers : sown[s] = q

\* A server whose run no other server's overlaps, and the clients that find its segment.
Lone(p, group) == \A o \in group \ {p} : sown[o] # sown[p]
SAlone(s) == sown[s] # NoSegment /\ Lone(s, SServers)
Guests(s) == {c \in SClients : sown[c] = sown[s]}

Early(s) == spc[s] \in {"size", "clear", "copy", "copied", "flag"}

\* Until such a server has spoken, the flag is 0 and clients only poll.
Opening(s) ==
    Early(s) =>
      /\ Seg(s).flag = 0
      /\ \A c \in Guests(s) : spc[c] \in {"poll", "end", "killed"}
      /\ spc[s] \in {"copied", "flag"} => Seg(s).text[1] = "Hi!"
      /\ spc[s] = "flag" => Seg(s).text = Hi

\* Then only clients write, and the flag is 2 when a reply is there.
Answering(s) ==
    spc[s] \in {"poll", "print"} =>
      /\ spc[s] = "print" => Seg(s).flag = 2
      /\ Seg(s).flag = 2 => Seg(s).text = Hello
      /\ \A c \in Guests(s) :
           /\ spc[c] \in {"copied", "flag"} => Seg(s).text[1] = "Hello!"
           /\ spc[c] = "flag" => Seg(s).text = Hello

\* What a client without rivals, or one yet to come, finds: the greeting with the flag.
Greeting(s) == Seg(s).flag \in {0, 1} /\ (Seg(s).flag = 1 => Seg(s).text = Hi)
Ungreeted(s) == Guests(s) = {} => Greeting(s)
Greeted(c, s) ==
    c \in Guests(s) /\ Lone(c, SClients) /\ spc[c] \in {"poll", "print"} =>
      Greeting(s) /\ (spc[c] = "print" => Seg(s).flag = 1)

HeardAnswer(s) == sheard[s] \in {Silence, Hello}
HeardGreeting(c, s) == c \in Guests(s) /\ Lone(c, SClients) => sheard[c] \in {Silence, Hi}

AloneKept(s) ==
    /\ Opening(s) /\ Answering(s) /\ HeardAnswer(s) /\ Ungreeted(s)
    /\ \A c \in SClients : Greeted(c, s) /\ HeardGreeting(c, s)

SInv == STyped /\ \A s \in SServers : SAlone(s) => AloneKept(s)

-------------------------------------------------------------------------------
(* The inductive invariant of the FIFOs.                                         *)

\* The types of FTypeOK; who has not opened a FIFO has none; no more greetings are in a
\* FIFO than servers have left it.
FGone(f) == {s \in FServers : fown[s] = f /\ fpc[s] \in {"end", "killed"}}
FTyped ==
    /\ FTypeOK
    /\ \A p \in FProcesses : fpc[p] = "start" => fown[p] = NoFifo
    /\ \A s \in FServers : fpc[s] = "open" => fown[s] = NoFifo
    /\ \A p \in FProcesses :
         fpc[p] \in {"opening", "write", "read", "unlink"} => fown[p] # NoFifo
    /\ \A s \in FServers : fpc[s] \notin {"read", "unlink"}
    /\ \A c \in FClients : fpc[c] \notin {"open", "write"}
    /\ \A f \in DOMAIN fifos : fifos[f] <= Cardinality(FGone(f))

\* A client that is alone at its FIFO reads when a greeting is there or yet to come.
FPromised(c) ==
    fpc[c] = "read" /\ FOthers(c, FClients) = {} /\ fkills = 0 =>
      fifos[fown[c]] > 0 \/ \E s \in FServers : fpc[s] = "write" /\ fown[s] = fown[c]

\* While there is a FIFO in the file system, somebody is on the way who will see to
\* its removal, or waits for that.
FKept ==
    fnamed # NoFifo /\ fkills = 0 =>
      \/ \E s \in FServers : fpc[s] = "open"
      \/ \E p \in FProcesses : fpc[p] = "opening" /\ fown[p] = fnamed
      \/ \E c \in FClients : fpc[c] \in {"read", "unlink"} /\ fown[c] = fnamed

FInv == FTyped /\ (\A c \in FClients : FPromised(c)) /\ FKept /\ GreetingIsHeard

-------------------------------------------------------------------------------
(* Sequences.                                                                    *)

\* A sequence of which one element is replaced.
LEMMA Replaced ==
    ASSUME NEW S, NEW s \in Seq(S), NEW q \in DOMAIN s, NEW r \in S,
           NEW t, t = [s EXCEPT ![q] = r]
    PROVE  /\ t \in Seq(S) /\ Len(t) = Len(s) /\ DOMAIN t = DOMAIN s /\ t[q] = r
           /\ \A i \in DOMAIN s : i # q => t[i] = s[i]
  OBVIOUS

\* A sequence of which one element is taken out.
LEMMA TakenOut ==
    ASSUME NEW S, NEW s \in Seq(S), NEW i \in DOMAIN s,
           NEW t, t = SubSeq(s, 1, i - 1) \o SubSeq(s, i + 1, Len(s))
    PROVE  t \in Seq(S) /\ Len(t) = Len(s) - 1
<1>1. Len(s) \in Nat /\ i \in 1 .. Len(s)
  OBVIOUS
<1>2. PICK a : a = SubSeq(s, 1, i - 1)
  OBVIOUS
<1>3. PICK b : b = SubSeq(s, i + 1, Len(s))
  OBVIOUS
<1>4. a \in Seq(S) /\ Len(a) = i - 1
  BY <1>1, <1>2
<1>5. b \in Seq(S) /\ Len(b) = Len(s) - i
  BY <1>1, <1>3
<1>6. a \o b \in Seq(S) /\ Len(a \o b) = Len(a) + Len(b)
  BY <1>4, <1>5, ConcatProperties
<1>7. t = a \o b
  BY <1>2, <1>3
<1>8. i - 1 + (Len(s) - i) = Len(s) - 1
  BY <1>1
<1>9. Len(a \o b) = Len(s) - 1
  BY <1>4, <1>5, <1>6, <1>8
<1> QED
  BY <1>6, <1>7, <1>9

\* A sequence with one element more.
LEMMA Appended ==
    ASSUME NEW S, NEW s \in Seq(S), NEW r \in S, NEW t, t = Append(s, r)
    PROVE  /\ t \in Seq(S) /\ Len(t) = Len(s) + 1 /\ t[Len(s) + 1] = r
           /\ DOMAIN s \subseteq DOMAIN t /\ \A i \in DOMAIN s : t[i] = s[i]
           /\ \A i \in DOMAIN t : i \in DOMAIN s \/ i = Len(s) + 1
           /\ Len(s) \in Nat /\ DOMAIN s = 1 .. Len(s) /\ DOMAIN t = 1 .. Len(s) + 1
  BY AppendProperties

-------------------------------------------------------------------------------
(* The queues.                                                                   *)

\* What an update of the messages of one queue is.
LEMMA QueueUpdated ==
    ASSUME QTyped, NEW q \in DOMAIN queues, NEW m \in Seq(QProcesses), Len(m) <= QCapacity,
           queues' = [queues EXCEPT ![q].messages = m]
    PROVE  /\ queues' \in Seq(QueueRecords) /\ Len(queues') = Len(queues)
           /\ DOMAIN queues' = DOMAIN queues
           /\ \A i \in DOMAIN queues' : /\ Len(queues'[i].messages) <= QCapacity
                                        /\ queues'[i].destroyed = queues[i].destroyed
<1>1. /\ queues \in Seq(QueueRecords)
      /\ \A i \in DOMAIN queues : Len(queues[i].messages) <= QCapacity
  BY DEF QTyped, QTypeOK, QueueRecords
<1>2. queues[q] \in QueueRecords
  BY <1>1
<1>3. PICK r : r = [queues[q] EXCEPT !.messages = m]
  OBVIOUS
<1>4. r \in QueueRecords /\ r.messages = m /\ r.destroyed = queues[q].destroyed
  BY <1>2, <1>3 DEF QueueRecords
<1>5. queues' = [queues EXCEPT ![q] = r]
  BY <1>3
<1>6. /\ queues' \in Seq(QueueRecords) /\ Len(queues') = Len(queues)
      /\ DOMAIN queues' = DOMAIN queues /\ queues'[q] = r
      /\ \A i \in DOMAIN queues : i # q => queues'[i] = queues[i]
  <2>1. PICK s : s = queues
    OBVIOUS
  <2>2. PICK t : t = queues'
    OBVIOUS
  <2>3. s \in Seq(QueueRecords) /\ q \in DOMAIN s /\ t = [s EXCEPT ![q] = r]
    BY <2>1, <2>2, <1>1, <1>5
  <2>4. /\ t \in Seq(QueueRecords) /\ Len(t) = Len(s) /\ DOMAIN t = DOMAIN s /\ t[q] = r
        /\ \A i \in DOMAIN s : i # q => t[i] = s[i]
    BY <2>3, <1>4, Replaced
  <2> QED
    BY <2>1, <2>2, <2>4
<1>7. ASSUME NEW i \in DOMAIN queues'
      PROVE  Len(queues'[i].messages) <= QCapacity /\ queues'[i].destroyed = queues[i].destroyed
  <2>1. CASE i = q
    BY <2>1, <1>4, <1>6
  <2>2. CASE i # q
    BY <2>2, <1>1, <1>6
  <2> QED
    BY <2>1, <2>2
<1> QED
  BY <1>6, <1>7

\* A process goes on.
LEMMA QueueGoes ==
    ASSUME QTyped, NEW p \in QProcesses, NEW to, QGoes(p, to),
           to \in {"start", "open", "send", "receive", "remove", "end", "killed"}
    PROVE  /\ qpc' \in [QProcesses -> {"start", "open", "send", "receive", "remove", "end", "killed"}]
           /\ qpc'[p] = to /\ \A o \in QProcesses \ {p} : qpc'[o] = qpc[o]
  BY DEF QTyped, QTypeOK, QGoes

\* The fields of QTypeOK, one by one.
LEMMA QueueTypes ==
    ASSUME QTyped
    PROVE  /\ qapi \in {"posix", "sysv"} /\ qnamed \in 0 .. Len(queues) /\ qnamed \in Nat
           /\ queues \in Seq(QueueRecords) /\ Len(queues) \in Nat
           /\ DOMAIN queues = 1 .. Len(queues)
           /\ \A q \in DOMAIN queues : Len(queues[q].messages) <= QCapacity
           /\ qown \in [QProcesses -> Nat]
           /\ \A p \in QProcesses : qown[p] \in 0 .. Len(queues)
           /\ \A p \in QProcesses : qpc[p] \in {"send", "receive", "remove"} =>
                qown[p] \in DOMAIN queues
           /\ qgot \in [QProcesses -> {Unheard} \cup {<<p>> : p \in QProcesses}]
           /\ qkills \in 0 .. QMaxKills /\ QMaxKills \in Nat /\ QCapacity \in Nat \ {0}
<1>1. /\ qown \in [QProcesses -> Nat]
      /\ \A p \in QProcesses : qown[p] \in 0 .. Len(queues)
      /\ \A p \in QProcesses : qpc[p] \in {"send", "receive", "remove"} => qown[p] # NoQueue
      /\ queues \in Seq(QueueRecords)
  BY DEF QTyped, QTypeOK, QueueRecords
<1>2. Len(queues) \in Nat /\ DOMAIN queues = 1 .. Len(queues)
  BY <1>1
<1>3. \A p \in QProcesses : qpc[p] \in {"send", "receive", "remove"} => qown[p] \in DOMAIN queues
  BY <1>1, <1>2 DEF NoQueue
<1> QED
  BY <1>1, <1>2, <1>3, QueueExchangeAssumption DEF QTyped, QTypeOK

\* A process goes on while the queues, and who has which, stay or grow as the types allow.
LEMMA QueueTypesNext ==
    ASSUME QTyped, NEW p \in QProcesses, NEW to, QGoes(p, to),
           to \in {"start", "open", "send", "receive", "remove", "end", "killed"},
           qapi' = qapi, queues' \in Seq(QueueRecords), Len(queues) <= Len(queues'),
           \A q \in DOMAIN queues' : Len(queues'[q].messages) <= QCapacity,
           qnamed' \in 0 .. Len(queues'),
           NEW n \in 0 .. Len(queues'), qown' = [qown EXCEPT ![p] = n],
           to \in {"send", "receive", "remove"} => n # NoQueue,
           qgot' \in [QProcesses -> {Unheard} \cup {<<o>> : o \in QProcesses}],
           qkills' \in 0 .. QMaxKills
    PROVE  QTyped'
<1>1. /\ qpc' \in [QProcesses -> {"start", "open", "send", "receive", "remove", "end", "killed"}]
      /\ qpc'[p] = to /\ \A o \in QProcesses \ {p} : qpc'[o] = qpc[o]
  BY QueueGoes
<1>2. Len(queues') \in Nat /\ Len(queues) \in Nat
  BY QueueTypes
<1>3. qown' \in [QProcesses -> Nat] /\ qown'[p] = n /\ \A o \in QProcesses \ {p} : qown'[o] = qown[o]
  BY QueueTypes, <1>2
<1>4. \A o \in QProcesses : qown'[o] \in 0 .. Len(queues')
  BY <1>2, <1>3, QueueTypes
<1>5. \A o \in QProcesses : qpc'[o] \in {"send", "receive", "remove"} => qown'[o] # NoQueue
  BY <1>1, <1>3 DEF QTyped
<1>6. QTypeOK'
  BY <1>1, <1>4, QueueTypes DEF QTypeOK, QueueRecords
<1> QED
  BY <1>3, <1>5, <1>6 DEF QTyped

\* The queue of who sends, receives or removes.
LEMMA OwnQueue ==
    ASSUME QTyped, NEW p \in QProcesses, qpc[p] \in {"send", "receive", "remove"}
    PROVE  /\ qown[p] \in DOMAIN queues /\ queues[qown[p]] \in QueueRecords
           /\ Own(p) = queues[qown[p]] /\ Own(p).messages \in Seq(QProcesses)
           /\ Len(Own(p).messages) <= QCapacity /\ Len(Own(p).messages) \in Nat
           /\ qown = [qown EXCEPT ![p] = qown[p]] /\ qown[p] # NoQueue
           /\ qown[p] \in 0 .. Len(queues)
<1>1. qown[p] \in DOMAIN queues /\ qown \in [QProcesses -> Nat] /\ queues \in Seq(QueueRecords)
  BY QueueTypes
<1>2. queues[qown[p]] \in QueueRecords /\ Len(queues[qown[p]].messages) <= QCapacity
  BY <1>1, QueueTypes
<1>3. queues[qown[p]].messages \in Seq(QProcesses)
  BY <1>2 DEF QueueRecords
<1>4. qown = [qown EXCEPT ![p] = qown[p]]
  BY <1>1
<1>5. qown[p] \in 0 .. Len(queues) /\ qown[p] # NoQueue
  BY QueueTypes DEF QTyped
<1> QED
  BY <1>1, <1>2, <1>3, <1>4, <1>5 DEF Own


\* What mq_send() and msgsnd() leave.
LEMMA SendLeaves ==
    ASSUME QTyped, NEW p \in QProcesses, QSend(p)
    PROVE  /\ queues' \in Seq(QueueRecords) /\ Len(queues') = Len(queues)
           /\ DOMAIN queues' = DOMAIN queues
           /\ \A i \in DOMAIN queues' : /\ Len(queues'[i].messages) <= QCapacity
                                        /\ queues'[i].destroyed = queues[i].destroyed
<1>1. qpc[p] \in {"send", "receive", "remove"}
  BY DEF QSend
<1>2. CASE UNCHANGED queues
  BY <1>2, QueueTypes DEF QueueRecords
<1>3. CASE ~ UNCHANGED queues
  <2>1. /\ Len(Own(p).messages) < QCapacity
        /\ queues' = [queues EXCEPT ![qown[p]].messages = Append(@, p)]
    BY <1>3 DEF QSend
  <2>2. PICK q : q = qown[p]
    OBVIOUS
  <2>3. PICK m : m = Append(queues[q].messages, p)
    OBVIOUS
  <2>4. /\ q \in DOMAIN queues /\ queues[q].messages \in Seq(QProcesses)
        /\ Len(queues[q].messages) < QCapacity
    BY <2>1, <2>2, <1>1, OwnQueue
  <2>5. m \in Seq(QProcesses) /\ Len(m) <= QCapacity
    BY <2>3, <2>4, QueueExchangeAssumption
  <2>6. queues' = [queues EXCEPT ![q].messages = m]
    BY <2>1, <2>2, <2>3
  <2> QED
    BY <2>4, <2>5, <2>6, QueueUpdated
<1> QED
  BY <1>2, <1>3

\* What mq_receive() and msgrcv() leave, and whose message they take.
LEMMA ReceiveLeaves ==
    ASSUME QTyped, NEW p \in QProcesses, QReceive(p)
    PROVE  /\ queues' \in Seq(QueueRecords) /\ Len(queues') = Len(queues)
           /\ DOMAIN queues' = DOMAIN queues
           /\ \A i \in DOMAIN queues' : /\ Len(queues'[i].messages) <= QCapacity
                                        /\ queues'[i].destroyed = queues[i].destroyed
           /\ \/ UNCHANGED qgot
              \/ \E o \in QProcesses : qgot' = [qgot EXCEPT ![p] = <<o>>] /\ Accepted(p, o)
<1>1. qpc[p] \in {"send", "receive", "remove"}
  BY DEF QReceive
<1>2. CASE UNCHANGED <<queues, qgot>>
  BY <1>2, QueueTypes DEF QueueRecords
<1>3. CASE ~ UNCHANGED <<queues, qgot>>
  <2>1. PICK i \in FirstFor(p) :
          /\ qgot' = [qgot EXCEPT ![p] = <<Own(p).messages[i]>>]
          /\ queues' = [queues EXCEPT ![qown[p]].messages =
                          SubSeq(@, 1, i - 1) \o SubSeq(@, i + 1, Len(@))]
    BY <1>3 DEF QReceive
  <2>2. PICK q : q = qown[p]
    OBVIOUS
  <2>3. PICK s : s = queues[q].messages
    OBVIOUS
  <2>4. PICK m : m = SubSeq(s, 1, i - 1) \o SubSeq(s, i + 1, Len(s))
    OBVIOUS
  <2>5. /\ q \in DOMAIN queues /\ s \in Seq(QProcesses) /\ Len(s) <= QCapacity
        /\ Len(s) \in Nat /\ s = Own(p).messages
    BY <2>2, <2>3, <1>1, OwnQueue
  <2>6. i \in DOMAIN s /\ Accepted(p, s[i]) /\ s[i] \in QProcesses
    BY <2>5 DEF FirstFor
  <2>7. m \in Seq(QProcesses) /\ Len(m) = Len(s) - 1
    BY <2>4, <2>5, <2>6, TakenOut
  <2>8. Len(m) <= QCapacity
    BY <2>5, <2>7, QueueExchangeAssumption
  <2>9. queues' = [queues EXCEPT ![q].messages = m]
    BY <2>1, <2>2, <2>3, <2>4
  <2>10. qgot' = [qgot EXCEPT ![p] = <<s[i]>>]
    BY <2>1, <2>5
  <2> QED
    BY <2>5, <2>6, <2>7, <2>8, <2>9, <2>10, QueueUpdated
<1> QED
  BY <1>2, <1>3

\* What an open of the queue by a server leaves.
LEMMA OpenLeaves ==
    ASSUME QTyped, NEW s \in QProcesses, ServerOpens(s)
    PROVE  /\ queues' \in Seq(QueueRecords) /\ Len(queues) <= Len(queues')
           /\ \A i \in DOMAIN queues' : Len(queues'[i].messages) <= QCapacity
           /\ qnamed' \in 0 .. Len(queues') /\ qnamed' # NoQueue
           /\ \A i \in DOMAIN queues' : queues'[i].destroyed => i \in DOMAIN queues /\ queues[i].destroyed
           /\ qnamed # NoQueue => qnamed' = qnamed /\ queues' = queues
           /\ qnamed = NoQueue => ~queues'[qnamed'].destroyed
           /\ qown' = [qown EXCEPT ![s] = qnamed']
<1>1. CASE qnamed = NoQueue
  <2>1. PICK r : r = [messages |-> <<>>, destroyed |-> FALSE]
    OBVIOUS
  <2>2. <<>> \in Seq(QProcesses)
    OBVIOUS
  <2>3. r \in QueueRecords /\ Len(r.messages) = 0 /\ ~r.destroyed
    BY <2>1, <2>2 DEF QueueRecords
  <2>4. PICK t : t = queues'
    OBVIOUS
  <2>5. t = Append(queues, r) /\ qnamed' = Len(t) /\ qown' = [qown EXCEPT ![s] = qnamed']
    BY <1>1, <2>1, <2>4 DEF ServerOpens
  <2>6. PICK u : u = queues
    OBVIOUS
  <2>7. u \in Seq(QueueRecords) /\ t = Append(u, r)
    BY <2>5, <2>6, QueueTypes
  <2>8. /\ t \in Seq(QueueRecords) /\ Len(t) = Len(u) + 1 /\ t[Len(u) + 1] = r
        /\ DOMAIN u \subseteq DOMAIN t /\ \A i \in DOMAIN u : t[i] = u[i]
        /\ \A i \in DOMAIN t : i \in DOMAIN u \/ i = Len(u) + 1
        /\ Len(u) \in Nat
    BY <2>3, <2>7, Appended
  <2>9. \A i \in DOMAIN t : Len(t[i].messages) <= QCapacity
    BY <2>3, <2>6, <2>8, QueueTypes
  <2>10. \A i \in DOMAIN t : t[i].destroyed => i \in DOMAIN u /\ u[i].destroyed
    BY <2>3, <2>8
  <2> QED
    BY <1>1, <2>3, <2>4, <2>5, <2>6, <2>8, <2>9, <2>10 DEF NoQueue
<1>2. CASE qnamed # NoQueue
  <2>1. queues' = queues /\ qnamed' = qnamed /\ qown' = [qown EXCEPT ![s] = qnamed']
    BY <1>2 DEF ServerOpens
  <2> QED
    BY <1>2, <2>1, QueueTypes
<1> QED
  BY <1>1, <1>2

\* What the removal of a queue leaves.
LEMMA RemoveLeaves ==
    ASSUME QTyped, NEW s \in QProcesses, ServerRemoves(s)
    PROVE  /\ queues' \in Seq(QueueRecords) /\ Len(queues') = Len(queues)
           /\ DOMAIN queues' = DOMAIN queues
           /\ \A i \in DOMAIN queues' : Len(queues'[i].messages) <= QCapacity
           /\ qnamed' \in {NoQueue, qnamed}
           /\ qapi = "posix" => qnamed' = NoQueue /\ queues' = queues
           /\ qapi = "sysv" => \A i \in DOMAIN queues :
                i # qown[s] => queues'[i].destroyed = queues[i].destroyed
           /\ qapi = "sysv" => (qnamed' # NoQueue => qnamed' = qnamed /\ qnamed # qown[s])
<1>1. CASE qapi = "posix"
  BY <1>1, QueueTypes DEF ServerRemoves, QRemoves
<1>2. CASE qapi = "sysv"
  <2>1. PICK r : r = [messages |-> <<>>, destroyed |-> TRUE]
    OBVIOUS
  <2>2. <<>> \in Seq(QProcesses)
    OBVIOUS
  <2>3. r \in QueueRecords /\ Len(r.messages) = 0
    BY <2>1, <2>2 DEF QueueRecords
  <2>4. /\ queues' = [queues EXCEPT ![qown[s]] = r]
        /\ qnamed' = IF qnamed = qown[s] THEN NoQueue ELSE qnamed
    BY <1>2, <2>1 DEF ServerRemoves, QRemoves
  <2>5. PICK q : q = qown[s]
    OBVIOUS
  <2>6. PICK u : u = queues
    OBVIOUS
  <2>7. PICK t : t = queues'
    OBVIOUS
  <2>8. qpc[s] \in {"send", "receive", "remove"}
    BY DEF ServerRemoves
  <2>9. u \in Seq(QueueRecords) /\ q \in DOMAIN u /\ t = [u EXCEPT ![q] = r]
    BY <2>4, <2>5, <2>6, <2>7, <2>8, QueueTypes
  <2>10. /\ t \in Seq(QueueRecords) /\ Len(t) = Len(u) /\ DOMAIN t = DOMAIN u /\ t[q] = r
         /\ \A i \in DOMAIN u : i # q => t[i] = u[i]
    BY <2>3, <2>9, Replaced
  <2>11. \A i \in DOMAIN t : Len(t[i].messages) <= QCapacity
    BY <2>3, <2>6, <2>10, QueueTypes
  <2> QED
    BY <1>2, <2>4, <2>5, <2>6, <2>7, <2>10, <2>11
<1> QED
  BY <1>1, <1>2, QueueTypes

\* QTyped: every step keeps the types, and the queue of who uses one.
LEMMA QTypedStep == QTyped /\ [QNext]_qVars => QTyped'
<1> SUFFICES ASSUME QTyped, [QNext]_qVars
             PROVE  QTyped'
  OBVIOUS
<1>1. CASE UNCHANGED qVars
  BY <1>1 DEF qVars, QTyped, QTypeOK
<1>2. CASE QNext
  <2>1. PICK p \in QProcesses : QProceeds(p) \/ QStarts(p) \/ QKill(p)
    BY <1>2 DEF QNext
  <2> DEFINE Pcs == {"start", "open", "send", "receive", "remove", "end", "killed"}
             Hearings == [QProcesses -> {Unheard} \cup {<<o>> : o \in QProcesses}]
  <2>2. /\ qapi \in {"posix", "sysv"} /\ qnamed \in 0 .. Len(queues)
        /\ queues \in Seq(QueueRecords) /\ Len(queues) \in Nat
        /\ \A q \in DOMAIN queues : Len(queues[q].messages) <= QCapacity
        /\ qown[p] \in 0 .. Len(queues) /\ qown = [qown EXCEPT ![p] = qown[p]]
        /\ qgot \in Hearings /\ qkills \in 0 .. QMaxKills /\ QMaxKills \in Nat
    BY QueueTypes
  <2>3. PICK n : n = qown[p]
    OBVIOUS
  <2> HIDE DEF Pcs, Hearings
  <2>4. CASE UnlinkOld(p)
    <3>1. /\ qapi' = qapi /\ queues' = queues /\ qnamed' = NoQueue
          /\ qown' = [qown EXCEPT ![p] = n] /\ qgot' = qgot /\ qkills' = qkills
      BY <2>2, <2>3, <2>4 DEF UnlinkOld
    <3>2. /\ Len(queues') \in Nat /\ Len(queues) <= Len(queues') /\ n \in 0 .. Len(queues')
          /\ qnamed' \in 0 .. Len(queues')
          /\ queues' \in Seq(QueueRecords)
          /\ \A q \in DOMAIN queues' : Len(queues'[q].messages) <= QCapacity
      BY <2>2, <2>3, <3>1 DEF NoQueue
    <3>3. PICK to \in {"open"} : QGoes(p, to)
      BY <2>4 DEF UnlinkOld
    <3> QED
      BY <3>1, <3>2, <3>3, <2>2, QueueTypesNext DEF Hearings
  <2>5. CASE ServerOpens(p)
    <3>1. /\ QGoes(p, "send") /\ qapi' = qapi /\ qgot' = qgot /\ qkills' = qkills
      BY <2>5 DEF ServerOpens
    <3>2. /\ queues' \in Seq(QueueRecords) /\ Len(queues) <= Len(queues')
          /\ \A i \in DOMAIN queues' : Len(queues'[i].messages) <= QCapacity
          /\ qnamed' \in 0 .. Len(queues') /\ qnamed' # NoQueue
          /\ qown' = [qown EXCEPT ![p] = qnamed']
      BY <2>5, OpenLeaves
    <3>3. PICK m : m = qnamed'
      OBVIOUS
    <3>4. m \in 0 .. Len(queues') /\ m # NoQueue /\ qown' = [qown EXCEPT ![p] = m]
      BY <3>2, <3>3
    <3> QED
      BY <3>1, <3>2, <3>4, <2>2, QueueTypesNext DEF Hearings
  <2>6. CASE ClientOpens(p)
    <3>1. PICK to : to = IF qnamed = NoQueue THEN "end" ELSE "receive"
      OBVIOUS
    <3>2. PICK m : m = qnamed
      OBVIOUS
    <3>3. /\ QGoes(p, to) /\ qapi' = qapi /\ queues' = queues /\ qnamed' = qnamed
          /\ qown' = [qown EXCEPT ![p] = m] /\ qgot' = qgot /\ qkills' = qkills
      BY <2>6, <3>1, <3>2 DEF ClientOpens
    <3>4. to \in {"end", "receive"} /\ (to = "receive" => m # NoQueue) /\ m \in 0 .. Len(queues')
      BY <3>1, <3>2, <3>3, <2>2
    <3>5. /\ Len(queues) <= Len(queues') /\ qnamed' \in 0 .. Len(queues')
          /\ queues' \in Seq(QueueRecords)
          /\ \A q \in DOMAIN queues' : Len(queues'[q].messages) <= QCapacity
      BY <2>2, <3>3
    <3> QED
      BY <3>3, <3>4, <3>5, <2>2, QueueTypesNext DEF Hearings
  <2>7. CASE QSend(p)
    <3>1. qpc[p] \in {"send", "receive", "remove"}
      BY <2>7 DEF QSend
    <3>2. PICK to \in {"receive", "end"} : QGoes(p, to)
      BY <2>7 DEF QSend, AfterSend
    <3>3. /\ qapi' = qapi /\ qnamed' = qnamed /\ qown' = [qown EXCEPT ![p] = n]
          /\ qgot' = qgot /\ qkills' = qkills
      BY <2>2, <2>3, <2>7 DEF QSend
    <3>4. /\ queues' \in Seq(QueueRecords) /\ Len(queues') = Len(queues)
          /\ \A i \in DOMAIN queues' : Len(queues'[i].messages) <= QCapacity
      BY <2>7, SendLeaves
    <3>5. /\ Len(queues) <= Len(queues') /\ n # NoQueue /\ n \in 0 .. Len(queues')
          /\ qnamed' \in 0 .. Len(queues')
      BY <2>2, <2>3, <3>1, <3>3, <3>4, OwnQueue
    <3> QED
      BY <2>2, <3>2, <3>3, <3>4, <3>5, QueueTypesNext DEF Hearings
  <2>8. CASE QReceive(p)
    <3>1. qpc[p] \in {"send", "receive", "remove"}
      BY <2>8 DEF QReceive
    <3>2. PICK to \in {"remove", "send", "end"} : QGoes(p, to)
      BY <2>8 DEF QReceive
    <3>3. /\ qapi' = qapi /\ qnamed' = qnamed /\ qown' = [qown EXCEPT ![p] = n]
          /\ qkills' = qkills
      BY <2>2, <2>3, <2>8 DEF QReceive
    <3>4. qgot' \in Hearings
      BY <2>2, <2>8, ReceiveLeaves DEF Hearings
    <3>5. /\ queues' \in Seq(QueueRecords) /\ Len(queues') = Len(queues)
          /\ \A i \in DOMAIN queues' : Len(queues'[i].messages) <= QCapacity
      BY <2>8, ReceiveLeaves
    <3>6. /\ Len(queues) <= Len(queues') /\ n # NoQueue /\ n \in 0 .. Len(queues')
          /\ qnamed' \in 0 .. Len(queues')
      BY <2>2, <2>3, <3>1, <3>3, <3>5, OwnQueue
    <3> QED
      BY <2>2, <3>2, <3>3, <3>4, <3>5, <3>6, QueueTypesNext DEF Hearings
  <2>9. CASE ServerRemoves(p)
    <3>1. PICK to \in {"end"} : QGoes(p, to)
      BY <2>9 DEF ServerRemoves
    <3>2. /\ qapi' = qapi /\ qown' = [qown EXCEPT ![p] = n] /\ qgot' = qgot /\ qkills' = qkills
      BY <2>2, <2>3, <2>9 DEF ServerRemoves
    <3>3. /\ queues' \in Seq(QueueRecords) /\ Len(queues') = Len(queues)
          /\ \A i \in DOMAIN queues' : Len(queues'[i].messages) <= QCapacity
          /\ qnamed' \in {NoQueue, qnamed}
      BY <2>9, RemoveLeaves
    <3>4. /\ qnamed' \in 0 .. Len(queues') /\ n \in 0 .. Len(queues')
          /\ Len(queues) <= Len(queues')
      BY <3>3, <2>2, <2>3 DEF NoQueue
    <3> QED
      BY <2>2, <3>1, <3>2, <3>3, <3>4, QueueTypesNext DEF Hearings
  <2>10. CASE QKill(p)
    <3>1. /\ qapi' = qapi /\ queues' = queues /\ qnamed' = qnamed
          /\ qown' = [qown EXCEPT ![p] = n] /\ qgot' = qgot /\ qkills' \in 0 .. QMaxKills
      BY <2>2, <2>3, <2>10 DEF QKill
    <3>2. /\ Len(queues') \in Nat /\ Len(queues) <= Len(queues') /\ n \in 0 .. Len(queues')
          /\ qnamed' \in 0 .. Len(queues')
          /\ queues' \in Seq(QueueRecords)
          /\ \A q \in DOMAIN queues' : Len(queues'[q].messages) <= QCapacity
      BY <2>2, <2>3, <3>1
    <3>3. PICK to \in {"killed"} : QGoes(p, to)
      BY <2>10 DEF QKill
    <3> QED
      BY <3>1, <3>2, <3>3, <2>2, QueueTypesNext DEF Hearings
  <2> QED
    BY <2>1, <2>4, <2>5, <2>6, <2>7, <2>8, <2>9, <2>10 DEF QProceeds, QStarts
<1> QED
  BY <1>1, <1>2

\* QDirectionsApart: whoever takes a message takes one of the other side's type.
LEMMA QDirectionsApartStep == QTyped /\ QDirectionsApart /\ [QNext]_qVars => QDirectionsApart'
<1> SUFFICES ASSUME QTyped, QDirectionsApart, [QNext]_qVars
             PROVE  QDirectionsApart'
  OBVIOUS
<1>1. CASE UNCHANGED <<qapi, qgot>>
  BY <1>1 DEF QDirectionsApart
<1>2. CASE ~UNCHANGED <<qapi, qgot>>
  <2>1. PICK p \in QProcesses : QReceive(p)
    BY <1>2 DEF QNext, qVars, QProceeds, QStarts, QKill, UnlinkOld, ServerOpens, ClientOpens,
                QSend, ServerRemoves
  <2>2. qapi' = qapi
    BY <2>1 DEF QReceive
  <2>3. PICK o \in QProcesses : qgot' = [qgot EXCEPT ![p] = <<o>>] /\ Accepted(p, o)
    BY <1>2, <2>1, <2>2, ReceiveLeaves
  <2>4. qgot'[p] = <<o>> /\ \A r \in QProcesses \ {p} : qgot'[r] = qgot[r]
    BY <2>3, QueueTypes
  <2>5. ASSUME NEW r \in QProcesses, qapi = "sysv", qgot'[r] # Unheard
        PROVE  r \in QServers <=> qgot'[r][1] \in QClients
    <3>1. CASE r = p
      BY <2>3, <2>4, <2>5, <3>1 DEF Accepted
    <3>2. CASE r # p
      BY <2>4, <2>5, <3>2 DEF QDirectionsApart
    <3> QED
      BY <3>1, <3>2
  <2> QED
    BY <2>2, <2>5 DEF QDirectionsApart
<1> QED
  BY <1>1, <1>2

\* QKept: who has to remove the queue that can be found goes on to do so.
LEMMA QKeptStep == QTyped /\ QKept /\ [QNext]_qVars => QKept'
<1> SUFFICES ASSUME QTyped, QKept, [QNext]_qVars
             PROVE  QKept'
  OBVIOUS
<1>1. CASE UNCHANGED qVars
  BY <1>1 DEF qVars, QKept, Keeper
<1>2. CASE QNext
  <2>1. PICK p \in QProcesses : QProceeds(p) \/ QStarts(p) \/ QKill(p)
    BY <1>2 DEF QNext
  <2>2. /\ qnamed \in Nat /\ qkills \in Nat
        /\ qpc \in [QProcesses -> {"start", "open", "send", "receive", "remove", "end", "killed"}]
        /\ qown \in [QProcesses -> Nat] /\ qapi \in {"posix", "sysv"}
        /\ DOMAIN queues = 1 .. Len(queues) /\ qnamed \in 0 .. Len(queues)
        /\ Len(queues) \in Nat /\ queues \in Seq(QueueRecords)
    BY QueueTypes DEF QTyped, QTypeOK
  <2>3. /\ qapi = "posix" => \A q \in DOMAIN queues : ~queues[q].destroyed
        /\ qnamed # NoQueue => ~queues[qnamed].destroyed
        /\ qnamed # NoQueue /\ qkills = 0 => \E s \in QServers : Keeper(s)
    BY DEF QKept
  <2>4. \A o \in QProcesses \ {p} : qpc'[o] = qpc[o]
    BY <2>1, <2>2 DEF QProceeds, QStarts, QKill, UnlinkOld, ServerOpens, ClientOpens, QSend,
                      QReceive, ServerRemoves, QGoes
  <2>5. \A o \in QProcesses \ {p} : qown'[o] = qown[o]
    BY <2>1, <2>2 DEF QProceeds, QStarts, QKill, UnlinkOld, ServerOpens, ClientOpens, QSend,
                      QReceive, ServerRemoves
  <2>6. QServers \subseteq QProcesses /\ QServers \cap QClients = {}
    BY QueueExchangeAssumption DEF QProcesses
  <2>7. qapi' = qapi
    BY <2>1 DEF QProceeds, QStarts, QKill, UnlinkOld, ServerOpens, ClientOpens, QSend,
                QReceive, ServerRemoves
  <2>8. CASE UnlinkOld(p)
    BY <2>8, <2>3 DEF UnlinkOld, QKept
  <2>9. CASE p \in QServers /\ ServerOpens(p)
    <3>1. /\ qown' = [qown EXCEPT ![p] = qnamed']
          /\ \A i \in DOMAIN queues' : queues'[i].destroyed => i \in DOMAIN queues /\ queues[i].destroyed
          /\ qnamed # NoQueue => qnamed' = qnamed /\ queues' = queues
          /\ qnamed = NoQueue => ~queues'[qnamed'].destroyed
      BY <2>9, OpenLeaves
    <3>2. qpc'[p] = "send" /\ qown'[p] = qnamed'
      BY <2>2, <2>9, <3>1 DEF ServerOpens, QGoes
    <3>3. Keeper(p)'
      BY <3>2 DEF Keeper
    <3> QED
      BY <2>3, <2>7, <2>9, <3>1, <3>3 DEF QKept
  <2>10. CASE p \in QClients /\ ClientOpens(p)
    <3>1. UNCHANGED <<queues, qnamed, qkills>>
      BY <2>10 DEF ClientOpens
    <3>2. ASSUME NEW s \in QServers, Keeper(s)
          PROVE  Keeper(s)'
      BY <2>4, <2>5, <2>6, <2>7, <2>10, <3>1, <3>2 DEF Keeper
    <3> QED
      BY <2>3, <2>7, <3>1, <3>2 DEF QKept
  <2>11. CASE QSend(p) \/ QReceive(p)
    <3>1. /\ DOMAIN queues' = DOMAIN queues /\ qnamed' = qnamed /\ qown' = qown /\ qkills' = qkills
          /\ \A i \in DOMAIN queues' : queues'[i].destroyed = queues[i].destroyed
      BY <2>11, SendLeaves, ReceiveLeaves DEF QSend, QReceive
    <3>2. ASSUME NEW s \in QServers, Keeper(s), qnamed # NoQueue
          PROVE  Keeper(s)'
      <4>1. CASE s = p
        <5>1. qpc[p] \in {"send", "receive", "remove"} /\ qown[p] \in DOMAIN queues
          BY <3>2, <4>1, <2>6, OwnQueue DEF Keeper
        <5>2. ~Own(p).destroyed
          BY <2>2, <2>3, <3>2, <4>1, <5>1 DEF Keeper, Own
        <5>3. qpc'[p] \in {"receive", "remove"}
          BY <2>2, <2>11, <3>2, <4>1, <5>2 DEF QSend, QReceive, QGoes, AfterSend
        <5> QED
          BY <2>7, <3>1, <3>2, <4>1, <5>3 DEF Keeper
      <4>2. CASE s # p
        BY <2>4, <2>6, <2>7, <3>1, <3>2, <4>2 DEF Keeper
      <4> QED
        BY <4>1, <4>2
    <3>3. qnamed # NoQueue => qnamed \in DOMAIN queues
      BY <2>2 DEF NoQueue
    <3> QED
      BY <2>3, <2>7, <3>1, <3>2, <3>3 DEF QKept
  <2>12. CASE p \in QServers /\ ServerRemoves(p)
    <3>1. /\ DOMAIN queues' = DOMAIN queues /\ qnamed' \in {NoQueue, qnamed}
          /\ qapi = "posix" => qnamed' = NoQueue /\ queues' = queues
          /\ qapi = "sysv" => \A i \in DOMAIN queues :
               i # qown[p] => queues'[i].destroyed = queues[i].destroyed
          /\ qapi = "sysv" => (qnamed' # NoQueue => qnamed' = qnamed /\ qnamed # qown[p])
      BY <2>12, RemoveLeaves
    <3>2. qown' = qown /\ qkills' = qkills
      BY <2>12 DEF ServerRemoves
    <3>3. CASE qapi = "posix"
      BY <2>3, <2>7, <3>1, <3>3 DEF QKept
    <3>4. CASE qapi = "sysv" /\ qnamed' # NoQueue
      <4>1. qnamed' = qnamed /\ qnamed # qown[p] /\ qnamed \in DOMAIN queues
        BY <2>2, <3>1, <3>4 DEF NoQueue
      <4>2. ASSUME NEW s \in QServers, Keeper(s)
            PROVE  Keeper(s)'
        <5>1. s # p
          BY <3>4, <4>1, <4>2 DEF Keeper
        <5> QED
          BY <2>4, <2>6, <2>7, <3>2, <4>1, <4>2, <5>1 DEF Keeper
      <4> QED
        BY <2>3, <2>7, <3>1, <3>2, <3>4, <4>1, <4>2 DEF QKept
    <3>5. CASE qapi = "sysv" /\ qnamed' = NoQueue
      BY <2>7, <3>5 DEF QKept
    <3> QED
      BY <2>2, <3>3, <3>4, <3>5
  <2>13. CASE QKill(p)
    BY <2>2, <2>3, <2>7, <2>13 DEF QKill, QKept
  <2> QED
    BY <2>1, <2>8, <2>9, <2>10, <2>11, <2>12, <2>13 DEF QProceeds, QStarts
<1> QED
  BY <1>1, <1>2

\* QInit: no queue, and nobody has started.
LEMMA QInvInit == QInit => QInv
<1> SUFFICES ASSUME QInit
             PROVE  QInv
  OBVIOUS
<1>1. queues = <<>> /\ queues \in Seq(QueueRecords) /\ Len(queues) = 0 /\ DOMAIN queues = {}
  BY DEF QInit
<1>2. QTyped
  BY <1>1, QueueExchangeAssumption DEF QInit, QTyped, QTypeOK, QueueRecords, NoQueue, Unheard
<1>3. QKept /\ QDirectionsApart
  BY <1>1 DEF QInit, QKept, QDirectionsApart
<1> QED
  BY <1>2, <1>3 DEF QInv

\* The inductive invariant of the queues.
THEOREM QueueInvariant == QSpec => []QInv
<1>1. QInv /\ [QNext]_qVars => QInv'
  BY QTypedStep, QKeptStep, QDirectionsApartStep DEF QInv
<1> QED
  BY QInvInit, <1>1, PTL DEF QSpec

\* The invariant is enough for what the queue promises: when all have ended, the
\* server that was to remove the queue has.
LEMMA QueuePromises == QInv => QTypeOK /\ QDirectionsApart /\ QNothingLeft
<1> SUFFICES ASSUME QInv
             PROVE  QTypeOK /\ QDirectionsApart /\ QNothingLeft
  OBVIOUS
<1>1. ASSUME Active = {}, qkills = 0, qnamed # NoQueue
      PROVE  FALSE
  <2>1. PICK s \in QServers : Keeper(s)
    BY <1>1 DEF QInv, QKept
  <2> QED
    BY <1>1, <2>1 DEF Active, Keeper, QProcesses
<1> QED
  BY <1>1 DEF QInv, QTyped, QNothingLeft

\* However the runs of servers and clients overlap, all values keep their types, a queue
\* holds no more than its capacity, System V messages go to the other side only, and no
\* queue outlives those who were not killed (server_posix.c, server_sysv.c and clients).
THEOREM QueueExchanged == QSpec => [](QTypeOK /\ QDirectionsApart /\ QNothingLeft)
  BY QueueInvariant, QueuePromises, PTL

-------------------------------------------------------------------------------
(* The segments.                                                                 *)

SegmentRecords == [sized : BOOLEAN, flag : 0 .. 2, text : Texts]
SPcs == {"start", "size", "clear", "copy", "copied", "flag", "poll", "print", "remove", "end",
         "killed"}

\* A pair of which one half is replaced.
LEMMA HalfReplaced ==
    ASSUME NEW S, NEW t \in S \X S, NEW e \in S, NEW h \in {1, 2}, NEW v, v = [t EXCEPT ![h] = e]
    PROVE  v \in S \X S /\ v[h] = e /\ \A i \in {1, 2} \ {h} : v[i] = t[i]
<1>1. CASE h = 1
  BY <1>1
<1>2. CASE h = 2
  BY <1>2
<1> QED
  BY <1>1, <1>2

\* Pairs are equal when their halves are.
LEMMA SameHalves ==
    ASSUME NEW S, NEW t \in S \X S, NEW u \in S \X S, t[1] = u[1], t[2] = u[2]
    PROVE  t = u
  OBVIOUS

\* v is t with a half of u copied into it.
SideOf(t, u, h, v) ==
    /\ v \in Texts /\ v[h] = u[h] /\ \A i \in {1, 2} \ {h} : v[i] = t[i]
    /\ t = u => v = u
    /\ v[1] = u[1] /\ v[2] = u[2] => v = u

\* A text of which one half is copied: what it is, and when it is whole.
LEMMA HalfCopied ==
    ASSUME NEW t \in Texts, NEW u \in {Hi, Hello}, NEW h \in {1, 2}, NEW v, v = [t EXCEPT ![h] = u[h]]
    PROVE  SideOf(t, u, h, v)
<1>1. PICK S : S = {"", "Hi!", "Hello!"}
  OBVIOUS
<1>2. Texts = S \X S
  BY <1>1 DEF Texts
<1>3. "Hi!" \in S /\ "Hello!" \in S
  BY <1>1
<1>4. u \in S \X S
  BY <1>3 DEF Hi, Hello
<1>5. PICK e : e = u[h]
  OBVIOUS
<1>6. e \in S
  BY <1>4, <1>5
<1>7. t \in S \X S /\ v = [t EXCEPT ![h] = e]
  BY <1>2, <1>5
<1>8. v \in S \X S /\ v[h] = e /\ \A i \in {1, 2} \ {h} : v[i] = t[i]
  BY <1>6, <1>7, HalfReplaced
<1>9. v[1] = u[1] /\ v[2] = u[2] => v = u
  BY <1>4, <1>8, SameHalves
<1>10. t = u => v[1] = u[1] /\ v[2] = u[2]
  BY <1>5, <1>8
<1> QED
  BY <1>2, <1>5, <1>8, <1>9, <1>10 DEF SideOf

\* The fields of STypeOK and STyped, one by one.
LEMMA SegmentTypes ==
    ASSUME STyped
    PROVE  /\ sapi \in {"posix", "sysv"} /\ snamed \in 0 .. Len(segments) /\ snamed \in Nat
           /\ segments \in Seq(SegmentRecords) /\ Len(segments) \in Nat
           /\ DOMAIN segments = 1 .. Len(segments)
           /\ spc \in [SProcesses -> SPcs] /\ sown \in [SProcesses -> Nat]
           /\ \A p \in SProcesses : sown[p] \in 0 .. Len(segments)
           /\ sheard \in [SProcesses -> Texts] /\ skills \in 0 .. SMaxKills /\ SMaxKills \in Nat
           /\ \A p \in SProcesses : spc[p] = "start" => sown[p] = NoSegment
           /\ \A p \in SProcesses : spc[p] \notin {"start", "end", "killed"} =>
                sown[p] \in DOMAIN segments
<1>1. /\ sown \in [SProcesses -> Nat] /\ \A p \in SProcesses : sown[p] \in 0 .. Len(segments)
      /\ \A p \in SProcesses : spc[p] \notin {"start", "end", "killed"} => sown[p] # NoSegment
      /\ segments \in Seq(SegmentRecords)
  BY DEF STyped, STypeOK, SegmentRecords
<1>2. Len(segments) \in Nat /\ DOMAIN segments = 1 .. Len(segments)
  BY <1>1
<1>3. \A p \in SProcesses : spc[p] \notin {"start", "end", "killed"} => sown[p] \in DOMAIN segments
  BY <1>1, <1>2 DEF NoSegment
<1> QED
  BY <1>1, <1>2, <1>3, SegmentExchangeAssumption DEF STyped, STypeOK, SPcs

\* A process goes on.
LEMMA SegmentGoes ==
    ASSUME STyped, NEW p \in SProcesses, NEW to \in SPcs, SGoes(p, to)
    PROVE  /\ spc' \in [SProcesses -> SPcs] /\ spc'[p] = to
           /\ \A o \in SProcesses \ {p} : spc'[o] = spc[o]
  BY SegmentTypes DEF SGoes

\* A process goes on while the segments, and who has which, stay or grow as the types allow.
LEMMA SegmentTypesNext ==
    ASSUME STyped, NEW p \in SProcesses, NEW to \in SPcs \ {"start"}, SGoes(p, to),
           sapi' = sapi, segments' \in Seq(SegmentRecords), Len(segments) <= Len(segments'),
           snamed' \in 0 .. Len(segments'),
           NEW n \in 0 .. Len(segments'), sown' = [sown EXCEPT ![p] = n],
           to \notin {"end", "killed"} => n # NoSegment,
           sown[p] \in {NoSegment, n},
           \A q \in DOMAIN segments' : q \in DOMAIN segments \/ (p \in SServers /\ n = q),
           NEW h \in Texts, sheard' = [sheard EXCEPT ![p] = h], h # Silence => n # NoSegment,
           p \in SClients => to \notin {"size", "clear", "remove"},
           skills' \in 0 .. SMaxKills
    PROVE  STyped'
<1>1. /\ spc' \in [SProcesses -> SPcs] /\ spc'[p] = to
      /\ \A o \in SProcesses \ {p} : spc'[o] = spc[o]
  BY SegmentGoes
<1>2. Len(segments') \in Nat /\ Len(segments) \in Nat
  BY SegmentTypes
<1>3. sown' \in [SProcesses -> Nat] /\ sown'[p] = n /\ \A o \in SProcesses \ {p} : sown'[o] = sown[o]
  BY SegmentTypes, <1>2
<1>4. \A o \in SProcesses : sown'[o] \in 0 .. Len(segments')
  BY <1>2, <1>3, SegmentTypes
<1>5. /\ sheard' \in [SProcesses -> Texts] /\ sheard'[p] = h
      /\ \A o \in SProcesses \ {p} : sheard'[o] = sheard[o]
  BY SegmentTypes
<1>6. STypeOK'
  BY <1>1, <1>4, <1>5, SegmentTypes DEF STypeOK, SegmentRecords, SPcs
<1>7. /\ \A o \in SProcesses : spc[o] = "start" => sown[o] = NoSegment
      /\ \A o \in SProcesses : spc[o] \notin {"start", "end", "killed"} => sown[o] # NoSegment
      /\ \A o \in SProcesses : sheard[o] # Silence => sown[o] # NoSegment
      /\ \A c \in SClients : spc[c] \notin {"size", "clear", "remove"}
      /\ \A q \in DOMAIN segments : \E s \in SServers : sown[s] = q
      /\ SServers \subseteq SProcesses /\ SClients \subseteq SProcesses
  BY DEF STyped, SProcesses
<1>8. \A o \in SProcesses : spc'[o] = "start" => sown'[o] = NoSegment
  BY <1>1, <1>3, <1>7
<1>9. \A o \in SProcesses : spc'[o] \notin {"start", "end", "killed"} => sown'[o] # NoSegment
  BY <1>1, <1>3, <1>7
<1>10. \A o \in SProcesses : sheard'[o] # Silence => sown'[o] # NoSegment
  BY <1>3, <1>5, <1>7
<1>11. \A c \in SClients : spc'[c] \notin {"size", "clear", "remove"}
  BY <1>1, <1>7
<1>12. ASSUME NEW q \in DOMAIN segments'
       PROVE  \E s \in SServers : sown'[s] = q
  <2>1. CASE q \in DOMAIN segments
    <3>1. PICK s \in SServers : sown[s] = q
      BY <2>1, <1>7
    <3>2. q # NoSegment
      BY <2>1, SegmentTypes DEF NoSegment
    <3>3. sown'[s] = q
      BY <3>1, <3>2, <1>3, <1>7
    <3> QED
      BY <3>3
  <2>2. CASE q \notin DOMAIN segments
    BY <2>2, <1>3
  <2> QED
    BY <2>1, <2>2
<1> QED
  BY <1>3, <1>6, <1>8, <1>9, <1>10, <1>11, <1>12 DEF STyped

\* The segment of who is not at rest.
LEMMA OwnSegment ==
    ASSUME STyped, NEW p \in SProcesses, spc[p] \notin {"start", "end", "killed"}
    PROVE  /\ sown[p] \in DOMAIN segments /\ segments[sown[p]] \in SegmentRecords
           /\ Seg(p) = segments[sown[p]] /\ sown[p] # NoSegment /\ sown[p] \in 0 .. Len(segments)
<1>1. sown[p] \in DOMAIN segments /\ segments \in Seq(SegmentRecords)
  BY SegmentTypes
<1>2. sown[p] \in 0 .. Len(segments) /\ sown[p] # NoSegment
  BY SegmentTypes DEF STyped
<1> QED
  BY <1>1, <1>2 DEF Seg

\* What an update of one segment is.
LEMMA SegmentUpdated ==
    ASSUME STyped, NEW q \in DOMAIN segments, NEW r \in SegmentRecords,
           segments' = [segments EXCEPT ![q] = r]
    PROVE  /\ segments' \in Seq(SegmentRecords) /\ Len(segments') = Len(segments)
           /\ DOMAIN segments' = DOMAIN segments /\ segments'[q] = r
           /\ \A i \in DOMAIN segments : i # q => segments'[i] = segments[i]
<1>1. PICK u : u = segments
  OBVIOUS
<1>2. PICK t : t = segments'
  OBVIOUS
<1>3. u \in Seq(SegmentRecords) /\ q \in DOMAIN u /\ t = [u EXCEPT ![q] = r]
  BY <1>1, <1>2, SegmentTypes
<1>4. /\ t \in Seq(SegmentRecords) /\ Len(t) = Len(u) /\ DOMAIN t = DOMAIN u /\ t[q] = r
      /\ \A i \in DOMAIN u : i # q => t[i] = u[i]
  BY <1>3, Replaced
<1> QED
  BY <1>1, <1>2, <1>4

\* What ftruncate() leaves.
LEMMA SizeLeaves ==
    ASSUME STyped, NEW p \in SProcesses, SetSize(p)
    PROVE  /\ segments' \in Seq(SegmentRecords) /\ Len(segments') = Len(segments)
           /\ DOMAIN segments' = DOMAIN segments
           /\ \A i \in DOMAIN segments : /\ segments'[i].flag = segments[i].flag
                                         /\ segments'[i].text = segments[i].text
<1>1. PICK q : q = sown[p]
  OBVIOUS
<1>2. q \in DOMAIN segments /\ segments[q] \in SegmentRecords
  BY <1>1, OwnSegment DEF SetSize
<1>3. PICK r : r = [segments[q] EXCEPT !.sized = TRUE]
  OBVIOUS
<1>4. r \in SegmentRecords /\ r.flag = segments[q].flag /\ r.text = segments[q].text
  BY <1>2, <1>3 DEF SegmentRecords
<1>5. segments' = [segments EXCEPT ![q] = r]
  BY <1>1, <1>3 DEF SetSize
<1>6. /\ segments' \in Seq(SegmentRecords) /\ Len(segments') = Len(segments)
      /\ DOMAIN segments' = DOMAIN segments /\ segments'[q] = r
      /\ \A i \in DOMAIN segments : i # q => segments'[i] = segments[i]
  BY <1>2, <1>4, <1>5, SegmentUpdated
<1>7. ASSUME NEW i \in DOMAIN segments
      PROVE  segments'[i].flag = segments[i].flag /\ segments'[i].text = segments[i].text
  BY <1>4, <1>6
<1> QED
  BY <1>6, <1>7

\* What clearing the flag leaves, whether the store is kept or dropped.
LEMMA ClearLeaves ==
    ASSUME STyped, NEW p \in SProcesses, ClearFlag(p)
    PROVE  /\ segments' \in Seq(SegmentRecords) /\ Len(segments') = Len(segments)
           /\ DOMAIN segments' = DOMAIN segments
           /\ segments'[sown[p]].flag \in {0, segments[sown[p]].flag}
           /\ segments'[sown[p]].text = segments[sown[p]].text
           /\ \A i \in DOMAIN segments : i # sown[p] => segments'[i] = segments[i]
<1>1. PICK q : q = sown[p]
  OBVIOUS
<1>2. q \in DOMAIN segments /\ segments[q] \in SegmentRecords
  BY <1>1, OwnSegment DEF ClearFlag
<1>3. CASE UNCHANGED segments
  BY <1>3, SegmentTypes
<1>4. CASE segments' = [segments EXCEPT ![sown[p]].flag = 0]
  <2>1. PICK r : r = [segments[q] EXCEPT !.flag = 0]
    OBVIOUS
  <2>2. r \in SegmentRecords /\ r.flag = 0 /\ r.text = segments[q].text
    BY <1>2, <2>1 DEF SegmentRecords
  <2>3. segments' = [segments EXCEPT ![q] = r]
    BY <1>1, <1>4, <2>1
  <2>4. /\ segments' \in Seq(SegmentRecords) /\ Len(segments') = Len(segments)
        /\ DOMAIN segments' = DOMAIN segments /\ segments'[q] = r
        /\ \A i \in DOMAIN segments : i # q => segments'[i] = segments[i]
    BY <1>2, <2>2, <2>3, SegmentUpdated
  <2> QED
    BY <1>1, <2>2, <2>4
<1> QED
  BY <1>3, <1>4 DEF ClearFlag

\* What a copied half of a text leaves.
LEMMA HalfLeaves ==
    ASSUME STyped, NEW p \in SProcesses, NEW h \in {1, 2}, NEW to, CopyHalf(p, h, to),
           spc[p] \notin {"start", "end", "killed"}, NEW q, q = sown[p]
    PROVE  /\ segments' \in Seq(SegmentRecords) /\ Len(segments') = Len(segments)
           /\ DOMAIN segments' = DOMAIN segments /\ segments'[q].flag = segments[q].flag
           /\ segments'[q].text[h] = Says(p)[h]
           /\ \A i \in {1, 2} \ {h} : segments'[q].text[i] = segments[q].text[i]
           /\ segments[q].text = Says(p) => segments'[q].text = Says(p)
           /\ segments'[q].text[1] = Says(p)[1] /\ segments'[q].text[2] = Says(p)[2] =>
                segments'[q].text = Says(p)
           /\ \A i \in DOMAIN segments : i # q => segments'[i] = segments[i]
<1>1. q \in DOMAIN segments /\ segments[q] \in SegmentRecords
  BY OwnSegment
<1>2. PICK u \in {Hi, Hello} : u = Says(p)
  BY DEF Says
<1>3. PICK t : t = segments[q].text
  OBVIOUS
<1>4. PICK v : v = [t EXCEPT ![h] = u[h]]
  OBVIOUS
<1>5. t \in Texts
  BY <1>1, <1>3 DEF SegmentRecords
<1>6. SideOf(t, u, h, v)
  BY <1>2, <1>4, <1>5, HalfCopied
<1>7. PICK r : r = [segments[q] EXCEPT !.text = v]
  OBVIOUS
<1>8. r \in SegmentRecords /\ r.flag = segments[q].flag /\ r.text = v
  BY <1>1, <1>6, <1>7 DEF SegmentRecords, SideOf
<1>9. segments' = [segments EXCEPT ![q] = r]
  BY <1>2, <1>3, <1>4, <1>7 DEF CopyHalf
<1>10. /\ segments' \in Seq(SegmentRecords) /\ Len(segments') = Len(segments)
       /\ DOMAIN segments' = DOMAIN segments /\ segments'[q] = r
       /\ \A i \in DOMAIN segments : i # q => segments'[i] = segments[i]
  BY <1>1, <1>8, <1>9, SegmentUpdated
<1> QED
  BY <1>2, <1>3, <1>6, <1>8, <1>10 DEF SideOf

\* What setting the flag leaves.
LEMMA FlagLeaves ==
    ASSUME STyped, NEW p \in SProcesses, spc[p] = "flag", Speaks(p), NEW q, q = sown[p]
    PROVE  /\ segments' \in Seq(SegmentRecords) /\ Len(segments') = Len(segments)
           /\ DOMAIN segments' = DOMAIN segments
           /\ segments'[q].flag = IF p \in SServers THEN 1 ELSE 2
           /\ segments'[q].text = segments[q].text
           /\ \A i \in DOMAIN segments : i # q => segments'[i] = segments[i]
<1>1. q \in DOMAIN segments /\ segments[q] \in SegmentRecords
  BY OwnSegment
<1>2. PICK f \in {1, 2} : f = IF p \in SServers THEN 1 ELSE 2
  OBVIOUS
<1>3. PICK r : r = [segments[q] EXCEPT !.flag = f]
  OBVIOUS
<1>4. f \in 0 .. 2
  OBVIOUS
<1>5. r \in SegmentRecords /\ r.flag = f /\ r.text = segments[q].text
  BY <1>1, <1>3, <1>4 DEF SegmentRecords
<1>6. segments' = [segments EXCEPT ![q] = r]
  BY <1>2, <1>3 DEF Speaks
<1>7. /\ segments' \in Seq(SegmentRecords) /\ Len(segments') = Len(segments)
      /\ DOMAIN segments' = DOMAIN segments /\ segments'[q] = r
      /\ \A i \in DOMAIN segments : i # q => segments'[i] = segments[i]
  BY <1>1, <1>5, <1>6, SegmentUpdated
<1> QED
  BY <1>2, <1>5, <1>7

\* What shm_open() and shmget() by a server leave.
LEMMA CreateLeaves ==
    ASSUME STyped, NEW s \in SProcesses, CreateSegment(s)
    PROVE  /\ segments' \in Seq(SegmentRecords) /\ Len(segments) <= Len(segments')
           /\ snamed' \in 0 .. Len(segments') /\ snamed' # NoSegment
           /\ \A i \in DOMAIN segments : i \in DOMAIN segments' /\ segments'[i] = segments[i]
           /\ \A i \in DOMAIN segments' : i \in DOMAIN segments \/ i = snamed'
           /\ snamed # NoSegment => snamed' = snamed
           /\ snamed = NoSegment => /\ snamed' \notin DOMAIN segments
                                    /\ segments'[snamed'].flag = 0
           /\ sown' = [sown EXCEPT ![s] = snamed']
<1>1. CASE snamed = NoSegment
  <2>1. PICK r : r = [sized |-> sapi = "sysv", flag |-> 0, text |-> Silence]
    OBVIOUS
  <2>2. "" \in {"", "Hi!", "Hello!"}
    OBVIOUS
  <2>3. Silence \in Texts
    BY <2>2 DEF Silence, Texts
  <2>4. (sapi = "sysv") \in BOOLEAN /\ 0 \in 0 .. 2
    OBVIOUS
  <2>5. r \in SegmentRecords /\ r.flag = 0
    BY <2>1, <2>3, <2>4 DEF SegmentRecords
  <2>6. PICK t : t = segments'
    OBVIOUS
  <2>7. PICK u : u = segments
    OBVIOUS
  <2>8. t = Append(u, r) /\ snamed' = Len(t) /\ sown' = [sown EXCEPT ![s] = snamed']
    BY <1>1, <2>1, <2>6, <2>7 DEF CreateSegment
  <2>9. u \in Seq(SegmentRecords)
    BY <2>7, SegmentTypes
  <2>10. /\ t \in Seq(SegmentRecords) /\ Len(t) = Len(u) + 1 /\ t[Len(u) + 1] = r
         /\ DOMAIN u \subseteq DOMAIN t /\ \A i \in DOMAIN u : t[i] = u[i]
         /\ \A i \in DOMAIN t : i \in DOMAIN u \/ i = Len(u) + 1
         /\ Len(u) \in Nat /\ DOMAIN u = 1 .. Len(u)
    BY <2>5, <2>8, <2>9, Appended
  <2>11. Len(t) \in 0 .. Len(t) /\ Len(t) # 0 /\ Len(t) \notin DOMAIN u /\ Len(u) <= Len(t)
    BY <2>10
  <2> QED
    BY <1>1, <2>5, <2>6, <2>7, <2>8, <2>10, <2>11 DEF NoSegment
<1>2. CASE snamed # NoSegment
  <2>1. segments' = segments /\ snamed' = snamed /\ sown' = [sown EXCEPT ![s] = snamed']
    BY <1>2 DEF CreateSegment
  <2> QED
    BY <1>2, <2>1, SegmentTypes
<1> QED
  BY <1>1, <1>2

\* The leaves of a copy, for each half, and of the flag.
LEMMA SpeakLeaves ==
    ASSUME STyped, NEW p \in SProcesses, Speak(p), NEW q, q = sown[p]
    PROVE  /\ segments' \in Seq(SegmentRecords) /\ Len(segments') = Len(segments)
           /\ DOMAIN segments' = DOMAIN segments
           /\ \A i \in DOMAIN segments : i # q => segments'[i] = segments[i]
           /\ spc[p] \in {"copy", "copied", "flag"}
<1>1. CASE spc[p] = "copy" /\ CopyHalf(p, 1, "copied")
  BY <1>1, HalfLeaves
<1>2. CASE spc[p] = "copied" /\ CopyHalf(p, 2, "flag")
  BY <1>2, HalfLeaves
<1>3. CASE spc[p] = "flag" /\ Speaks(p)
  BY <1>3, FlagLeaves
<1> QED
  BY <1>1, <1>2, <1>3 DEF Speak, Speaks

\* STyped: every step keeps the types, and the segment of who uses one.
LEMMA STypedStep == STyped /\ [SNext]_sVars => STyped'
<1> SUFFICES ASSUME STyped, [SNext]_sVars
             PROVE  STyped'
  OBVIOUS
<1>1. CASE UNCHANGED sVars
  BY <1>1 DEF sVars, STyped, STypeOK
<1>2. CASE SNext
  <2>1. PICK p \in SProcesses :
          \/ SProceeds(p) \/ SKill(p)
          \/ p \in SServers /\ CreateSegment(p)
          \/ p \in SClients /\ OpenSegment(p)
    BY <1>2 DEF SNext
  <2>2. PICK m : m = sown[p]
    OBVIOUS
  <2>3. PICK g : g = sheard[p]
    OBVIOUS
  <2>4. /\ snamed \in 0 .. Len(segments) /\ segments \in Seq(SegmentRecords)
        /\ Len(segments) \in Nat /\ sown \in [SProcesses -> Nat] /\ sheard \in [SProcesses -> Texts]
        /\ m \in 0 .. Len(segments) /\ sown = [sown EXCEPT ![p] = m]
        /\ g \in Texts /\ sheard = [sheard EXCEPT ![p] = g]
        /\ skills \in 0 .. SMaxKills /\ SMaxKills \in Nat
        /\ spc[p] \notin {"start", "end", "killed"} => m # NoSegment
        /\ g # Silence => m # NoSegment
        /\ p \in SClients => spc[p] \notin {"size", "clear", "remove"}
        /\ spc[p] = "start" => m = NoSegment /\ g = Silence
        /\ SServers \cap SClients = {}
    BY <2>2, <2>3, SegmentTypes, SegmentExchangeAssumption DEF STyped
  \* The steps that make and open no segment.
  <2>5. ASSUME SProceeds(p) \/ SKill(p)
        PROVE  STyped'
    <3>1. /\ segments' \in Seq(SegmentRecords) /\ Len(segments') = Len(segments)
          /\ DOMAIN segments' = DOMAIN segments
      BY <2>4, <2>5, SizeLeaves, ClearLeaves, SpeakLeaves
         DEF SProceeds, SKill, Poll, PrintText, RemoveSegment
    <3>2. /\ sapi' = sapi /\ snamed' \in {NoSegment, snamed}
          /\ sown' = [sown EXCEPT ![p] = m] /\ skills' \in 0 .. SMaxKills
      BY <2>4, <2>5
         DEF SProceeds, SKill, SetSize, ClearFlag, Speak, Poll, PrintText, RemoveSegment
    <3>3. spc[p] \notin {"start", "end", "killed"}
      BY <2>5 DEF SProceeds, SKill, SActive, SetSize, ClearFlag, Speak, Speaks, Poll, PrintText,
                  RemoveSegment
    <3>4. PICK to \in SPcs \ {"start"} :
            SGoes(p, to) /\ (p \in SClients => to \notin {"size", "clear", "remove"})
      BY <2>4, <2>5 DEF SProceeds, SKill, SetSize, ClearFlag, Speak, Speaks, CopyHalf, Poll,
                        PrintText, RemoveSegment, SPcs
    <3>5. PICK h \in Texts : sheard' = [sheard EXCEPT ![p] = h]
      <4>1. CASE PrintText(p)
        <5>1. Seg(p) \in SegmentRecords
          BY <3>3, OwnSegment
        <5>2. Seg(p).text \in Texts
          BY <5>1 DEF SegmentRecords
        <5> QED
          BY <4>1, <5>2 DEF PrintText
      <4>2. CASE ~PrintText(p)
        BY <2>4, <2>5, <4>2
           DEF SProceeds, SKill, SetSize, ClearFlag, Speak, Poll, RemoveSegment
      <4> QED
        BY <4>1, <4>2
    <3>6. /\ Len(segments) <= Len(segments') /\ snamed' \in 0 .. Len(segments')
          /\ m \in 0 .. Len(segments') /\ m # NoSegment /\ sown[p] \in {NoSegment, m}
          /\ \A q \in DOMAIN segments' : q \in DOMAIN segments \/ (p \in SServers /\ m = q)
      BY <2>2, <2>4, <3>1, <3>2, <3>3 DEF NoSegment
    <3> QED
      BY <3>1, <3>2, <3>4, <3>5, <3>6, SegmentTypesNext
  <2>6. CASE p \in SServers /\ CreateSegment(p)
    <3>1. /\ segments' \in Seq(SegmentRecords) /\ Len(segments) <= Len(segments')
          /\ snamed' \in 0 .. Len(segments') /\ snamed' # NoSegment
          /\ \A i \in DOMAIN segments' : i \in DOMAIN segments \/ i = snamed'
          /\ sown' = [sown EXCEPT ![p] = snamed']
      BY <2>6, CreateLeaves
    <3>2. PICK n : n = snamed'
      OBVIOUS
    <3>3. PICK to \in SPcs \ {"start"} : SGoes(p, to)
      BY <2>6 DEF CreateSegment, SPcs
    <3>4. /\ sapi' = sapi /\ sheard' = [sheard EXCEPT ![p] = g] /\ skills' = skills
          /\ g = Silence /\ m = NoSegment
      BY <2>4, <2>6 DEF CreateSegment
    <3>5. /\ n \in 0 .. Len(segments') /\ sown' = [sown EXCEPT ![p] = n] /\ n # NoSegment
          /\ sown[p] \in {NoSegment, n} /\ p \notin SClients
          /\ \A q \in DOMAIN segments' : q \in DOMAIN segments \/ (p \in SServers /\ n = q)
          /\ skills' \in 0 .. SMaxKills
      BY <2>2, <2>4, <2>6, <3>1, <3>2, <3>4
    <3> QED
      BY <2>4, <3>1, <3>3, <3>4, <3>5, SegmentTypesNext
  <2>7. CASE p \in SClients /\ OpenSegment(p)
    <3>1. PICK n : n = snamed
      OBVIOUS
    <3>2. PICK to \in SPcs \ {"start"} :
            /\ SGoes(p, to) /\ to \notin {"size", "clear", "remove"}
            /\ to \notin {"end", "killed"} => n # NoSegment
      BY <2>7, <3>1 DEF OpenSegment, SPcs
    <3>3. /\ sapi' = sapi /\ sheard' = [sheard EXCEPT ![p] = g] /\ skills' = skills
          /\ segments' = segments /\ snamed' = snamed /\ sown' = [sown EXCEPT ![p] = n]
          /\ g = Silence /\ m = NoSegment
      BY <2>4, <2>7, <3>1 DEF OpenSegment
    <3>4. /\ segments' \in Seq(SegmentRecords) /\ Len(segments) <= Len(segments')
          /\ snamed' \in 0 .. Len(segments') /\ n \in 0 .. Len(segments')
          /\ \A q \in DOMAIN segments' : q \in DOMAIN segments \/ (p \in SServers /\ n = q)
          /\ sown[p] \in {NoSegment, n} /\ skills' \in 0 .. SMaxKills
      BY <2>2, <2>4, <3>1, <3>3
    <3> QED
      BY <2>4, <3>2, <3>3, <3>4, SegmentTypesNext
  <2> QED
    BY <2>1, <2>5, <2>6, <2>7
<1> QED
  BY <1>1, <1>2

\* The step of a server without rivals, once it has its segment, keeps what clients rely
\* on: it writes while they only poll.
LEMMA HostStep ==
    ASSUME STyped, NEW s \in SServers, SAlone(s), AloneKept(s), SProceeds(s) \/ SKill(s)
    PROVE  AloneKept(s)'
<1>1. PICK q : q = sown[s]
  OBVIOUS
<1>2. s \in SProcesses /\ s \notin SClients /\ SClients \subseteq SProcesses
  BY SegmentExchangeAssumption DEF SProcesses
<1>3. spc[s] \notin {"start", "end", "killed"}
  BY DEF SProceeds, SKill, SActive, SetSize, ClearFlag, Speak, Speaks, Poll, PrintText, RemoveSegment
<1>4. /\ q \in DOMAIN segments /\ Seg(s) = segments[q] /\ segments[q] \in SegmentRecords
      /\ spc \in [SProcesses -> SPcs] /\ sheard \in [SProcesses -> Texts]
  BY <1>1, <1>2, <1>3, OwnSegment, SegmentTypes
<1>5. sown' = sown
  BY DEF SProceeds, SKill, SetSize, ClearFlag, Speak, Poll, PrintText, RemoveSegment
<1>6. \A c \in SClients : spc'[c] = spc[c] /\ sheard'[c] = sheard[c]
  BY <1>2, <1>4 DEF SProceeds, SKill, SetSize, ClearFlag, Speak, Speaks, CopyHalf, Poll, PrintText,
                    RemoveSegment, SGoes
<1>7. Seg(s)' = segments'[q] /\ Guests(s)' = Guests(s) /\ \A c \in SClients : Lone(c, SClients)' = Lone(c, SClients)
  BY <1>1, <1>5 DEF Seg, Guests, Lone
<1>8. PICK G : G = Guests(s) /\ G \subseteq SClients
  BY DEF Guests
<1>9. PICK f : f = segments[q].flag
  OBVIOUS
<1>10. PICK x : x = segments[q].text
  OBVIOUS
<1>11. PICK e : e = segments'[q].flag
  OBVIOUS
<1>12. PICK y : y = segments'[q].text
  OBVIOUS
<1>13. /\ Early(s) => /\ f = 0 /\ \A c \in G : spc[c] \in {"poll", "end", "killed"}
                      /\ spc[s] \in {"copied", "flag"} => x[1] = "Hi!"
                      /\ spc[s] = "flag" => x = Hi
       /\ spc[s] \in {"poll", "print"} =>
            /\ spc[s] = "print" => f = 2
            /\ f = 2 => x = Hello
            /\ \A c \in G : /\ spc[c] \in {"copied", "flag"} => x[1] = "Hello!"
                            /\ spc[c] = "flag" => x = Hello
       /\ sheard[s] \in {Silence, Hello}
       /\ G = {} => f \in {0, 1} /\ (f = 1 => x = Hi)
       /\ \A c \in G : Lone(c, SClients) /\ spc[c] \in {"poll", "print"} =>
            f \in {0, 1} /\ (f = 1 => x = Hi) /\ (spc[c] = "print" => f = 1)
       /\ \A c \in G : Lone(c, SClients) => sheard[c] \in {Silence, Hi}
  BY <1>4, <1>8, <1>9, <1>10
     DEF AloneKept, Opening, Answering, HeardAnswer, Ungreeted, Greeted, Greeting, HeardGreeting
\* What is to be shown, of the flag e and the text y.
<1>14. SUFFICES
       /\ spc'[s] \in {"size", "clear", "copy", "copied", "flag"} =>
            /\ e = 0 /\ \A c \in G : spc[c] \in {"poll", "end", "killed"}
            /\ spc'[s] \in {"copied", "flag"} => y[1] = "Hi!"
            /\ spc'[s] = "flag" => y = Hi
       /\ spc'[s] \in {"poll", "print"} =>
            /\ spc'[s] = "print" => e = 2
            /\ e = 2 => y = Hello
            /\ \A c \in G : /\ spc[c] \in {"copied", "flag"} => y[1] = "Hello!"
                            /\ spc[c] = "flag" => y = Hello
       /\ sheard'[s] \in {Silence, Hello}
       /\ G = {} => e \in {0, 1} /\ (e = 1 => y = Hi)
       /\ \A c \in G : Lone(c, SClients) /\ spc[c] \in {"poll", "print"} =>
            e \in {0, 1} /\ (e = 1 => y = Hi) /\ (spc[c] = "print" => e = 1)
  BY <1>6, <1>7, <1>8, <1>11, <1>12, <1>13
     DEF AloneKept, Early, Opening, Answering, HeardAnswer, Ungreeted, Greeted, Greeting,
         HeardGreeting
<1>15. CASE SetSize(s)
  <2>1. e = f /\ y = x /\ spc[s] = "size" /\ spc'[s] = "clear" /\ sheard' = sheard
    BY <1>2, <1>4, <1>9, <1>10, <1>11, <1>12, <1>15, SizeLeaves DEF SetSize, SGoes
  <2> QED
    BY <1>13, <2>1 DEF Early
<1>16. CASE ClearFlag(s)
  <2>1. e \in {0, f} /\ y = x /\ spc[s] = "clear" /\ spc'[s] = "copy" /\ sheard' = sheard
    BY <1>1, <1>2, <1>4, <1>9, <1>10, <1>11, <1>12, <1>16, ClearLeaves DEF ClearFlag, SGoes
  <2> QED
    BY <1>13, <2>1 DEF Early
<1>17. CASE spc[s] = "copy" /\ CopyHalf(s, 1, "copied") /\ UNCHANGED sheard
  <2>1. e = f /\ y[1] = Says(s)[1]
    BY <1>1, <1>2, <1>9, <1>11, <1>12, <1>17, HalfLeaves
  <2>2. spc'[s] = "copied" /\ Says(s)[1] = "Hi!"
    BY <1>2, <1>4, <1>17 DEF CopyHalf, SGoes, Says, Hi
  <2> QED
    BY <1>13, <1>17, <2>1, <2>2 DEF Early
<1>18. CASE spc[s] = "copied" /\ CopyHalf(s, 2, "flag") /\ UNCHANGED sheard
  <2>1. /\ e = f /\ y[2] = Says(s)[2] /\ y[1] = x[1]
        /\ y[1] = Says(s)[1] /\ y[2] = Says(s)[2] => y = Says(s)
    BY <1>1, <1>2, <1>9, <1>10, <1>11, <1>12, <1>18, HalfLeaves
  <2>2. spc'[s] = "flag" /\ Says(s) = Hi /\ Hi[1] = "Hi!"
    BY <1>2, <1>4, <1>18 DEF CopyHalf, SGoes, Says, Hi
  <2> QED
    BY <1>13, <1>18, <2>1, <2>2 DEF Early
<1>19. CASE spc[s] = "flag" /\ Speaks(s) /\ UNCHANGED sheard
  <2>1. e = 1 /\ y = x
    BY <1>1, <1>2, <1>10, <1>11, <1>12, <1>19, FlagLeaves
  <2>2. spc'[s] = "poll"
    BY <1>2, <1>4, <1>19 DEF Speaks, SGoes
  <2> QED
    BY <1>13, <1>19, <2>1, <2>2 DEF Early
<1>20. CASE Poll(s)
  <2>1. e = f /\ y = x /\ sheard' = sheard /\ spc[s] = "poll" /\ spc'[s] \in {"killed", "print"}
    BY <1>2, <1>4, <1>9, <1>10, <1>11, <1>12, <1>20 DEF Poll, SGoes
  <2>2. spc'[s] = "print" => f = 2
    BY <1>2, <1>4, <1>9, <1>20 DEF Poll, SGoes, Awaits
  <2> QED
    BY <1>13, <2>1, <2>2
<1>21. CASE PrintText(s)
  <2>1. /\ e = f /\ y = x /\ sheard'[s] = x /\ spc[s] = "print" /\ spc'[s] = "remove"
    BY <1>2, <1>4, <1>9, <1>10, <1>11, <1>12, <1>21 DEF PrintText, SGoes
  <2> QED
    BY <1>13, <2>1
<1>22. CASE RemoveSegment(s) \/ SKill(s)
  <2>1. e = f /\ y = x /\ sheard' = sheard /\ spc'[s] \in {"end", "killed"}
    BY <1>2, <1>4, <1>9, <1>10, <1>11, <1>12, <1>22 DEF RemoveSegment, SKill, SGoes
  <2> QED
    BY <1>13, <2>1
<1> QED
  BY <1>15, <1>16, <1>17, <1>18, <1>19, <1>20, <1>21, <1>22 DEF SProceeds, Speak, Speaks

\* The step of a client that has, or now finds, the segment of a server without rivals
\* keeps what the server and the other clients rely on.
LEMMA GuestStep ==
    ASSUME STyped, NEW s \in SServers, SAlone(s), AloneKept(s), NEW c \in SClients,
           SProceeds(c) \/ SKill(c) \/ OpenSegment(c), sown'[c] = sown[s]
    PROVE  AloneKept(s)'
<1>1. PICK q : q = sown[s]
  OBVIOUS
<1>2. /\ s \in SProcesses /\ s \notin SClients /\ SClients \subseteq SProcesses
      /\ c \in SProcesses /\ c \notin SServers /\ c # s
      /\ spc[c] \notin {"size", "clear", "remove"}
  BY SegmentExchangeAssumption DEF SProcesses, STyped
<1>3. /\ spc \in [SProcesses -> SPcs] /\ sheard \in [SProcesses -> Texts]
      /\ sown \in [SProcesses -> Nat] /\ (spc[c] = "start" => sown[c] = NoSegment)
  BY <1>2, SegmentTypes
<1>4. CASE sown[c] = q
  <2>1. spc[c] \notin {"start", "end", "killed"}
    BY <1>1, <1>3, <1>4
       DEF SProceeds, SKill, SActive, SetSize, ClearFlag, Speak, Speaks, Poll, PrintText,
           RemoveSegment, OpenSegment, SAlone
  <2>2. /\ q \in DOMAIN segments /\ Seg(c) = segments[q] /\ Seg(s) = segments[q]
        /\ segments[q] \in SegmentRecords
    BY <1>1, <1>2, <1>4, <2>1, OwnSegment DEF Seg
  <2>3. sown' = sown
    BY <1>2, <2>1 DEF SProceeds, SKill, SetSize, ClearFlag, Speak, Poll, PrintText, RemoveSegment, OpenSegment
  <2>4. \A o \in SProcesses \ {c} : spc'[o] = spc[o] /\ sheard'[o] = sheard[o]
    BY <1>2, <1>3, <2>1
       DEF SProceeds, SKill, SetSize, ClearFlag, Speak, Speaks, CopyHalf, Poll, PrintText,
           RemoveSegment, SGoes, OpenSegment
  <2>5. Seg(s)' = segments'[q] /\ Guests(s)' = Guests(s) /\ \A o \in SClients : Lone(o, SClients)' = Lone(o, SClients)
    BY <1>1, <2>3 DEF Seg, Guests, Lone
  <2>6. PICK G : G = Guests(s) /\ G \subseteq SClients /\ c \in G
    <3>1. Guests(s) \subseteq SClients /\ c \in Guests(s)
      BY <1>1, <1>4 DEF Guests
    <3> QED
      BY <3>1
  <2>7. \A o \in G \ {c} : ~Lone(o, SClients)
    BY <1>1, <1>4, <2>6 DEF Guests, Lone
  <2>8. PICK f : f = segments[q].flag
    OBVIOUS
  <2>9. PICK x : x = segments[q].text
    OBVIOUS
  <2>10. PICK e : e = segments'[q].flag
    OBVIOUS
  <2>11. PICK y : y = segments'[q].text
    OBVIOUS
  <2>12. /\ Early(s) => /\ f = 0 /\ \A o \in G : spc[o] \in {"poll", "end", "killed"}
                        /\ spc[s] \in {"copied", "flag"} => x[1] = "Hi!"
                        /\ spc[s] = "flag" => x = Hi
         /\ spc[s] \in {"poll", "print"} =>
              /\ spc[s] = "print" => f = 2
              /\ f = 2 => x = Hello
              /\ \A o \in G : /\ spc[o] \in {"copied", "flag"} => x[1] = "Hello!"
                              /\ spc[o] = "flag" => x = Hello
         /\ sheard[s] \in {Silence, Hello}
         /\ Lone(c, SClients) /\ spc[c] \in {"poll", "print"} =>
              f \in {0, 1} /\ (f = 1 => x = Hi) /\ (spc[c] = "print" => f = 1)
         /\ Lone(c, SClients) => sheard[c] \in {Silence, Hi}
    BY <2>2, <2>6, <2>8, <2>9
       DEF AloneKept, Opening, Answering, HeardAnswer, Ungreeted, Greeted, Greeting, HeardGreeting
  \* What is to be shown, of the flag e and the text y.
  <2>13. SUFFICES
         /\ Early(s) => /\ e = 0 /\ spc'[c] \in {"poll", "end", "killed"}
                        /\ spc[s] \in {"copied", "flag"} => y[1] = "Hi!"
                        /\ spc[s] = "flag" => y = Hi
         /\ spc[s] \in {"poll", "print"} =>
              /\ spc[s] = "print" => e = 2
              /\ e = 2 => y = Hello
              /\ \A o \in G \ {c} : /\ spc[o] \in {"copied", "flag"} => y[1] = "Hello!"
                                    /\ spc[o] = "flag" => y = Hello
              /\ spc'[c] \in {"copied", "flag"} => y[1] = "Hello!"
              /\ spc'[c] = "flag" => y = Hello
         /\ Lone(c, SClients) /\ spc'[c] \in {"poll", "print"} =>
              e \in {0, 1} /\ (e = 1 => y = Hi) /\ (spc'[c] = "print" => e = 1)
         /\ Lone(c, SClients) => sheard'[c] \in {Silence, Hi}
    <3>1. Opening(s)' /\ Answering(s)'
      BY <1>2, <2>4, <2>5, <2>6, <2>10, <2>11, <2>12, <2>13 DEF Early, Opening, Answering
    <3>2. HeardAnswer(s)' /\ Ungreeted(s)'
      BY <1>2, <2>4, <2>5, <2>6, <2>12 DEF HeardAnswer, Ungreeted
    <3>3. \A o \in SClients : Greeted(o, s)' /\ HeardGreeting(o, s)'
      BY <2>5, <2>6, <2>7, <2>10, <2>11, <2>13 DEF Greeted, Greeting, HeardGreeting
    <3> QED
      BY <3>1, <3>2, <3>3 DEF AloneKept
  <2>14. CASE spc[c] = "copy" /\ CopyHalf(c, 1, "copied") /\ UNCHANGED sheard
    <3>1. /\ e = f /\ y[1] = Says(c)[1] /\ (x = Says(c) => y = Says(c))
      BY <1>2, <1>4, <2>8, <2>9, <2>10, <2>11, <2>14, HalfLeaves
    <3>2. spc'[c] = "copied" /\ Says(c) = Hello /\ Hello[1] = "Hello!"
      BY <1>2, <1>3, <2>14 DEF CopyHalf, SGoes, Says, Hello
    <3> QED
      BY <2>6, <2>12, <2>14, <3>1, <3>2 DEF Early
  <2>15. CASE spc[c] = "copied" /\ CopyHalf(c, 2, "flag") /\ UNCHANGED sheard
    <3>1. /\ e = f /\ y[2] = Says(c)[2] /\ y[1] = x[1] /\ (x = Says(c) => y = Says(c))
          /\ y[1] = Says(c)[1] /\ y[2] = Says(c)[2] => y = Says(c)
      BY <1>2, <1>4, <2>8, <2>9, <2>10, <2>11, <2>15, HalfLeaves
    <3>2. spc'[c] = "flag" /\ Says(c) = Hello /\ Hello[1] = "Hello!"
      BY <1>2, <1>3, <2>15 DEF CopyHalf, SGoes, Says, Hello
    <3> QED
      BY <2>6, <2>12, <2>15, <3>1, <3>2 DEF Early
  <2>16. CASE spc[c] = "flag" /\ Speaks(c) /\ UNCHANGED sheard
    <3>1. e = 2 /\ y = x
      BY <1>2, <1>4, <2>9, <2>10, <2>11, <2>16, FlagLeaves
    <3>2. spc'[c] = "end"
      BY <1>2, <1>3, <2>16 DEF Speaks, SGoes
    <3> QED
      BY <2>6, <2>12, <2>16, <3>1, <3>2 DEF Early
  <2>17. CASE Poll(c)
    <3>1. e = f /\ y = x /\ sheard' = sheard /\ spc[c] = "poll" /\ spc'[c] \in {"killed", "print"}
      BY <1>2, <1>3, <2>8, <2>9, <2>10, <2>11, <2>17 DEF Poll, SGoes
    <3>2. spc'[c] = "print" => f = 1
      BY <1>2, <1>3, <2>2, <2>8, <2>17 DEF Poll, SGoes, Awaits
    <3> QED
      BY <2>6, <2>12, <3>1, <3>2
  <2>18. CASE PrintText(c)
    <3>1. e = f /\ y = x /\ sheard'[c] = x /\ spc[c] = "print" /\ spc'[c] = "copy"
      BY <1>2, <1>3, <2>2, <2>8, <2>9, <2>10, <2>11, <2>18 DEF PrintText, SGoes
    <3> QED
      BY <2>6, <2>12, <3>1
  <2>19. CASE SKill(c)
    <3>1. e = f /\ y = x /\ sheard' = sheard /\ spc'[c] = "killed"
      BY <1>2, <1>3, <2>8, <2>9, <2>10, <2>11, <2>19 DEF SKill, SGoes
    <3> QED
      BY <2>6, <2>12, <3>1
  <2> QED
    BY <1>2, <2>1, <2>14, <2>15, <2>16, <2>17, <2>18, <2>19
       DEF SProceeds, Speak, Speaks, OpenSegment, SetSize, ClearFlag, RemoveSegment
<1>5. CASE sown[c] # q
  <2>1. OpenSegment(c) /\ q # NoSegment
    BY <1>1, <1>5 DEF SProceeds, SKill, SetSize, ClearFlag, Speak, Poll, PrintText, RemoveSegment, SAlone
  <2>2. sown'[c] = q /\ sown[c] = NoSegment /\ \A o \in SProcesses \ {c} : sown'[o] = sown[o]
    BY <1>1, <1>2, <1>3, <2>1 DEF OpenSegment
  <2>3. spc'[c] = "poll" /\ \A o \in SProcesses \ {c} : spc'[o] = spc[o]
    BY <1>2, <1>3, <2>1, <2>2 DEF OpenSegment, SGoes
  <2>4. sheard' = sheard /\ sheard[c] = Silence
    BY <1>2, <2>1, <2>2 DEF OpenSegment, STyped
  <2>5. Seg(s)' = Seg(s)
    BY <1>2, <2>1, <2>2 DEF Seg, OpenSegment
  <2>6. Guests(s)' = Guests(s) \cup {c}
    BY <1>1, <1>2, <2>2 DEF Guests
  <2>7. \A o \in Guests(s) : o # c /\ ~Lone(o, SClients)'
    BY <1>1, <1>2, <1>5, <2>2 DEF Guests, Lone
  <2>8. Lone(c, SClients)' => Guests(s) = {}
    BY <1>1, <1>2, <1>5, <2>2 DEF Guests, Lone
  <2>9. \A o \in Guests(s) : o \in SClients /\ spc'[o] = spc[o]
    BY <1>2, <2>3, <2>7 DEF Guests
  <2>10. Opening(s)' /\ Answering(s)'
    BY <1>2, <2>3, <2>5, <2>6, <2>9 DEF AloneKept, Early, Opening, Answering
  <2>11. HeardAnswer(s)' /\ Ungreeted(s)'
    BY <2>4, <2>6 DEF AloneKept, HeardAnswer, Ungreeted
  <2>12. Greeting(s)' = Greeting(s)
    BY <2>5 DEF Greeting
  <2>13. \A o \in SClients : Greeted(o, s)' /\ HeardGreeting(o, s)'
    BY <2>3, <2>4, <2>6, <2>7, <2>8, <2>12 DEF AloneKept, Ungreeted, Greeted, HeardGreeting
  <2> QED
    BY <2>10, <2>11, <2>13 DEF AloneKept
<1> QED
  BY <1>4, <1>5

\* The step of a process elsewhere changes nothing for a server without rivals.
LEMMA StrangerStep ==
    ASSUME STyped, NEW s \in SServers, SAlone(s), AloneKept(s), NEW p \in SProcesses \ {s},
           \/ SProceeds(p) \/ SKill(p)
           \/ p \in SServers /\ CreateSegment(p)
           \/ p \in SClients /\ OpenSegment(p),
           sown'[p] # sown[s]
    PROVE  AloneKept(s)'
<1>1. PICK q : q = sown[s]
  OBVIOUS
<1>2. /\ s \in SProcesses /\ s \notin SClients /\ SClients \subseteq SProcesses
      /\ spc \in [SProcesses -> SPcs] /\ sheard \in [SProcesses -> Texts]
      /\ sown \in [SProcesses -> Nat] /\ q \in DOMAIN segments /\ q # NoSegment
  BY <1>1, SegmentTypes, SegmentExchangeAssumption DEF SProcesses, SAlone, NoSegment
<1>3. \A o \in SProcesses \ {p} : sown'[o] = sown[o] /\ spc'[o] = spc[o] /\ sheard'[o] = sheard[o]
  BY <1>2 DEF SProceeds, SKill, SetSize, ClearFlag, Speak, Speaks, CopyHalf, Poll, PrintText,
              RemoveSegment, SGoes, OpenSegment, CreateSegment
<1>4. sown[p] # q
  <2>1. CASE SProceeds(p) \/ SKill(p)
    BY <1>1, <2>1 DEF SProceeds, SKill, SetSize, ClearFlag, Speak, Poll, PrintText, RemoveSegment
  <2>2. CASE CreateSegment(p) \/ OpenSegment(p)
    BY <1>2, <2>2, SegmentTypes DEF CreateSegment, OpenSegment
  <2> QED
    BY <2>1, <2>2
<1>5. segments'[q] = segments[q]
  <2>1. CASE SetSize(p)
    <3>1. p \in SProcesses /\ sown[p] \in DOMAIN segments
      BY <2>1, OwnSegment DEF SetSize
    <3> QED
      BY <1>2, <1>4, <2>1, <3>1, SegmentTypes DEF SetSize
  <2>2. CASE ClearFlag(p)
    BY <1>2, <1>4, <2>2, ClearLeaves
  <2>3. CASE Speak(p)
    BY <1>2, <1>4, <2>3, SpeakLeaves
  <2>4. CASE CreateSegment(p)
    BY <1>2, <2>4, CreateLeaves
  <2>5. CASE UNCHANGED segments
    BY <2>5
  <2> QED
    BY <2>1, <2>2, <2>3, <2>4, <2>5 DEF SProceeds, SKill, Poll, PrintText, RemoveSegment, OpenSegment
<1>6. Seg(s)' = Seg(s)
  BY <1>1, <1>2, <1>3, <1>5 DEF Seg
<1>7. Guests(s)' = Guests(s) /\ p \notin Guests(s) /\ Guests(s) \subseteq SProcesses
  BY <1>1, <1>2, <1>3, <1>4 DEF Guests
<1>8. \A c \in Guests(s) : Lone(c, SClients)' => Lone(c, SClients)
  BY <1>1, <1>2, <1>3, <1>4, <1>7 DEF Guests, Lone
<1>9. \A c \in Guests(s) : spc'[c] = spc[c] /\ sheard'[c] = sheard[c]
  BY <1>3, <1>7
<1>10. Opening(s)' /\ Answering(s)' /\ HeardAnswer(s)' /\ Ungreeted(s)'
  BY <1>2, <1>3, <1>6, <1>7, <1>9
     DEF AloneKept, Early, Opening, Answering, HeardAnswer, Ungreeted, Greeting
<1>11. \A c \in SClients : Greeted(c, s)' /\ HeardGreeting(c, s)'
  BY <1>6, <1>7, <1>8, <1>9 DEF AloneKept, Greeted, Greeting, HeardGreeting
<1> QED
  BY <1>10, <1>11 DEF AloneKept

\* A server that finds itself without rivals after a step was so before, or has just
\* created its segment.
LEMMA AloneStep ==
    SInv /\ [SNext]_sVars => (\A s \in SServers : SAlone(s) => AloneKept(s))'
<1> SUFFICES ASSUME SInv, [SNext]_sVars, NEW s \in SServers, SAlone(s)'
             PROVE  AloneKept(s)'
  BY DEF SInv
<1>1. STyped /\ (SAlone(s) => AloneKept(s)) /\ s \in SProcesses
  BY DEF SInv, SProcesses
<1>2. CASE UNCHANGED sVars
  BY <1>1, <1>2
     DEF sVars, SAlone, Lone, AloneKept, Early, Opening, Answering, HeardAnswer, Ungreeted, Greeted,
         Greeting, HeardGreeting, Guests, Seg
<1>3. CASE SNext
  <2>1. PICK p \in SProcesses :
          \/ SProceeds(p) \/ SKill(p)
          \/ p \in SServers /\ CreateSegment(p)
          \/ p \in SClients /\ OpenSegment(p)
    BY <1>3 DEF SNext
  <2>2. /\ sown \in [SProcesses -> Nat] /\ SServers \subseteq SProcesses /\ SClients \subseteq SProcesses
        /\ \A o \in SProcesses : spc[o] = "start" => sown[o] = NoSegment
    BY <1>1, SegmentTypes DEF SProcesses
  <2>3. \A o \in SProcesses : sown[o] # NoSegment => sown'[o] = sown[o]
    BY <2>1, <2>2
       DEF SProceeds, SKill, SetSize, ClearFlag, Speak, Poll, PrintText, RemoveSegment,
           CreateSegment, OpenSegment
  <2>4. CASE sown[s] # NoSegment
    <3>1. SAlone(s)
      BY <1>1, <2>2, <2>3, <2>4 DEF SAlone, Lone
    <3>2. CASE p = s
      <4>1. SProceeds(s) \/ SKill(s)
        BY <1>1, <2>1, <2>2, <2>4, <3>2, SegmentExchangeAssumption DEF CreateSegment
      <4> QED
        BY <1>1, <3>1, <4>1, HostStep
    <3>3. CASE p # s /\ sown'[p] # sown[s]
      BY <1>1, <2>1, <3>1, <3>3, StrangerStep
    <3>4. CASE p # s /\ sown'[p] = sown[s]
      <4>1. p \in SClients /\ p \notin SServers
        BY <1>1, <2>3, <2>4, <3>4, SegmentExchangeAssumption DEF SAlone, Lone, SProcesses
      <4> QED
        BY <1>1, <2>1, <3>1, <3>4, <4>1, GuestStep
    <3> QED
      BY <3>2, <3>3, <3>4
  <2>5. CASE sown[s] = NoSegment
    <3>1. p = s /\ CreateSegment(s)
      BY <1>1, <2>1, <2>2, <2>5, SegmentExchangeAssumption
         DEF SAlone, SProceeds, SKill, SetSize, ClearFlag, Speak, Poll, PrintText, RemoveSegment,
             CreateSegment, OpenSegment
    <3>2. sown'[s] = snamed' /\ \A o \in SProcesses \ {s} : sown'[o] = sown[o]
      BY <1>1, <2>2, <3>1, CreateLeaves
    <3>3. snamed = NoSegment
      <4>1. SUFFICES ASSUME snamed # NoSegment
                     PROVE  FALSE
        OBVIOUS
      <4>2. snamed' = snamed /\ snamed \in DOMAIN segments
        BY <1>1, <3>1, <4>1, CreateLeaves, SegmentTypes DEF NoSegment
      <4>3. PICK o \in SServers : sown[o] = snamed
        BY <1>1, <4>2 DEF STyped
      <4>4. o # s
        BY <2>5, <4>1, <4>3
      <4> QED
        BY <2>2, <3>2, <4>2, <4>3, <4>4 DEF SAlone, Lone
    <3>4. snamed' \notin DOMAIN segments /\ segments'[snamed'].flag = 0 /\ snamed' # NoSegment
      BY <1>1, <3>1, <3>3, CreateLeaves
    <3>5. \A o \in SProcesses : sown[o] = NoSegment \/ sown[o] \in DOMAIN segments
      BY <1>1, SegmentTypes DEF NoSegment
    <3>6. Guests(s)' = {}
      <4>1. s \notin SClients
        BY SegmentExchangeAssumption
      <4> QED
        BY <2>2, <3>2, <3>4, <3>5, <4>1 DEF Guests
    <3>7. spc'[s] \in {"size", "clear"} /\ sheard'[s] = Silence /\ Seg(s)'.flag = 0
      BY <1>1, <2>5, <3>1, <3>2, <3>4, SegmentTypes DEF CreateSegment, SGoes, Seg, STyped
    <3> QED
      BY <3>6, <3>7
         DEF AloneKept, Early, Opening, Answering, HeardAnswer, Ungreeted, Greeted, Greeting,
             HeardGreeting
  <2> QED
    BY <2>4, <2>5
<1> QED
  BY <1>2, <1>3

\* SInit: no segment, and nobody has started.
LEMMA SInvInit == SInit => SInv
<1> SUFFICES ASSUME SInit
             PROVE  SInv
  OBVIOUS
<1>1. segments = <<>> /\ segments \in Seq(SegmentRecords) /\ Len(segments) = 0 /\ DOMAIN segments = {}
  BY DEF SInit
<1>2. "" \in {"", "Hi!", "Hello!"}
  OBVIOUS
<1>3. Silence \in Texts
  BY <1>2 DEF Silence, Texts
<1>4. STypeOK
  BY <1>1, <1>3, SegmentExchangeAssumption DEF SInit, STypeOK, SegmentRecords, NoSegment
<1>5. \A p \in SProcesses : spc[p] = "start" /\ sown[p] = NoSegment /\ sheard[p] = Silence
  BY DEF SInit
<1>6. STyped
  BY <1>1, <1>4, <1>5 DEF SInit, STyped, SProcesses, NoSegment
<1>7. \A s \in SServers : ~SAlone(s)
  BY <1>5 DEF SAlone, SProcesses
<1> QED
  BY <1>6, <1>7 DEF SInv

\* The inductive invariant of the segments.
THEOREM SegmentInvariant == SSpec => []SInv
<1>1. SInv /\ [SNext]_sVars => SInv'
  <2>1. SInv => STyped
    BY DEF SInv
  <2> QED
    BY <2>1, STypedStep, AloneStep DEF SInv
<1> QED
  BY SInvInit, <1>1, PTL DEF SSpec

\* A server has heard a whole reply: the invariant says so of one without rivals, and
\* who has heard anything has a segment.
LEMMA SegmentReplies == SInv => WholeReply
<1> SUFFICES ASSUME SInv, NEW s \in SServers, sheard[s] # Silence, Sharing(s, SServers) = {}
             PROVE  sheard[s] = Hello
  BY DEF WholeReply
<1>1. sown[s] # NoSegment
  BY DEF SInv, STyped, SProcesses
<1>2. Lone(s, SServers)
  BY DEF Sharing, Lone
<1> QED
  BY <1>1, <1>2 DEF SInv, SAlone, AloneKept, HeardAnswer

\* A client alone with one server has heard the whole greeting: that server is one
\* without rivals.
LEMMA SegmentGreetings == SInv => WholeGreeting
<1> SUFFICES ASSUME SInv, NEW c \in SClients, sheard[c] # Silence, Sharing(c, SClients) = {},
                    Cardinality(Sharing(c, SServers)) = 1
             PROVE  sheard[c] = Hi
  BY DEF WholeGreeting
<1>1. sown[c] # NoSegment /\ c \notin SServers
  BY SegmentExchangeAssumption DEF SInv, STyped, SProcesses
<1>2. IsFiniteSet(Sharing(c, SServers))
  <2>1. Sharing(c, SServers) \subseteq SServers
    BY DEF Sharing
  <2> QED
    BY <2>1, SegmentExchangeAssumption, FS_Subset
<1>3. PICK s : Sharing(c, SServers) = {s}
  BY <1>2, FS_Singleton
<1>4. s \in SServers /\ sown[s] = sown[c] /\ \A o \in SServers : sown[o] = sown[c] => o = s
  BY <1>1, <1>3 DEF Sharing
<1>5. SAlone(s) /\ c \in Guests(s) /\ Lone(c, SClients)
  BY <1>1, <1>4 DEF SAlone, Guests, Lone, Sharing
<1> QED
  BY <1>4, <1>5 DEF SInv, AloneKept, HeardGreeting

\* However the polls, the halves of the texts and the flags interleave, types are kept, a
\* server without rivals prints a whole reply, and a client alone with one server the whole
\* greeting (src/shared_memory/server_*.c, client_*.c).
THEOREM SegmentExchanged == SSpec => [](STypeOK /\ WholeReply /\ WholeGreeting)
<1>1. SInv => STypeOK
  BY DEF SInv, STyped
<1> QED
  BY SegmentInvariant, SegmentReplies, SegmentGreetings, <1>1, PTL

-------------------------------------------------------------------------------
(* The FIFOs.                                                                    *)

FPcs == {"start", "open", "opening", "write", "read", "unlink", "end", "killed"}
FContents == 0 .. Cardinality(FServers)

\* The fields of FTypeOK and FTyped, one by one.
LEMMA FifoTypes ==
    ASSUME FTyped
    PROVE  /\ fnamed \in 0 .. Len(fifos) /\ fnamed \in Nat /\ fifos \in Seq(FContents)
           /\ Len(fifos) \in Nat /\ DOMAIN fifos = 1 .. Len(fifos)
           /\ fpc \in [FProcesses -> FPcs] /\ fown \in [FProcesses -> Nat]
           /\ \A p \in FProcesses : fown[p] \in 0 .. Len(fifos)
           /\ \A p \in FProcesses : fown[p] # NoFifo => fown[p] \in DOMAIN fifos
           /\ fheard \in [FClients -> {"stack", "greeting"}] /\ fkills \in 0 .. FMaxKills
           /\ FMaxKills \in Nat /\ fkills \in Nat /\ FServers \subseteq FProcesses
           /\ FClients \subseteq FProcesses /\ FServers \cap FClients = {}
           /\ \A p \in FProcesses : p \in FServers \/ p \in FClients
           /\ fnamed # NoFifo => fnamed \in DOMAIN fifos
           /\ Cardinality(FServers) \in Nat /\ \A f \in DOMAIN fifos : fifos[f] \in Nat
<1>1. Cardinality(FServers) \in Nat
  BY FifoExchangeAssumption, FS_CardinalityType
<1>2. fifos \in Seq(FContents) /\ fown \in [FProcesses -> 0 .. Len(fifos)]
  BY DEF FTyped, FTypeOK, FContents
<1>3. Len(fifos) \in Nat /\ DOMAIN fifos = 1 .. Len(fifos)
  BY <1>2
<1>4. \A f \in DOMAIN fifos : fifos[f] \in Nat
  BY <1>1, <1>2 DEF FContents
<1>5. fown \in [FProcesses -> Nat]
  BY <1>2, <1>3
<1>6. \A p \in FProcesses : fown[p] # NoFifo => fown[p] \in DOMAIN fifos
  BY <1>2, <1>3 DEF NoFifo
<1>7. fnamed \in 0 .. Len(fifos) /\ fnamed \in Nat /\ (fnamed # NoFifo => fnamed \in DOMAIN fifos)
  BY <1>3 DEF FTyped, FTypeOK, NoFifo
<1>8. fkills \in 0 .. FMaxKills /\ FMaxKills \in Nat /\ fkills \in Nat
  BY FifoExchangeAssumption DEF FTyped, FTypeOK
<1> QED
  BY <1>1, <1>2, <1>3, <1>4, <1>5, <1>6, <1>7, <1>8, FifoExchangeAssumption
     DEF FTyped, FTypeOK, FPcs, FProcesses

\* What a successful open() does to the other side: who waited for it goes on.
LEMMA FifoOpened ==
    ASSUME FTyped, NEW p \in FProcesses, OpenFifo(p), fnamed # NoFifo
    PROVE  /\ fown'[p] = fnamed /\ \A o \in FProcesses \ {p} : fown'[o] = fown[o]
           /\ fpc'[p] = IF FMet(p, fnamed) THEN FReady(p) ELSE "opening"
           /\ \A o \in FProcesses \ {p} :
                fpc'[o] = IF fpc[o] = "opening" /\ fown[o] = fnamed /\ (o \in FServers <=> p \in FClients)
                          THEN FReady(o) ELSE fpc[o]
           /\ fpc' \in [FProcesses -> FPcs]
<1>1. /\ fown' = [fown EXCEPT ![p] = fnamed]
      /\ fpc' = [o \in FProcesses |->
           CASE o = p -> IF FMet(p, fnamed) THEN FReady(p) ELSE "opening"
             [] o # p /\ fpc[o] = "opening" /\ fown[o] = fnamed
                      /\ (o \in FServers <=> p \in FClients) -> FReady(o)
             [] OTHER -> fpc[o]]
  BY DEF OpenFifo
<1>2. fown'[p] = fnamed /\ \A o \in FProcesses \ {p} : fown'[o] = fown[o]
  BY <1>1, FifoTypes
<1>3. fpc'[p] = IF FMet(p, fnamed) THEN FReady(p) ELSE "opening"
  BY <1>1
<1>4. \A o \in FProcesses \ {p} :
        fpc'[o] = IF fpc[o] = "opening" /\ fown[o] = fnamed /\ (o \in FServers <=> p \in FClients)
                  THEN FReady(o) ELSE fpc[o]
  BY <1>1
<1>5. \A o \in FProcesses : fpc'[o] \in FPcs
  BY <1>3, <1>4, FifoTypes DEF FReady, FPcs
<1>6. fpc' \in [FProcesses -> FPcs]
  BY <1>1, <1>5
<1> QED
  BY <1>2, <1>3, <1>4, <1>6

\* Who opens is at the start of its run.
LEMMA FifoOpener ==
    ASSUME FTyped, NEW p \in FProcesses, OpenFifo(p)
    PROVE  /\ fown[p] = NoFifo /\ fpc[p] = IF p \in FServers THEN "open" ELSE "start"
           /\ fnamed = NoFifo => fown' = fown /\ fpc' = [fpc EXCEPT ![p] = "end"]
           /\ UNCHANGED <<fnamed, fifos, fheard, fkills>>
  BY DEF OpenFifo, FTyped

\* One FIFO changes its contents.
LEMMA FifoUpdated ==
    ASSUME FTyped, NEW q \in DOMAIN fifos, NEW n \in FContents, fifos' = [fifos EXCEPT ![q] = n]
    PROVE  /\ fifos' \in Seq(FContents) /\ Len(fifos') = Len(fifos) /\ DOMAIN fifos' = DOMAIN fifos
           /\ fifos'[q] = n /\ \A f \in DOMAIN fifos : f # q => fifos'[f] = fifos[f]
<1>1. PICK u : u = fifos
  OBVIOUS
<1>2. PICK t : t = fifos'
  OBVIOUS
<1>3. u \in Seq(FContents) /\ q \in DOMAIN u /\ t = [u EXCEPT ![q] = n]
  BY <1>1, <1>2, FifoTypes
<1>4. /\ t \in Seq(FContents) /\ Len(t) = Len(u) /\ DOMAIN t = DOMAIN u /\ t[q] = n
      /\ \A f \in DOMAIN u : f # q => t[f] = u[f]
  BY <1>3, Replaced
<1> QED
  BY <1>1, <1>2, <1>4

\* A FIFO holds what it held, or nothing.
LEMMA FifoContent ==
    ASSUME FTyped, NEW f \in DOMAIN fifos, NEW gone
    PROVE  FContent(f, gone) \in FContents /\ FContent(f, gone) <= fifos[f]
<1>1. fifos[f] \in FContents /\ fifos[f] \in Nat /\ Cardinality(FServers) \in Nat
  BY FifoTypes
<1> QED
  BY <1>1 DEF FContent, FContents

\* The servers that have left a FIFO are finitely many, and do not grow fewer when no
\* server comes back to life.
LEMMA FifoGone ==
    ASSUME FTyped, NEW f
    PROVE  IsFiniteSet(FGone(f)) /\ Cardinality(FGone(f)) \in Nat /\ Cardinality(FGone(f)) <= Cardinality(FServers)
<1>1. FGone(f) \subseteq FServers
  BY DEF FGone
<1> QED
  BY <1>1, FifoExchangeAssumption, FS_Subset, FS_CardinalityType

\* No greetings appear but by a write.
LEMMA FifoBound ==
    ASSUME FTyped, NEW f, NEW G, IsFiniteSet(G), FGone(f) \subseteq G, NEW n \in Nat, NEW m \in Nat,
           n <= m, m <= Cardinality(FGone(f))
    PROVE  n <= Cardinality(G)
<1>1. Cardinality(FGone(f)) <= Cardinality(G) /\ Cardinality(FGone(f)) \in Nat /\ Cardinality(G) \in Nat
  BY FifoGone, FS_Subset, FS_CardinalityType
<1> QED
  BY <1>1

\* One process goes on, without another FIFO: a server that ends may have left a greeting.
LEMMA FifoTypesNext ==
    ASSUME FTyped, NEW p \in FProcesses, NEW to \in FPcs \ {"start"}, fpc' = [fpc EXCEPT ![p] = to],
           fown' = fown, fpc[p] \notin {"end", "killed"},
           to \in {"opening", "write", "read", "unlink"} => fown[p] # NoFifo,
           p \in FServers => to \notin {"read", "unlink"} /\ (to = "open" => fown[p] = NoFifo),
           p \in FClients => to \notin {"open", "write"},
           fifos' \in Seq(FContents), Len(fifos) <= Len(fifos'), fnamed' \in 0 .. Len(fifos'),
           fheard' \in [FClients -> {"stack", "greeting"}], fkills' \in 0 .. FMaxKills,
           \A f \in DOMAIN fifos' :
             \/ fifos'[f] = 0
             \/ f \in DOMAIN fifos /\ fifos'[f] <= fifos[f]
             \/ /\ f \in DOMAIN fifos /\ fifos'[f] = fifos[f] + 1
                /\ p \in FServers /\ to = "end" /\ fown[p] = f
    PROVE  FTyped'
<1>1. fpc' \in [FProcesses -> FPcs] /\ fpc'[p] = to /\ \A o \in FProcesses \ {p} : fpc'[o] = fpc[o]
  BY FifoTypes
<1>2. Len(fifos') \in Nat /\ Len(fifos) \in Nat /\ Cardinality(FServers) \in Nat
  BY FifoTypes
<1>3. fown' \in [FProcesses -> 0 .. Len(fifos')]
  BY <1>2, FifoTypes
<1>4. FTypeOK'
  BY <1>1, <1>3 DEF FTypeOK, FContents, FPcs
<1>5. /\ \A o \in FProcesses : fpc'[o] = "start" => fown'[o] = NoFifo
      /\ \A s \in FServers : fpc'[s] = "open" => fown'[s] = NoFifo
      /\ \A o \in FProcesses :
           fpc'[o] \in {"opening", "write", "read", "unlink"} => fown'[o] # NoFifo
      /\ \A s \in FServers : fpc'[s] \notin {"read", "unlink"}
      /\ \A c \in FClients : fpc'[c] \notin {"open", "write"}
  BY <1>1, FifoTypes DEF FTyped
<1>6. ASSUME NEW f \in DOMAIN fifos'
      PROVE  fifos'[f] <= Cardinality(FGone(f)')
  <2>1. PICK G : G = FGone(f)'
    OBVIOUS
  <2>2. G \subseteq FServers /\ FGone(f) \subseteq G
    BY <2>1, <1>1, FifoTypes DEF FGone
  <2>3. IsFiniteSet(G) /\ Cardinality(G) \in Nat
    BY <2>2, FifoExchangeAssumption, FS_Subset, FS_CardinalityType
  <2>4. PICK n : n = fifos'[f]
    OBVIOUS
  <2>5. n \in FContents /\ n \in Nat
    BY <2>4, <1>2 DEF FContents
  <2>6. CASE n = 0
    BY <2>1, <2>3, <2>4, <2>6
  <2>7. CASE f \in DOMAIN fifos /\ n <= fifos[f]
    <3>1. fifos[f] \in Nat /\ fifos[f] <= Cardinality(FGone(f))
      BY <2>7, FifoTypes DEF FTyped
    <3>2. PICK m \in Nat : m = fifos[f]
      BY <3>1
    <3>3. n <= Cardinality(G)
      BY <2>2, <2>3, <2>5, <2>7, <3>1, <3>2, FifoBound
    <3> QED
      BY <2>1, <2>4, <3>3
  <2>8. CASE /\ f \in DOMAIN fifos /\ n = fifos[f] + 1
             /\ p \in FServers /\ to = "end" /\ fown[p] = f
    <3>1. fifos[f] \in Nat /\ fifos[f] <= Cardinality(FGone(f))
      BY <2>8, FifoTypes DEF FTyped
    <3>2. p \notin FGone(f) /\ p \in G
      BY <2>1, <2>8, <1>1, FifoTypes DEF FGone
    <3>3. PICK H : H = FGone(f)
      OBVIOUS
    <3>4. IsFiniteSet(H) /\ Cardinality(H) \in Nat /\ H \cup {p} \subseteq G
      BY <2>2, <3>2, <3>3, FifoGone
    <3>5. Cardinality(H \cup {p}) = Cardinality(H) + 1
      BY <3>2, <3>3, <3>4, FS_AddElement
    <3>6. Cardinality(H \cup {p}) <= Cardinality(G)
      BY <2>3, <3>4, FS_Subset
    <3> QED
      BY <2>1, <2>3, <2>4, <2>8, <3>1, <3>3, <3>4, <3>5, <3>6
  <2> QED
    BY <2>4, <2>6, <2>7, <2>8
<1> QED
  BY <1>4, <1>5, <1>6 DEF FTyped

\* FTyped: every step keeps the types, and the FIFO of who uses one.
LEMMA FTypedStep == FTyped /\ [FNext]_fVars => FTyped'
<1> SUFFICES ASSUME FTyped, [FNext]_fVars
             PROVE  FTyped'
  OBVIOUS
<1>1. CASE UNCHANGED fVars
  BY <1>1 DEF fVars, FTyped, FTypeOK, FGone
<1>2. CASE FNext
  <2>1. PICK p \in FProcesses : FProceeds(p) \/ FStarts(p) \/ FKill(p)
    BY <1>2 DEF FNext
  <2>2. /\ fnamed \in 0 .. Len(fifos) /\ fifos \in Seq(FContents) /\ Len(fifos) \in Nat
        /\ fpc \in [FProcesses -> FPcs] /\ fown \in [FProcesses -> Nat]
        /\ fheard \in [FClients -> {"stack", "greeting"}] /\ fkills \in 0 .. FMaxKills
        /\ FMaxKills \in Nat /\ FServers \cap FClients = {}
        /\ p \in FServers \/ p \in FClients
        /\ \A f \in DOMAIN fifos : fifos[f] \in Nat /\ fifos[f] <= fifos[f]
        /\ Cardinality(FServers) \in Nat
    BY FifoTypes
  <2>3. /\ fpc[p] \in {"opening", "write", "read", "unlink"} => fown[p] # NoFifo /\ fown[p] \in DOMAIN fifos
        /\ p \in FServers => fpc[p] \notin {"read", "unlink"}
        /\ p \in FClients => fpc[p] \notin {"open", "write"}
        /\ fpc[p] \in {"start"} => fown[p] = NoFifo
    BY FifoTypes DEF FTyped
  <2>4. CASE p \in FServers /\ MakeFifo(p)
    <3>1. PICK to \in FPcs \ {"start"} : to = "open" /\ fpc' = [fpc EXCEPT ![p] = to]
      BY <2>4 DEF MakeFifo, FPcs
    <3>2. /\ fown' = fown /\ fheard' = fheard /\ fkills' = fkills /\ fpc[p] = "start"
          /\ fown[p] = NoFifo /\ p \notin FClients
      BY <2>2, <2>3, <2>4 DEF MakeFifo
    <3>3. /\ fifos' \in Seq(FContents) /\ Len(fifos) <= Len(fifos') /\ fnamed' \in 0 .. Len(fifos')
          /\ \A f \in DOMAIN fifos' : fifos'[f] = 0 \/ (f \in DOMAIN fifos /\ fifos'[f] <= fifos[f])
      <4>1. CASE fnamed = NoFifo
        <5>1. 0 \in FContents
          BY <2>2 DEF FContents
        <5>2. PICK t : t = fifos'
          OBVIOUS
        <5>3. PICK u : u = fifos
          OBVIOUS
        <5>4. t = Append(u, 0) /\ fnamed' = Len(t) /\ u \in Seq(FContents)
          BY <2>2, <2>4, <4>1, <5>2, <5>3 DEF MakeFifo
        <5>5. /\ t \in Seq(FContents) /\ Len(t) = Len(u) + 1 /\ t[Len(u) + 1] = 0
              /\ \A i \in DOMAIN u : t[i] = u[i]
              /\ \A i \in DOMAIN t : i \in DOMAIN u \/ i = Len(u) + 1
              /\ Len(u) \in Nat
          BY <5>1, <5>4, Appended
        <5>6. Len(u) <= Len(t) /\ fnamed' \in 0 .. Len(t)
          BY <5>4, <5>5
        <5> QED
          BY <2>2, <5>2, <5>3, <5>5, <5>6
      <4>2. CASE fnamed # NoFifo
        BY <2>2, <2>4, <4>2 DEF MakeFifo
      <4> QED
        BY <4>1, <4>2
    <3> QED
      BY <2>2, <3>1, <3>2, <3>3, FifoTypesNext
  <2>5. CASE OpenFifo(p) /\ fnamed = NoFifo
    <3>1. PICK to \in FPcs \ {"start"} : to = "end" /\ fpc' = [fpc EXCEPT ![p] = to]
      BY <2>5, FifoOpener DEF FPcs
    <3>2. /\ fown' = fown /\ UNCHANGED <<fnamed, fifos, fheard, fkills>> /\ fpc[p] \in {"open", "start"}
      BY <2>5, FifoOpener
    <3>3. /\ fifos' \in Seq(FContents) /\ Len(fifos) <= Len(fifos') /\ fnamed' \in 0 .. Len(fifos')
          /\ \A f \in DOMAIN fifos' : f \in DOMAIN fifos /\ fifos'[f] <= fifos[f]
      BY <2>2, <3>2
    <3> QED
      BY <2>2, <3>1, <3>2, <3>3, FifoTypesNext
  <2>6. CASE OpenFifo(p) /\ fnamed # NoFifo
    <3>1. /\ fown'[p] = fnamed /\ \A o \in FProcesses \ {p} : fown'[o] = fown[o]
          /\ fpc'[p] = IF FMet(p, fnamed) THEN FReady(p) ELSE "opening"
          /\ \A o \in FProcesses \ {p} :
               fpc'[o] = IF fpc[o] = "opening" /\ fown[o] = fnamed /\ (o \in FServers <=> p \in FClients)
                         THEN FReady(o) ELSE fpc[o]
          /\ fpc' \in [FProcesses -> FPcs] /\ UNCHANGED <<fnamed, fifos, fheard, fkills>>
          /\ fown' = [fown EXCEPT ![p] = fnamed]
      BY <2>6, FifoOpened, FifoOpener DEF OpenFifo
    <3>2. fown' \in [FProcesses -> 0 .. Len(fifos')]
      BY <2>2, <3>1, FifoTypes
    <3>3. FTypeOK'
      BY <2>2, <3>1, <3>2 DEF FTypeOK, FContents, FPcs
    <3>4. \A o \in FProcesses : FReady(o) = IF o \in FServers THEN "write" ELSE "read"
      BY DEF FReady
    <3>5. /\ \A o \in FProcesses : fpc'[o] = "start" => fown'[o] = NoFifo
          /\ \A s \in FServers : fpc'[s] = "open" => fown'[s] = NoFifo
          /\ \A o \in FProcesses :
               fpc'[o] \in {"opening", "write", "read", "unlink"} => fown'[o] # NoFifo
          /\ \A s \in FServers : fpc'[s] \notin {"read", "unlink"}
          /\ \A c \in FClients : fpc'[c] \notin {"open", "write"}
      BY <2>6, <3>1, <3>4, FifoTypes DEF FTyped
    <3>6. ASSUME NEW f \in DOMAIN fifos'
          PROVE  fifos'[f] <= Cardinality(FGone(f)')
      <4>1. \A s \in FServers : s # p => (fpc'[s] \in {"end", "killed"} <=> fpc[s] \in {"end", "killed"})
        BY <3>1, <3>4, FifoTypes
      <4>2. p \notin FGone(f) /\ p \notin FGone(f)'
        BY <2>6, <3>1, <3>4, FifoOpener DEF FGone
      <4>3. FGone(f)' = FGone(f)
        BY <3>1, <4>1, <4>2, FifoTypes DEF FGone
      <4> QED
        BY <3>1, <4>3 DEF FTyped
    <3> QED
      BY <3>3, <3>5, <3>6 DEF FTyped
  <2>7. CASE p \in FServers /\ WriteGreeting(p)
    <3>1. PICK q : q = fown[p]
      OBVIOUS
    <3>2. /\ q \in DOMAIN fifos /\ fown' = fown /\ UNCHANGED <<fnamed, fheard, fkills>>
          /\ fpc[p] = "write" /\ p \notin FClients /\ q # NoFifo
      BY <2>2, <2>3, <2>7, <3>1 DEF WriteGreeting
    <3>3. CASE FReaders(q) = {}
      <4>1. PICK n \in FContents : n <= fifos[q] /\ n = FContent(q, {p})
        BY <3>2, FifoContent
      <4>2. fifos' = [fifos EXCEPT ![q] = n]
        BY <2>7, <3>1, <3>3, <4>1 DEF WriteGreeting
      <4>3. /\ fifos' \in Seq(FContents) /\ Len(fifos') = Len(fifos) /\ DOMAIN fifos' = DOMAIN fifos
            /\ fifos'[q] = n /\ \A f \in DOMAIN fifos : f # q => fifos'[f] = fifos[f]
        BY <3>2, <4>2, FifoUpdated
      <4>4. PICK to \in FPcs \ {"start"} : to = "killed" /\ fpc' = [fpc EXCEPT ![p] = to]
        BY <2>7, <3>1, <3>3 DEF WriteGreeting, FPcs
      <4>5. \A f \in DOMAIN fifos' : f \in DOMAIN fifos /\ fifos'[f] <= fifos[f]
        BY <2>2, <4>1, <4>3
      <4>6. Len(fifos) <= Len(fifos') /\ fnamed' \in 0 .. Len(fifos')
        BY <2>2, <3>2, <4>3
      <4> QED
        BY <2>2, <3>2, <4>3, <4>4, <4>5, <4>6, FifoTypesNext
    <3>4. CASE FReaders(q) # {}
      <4>1. fifos' = [fifos EXCEPT ![q] = fifos[q] + 1]
        BY <2>7, <3>1, <3>4 DEF WriteGreeting
      <4>2. fifos[q] + 1 \in FContents
        <5>1. fifos[q] \in Nat /\ fifos[q] <= Cardinality(FGone(q))
          BY <3>2, FifoTypes DEF FTyped
        <5>2. PICK H : H = FGone(q)
          OBVIOUS
        <5>3. p \notin H /\ H \cup {p} \subseteq FServers /\ IsFiniteSet(H) /\ Cardinality(H) \in Nat
          BY <2>7, <3>2, <5>2, FifoGone DEF FGone
        <5>4. Cardinality(H \cup {p}) = Cardinality(H) + 1
          BY <5>3, FS_AddElement
        <5>5. Cardinality(H \cup {p}) <= Cardinality(FServers)
          BY <5>3, FifoExchangeAssumption, FS_Subset
        <5> QED
          BY <2>2, <5>1, <5>2, <5>3, <5>4, <5>5 DEF FContents
      <4>3. PICK n \in FContents : n = fifos[q] + 1
        BY <4>2
      <4>4. /\ fifos' \in Seq(FContents) /\ Len(fifos') = Len(fifos) /\ DOMAIN fifos' = DOMAIN fifos
            /\ fifos'[q] = n /\ \A f \in DOMAIN fifos : f # q => fifos'[f] = fifos[f]
        BY <3>2, <4>1, <4>3, FifoUpdated
      <4>5. PICK to \in FPcs \ {"start"} : to = "end" /\ fpc' = [fpc EXCEPT ![p] = to]
        BY <2>7, <3>1, <3>4 DEF WriteGreeting, FPcs
      <4>6. \A f \in DOMAIN fifos' :
              \/ f \in DOMAIN fifos /\ fifos'[f] <= fifos[f]
              \/ /\ f \in DOMAIN fifos /\ fifos'[f] = fifos[f] + 1
                 /\ p \in FServers /\ to = "end" /\ fown[p] = f
        BY <2>2, <2>7, <3>1, <4>3, <4>4, <4>5
      <4>7. Len(fifos) <= Len(fifos') /\ fnamed' \in 0 .. Len(fifos')
        BY <2>2, <3>2, <4>4
      <4> QED
        BY <2>2, <3>2, <4>4, <4>5, <4>6, <4>7, FifoTypesNext
    <3> QED
      BY <3>3, <3>4
  <2>8. CASE p \in FClients /\ ReadGreeting(p)
    <3>1. PICK q : q = fown[p]
      OBVIOUS
    <3>2. /\ q \in DOMAIN fifos /\ fown' = fown /\ UNCHANGED <<fnamed, fkills>>
          /\ fpc[p] = "read" /\ p \notin FServers /\ q # NoFifo
          /\ fheard' \in [FClients -> {"stack", "greeting"}]
      BY <2>2, <2>3, <2>8, <3>1 DEF ReadGreeting
    <3>3. PICK n \in FContents : n = 0
      BY <2>2 DEF FContents
    <3>4. fifos' = [fifos EXCEPT ![q] = n]
      BY <2>8, <3>1, <3>3 DEF ReadGreeting
    <3>5. /\ fifos' \in Seq(FContents) /\ Len(fifos') = Len(fifos) /\ DOMAIN fifos' = DOMAIN fifos
          /\ fifos'[q] = n /\ \A f \in DOMAIN fifos : f # q => fifos'[f] = fifos[f]
      BY <3>2, <3>4, FifoUpdated
    <3>6. PICK to \in FPcs \ {"start"} : to = "unlink" /\ fpc' = [fpc EXCEPT ![p] = to]
      BY <2>8 DEF ReadGreeting, FPcs
    <3>7. \A f \in DOMAIN fifos' : fifos'[f] = 0 \/ (f \in DOMAIN fifos /\ fifos'[f] <= fifos[f])
      BY <2>2, <3>3, <3>5
    <3>8. Len(fifos) <= Len(fifos') /\ fnamed' \in 0 .. Len(fifos') /\ fown[p] # NoFifo
      BY <2>2, <3>1, <3>2, <3>5
    <3> QED
      BY <2>2, <3>2, <3>5, <3>6, <3>7, <3>8, FifoTypesNext
  <2>9. CASE p \in FClients /\ UnlinkFifo(p)
    <3>1. PICK to \in FPcs \ {"start"} : to = "end" /\ fpc' = [fpc EXCEPT ![p] = to]
      BY <2>9 DEF UnlinkFifo, FPcs
    <3>2. /\ fown' = fown /\ UNCHANGED <<fifos, fheard, fkills>> /\ fpc[p] = "unlink" /\ fnamed' = NoFifo
      BY <2>9 DEF UnlinkFifo, NameGoes
    <3>3. /\ fifos' \in Seq(FContents) /\ Len(fifos) <= Len(fifos') /\ fnamed' \in 0 .. Len(fifos')
          /\ \A f \in DOMAIN fifos' : f \in DOMAIN fifos /\ fifos'[f] <= fifos[f]
      BY <2>2, <3>2 DEF NoFifo
    <3> QED
      BY <2>2, <3>1, <3>2, <3>3, FifoTypesNext
  <2>10. CASE FKill(p)
    <3>1. PICK to \in FPcs \ {"start"} : to = "killed" /\ fpc' = [fpc EXCEPT ![p] = to]
      BY <2>10 DEF FKill, FPcs
    <3>2. /\ fown' = fown /\ UNCHANGED <<fnamed, fheard>> /\ fpc[p] \notin {"start", "end", "killed"}
          /\ fkills' \in 0 .. FMaxKills
      BY <2>2, <2>10 DEF FKill, FActive
    <3>3. /\ fifos' \in Seq(FContents) /\ Len(fifos') = Len(fifos) /\ DOMAIN fifos' = DOMAIN fifos
          /\ \A f \in DOMAIN fifos : fifos'[f] <= fifos[f]
      <4>1. CASE fown[p] = NoFifo
        BY <2>2, <2>10, <4>1 DEF FKill
      <4>2. CASE fown[p] # NoFifo
        <5>1. PICK q : q = fown[p]
          OBVIOUS
        <5>2. q \in DOMAIN fifos
          BY <4>2, <5>1, FifoTypes
        <5>3. PICK n \in FContents : n <= fifos[q] /\ n = FContent(q, {p})
          BY <5>2, FifoContent
        <5>4. fifos' = [fifos EXCEPT ![q] = n]
          BY <2>10, <4>2, <5>1, <5>3 DEF FKill
        <5>5. /\ fifos' \in Seq(FContents) /\ Len(fifos') = Len(fifos) /\ DOMAIN fifos' = DOMAIN fifos
              /\ fifos'[q] = n /\ \A f \in DOMAIN fifos : f # q => fifos'[f] = fifos[f]
          BY <5>2, <5>4, FifoUpdated
        <5> QED
          BY <2>2, <5>3, <5>5
      <4> QED
        BY <4>1, <4>2
    <3>4. Len(fifos) <= Len(fifos') /\ fnamed' \in 0 .. Len(fifos')
      BY <2>2, <3>2, <3>3
    <3>5. \A f \in DOMAIN fifos' : f \in DOMAIN fifos /\ fifos'[f] <= fifos[f]
      BY <3>3
    <3> QED
      BY <2>2, <3>1, <3>2, <3>3, <3>4, <3>5, FifoTypesNext
  <2> QED
    BY <2>1, <2>4, <2>5, <2>6, <2>7, <2>8, <2>9, <2>10 DEF FProceeds, FStarts
<1> QED
  BY <1>1, <1>2

\* A FIFO is for life: who has one keeps it, so who is alone at one was so before.
LEMMA FifoForLife ==
    ASSUME FTyped, FNext
    PROVE  /\ \A p \in FProcesses : fown[p] # NoFifo => fown'[p] = fown[p]
           /\ \A c \in FClients : fown[c] # NoFifo /\ FOthers(c, FClients)' = {} => FOthers(c, FClients) = {}
<1>1. PICK p \in FProcesses : FProceeds(p) \/ FStarts(p) \/ FKill(p)
  BY DEF FNext
<1>2. \A o \in FProcesses : fown[o] # NoFifo => fown'[o] = fown[o]
  <2>1. CASE OpenFifo(p)
    BY <2>1, FifoOpener, FifoOpened
  <2>2. CASE ~OpenFifo(p)
    <3>1. fown' = fown
      BY <1>1, <2>2 DEF FProceeds, FStarts, FKill, MakeFifo, WriteGreeting, ReadGreeting, UnlinkFifo
    <3> QED
      BY <3>1
  <2> QED
    BY <2>1, <2>2
<1>3. FClients \subseteq FProcesses
  BY FifoTypes
<1> QED
  BY <1>2, <1>3 DEF FOthers

\* FPromised: a client that reads and has no rival finds a greeting, or its writer still there.
LEMMA FPromisedStep ==
    FTyped /\ (\A c \in FClients : FPromised(c)) /\ [FNext]_fVars => (\A c \in FClients : FPromised(c))'
<1> SUFFICES ASSUME FTyped, \A c \in FClients : FPromised(c), [FNext]_fVars, NEW c \in FClients,
                    fpc'[c] = "read", FOthers(c, FClients)' = {}, fkills' = 0
             PROVE  fifos'[fown'[c]] > 0 \/ \E s \in FServers : fpc'[s] = "write" /\ fown'[s] = fown'[c]
  BY DEF FPromised
<1>1. CASE UNCHANGED fVars
  BY <1>1 DEF fVars, FPromised, FOthers
<1>2. CASE FNext
  <2>1. PICK p \in FProcesses : FProceeds(p) \/ FStarts(p) \/ FKill(p)
    BY <1>2 DEF FNext
  <2>2. /\ fpc \in [FProcesses -> FPcs] /\ fown \in [FProcesses -> Nat] /\ fkills \in Nat
        /\ FServers \subseteq FProcesses /\ FClients \subseteq FProcesses
        /\ FServers \cap FClients = {} /\ c \in FProcesses /\ c \notin FServers
        /\ p \in FServers \/ p \in FClients
        /\ \A f \in DOMAIN fifos : fifos[f] \in Nat
        /\ \A o \in FProcesses :
             fpc[o] \in {"opening", "write", "read", "unlink"} => fown[o] # NoFifo /\ fown[o] \in DOMAIN fifos
        /\ \A s \in FServers : fpc[s] \notin {"read", "unlink"}
        /\ \A o \in FClients : fpc[o] \notin {"open", "write"}
    BY FifoTypes DEF FTyped
  <2>3. PICK q : q = fown[c]
    OBVIOUS
  <2>4. FOthers(c, FClients)' = {} /\ q # NoFifo => FOthers(c, FClients) = {}
    BY <1>2, <2>3, FifoForLife
  \* The client read before this step.
  <2>5. ASSUME fpc[c] = "read", fkills = 0, fown'[c] = q
        PROVE  q \in DOMAIN fifos /\ (fifos[q] > 0 \/ \E s \in FServers : fpc[s] = "write" /\ fown[s] = q)
    BY <2>2, <2>3, <2>4, <2>5 DEF FPromised
  <2>6. CASE p \in FServers /\ MakeFifo(p)
    <3>1. fown' = fown /\ fkills' = fkills /\ fpc[p] = "start" /\ fpc' = [fpc EXCEPT ![p] = "open"]
      BY <2>6 DEF MakeFifo
    <3>2. fpc[c] = "read" /\ \A o \in FProcesses \ {p} : fpc'[o] = fpc[o]
      BY <2>2, <2>6, <3>1
    <3>3. \A f \in DOMAIN fifos : fifos'[f] = fifos[f]
      <4>1. PICK t : t = fifos'
        OBVIOUS
      <4>2. PICK u : u = fifos
        OBVIOUS
      <4>3. u \in Seq(FContents) /\ 0 \in FContents
        BY <4>2, FifoTypes DEF FContents
      <4>4. t = Append(u, 0) \/ t = u
        BY <2>6, <4>1, <4>2 DEF MakeFifo
      <4>5. \A f \in DOMAIN u : t[f] = u[f]
        BY <4>3, <4>4, Appended
      <4> QED
        BY <4>1, <4>2, <4>5
    <3> QED
      BY <2>2, <2>3, <2>5, <3>1, <3>2, <3>3
  <2>7. CASE OpenFifo(p) /\ fnamed = NoFifo
    <3>1. /\ fown' = fown /\ fkills' = fkills /\ fifos' = fifos /\ fpc[p] \in {"open", "start"}
          /\ fpc' = [fpc EXCEPT ![p] = "end"]
      BY <2>7, FifoOpener
    <3>2. fpc[c] = "read" /\ \A o \in FProcesses \ {p} : fpc'[o] = fpc[o]
      BY <2>2, <3>1
    <3> QED
      BY <2>2, <2>3, <2>5, <3>1, <3>2
  <2>8. CASE OpenFifo(p) /\ fnamed # NoFifo
    <3>1. /\ fown'[p] = fnamed /\ \A o \in FProcesses \ {p} : fown'[o] = fown[o]
          /\ fpc'[p] = IF FMet(p, fnamed) THEN FReady(p) ELSE "opening"
          /\ \A o \in FProcesses \ {p} :
               fpc'[o] = IF fpc[o] = "opening" /\ fown[o] = fnamed /\ (o \in FServers <=> p \in FClients)
                         THEN FReady(o) ELSE fpc[o]
          /\ UNCHANGED <<fnamed, fifos, fheard, fkills>> /\ fpc[p] \in {"open", "start"}
      BY <2>8, FifoOpened, FifoOpener
    <3>2. CASE c = p
      <4>1. FWriters(fnamed) # {} /\ fown'[c] = fnamed
        BY <2>2, <3>1, <3>2 DEF FMet
      <4>2. PICK s \in FServers : fown[s] = fnamed /\ fpc[s] \in {"opening", "write"}
        BY <2>2, <4>1 DEF FWriters, FOpened
      <4>3. fpc'[s] = "write" /\ fown'[s] = fnamed
        BY <2>2, <3>1, <3>2, <4>2 DEF FReady
      <4> QED
        BY <4>1, <4>3
    <3>3. CASE c # p /\ fpc[c] = "read"
      <4>1. fown'[c] = q /\ fkills = 0
        BY <2>2, <2>3, <3>1, <3>3
      <4>2. CASE fifos[q] > 0
        BY <3>1, <4>1, <4>2
      <4>3. CASE \E s \in FServers : fpc[s] = "write" /\ fown[s] = q
        BY <2>2, <3>1, <4>1, <4>3
      <4> QED
        BY <2>5, <3>3, <4>1, <4>2, <4>3
    <3>4. CASE c # p /\ fpc[c] # "read"
      <4>1. fpc[c] = "opening" /\ fown[c] = fnamed /\ p \in FServers
        BY <2>2, <3>1, <3>4
      <4>2. c \in FReaders(fnamed)
        BY <4>1 DEF FReaders, FOpened
      <4>3. fpc'[p] = "write" /\ fown'[c] = fnamed
        BY <2>2, <3>1, <3>4, <4>1, <4>2 DEF FMet, FReady
      <4> QED
        BY <3>1, <4>1, <4>3
    <3> QED
      BY <3>2, <3>3, <3>4
  <2>9. CASE p \in FServers /\ WriteGreeting(p)
    <3>1. fown' = fown /\ fkills' = fkills /\ fpc[p] = "write" /\ \A o \in FProcesses \ {p} : fpc'[o] = fpc[o]
      BY <2>2, <2>9 DEF WriteGreeting
    <3>2. fpc[c] = "read" /\ q \in DOMAIN fifos /\ fown'[c] = q
      BY <2>2, <2>3, <2>9, <3>1
    <3>3. PICK w : w = fown[p] /\ w \in DOMAIN fifos
      BY <2>2, <3>1
    <3>4. CASE w = q
      <4>1. c \in FReaders(q)
        BY <2>3, <3>2 DEF FReaders, FOpened
      <4>2. fifos' = [fifos EXCEPT ![q] = fifos[q] + 1]
        BY <2>9, <3>3, <3>4, <4>1 DEF WriteGreeting
      <4>3. fifos'[q] = fifos[q] + 1
        BY <3>2, <4>2, FifoTypes
      <4> QED
        BY <2>2, <3>2, <4>3
    <3>5. CASE w # q
      <4>1. fifos'[q] = fifos[q]
        <5>1. CASE FReaders(w) = {}
          BY <2>9, <3>2, <3>3, <3>5, <5>1, FifoTypes DEF WriteGreeting
        <5>2. CASE FReaders(w) # {}
          BY <2>9, <3>2, <3>3, <3>5, <5>2, FifoTypes DEF WriteGreeting
        <5> QED
          BY <5>1, <5>2
      <4> QED
        BY <2>2, <2>5, <3>1, <3>2, <3>3, <3>5, <4>1
    <3> QED
      BY <3>4, <3>5
  <2>10. CASE p \in FClients /\ ReadGreeting(p)
    <3>1. /\ fown' = fown /\ fkills' = fkills /\ fpc[p] = "read" /\ fpc'[p] = "unlink"
          /\ \A o \in FProcesses \ {p} : fpc'[o] = fpc[o]
      BY <2>2, <2>10 DEF ReadGreeting
    <3>2. c # p /\ fpc[c] = "read" /\ fown'[c] = q /\ q \in DOMAIN fifos
      BY <2>2, <2>3, <3>1
    <3>3. fown[p] # q
      BY <2>3, <2>10, <3>1, <3>2 DEF FOthers
    <3>4. fifos'[q] = fifos[q]
      BY <2>2, <2>10, <3>1, <3>2, <3>3, FifoTypes DEF ReadGreeting
    <3> QED
      BY <2>2, <2>5, <2>10, <3>1, <3>2, <3>4
  <2>11. CASE p \in FClients /\ UnlinkFifo(p)
    <3>1. /\ fown' = fown /\ fkills' = fkills /\ fifos' = fifos /\ fpc'[p] = "end"
          /\ \A o \in FProcesses \ {p} : fpc'[o] = fpc[o]
      BY <2>2, <2>11 DEF UnlinkFifo
    <3>2. fpc[c] = "read" /\ fown'[c] = q
      BY <2>2, <2>3, <3>1
    <3> QED
      BY <2>2, <2>5, <2>11, <3>1, <3>2
  <2>12. CASE FKill(p)
    BY <2>2, <2>12 DEF FKill
  <2> QED
    BY <2>1, <2>6, <2>7, <2>8, <2>9, <2>10, <2>11, <2>12 DEF FProceeds, FStarts
<1> QED
  BY <1>1, <1>2

\* GreetingIsHeard: the read of a client without rivals waits for the greeting that is
\* promised, and nothing is read twice.
LEMMA GreetingStep ==
    FTyped /\ (\A c \in FClients : FPromised(c)) /\ GreetingIsHeard /\ [FNext]_fVars => GreetingIsHeard'
<1> SUFFICES ASSUME FTyped, \A c \in FClients : FPromised(c), GreetingIsHeard, [FNext]_fVars,
                    NEW c \in FClients, fpc'[c] \in {"unlink", "end"}, fown'[c] # NoFifo,
                    FOthers(c, FClients)' = {}, fkills' = 0
             PROVE  fheard'[c] = "greeting"
  BY DEF GreetingIsHeard
<1>1. CASE UNCHANGED fVars
  BY <1>1 DEF fVars, GreetingIsHeard, FOthers
<1>2. CASE FNext
  <2>1. PICK p \in FProcesses : FProceeds(p) \/ FStarts(p) \/ FKill(p)
    BY <1>2 DEF FNext
  <2>2. /\ fpc \in [FProcesses -> FPcs] /\ fown \in [FProcesses -> Nat] /\ fkills \in Nat
        /\ FServers \subseteq FProcesses /\ FClients \subseteq FProcesses
        /\ FServers \cap FClients = {} /\ c \in FProcesses /\ c \notin FServers
        /\ fheard \in [FClients -> {"stack", "greeting"}]
        /\ \A o \in FProcesses :
             fpc[o] \in {"opening", "write", "read", "unlink"} => fown[o] # NoFifo /\ fown[o] \in DOMAIN fifos
        /\ \A f \in DOMAIN fifos : fifos[f] \in Nat
        /\ \A o \in FClients : fpc[o] \notin {"open", "write"}
        /\ fpc[c] = "start" => fown[c] = NoFifo
    BY FifoTypes DEF FTyped
  <2>3. fown[c] # NoFifo => FOthers(c, FClients) = {} /\ fown'[c] = fown[c]
    BY <1>2, <2>2, FifoForLife
  <2>4. CASE fpc[c] \in {"unlink", "end"} /\ fown[c] # NoFifo
    <3>1. fkills = 0 /\ (fheard'[c] = fheard[c])
      BY <2>1, <2>2, <2>4
         DEF FProceeds, FStarts, FKill, MakeFifo, OpenFifo, WriteGreeting, ReadGreeting, UnlinkFifo
    <3> QED
      BY <2>3, <2>4, <3>1 DEF GreetingIsHeard
  <2>5. CASE fpc[c] = "read"
    <3>1. c = p /\ ReadGreeting(c)
      <4>1. CASE OpenFifo(p) /\ fnamed = NoFifo
        BY <2>2, <2>5, <4>1, FifoOpener
      <4>2. CASE OpenFifo(p) /\ fnamed # NoFifo
        <5>1. c # p
          BY <2>2, <2>5, <4>2, FifoOpener
        <5>2. fpc'[c] = "read"
          BY <2>2, <2>5, <4>2, <5>1, FifoOpened
        <5> QED
          BY <5>2
      <4>3. CASE ~OpenFifo(p)
        BY <2>1, <2>2, <2>5, <4>3
           DEF FProceeds, FStarts, FKill, MakeFifo, WriteGreeting, ReadGreeting, UnlinkFifo
      <4> QED
        BY <4>1, <4>2, <4>3
    <3>2. fkills = 0 /\ fifos[fown[c]] \in Nat
      BY <2>2, <2>5, <3>1 DEF ReadGreeting
    <3>3. fifos[fown[c]] > 0 \/ FWriters(fown[c]) # {}
      BY <2>2, <2>3, <2>5, <3>2 DEF FPromised, FWriters, FOpened
    <3>4. fifos[fown[c]] > 0
      BY <3>1, <3>3 DEF ReadGreeting
    <3> QED
      BY <2>2, <3>1, <3>4 DEF ReadGreeting
  <2>6. CASE fpc[c] \notin {"unlink", "end", "read"} \/ fown[c] = NoFifo
    <3>1. CASE OpenFifo(p) /\ fnamed = NoFifo
      <4>1. fown' = fown /\ fown[p] = NoFifo /\ fpc' = [fpc EXCEPT ![p] = "end"]
        BY <3>1, FifoOpener
      <4> QED
        BY <2>2, <2>6, <4>1
    <3>2. CASE OpenFifo(p) /\ fnamed # NoFifo
      <4>1. \A o \in FProcesses : FReady(o) \in {"read", "write"}
        BY DEF FReady
      <4>2. fpc'[c] = fpc[c] \/ fpc'[c] \in {"read", "write", "opening"}
        BY <2>2, <3>2, <4>1, FifoOpened
      <4>3. fpc'[c] = fpc[c] /\ fown'[c] = fown[c]
        <5>1. fpc'[c] = fpc[c]
          BY <4>2
        <5>2. c # p
          BY <2>2, <3>2, <4>1, <5>1, FifoOpened
        <5> QED
          BY <2>2, <3>2, <5>1, <5>2, FifoOpened
      <4> QED
        BY <2>6, <4>3
    <3>3. CASE ~OpenFifo(p)
      <4>1. fown' = fown /\ fpc'[c] = fpc[c]
        BY <2>1, <2>2, <2>6, <3>3
           DEF FProceeds, FStarts, FKill, MakeFifo, WriteGreeting, ReadGreeting, UnlinkFifo
      <4> QED
        BY <2>6, <4>1
    <3> QED
      BY <3>1, <3>2, <3>3
  <2> QED
    BY <2>4, <2>5, <2>6
<1> QED
  BY <1>1, <1>2

\* FKept: while a FIFO has its name, somebody is on the way to a read of it.
LEMMA FKeptStep == FTyped /\ FKept /\ [FNext]_fVars => FKept'
<1> SUFFICES ASSUME FTyped, FKept, [FNext]_fVars, fnamed' # NoFifo, fkills' = 0
             PROVE  \/ \E s \in FServers : fpc'[s] = "open"
                    \/ \E p \in FProcesses : fpc'[p] = "opening" /\ fown'[p] = fnamed'
                    \/ \E c \in FClients : fpc'[c] \in {"read", "unlink"} /\ fown'[c] = fnamed'
  BY DEF FKept
<1>1. CASE UNCHANGED fVars
  BY <1>1 DEF fVars, FKept
<1>2. CASE FNext
  <2>1. PICK p \in FProcesses : FProceeds(p) \/ FStarts(p) \/ FKill(p)
    BY <1>2 DEF FNext
  <2>2. /\ fpc \in [FProcesses -> FPcs] /\ fown \in [FProcesses -> Nat] /\ fkills \in Nat
        /\ FServers \subseteq FProcesses /\ FClients \subseteq FProcesses
        /\ FServers \cap FClients = {} /\ (p \in FServers \/ p \in FClients)
        /\ \A s \in FServers : fpc[s] \notin {"read", "unlink"}
        /\ \A c \in FClients : fpc[c] \notin {"open", "write"}
    BY FifoTypes DEF FTyped
  <2>3. CASE p \in FServers /\ MakeFifo(p)
    BY <2>2, <2>3 DEF MakeFifo
  <2>4. CASE OpenFifo(p) /\ fnamed = NoFifo
    BY <2>4, FifoOpener
  <2>5. CASE OpenFifo(p) /\ fnamed # NoFifo
    <3>1. /\ fown'[p] = fnamed /\ \A o \in FProcesses \ {p} : fown'[o] = fown[o]
          /\ fpc'[p] = IF FMet(p, fnamed) THEN FReady(p) ELSE "opening"
          /\ \A o \in FProcesses \ {p} :
               fpc'[o] = IF fpc[o] = "opening" /\ fown[o] = fnamed /\ (o \in FServers <=> p \in FClients)
                         THEN FReady(o) ELSE fpc[o]
          /\ UNCHANGED <<fnamed, fifos, fheard, fkills>> /\ fpc[p] \in {"open", "start"}
      BY <2>5, FifoOpened, FifoOpener
    <3>2. CASE ~FMet(p, fnamed)
      BY <3>1, <3>2
    <3>3. CASE FMet(p, fnamed) /\ p \in FClients
      BY <2>2, <3>1, <3>3 DEF FReady
    <3>4. CASE FMet(p, fnamed) /\ p \in FServers
      <4>1. PICK c \in FClients : fown[c] = fnamed /\ fpc[c] \in {"opening", "write", "read"}
        BY <2>2, <3>4 DEF FMet, FReaders, FOpened
      <4>2. c # p /\ c \in FProcesses /\ c \notin FServers /\ p \notin FClients
        BY <2>2, <3>4
      <4>3. fpc'[c] = "read" /\ fown'[c] = fnamed
        BY <2>2, <3>1, <4>1, <4>2 DEF FReady
      <4> QED
        BY <3>1, <4>3
    <3> QED
      BY <2>2, <3>2, <3>3, <3>4
  <2>6. ASSUME fown' = fown, fnamed' = fnamed, fkills' = fkills, \A o \in FProcesses \ {p} : fpc'[o] = fpc[o],
               fpc[p] = "write" \/ (p \in FClients /\ fpc'[p] = "unlink" /\ fpc[p] = "read")
        PROVE  \/ \E s \in FServers : fpc'[s] = "open"
               \/ \E o \in FProcesses : fpc'[o] = "opening" /\ fown'[o] = fnamed'
               \/ \E c \in FClients : fpc'[c] \in {"read", "unlink"} /\ fown'[c] = fnamed'
    <3>1. CASE \E s \in FServers : fpc[s] = "open"
      BY <2>2, <2>6, <3>1
    <3>2. CASE \E o \in FProcesses : fpc[o] = "opening" /\ fown[o] = fnamed
      BY <2>2, <2>6, <3>2
    <3>3. CASE \E c \in FClients : fpc[c] \in {"read", "unlink"} /\ fown[c] = fnamed
      BY <2>2, <2>6, <3>3
    <3> QED
      BY <2>6, <3>1, <3>2, <3>3 DEF FKept
  <2>7. CASE p \in FServers /\ WriteGreeting(p)
    BY <2>2, <2>6, <2>7 DEF WriteGreeting
  <2>8. CASE p \in FClients /\ ReadGreeting(p)
    BY <2>2, <2>6, <2>8 DEF ReadGreeting
  <2>9. CASE p \in FClients /\ UnlinkFifo(p)
    BY <2>9 DEF UnlinkFifo, NameGoes
  <2>10. CASE FKill(p)
    BY <2>2, <2>10 DEF FKill
  <2> QED
    BY <2>1, <2>3, <2>4, <2>5, <2>7, <2>8, <2>9, <2>10 DEF FProceeds, FStarts
<1> QED
  BY <1>1, <1>2

\* FInit: no FIFO, and nobody has started.
LEMMA FInvInit == FInit => FInv
<1> SUFFICES ASSUME FInit
             PROVE  FInv
  OBVIOUS
<1>1. fifos = <<>> /\ fifos \in Seq(FContents) /\ Len(fifos) = 0 /\ DOMAIN fifos = {}
  BY DEF FInit
<1>2. FTypeOK
  BY <1>1, FifoExchangeAssumption DEF FInit, FTypeOK, FContents, NoFifo
<1>3. \A p \in FProcesses : fpc[p] = "start" /\ fown[p] = NoFifo
  BY DEF FInit
<1>4. FTyped
  BY <1>1, <1>2, <1>3 DEF FTyped, FProcesses
<1>5. (\A c \in FClients : FPromised(c)) /\ GreetingIsHeard
  BY <1>3 DEF FPromised, GreetingIsHeard, FProcesses
<1>6. FKept
  BY DEF FInit, FKept
<1> QED
  BY <1>4, <1>5, <1>6 DEF FInv

\* The inductive invariant of the FIFOs.
THEOREM FifoInvariant == FSpec => []FInv
<1>1. FInv /\ [FNext]_fVars => FInv'
  BY FTypedStep, FPromisedStep, FKeptStep, GreetingStep DEF FInv
<1> QED
  BY FInvInit, <1>1, PTL DEF FSpec

\* When all have ended, nobody was on the way to a FIFO any more.
LEMMA FifoPromises == FInv => FTypeOK /\ GreetingIsHeard /\ FNothingLeft
<1> SUFFICES ASSUME FInv
             PROVE  FTypeOK /\ GreetingIsHeard /\ FNothingLeft
  OBVIOUS
<1>1. ASSUME FActive = {}, fkills = 0, fnamed # NoFifo
      PROVE  FALSE
  BY <1>1 DEF FInv, FKept, FActive, FProcesses
<1> QED
  BY <1>1 DEF FInv, FTyped, FNothingLeft

\* However servers and clients meet at the FIFOs, types are kept, a client alone at its
\* FIFO prints a greeting and never its stack, and no FIFO outlives those who were not
\* killed (src/channels/fifo-server.c, fifo-client.c).
THEOREM FifoExchanged == FSpec => [](FTypeOK /\ GreetingIsHeard /\ FNothingLeft)
  BY FifoInvariant, FifoPromises, PTL

-------------------------------------------------------------------------------
(* Signals.                                                                      *)

\* The signal that a receiver is about.
OwnSignal == IF greceiver = "block_sigint" THEN "INT" ELSE "USR1"

\* A pending signal of this kind that was sent after the id was told meets a program that
\* holds it back or handles it.
GInv ==
    /\ SignalsTypeOK /\ ToldIsSafe
    /\ OwnSignal \in gpending => OwnSignal \in gearly \/ gpc \in {"wait", "print", "dead"}

\* GInv is inductive: what ends the program is delivered before the set-up is done, and
\* so before the id is told.
LEMMA GInvStep == GInv /\ [SignalsNext]_gVars => GInv'
<1> SUFFICES ASSUME GInv, [SignalsNext]_gVars
             PROVE  GInv'
  OBVIOUS
<1>1. /\ greceiver \in {"sigusr1_handler", "sigwait_loop", "block_sigint"}
      /\ gpc \in {"first", "second", "wait", "print", "dead"} /\ ghandler \in BOOLEAN
      /\ gowed \in {"no", "sent", "taken"} /\ gpending \subseteq {"USR1", "INT"}
      /\ gearly \subseteq {"USR1", "INT"} /\ gkiller \in {"USR1", "INT", "nobody"}
      /\ gsends \in 0 .. MaxSends /\ MaxSends \in Nat
      /\ OwnSignal \in gpending => OwnSignal \in gearly \/ gpc \in {"wait", "print", "dead"}
      /\ gkiller = OwnSignal => gkiller \in gearly
  BY SignalsAssumption DEF GInv, SignalsTypeOK, Receivers, SigNames, ToldIsSafe, OwnSignal
<1>2. SUFFICES
      /\ SignalsTypeOK'
      /\ OwnSignal' \in gpending' => OwnSignal' \in gearly' \/ gpc' \in {"wait", "print", "dead"}
      /\ gkiller' = OwnSignal' => gkiller' \in gearly'
  BY DEF GInv, ToldIsSafe, OwnSignal
<1>3. CASE UNCHANGED gVars
  BY <1>1, <1>3 DEF gVars, SignalsTypeOK, Receivers, SigNames, OwnSignal
<1>4. CASE Begins
  BY <1>1, <1>4 DEF Begins, SignalsTypeOK, Receivers, SigNames, OwnSignal
<1>5. CASE HandlerPrints
  BY <1>1, <1>5 DEF HandlerPrints, Paid, SignalsTypeOK, Receivers, SigNames, OwnSignal
<1>6. CASE SigwaitReturns
  BY <1>1, <1>6 DEF SigwaitReturns, Taken, SignalsTypeOK, Receivers, SigNames, OwnSignal
<1>7. CASE SigwaitPrints
  BY <1>1, <1>7 DEF SigwaitPrints, Paid, Keeps, SignalsTypeOK, Receivers, SigNames, OwnSignal
<1>8. ASSUME NEW sig \in SigNames, DeliverSignal(sig)
      PROVE  /\ SignalsTypeOK'
             /\ OwnSignal' \in gpending' => OwnSignal' \in gearly' \/ gpc' \in {"wait", "print", "dead"}
             /\ gkiller' = OwnSignal' => gkiller' \in gearly'
  <2>1. /\ gpc # "dead" /\ sig \in gpending /\ sig \notin Blocked /\ gpending' = gpending \ {sig}
        /\ UNCHANGED <<greceiver, gearly, gsends>> /\ sig \in {"USR1", "INT"}
    BY <1>8 DEF DeliverSignal, SigNames
  <2>2. OwnSignal' = OwnSignal
    BY <2>1 DEF OwnSignal
  <2>3. CASE sig = "USR1" /\ greceiver = "sigusr1_handler" /\ SetUpDone
    <3>1. ghandler' = TRUE /\ gowed' = Taken /\ UNCHANGED <<gpc, gkiller>>
      BY <1>8, <2>3 DEF DeliverSignal
    <3> QED
      BY <1>1, <2>1, <2>2, <3>1 DEF SignalsTypeOK, Receivers, SigNames, Taken
  <2>4. CASE ~(sig = "USR1" /\ greceiver = "sigusr1_handler" /\ SetUpDone)
    <3>1. gpc' = "dead" /\ gkiller' = sig /\ UNCHANGED <<ghandler, gowed>>
      BY <1>8, <2>4 DEF DeliverSignal
    <3>2. sig = OwnSignal => ~SetUpDone
      BY <1>1, <2>1, <2>4 DEF Blocked, OwnSignal
    <3>3. sig = OwnSignal => sig \in gearly
      BY <1>1, <2>1, <3>2 DEF SetUpDone, Order
    <3> QED
      BY <1>1, <2>1, <2>2, <3>1, <3>3 DEF SignalsTypeOK, Receivers, SigNames
  <2> QED
    BY <2>3, <2>4
<1>9. ASSUME NEW sig \in SigNames, RunSender(sig)
      PROVE  /\ SignalsTypeOK'
             /\ OwnSignal' \in gpending' => OwnSignal' \in gearly' \/ gpc' \in {"wait", "print", "dead"}
             /\ gkiller' = OwnSignal' => gkiller' \in gearly'
  BY <1>1, <1>9 DEF RunSender, Order, SignalsTypeOK, Receivers, SigNames, OwnSignal
<1> QED
  BY <1>3, <1>4, <1>5, <1>6, <1>7, <1>8, <1>9 DEF SignalsNext, Receives

\* SignalsInit: nothing is pending, and nobody was killed.
LEMMA GInvInit == SignalsInit => GInv
<1> SUFFICES ASSUME SignalsInit
             PROVE  GInv
  OBVIOUS
<1>1. SignalsTypeOK
  <2>1. 0 \in 0 .. MaxSends /\ {} \subseteq SigNames
    BY SignalsAssumption
  <2> QED
    BY <2>1 DEF SignalsInit, SignalsTypeOK
<1>2. ToldIsSafe /\ OwnSignal \notin gpending
  BY DEF SignalsInit, ToldIsSafe
<1> QED
  BY <1>1, <1>2 DEF GInv

\* Whenever signals are sent and delivered, a program that was only sent its own signal
\* after it told its process id is not ended by it (sigusr1_handler.c, sigwait_loop.c,
\* block_sigint.c: the set-up comes before printf() of getpid()).
THEOREM SignalsSafe == SignalsSpec => [](SignalsTypeOK /\ ToldIsSafe)
<1>1. GInv => SignalsTypeOK /\ ToldIsSafe
  BY DEF GInv
<1> QED
  BY GInvInit, GInvStep, <1>1, PTL DEF SignalsSpec

-------------------------------------------------------------------------------
(* The shell.                                                                    *)

\* A line is being run.
Busy == shpc \in {"fork", "close", "wait"}

\* The variables' types; the lines taken and not yet taken are numbers of lines.
ShTyped ==
    /\ shinput \in {"file", "pipe"} /\ shscript \in Scripts
    /\ shoffset \in 0 .. Len(shscript)
    /\ shbuffer \in Seq(1 .. Len(shscript)) /\ shran \in Seq(1 .. Len(shscript))
    /\ shpc \in {"read", "fork", "close", "wait", "end"}
    /\ DOMAIN shjobs \subseteq {1, 2} /\ \A j \in DOMAIN shjobs : shjobs[j] \in {"new", "runs", "zombie"}
    /\ shends \subseteq {0, 1, 2} /\ shwaits \in 0 .. 2

\* The line that runs is not empty and not "exit".
RowRuns == Busy => shran # <<>> /\ Row # <<>> /\ Row # <<"exit">>

\* The shell waits as often as it may have children; whoever has the write end lives.
ChildrenCounted ==
    /\ ~Busy => DOMAIN shjobs = {} /\ shends = {} /\ shwaits = 0
    /\ Busy /\ ~HasPipe => shends = {} /\ DOMAIN shjobs \subseteq {1}
    /\ shends \subseteq {0} \cup DOMAIN shjobs
    /\ \A j \in shends \cap DOMAIN shjobs : shjobs[j] # "zombie"
    /\ shpc = "fork" => /\ shwaits = 0 => DOMAIN shjobs = {}
                        /\ shwaits # 0 => shwaits = 1 /\ HasPipe /\ DOMAIN shjobs \subseteq {1}
    /\ shpc = "close" => shwaits = Waits
    /\ shpc = "wait" => /\ 0 \notin shends
                        /\ shwaits = 0 => DOMAIN shjobs = {}
                        /\ shwaits = 1 => DOMAIN shjobs # {1, 2}

\* No line gives anything back: the lines run, those in the buffer and the offset follow
\* one another.
InOneGo ==
    shinput = "pipe" \/ GivesBack = {} =>
      /\ \A i \in 1 .. Len(shran) : shran[i] = i
      /\ \A i \in 1 .. Len(shbuffer) : shbuffer[i] = Len(shran) + i
      /\ shoffset = Len(shran) + Len(shbuffer)

\* The i-th line run, when line g of the script gives back the lines behind it.
Again(g, i) == IF i <= Len(shscript) THEN i ELSE g + (i - Len(shscript))

\* Line g alone gives lines back: before it did, the offset is behind the script, then
\* behind line g, and once those lines are read again, behind the script.
InTwo ==
    \A g \in 1 .. Len(shscript) : shinput = "file" /\ GivesBack = {g} =>
      /\ \A i \in 1 .. Len(shran) : shran[i] = Again(g, i)
      /\ \A i \in 1 .. Len(shbuffer) : shbuffer[i] = Again(g, Len(shran) + i)
      /\ \/ shoffset = 0 /\ Len(shran) = 0 /\ Len(shbuffer) = 0
         \/ /\ Len(shran) + Len(shbuffer) = Len(shscript)
            /\ shoffset = Len(shscript) \/ (shoffset = g /\ Len(shran) >= g)
         \/ /\ Len(shran) + Len(shbuffer) = Len(shscript) + (Len(shscript) - g)
            /\ shoffset = Len(shscript) /\ Len(shran) >= Len(shscript)
      /\ (/\ Busy /\ shran[Len(shran)] = g
          /\ (shpc = "fork" /\ shwaits = 0) \/ (1 \in DOMAIN shjobs /\ shjobs[1] = "new"))
         => shoffset = Len(shscript) /\ Len(shran) = g /\ Len(shbuffer) = Len(shscript) - g

ShInv == ShTyped /\ RowRuns /\ ChildrenCounted /\ InOneGo /\ InTwo

\* What the types say of a line of the script.
LEMMA LineFacts ==
    ASSUME ShTyped, NEW i \in 1 .. Len(shscript)
    PROVE  /\ shscript[i] \in Seq(Commands) /\ Len(shscript[i]) \in 0 .. 2
           /\ shscript[i] # <<>> /\ shscript[i] # <<"exit">> => shscript[i][1] \in {"good", "bad"}
<1>1. PICK s \in Scripts : s = shscript
  BY DEF ShTyped
<1>2. s \in Seq(Seq(Commands)) /\ i \in DOMAIN s
  BY <1>1, ShellAssumption
<1>3. PICK l : l = s[i]
  OBVIOUS
<1>4. l \in Seq(Commands) /\ Len(l) <= 2 /\ \A k \in DOMAIN l : l[k] = "exit" => l = <<"exit">>
  BY <1>1, <1>2, <1>3, ShellAssumption
<1>5. ASSUME l # <<>>, l # <<"exit">>
      PROVE  l[1] \in {"good", "bad"}
  <2>1. 1 \in DOMAIN l /\ l[1] \in Commands
    BY <1>4, <1>5
  <2> QED
    BY <1>4, <1>5, <2>1 DEF Commands
<1>6. Len(l) \in 0 .. 2
  BY <1>4
<1>7. l = shscript[i]
  BY <1>1, <1>3
<1> QED
  BY <1>4, <1>5, <1>6, <1>7

\* The line that runs.
LEMMA RowFacts ==
    ASSUME ShTyped, RowRuns, Busy
    PROVE  /\ Len(shran) \in Nat \ {0} /\ shran[Len(shran)] \in 1 .. Len(shscript)
           /\ Row \in Seq(Commands) /\ Len(Row) \in {1, 2} /\ Row[1] \in {"good", "bad"}
<1>1. shran \in Seq(1 .. Len(shscript)) /\ shran # <<>> /\ Row # <<>> /\ Row # <<"exit">>
  BY DEF ShTyped, RowRuns
<1>2. Len(shran) \in Nat \ {0} /\ shran[Len(shran)] \in 1 .. Len(shscript)
  BY <1>1
<1>3. PICK i \in 1 .. Len(shscript) : i = shran[Len(shran)]
  BY <1>2
<1>4. Row \in Seq(Commands) /\ Len(Row) \in 0 .. 2 /\ Row[1] \in {"good", "bad"}
  BY <1>1, <1>3, LineFacts DEF Row
<1>5. Len(Row) # 0
  BY <1>1, <1>4, EmptySeq
<1> QED
  BY <1>2, <1>4, <1>5

\* What the buffer holds when a line is taken.
LEMMA RefilledFacts ==
    ASSUME ShTyped
    PROVE  /\ Refilled \in Seq(1 .. Len(shscript))
           /\ shbuffer = <<>> => Len(Refilled) = Len(shscript) - shoffset /\
                \A i \in 1 .. Len(Refilled) : Refilled[i] = shoffset + i
           /\ shbuffer # <<>> => Refilled = shbuffer
<1>1. /\ Len(shscript) \in Nat /\ shoffset \in 0 .. Len(shscript)
      /\ shbuffer \in Seq(1 .. Len(shscript))
  <2>1. shscript \in Seq(Seq(Commands))
    BY ShellAssumption DEF ShTyped
  <2> QED
    BY <2>1 DEF ShTyped
<1>2. PICK n \in Nat : n = Len(shscript) - shoffset
  BY <1>1
<1>3. PICK r : r = [i \in 1 .. n |-> shoffset + i]
  OBVIOUS
<1>4. r \in Seq(1 .. Len(shscript)) /\ Len(r) = n /\ \A i \in 1 .. n : r[i] = shoffset + i
  <2>1. \A i \in 1 .. n : shoffset + i \in 1 .. Len(shscript)
    BY <1>1, <1>2
  <2> QED
    BY <1>3, <2>1
<1> QED
  BY <1>1, <1>2, <1>3, <1>4 DEF Refilled

\* A step that goes on with the same line.
LEMMA SameLine ==
    ASSUME UNCHANGED <<shscript, shran>>
    PROVE  /\ Row' = Row /\ (HasPipe' <=> HasPipe) /\ Waits' = Waits /\ GivesBack' = GivesBack
           /\ \A g, i : Again(g, i)' = Again(g, i)
<1>1. Row' = Row
  BY DEF Row
<1>2. HasPipe' <=> HasPipe
  BY <1>1 DEF HasPipe
<1>3. Waits' = Waits
  BY <1>2 DEF Waits
<1> QED
  BY <1>1, <1>2, <1>3 DEF GivesBack, OnInput, Again

\* ReadLine takes the next line, if there is one that is not "exit".
LEMMA ReadCounted == ShInv /\ ReadLine => ShTyped' /\ RowRuns' /\ ChildrenCounted'
<1> SUFFICES ASSUME ShInv, ReadLine
             PROVE  ShTyped' /\ RowRuns' /\ ChildrenCounted'
  OBVIOUS
<1>1. ShTyped /\ ChildrenCounted /\ shpc = "read"
  BY DEF ShInv, ReadLine
<1>2. PICK L \in Nat : L = Len(shscript)
  BY <1>1, ShellAssumption DEF ShTyped
<1>3. PICK r \in Seq(1 .. L) : r = Refilled
  BY <1>1, <1>2, RefilledFacts
<1>4. /\ DOMAIN shjobs = {} /\ shends = {} /\ shwaits = 0 /\ shran \in Seq(1 .. L)
      /\ shinput \in {"file", "pipe"} /\ shscript \in Scripts /\ shoffset \in 0 .. L
  BY <1>1, <1>2 DEF ShTyped, ChildrenCounted, Busy
<1>5. /\ shoffset' \in 0 .. L /\ UNCHANGED <<shinput, shscript, shjobs, shwaits>>
      /\ IF r = <<>> \/ shscript[Head(r)] = <<"exit">>
         THEN shpc' = "end" /\ shbuffer' = r /\ UNCHANGED <<shran, shends>>
         ELSE LET line == shscript[Head(r)] IN
              /\ shbuffer' = Tail(r) /\ shran' = Append(shran, Head(r))
              /\ shpc' = IF line = <<>> THEN "read" ELSE "fork"
              /\ shends' = IF Len(line) = 2 THEN {0} ELSE {}
  BY <1>2, <1>3, <1>4 DEF ReadLine
<1>6. CASE r = <<>> \/ shscript[Head(r)] = <<"exit">>
  BY <1>2, <1>4, <1>5, <1>6 DEF ShTyped, RowRuns, ChildrenCounted, Busy
<1>7. CASE ~(r = <<>> \/ shscript[Head(r)] = <<"exit">>)
  <2>1. PICK h \in 1 .. L : h = Head(r)
    BY <1>7
  <2>2. PICK line : line = shscript[h]
    OBVIOUS
  <2>3. /\ shbuffer' = Tail(r) /\ shran' = Append(shran, h)
        /\ shpc' = IF line = <<>> THEN "read" ELSE "fork"
        /\ shends' = IF Len(line) = 2 THEN {0} ELSE {}
    BY <1>5, <1>7, <2>1, <2>2
  <2>4. Tail(r) \in Seq(1 .. L) /\ Append(shran, h) \in Seq(1 .. L) /\ Append(shran, h) # <<>>
    <3>1. h \in 1 .. L
      BY <2>1
    <3>2. Append(shran, h) \in Seq(1 .. L) /\ Len(Append(shran, h)) = Len(shran) + 1
      BY <1>4, <3>1, AppendProperties
    <3>3. Append(shran, h) # <<>>
      <4>1. Len(shran) \in Nat
        BY <1>4
      <4>2. PICK a : a = Append(shran, h)
        OBVIOUS
      <4>3. a \in Seq(1 .. L) /\ Len(a) # 0
        BY <3>2, <4>1, <4>2
      <4> QED
        BY <4>2, <4>3, EmptySeq
    <3>4. Tail(r) \in Seq(1 .. L)
      BY <1>3, <1>7
    <3> QED
      BY <3>2, <3>3, <3>4
  <2>5. Row' = line
    BY <1>4, <1>5, <2>2, <2>3 DEF Row
  <2>6. ShTyped'
    BY <1>2, <1>4, <1>5, <2>3, <2>4 DEF ShTyped
  <2>7. line # <<"exit">>
    BY <1>7, <2>1, <2>2
  <2>8. RowRuns'
    BY <2>3, <2>4, <2>5, <2>7 DEF RowRuns, Busy
  <2>9. HasPipe' <=> Len(line) = 2
    BY <2>5 DEF HasPipe
  <2>10. line = <<>> => Len(line) # 2
    OBVIOUS
  <2>11. ChildrenCounted'
    BY <1>4, <1>5, <2>3, <2>9, <2>10 DEF ChildrenCounted, Busy
  <2> QED
    BY <2>6, <2>8, <2>11
<1> QED
  BY <1>6, <1>7

\* A fork, or one that failed.
LEMMA ForkCounted ==
    ASSUME NEW j \in {1, 2}, ShInv, Forks(j)
    PROVE  ShTyped' /\ RowRuns' /\ ChildrenCounted'
<1>1. /\ ShTyped /\ RowRuns /\ ChildrenCounted /\ Busy /\ shpc = "fork"
      /\ UNCHANGED <<shinput, shscript, shoffset, shbuffer, shran>>
  BY DEF ShInv, Forks, Busy
<1>2. Len(Row) \in {1, 2} /\ (HasPipe <=> Len(Row) = 2)
  BY <1>1, RowFacts DEF HasPipe
<1>3. /\ Row' = Row /\ (HasPipe' <=> HasPipe) /\ Waits' = Waits
  BY <1>1, SameLine
<1>4. /\ DOMAIN shjobs \subseteq {1, 2} /\ \A i \in DOMAIN shjobs : shjobs[i] \in {"new", "runs", "zombie"}
      /\ shends \subseteq {0, 1, 2} /\ shwaits \in 0 .. 2
      /\ ~HasPipe => shends = {} /\ shwaits = 0
      /\ shends \subseteq {0} \cup DOMAIN shjobs
      /\ \A i \in shends \cap DOMAIN shjobs : shjobs[i] # "zombie"
      /\ shwaits = 0 => DOMAIN shjobs = {}
      /\ shwaits # 0 => shwaits = 1 /\ HasPipe /\ DOMAIN shjobs \subseteq {1}
  BY <1>1 DEF ShTyped, ChildrenCounted
<1>5. /\ j = IF HasPipe /\ shwaits = 0 THEN 1 ELSE Len(Row)
      /\ \/ /\ shjobs' = [i \in DOMAIN shjobs \cup {j} |-> IF i = j THEN "new" ELSE shjobs[i]]
            /\ shends' = IF HasPipe THEN shends \cup {j} ELSE shends
         \/ UNCHANGED <<shjobs, shends>>
      /\ shpc' = (IF j = Len(Row) THEN "close" ELSE "fork")
      /\ shwaits' = (IF j = Len(Row) THEN (IF HasPipe THEN 2 ELSE 1) ELSE 1)
  BY DEF Forks, Waits
<1>6. /\ DOMAIN shjobs' \subseteq {1, 2} /\ \A i \in DOMAIN shjobs' : shjobs'[i] \in {"new", "runs", "zombie"}
      /\ shends' \subseteq {0, 1, 2} /\ shwaits' \in 0 .. 2 /\ shpc' \in {"fork", "close"}
  <2>1. shwaits' \in 0 .. 2 /\ shpc' \in {"fork", "close"}
    BY <1>5
  <2>2. CASE UNCHANGED <<shjobs, shends>>
    BY <1>4, <2>1, <2>2
  <2>3. CASE /\ shjobs' = [i \in DOMAIN shjobs \cup {j} |-> IF i = j THEN "new" ELSE shjobs[i]]
             /\ shends' = IF HasPipe THEN shends \cup {j} ELSE shends
    <3>1. DOMAIN shjobs' = DOMAIN shjobs \cup {j} /\ shends' \subseteq shends \cup {j}
      BY <2>3
    <3>2. \A i \in DOMAIN shjobs' : shjobs'[i] = IF i = j THEN "new" ELSE shjobs[i]
      BY <2>3
    <3> QED
      BY <1>4, <2>1, <3>1, <3>2
  <2> QED
    BY <1>5, <2>2, <2>3
<1>7. ShTyped'
  BY <1>1, <1>6 DEF ShTyped
<1>8. RowRuns'
  BY <1>1, <1>3 DEF RowRuns
<1>9. CASE ~HasPipe
  <2>1. /\ j = 1 /\ shpc' = "close" /\ shwaits' = 1 /\ shends' = {} /\ DOMAIN shjobs = {}
        /\ DOMAIN shjobs' \subseteq {1}
    BY <1>2, <1>4, <1>5, <1>9
  <2> QED
    BY <1>3, <1>7, <1>8, <1>9, <2>1 DEF ChildrenCounted, Busy, Waits
<1>10. CASE HasPipe /\ shwaits = 0
  <2>1. /\ j = 1 /\ shpc' = "fork" /\ shwaits' = 1 /\ DOMAIN shjobs' \subseteq {1}
        /\ shends' \subseteq {0} \cup DOMAIN shjobs' /\ \A i \in DOMAIN shjobs' : shjobs'[i] = "new"
    BY <1>2, <1>4, <1>5, <1>10
  <2> QED
    BY <1>3, <1>7, <1>8, <1>10, <2>1 DEF ChildrenCounted, Busy
<1>11. CASE HasPipe /\ shwaits # 0
  <2>1. /\ j = 2 /\ shpc' = "close" /\ shwaits' = 2
        /\ shends' \subseteq {0} \cup DOMAIN shjobs'
        /\ \A i \in shends' \cap DOMAIN shjobs' : shjobs'[i] # "zombie"
    BY <1>2, <1>4, <1>5, <1>11
  <2> QED
    BY <1>3, <1>7, <1>8, <1>11, <2>1 DEF ChildrenCounted, Busy, Waits
<1> QED
  BY <1>9, <1>10, <1>11

\* The shell closes its end of the pipe, or waits.
LEMMA WaitCounted ==
    /\ ShInv /\ CloseEnds => ShTyped' /\ RowRuns' /\ ChildrenCounted'
    /\ ShInv /\ WaitChild => ShTyped' /\ RowRuns' /\ ChildrenCounted'
<1>1. ASSUME ShInv, CloseEnds
      PROVE  ShTyped' /\ RowRuns' /\ ChildrenCounted'
  <2>1. /\ ShTyped /\ RowRuns /\ ChildrenCounted /\ Busy /\ shpc = "close" /\ Busy'
        /\ UNCHANGED <<shscript, shran>>
    BY <1>1 DEF ShInv, CloseEnds, Busy
  <2>2. /\ Row' = Row /\ (HasPipe' <=> HasPipe)
    BY <2>1, SameLine
  <2>3. ShTyped'
    BY <1>1, <2>1 DEF ShTyped, CloseEnds
  <2>4. RowRuns'
    BY <2>1, <2>2 DEF RowRuns
  <2>5. /\ UNCHANGED <<shjobs, shwaits>> /\ shends' = shends \ {0} /\ shpc' = "wait"
        /\ shwaits \in {1, 2} /\ (shwaits = 1 => ~HasPipe)
    BY <1>1, <2>1 DEF CloseEnds, ChildrenCounted, Waits
  <2>6. ChildrenCounted'
    BY <2>1, <2>2, <2>5 DEF ChildrenCounted, Waits
  <2> QED
    BY <2>3, <2>4, <2>6
<1>2. ASSUME ShInv, WaitChild
      PROVE  ShTyped' /\ RowRuns' /\ ChildrenCounted'
  <2>1. /\ ShTyped /\ RowRuns /\ ChildrenCounted /\ Busy /\ shpc = "wait"
        /\ UNCHANGED <<shinput, shscript, shoffset, shbuffer, shran, shends>>
    BY <1>2 DEF ShInv, WaitChild, Busy
  <2>2. /\ Row' = Row /\ (HasPipe' <=> HasPipe)
    BY <2>1, SameLine
  <2>3. /\ DOMAIN shjobs \subseteq {1, 2} /\ \A i \in DOMAIN shjobs : shjobs[i] \in {"new", "runs", "zombie"}
        /\ shends \subseteq {0, 1, 2} /\ shwaits \in 0 .. 2 /\ 0 \notin shends
        /\ ~HasPipe => shends = {} /\ DOMAIN shjobs \subseteq {1}
        /\ shends \subseteq {0} \cup DOMAIN shjobs
        /\ \A j \in shends \cap DOMAIN shjobs : shjobs[j] # "zombie"
        /\ shwaits = 0 => DOMAIN shjobs = {}
        /\ shwaits = 1 => DOMAIN shjobs # {1, 2}
    BY <2>1 DEF ShTyped, ChildrenCounted
  <2>4. CASE shwaits = 0
    <3>1. shpc' = "read" /\ UNCHANGED <<shjobs, shwaits>>
      BY <1>2, <2>4 DEF WaitChild
    <3>2. shends = {}
      BY <2>3, <2>4
    <3> QED
      BY <2>1, <2>3, <2>4, <3>1, <3>2 DEF ShTyped, RowRuns, ChildrenCounted, Busy
  <2>5. CASE shwaits # 0 /\ DOMAIN shjobs = {} /\ UNCHANGED shjobs /\ shwaits' = shwaits - 1 /\ UNCHANGED shpc
    <3>1. shwaits' \in 0 .. 2 /\ shends = {}
      BY <2>3, <2>5
    <3>2. ShTyped'
      BY <2>1, <2>5, <3>1 DEF ShTyped
    <3> QED
      BY <2>1, <2>2, <2>3, <2>5, <3>1, <3>2 DEF RowRuns, ChildrenCounted, Busy
  <2>6. ASSUME NEW j \in DOMAIN shjobs, shwaits # 0, shjobs[j] = "zombie",
               shjobs' = [i \in DOMAIN shjobs \ {j} |-> shjobs[i]],
               shwaits' = shwaits - 1, UNCHANGED shpc
        PROVE  ShTyped' /\ RowRuns' /\ ChildrenCounted'
    <3>1. /\ DOMAIN shjobs' = DOMAIN shjobs \ {j} /\ \A i \in DOMAIN shjobs' : shjobs'[i] = shjobs[i]
          /\ shwaits' \in 0 .. 2
      BY <2>3, <2>6
    <3>2. ShTyped'
      BY <2>1, <2>3, <2>6, <3>1 DEF ShTyped
    <3>3. j \notin shends
      BY <2>3, <2>6
    <3>4. shwaits' = 0 => DOMAIN shjobs' = {}
      <4>1. ASSUME shwaits' = 0
            PROVE  DOMAIN shjobs # {1, 2}
        BY <2>3, <2>6, <4>1
      <4>2. PICK d : d = DOMAIN shjobs
        OBVIOUS
      <4>3. ASSUME d # {1, 2}
            PROVE  d \ {j} = {}
        <5>1. d \subseteq {1, 2} /\ j \in d
          BY <2>3, <4>2
        <5> QED
          BY <4>3, <5>1
      <4> QED
        BY <3>1, <4>1, <4>2, <4>3
    <3>5. DOMAIN shjobs' # {1, 2}
      BY <2>3, <2>6, <3>1
    <3>6. RowRuns'
      BY <2>1, <2>2, <2>6 DEF RowRuns, Busy
    <3> QED
      BY <2>1, <2>2, <2>3, <2>6, <3>1, <3>2, <3>3, <3>4, <3>5, <3>6 DEF ChildrenCounted, Busy
  <2> QED
    BY <1>2, <2>4, <2>5, <2>6 DEF WaitChild
<1> QED
  BY <1>1, <1>2

\* What a child does changes the offset only if it is one with the script as its input
\* that is not found.
LEMMA ChildGivesBack ==
    ASSUME NEW j \in {1, 2}, ShInv, ChildStep(j), shoffset' # shoffset
    PROVE  /\ shinput = "file" /\ 1 \in DOMAIN shjobs /\ shjobs[1] = "new" /\ Busy
           /\ shran[Len(shran)] \in GivesBack /\ shran[Len(shran)] \in 1 .. Len(shscript)
           /\ Len(shbuffer) <= shoffset /\ shoffset' = shoffset - Len(shbuffer)
<1>1. Execs(j) /\ ShTyped /\ RowRuns /\ ChildrenCounted /\ Busy
  BY DEF ChildStep, Ends, Execs, ShInv, ChildrenCounted
<1>2. PICK line : line = Row
  OBVIOUS
<1>3. Len(line) \in {1, 2} /\ line[1] \in {"good", "bad"} /\ line # <<>> /\ line # <<"exit">>
  BY <1>1, <1>2, RowFacts DEF RowRuns
<1>4. /\ line[j] # "good" /\ j \in DOMAIN shjobs /\ shjobs[j] = "new" /\ shoffset' = GivenBack(j)
  BY <1>1, <1>2 DEF Execs
<1>5. /\ shinput = "file" /\ (HasPipe => j = 1) /\ Len(shbuffer) <= shoffset
      /\ shoffset' = shoffset - Len(shbuffer)
  BY <1>4 DEF GivenBack
<1>6. j = 1
  BY <1>1, <1>4, <1>5 DEF ChildrenCounted
<1>7. PICK i \in 1 .. Len(shscript) : i = shran[Len(shran)]
  BY <1>1, RowFacts
<1>8. shscript[i] = line
  BY <1>2, <1>7 DEF Row
<1>9. i \in DOMAIN shscript
  BY <1>1, ShellAssumption DEF ShTyped
<1>10. i \in GivesBack
  BY <1>3, <1>4, <1>6, <1>8, <1>9 DEF GivesBack, OnInput
<1> QED
  BY <1>1, <1>4, <1>5, <1>6, <1>7, <1>10

\* A child keeps its place among the children.
LEMMA ChildCounted ==
    ASSUME NEW j \in {1, 2}, ShInv, ChildStep(j)
    PROVE  /\ ShTyped' /\ RowRuns' /\ ChildrenCounted' /\ Busy
           /\ \A i \in DOMAIN shjobs' : i \in DOMAIN shjobs /\ (shjobs'[i] = "new" => shjobs[i] = "new" /\ i # j)
           /\ UNCHANGED <<shinput, shscript, shbuffer, shran, shpc, shwaits>>
<1>1. /\ ShTyped /\ RowRuns /\ ChildrenCounted /\ Busy
      /\ UNCHANGED <<shinput, shscript, shbuffer, shran, shpc, shwaits>>
      /\ j \in DOMAIN shjobs
  BY DEF ChildStep, Ends, Execs, ShInv, ChildrenCounted
<1>2. /\ Row' = Row /\ (HasPipe' <=> HasPipe) /\ Waits' = Waits /\ Busy'
  BY <1>1, SameLine DEF Busy
<1>3. shoffset' \in 0 .. Len(shscript)
  <2>1. CASE shoffset' = shoffset
    BY <1>1, <2>1 DEF ShTyped
  <2>2. CASE shoffset' # shoffset
    <3>1. /\ Len(shbuffer) <= shoffset /\ shoffset' = shoffset - Len(shbuffer)
      BY <2>2, ChildGivesBack
    <3>2. Len(shbuffer) \in Nat /\ shoffset \in 0 .. Len(shscript) /\ Len(shscript) \in Nat
      BY <1>1, ShellAssumption DEF ShTyped
    <3> QED
      BY <3>1, <3>2
  <2> QED
    BY <2>1, <2>2
<1>4. /\ DOMAIN shjobs \subseteq {1, 2} /\ \A i \in DOMAIN shjobs : shjobs[i] \in {"new", "runs", "zombie"}
      /\ shends \subseteq {0, 1, 2}
      /\ shends \subseteq {0} \cup DOMAIN shjobs
      /\ \A i \in shends \cap DOMAIN shjobs : shjobs[i] # "zombie"
  BY <1>1 DEF ShTyped, ChildrenCounted
<1>5. PICK to \in {"runs", "zombie"} :
        /\ shjobs' = [shjobs EXCEPT ![j] = to] /\ shends' \subseteq shends
        /\ to = "zombie" => j \notin shends'
  BY DEF ChildStep, Execs, Ends
<1>6. /\ DOMAIN shjobs' = DOMAIN shjobs /\ shjobs'[j] = to
      /\ \A i \in DOMAIN shjobs : i # j => shjobs'[i] = shjobs[i]
  BY <1>1, <1>5
<1>7. /\ \A i \in DOMAIN shjobs' : shjobs'[i] \in {"new", "runs", "zombie"}
      /\ \A i \in DOMAIN shjobs' : i \in DOMAIN shjobs /\ (shjobs'[i] = "new" => shjobs[i] = "new" /\ i # j)
      /\ \A i \in shends' \cap DOMAIN shjobs' : shjobs'[i] # "zombie"
      /\ shends' \subseteq {0, 1, 2}
  BY <1>4, <1>5, <1>6
<1>8. ShTyped'
  BY <1>1, <1>3, <1>4, <1>6, <1>7 DEF ShTyped
<1>9. RowRuns'
  BY <1>1, <1>2 DEF RowRuns
<1>10. ChildrenCounted'
  BY <1>1, <1>2, <1>5, <1>6, <1>7 DEF ChildrenCounted
<1> QED
  BY <1>1, <1>7, <1>8, <1>9, <1>10

\* What ReadLine does with the lines in the buffer.
LEMMA ReadsNext ==
    ASSUME ShInv, ReadLine, NEW L \in Nat, L = Len(shscript),
           NEW r, r = Refilled
    PROVE  /\ r \in Seq(1 .. L) /\ UNCHANGED <<shinput, shscript, shwaits>> /\ ~Busy /\ shwaits = 0
           /\ shoffset' = IF shbuffer = <<>> THEN L ELSE shoffset
           /\ Len(shran) \in Nat /\ Len(shbuffer) \in Nat /\ shoffset \in 0 .. L
           /\ \/ shbuffer' = r /\ shran' = shran /\ ~Busy'
              \/ /\ Len(r) >= 1
                 /\ Len(shbuffer') = Len(r) - 1 /\ \A i \in 1 .. Len(r) - 1 : shbuffer'[i] = r[i + 1]
                 /\ Len(shran') = Len(shran) + 1 /\ shran'[Len(shran) + 1] = r[1]
                 /\ \A i \in 1 .. Len(shran) : shran'[i] = shran[i]
<1>1. ShTyped /\ ~Busy /\ shwaits = 0
  BY DEF ShInv, ReadLine, ChildrenCounted, Busy
<1>2. r \in Seq(1 .. L) /\ shran \in Seq(1 .. L) /\ shbuffer \in Seq(1 .. L) /\ shoffset \in 0 .. L
  BY <1>1, RefilledFacts DEF ShTyped
<1>3. /\ UNCHANGED <<shinput, shscript, shwaits>>
      /\ shoffset' = IF shbuffer = <<>> THEN L ELSE shoffset
      /\ \/ shbuffer' = r /\ shran' = shran /\ shpc' = "end"
         \/ r # <<>> /\ shbuffer' = Tail(r) /\ shran' = Append(shran, Head(r))
  BY DEF ReadLine
<1>4. CASE r # <<>> /\ shbuffer' = Tail(r) /\ shran' = Append(shran, Head(r))
  <2>1. /\ Len(r) >= 1 /\ Head(r) = r[1] /\ Len(Tail(r)) = Len(r) - 1
        /\ \A i \in 1 .. Len(r) - 1 : Tail(r)[i] = r[i + 1] /\ r[1] \in 1 .. L
    BY <1>2, <1>4
  <2>2. r[1] \in 1 .. L
    BY <1>2, <1>4
  <2>3. PICK h \in 1 .. L : h = r[1]
    BY <2>2
  <2>4. /\ Len(Append(shran, h)) = Len(shran) + 1 /\ Append(shran, h)[Len(shran) + 1] = h
        /\ \A i \in 1 .. Len(shran) : Append(shran, h)[i] = shran[i]
    <3>1. h \in 1 .. L
      BY <2>3
    <3> QED
      BY <1>2, <3>1, AppendProperties
  <2>5. shran' = Append(shran, h) /\ shbuffer' = Tail(r)
    BY <1>4, <2>1, <2>3
  <2> QED
    BY <1>1, <1>2, <1>3, <2>1, <2>3, <2>4, <2>5
<1>5. CASE shbuffer' = r /\ shran' = shran /\ shpc' = "end"
  BY <1>1, <1>2, <1>3, <1>5 DEF Busy
<1> QED
  BY <1>3, <1>4, <1>5

\* The lines that are taken follow one another.
LEMMA ReadInOneGo == ShInv /\ ReadLine => InOneGo'
<1> SUFFICES ASSUME ShInv, ReadLine
             PROVE  InOneGo'
  OBVIOUS
<1>1. ShTyped /\ InOneGo
  BY DEF ShInv
<1>2. PICK L \in Nat : L = Len(shscript)
  BY <1>1, ShellAssumption DEF ShTyped
<1>3. PICK r : r = Refilled
  OBVIOUS
<1>4. /\ r \in Seq(1 .. L) /\ UNCHANGED <<shinput, shscript, shwaits>>
      /\ shoffset' = IF shbuffer = <<>> THEN L ELSE shoffset
      /\ Len(shran) \in Nat /\ Len(shbuffer) \in Nat /\ shoffset \in 0 .. L
      /\ \/ shbuffer' = r /\ shran' = shran
         \/ /\ Len(r) >= 1
            /\ Len(shbuffer') = Len(r) - 1 /\ \A i \in 1 .. Len(r) - 1 : shbuffer'[i] = r[i + 1]
            /\ Len(shran') = Len(shran) + 1 /\ shran'[Len(shran) + 1] = r[1]
            /\ \A i \in 1 .. Len(shran) : shran'[i] = shran[i]
  BY <1>2, <1>3, ReadsNext
<1>5. SUFFICES ASSUME shinput = "pipe" \/ GivesBack = {}
               PROVE  /\ \A i \in 1 .. Len(shran') : shran'[i] = i
                      /\ \A i \in 1 .. Len(shbuffer') : shbuffer'[i] = Len(shran') + i
                      /\ shoffset' = Len(shran') + Len(shbuffer')
  BY <1>4 DEF InOneGo, GivesBack, OnInput
<1>6. PICK m \in Nat : m = Len(shran)
  BY <1>4
<1>7. PICK n \in Nat : n = Len(r)
  BY <1>4
<1>8. \A i \in 1 .. m : shran[i] = i
  BY <1>1, <1>5, <1>6 DEF InOneGo
<1>9. shoffset' = m + n /\ \A i \in 1 .. n : r[i] = m + i
  <2>1. CASE shbuffer = <<>>
    <3>1. shoffset = m /\ n = L - shoffset /\ \A i \in 1 .. n : r[i] = shoffset + i
      BY <1>1, <1>2, <1>3, <1>4, <1>5, <1>6, <1>7, <2>1, RefilledFacts DEF InOneGo
    <3> QED
      BY <1>4, <2>1, <3>1
  <2>2. CASE shbuffer # <<>>
    <3>1. r = shbuffer
      BY <1>1, <1>3, <2>2, RefilledFacts
    <3> QED
      BY <1>1, <1>4, <1>5, <1>6, <1>7, <2>2, <3>1 DEF InOneGo
  <2> QED
    BY <2>1, <2>2
<1>10. CASE shbuffer' = r /\ shran' = shran
  BY <1>6, <1>7, <1>8, <1>9, <1>10
<1>11. CASE /\ Len(r) >= 1
            /\ Len(shbuffer') = Len(r) - 1 /\ \A i \in 1 .. Len(r) - 1 : shbuffer'[i] = r[i + 1]
            /\ Len(shran') = Len(shran) + 1 /\ shran'[Len(shran) + 1] = r[1]
            /\ \A i \in 1 .. Len(shran) : shran'[i] = shran[i]
  <2>1. Len(shbuffer') = n - 1 /\ Len(shran') = m + 1 /\ n >= 1 /\ r[1] = m + 1
    BY <1>6, <1>7, <1>9, <1>11
  <2>2. \A i \in 1 .. m + 1 : shran'[i] = i
    <3>1. \A i \in 1 .. m + 1 : i = m + 1 \/ i \in 1 .. m
      OBVIOUS
    <3> QED
      BY <1>6, <1>8, <1>11, <2>1, <3>1
  <2>3. \A i \in 1 .. n - 1 : shbuffer'[i] = m + 1 + i
    <3>1. \A i \in 1 .. n - 1 : i + 1 \in 1 .. n /\ m + (i + 1) = m + 1 + i
      OBVIOUS
    <3> QED
      BY <1>7, <1>9, <1>11, <3>1
  <2> QED
    BY <1>9, <2>1, <2>2, <2>3
<1> QED
  BY <1>4, <1>10, <1>11

\* InTwo, for one g, as a formula of numbers: offset o, m lines run, n more in the buffer.
Phase(L, g, o, m, n) ==
    \/ o = 0 /\ m = 0 /\ n = 0
    \/ m + n = L /\ (o = L \/ (o = g /\ m >= g))
    \/ m + n = L + (L - g) /\ o = L /\ m >= L

\* A line that gives back, taken for the second time or for the first.
LEMMA ReadInTwo == ShInv /\ ReadLine => InTwo'
<1> SUFFICES ASSUME ShInv, ReadLine
             PROVE  InTwo'
  OBVIOUS
<1>1. ShTyped /\ InTwo
  BY DEF ShInv
<1>2. PICK L \in Nat : L = Len(shscript)
  BY <1>1, ShellAssumption DEF ShTyped
<1>3. PICK r : r = Refilled
  OBVIOUS
<1>4. /\ r \in Seq(1 .. L) /\ UNCHANGED <<shinput, shscript, shwaits>>
      /\ shoffset' = IF shbuffer = <<>> THEN L ELSE shoffset
      /\ Len(shran) \in Nat /\ Len(shbuffer) \in Nat /\ shoffset \in 0 .. L
      /\ \/ shbuffer' = r /\ shran' = shran /\ ~Busy'
         \/ /\ Len(r) >= 1
            /\ Len(shbuffer') = Len(r) - 1 /\ \A i \in 1 .. Len(r) - 1 : shbuffer'[i] = r[i + 1]
            /\ Len(shran') = Len(shran) + 1 /\ shran'[Len(shran) + 1] = r[1]
            /\ \A i \in 1 .. Len(shran) : shran'[i] = shran[i]
  BY <1>2, <1>3, ReadsNext
<1>5. SUFFICES ASSUME NEW g \in 1 .. L, shinput = "file", GivesBack = {g}
               PROVE  /\ \A i \in 1 .. Len(shran') : shran'[i] = Again(g, i)
                      /\ \A i \in 1 .. Len(shbuffer') : shbuffer'[i] = Again(g, Len(shran') + i)
                      /\ Phase(L, g, shoffset', Len(shran'), Len(shbuffer'))
                      /\ Busy' /\ shran'[Len(shran')] = g =>
                           shoffset' = L /\ Len(shran') = g /\ Len(shbuffer') = L - g
  BY <1>2, <1>4 DEF InTwo, GivesBack, OnInput, Again, Phase
<1>6. PICK m \in Nat : m = Len(shran)
  BY <1>4
<1>7. PICK n \in Nat : n = Len(r)
  BY <1>4
<1>8. /\ \A i \in 1 .. m : shran[i] = Again(g, i)
      /\ \A i \in 1 .. Len(shbuffer) : shbuffer[i] = Again(g, m + i)
      /\ Phase(L, g, shoffset, m, Len(shbuffer))
  BY <1>1, <1>2, <1>5, <1>6 DEF InTwo, Phase
<1>9. /\ \A i \in 1 .. n : r[i] = Again(g, m + i)
      /\ Phase(L, g, shoffset', m, n) /\ ~(m = 0 /\ n = 0)
  <2>1. CASE shbuffer = <<>>
    <3>1. n = L - shoffset /\ (\A i \in 1 .. n : r[i] = shoffset + i) /\ shoffset' = L /\ Len(shbuffer) = 0
      BY <1>1, <1>2, <1>3, <1>4, <1>7, <2>1, RefilledFacts
    <3> QED
      <4>1. L \in Nat /\ m \in Nat /\ n \in Nat /\ g \in 1 .. L /\ shoffset \in 0 .. L
        BY <1>2, <1>4, <1>5, <1>6, <1>7
      <4>2. \/ shoffset = 0 /\ m = 0
            \/ m = L /\ (shoffset = L \/ shoffset = g)
            \/ m = L + (L - g) /\ shoffset = L
        BY <1>8, <3>1, <4>1 DEF Phase
      <4>3. \A i \in 1 .. n : Again(g, m + i) = IF m + i <= L THEN m + i ELSE g + (m + i - L)
        BY <1>2, <4>1 DEF Again
      <4>4. \A i \in 1 .. n : shoffset + i = IF m + i <= L THEN m + i ELSE g + (m + i - L)
        BY <3>1, <4>1, <4>2
      <4>5. Phase(L, g, L, m, n) /\ ~(m = 0 /\ n = 0)
        BY <3>1, <4>1, <4>2 DEF Phase
      <4> QED
        BY <3>1, <4>3, <4>4, <4>5
  <2>2. CASE shbuffer # <<>>
    <3>1. r = shbuffer /\ shoffset' = shoffset /\ Len(shbuffer) = n /\ Len(shbuffer) # 0
      BY <1>1, <1>3, <1>4, <1>7, <2>2, RefilledFacts, EmptySeq DEF ShTyped
    <3> QED
      BY <1>8, <3>1
  <2> QED
    BY <2>1, <2>2
<1>10. CASE shbuffer' = r /\ shran' = shran /\ ~Busy'
  BY <1>6, <1>7, <1>8, <1>9, <1>10
<1>11. CASE /\ Len(r) >= 1
            /\ Len(shbuffer') = Len(r) - 1 /\ \A i \in 1 .. Len(r) - 1 : shbuffer'[i] = r[i + 1]
            /\ Len(shran') = Len(shran) + 1 /\ shran'[Len(shran) + 1] = r[1]
            /\ \A i \in 1 .. Len(shran) : shran'[i] = shran[i]
  <2>1. Len(shbuffer') = n - 1 /\ Len(shran') = m + 1 /\ n >= 1 /\ r[1] = Again(g, m + 1)
    BY <1>6, <1>7, <1>9, <1>11
  <2>2. \A i \in 1 .. m + 1 : shran'[i] = Again(g, i)
    <3>1. \A i \in 1 .. m + 1 : i = m + 1 \/ i \in 1 .. m
      OBVIOUS
    <3> QED
      BY <1>6, <1>8, <1>11, <2>1, <3>1
  <2>3. \A i \in 1 .. n - 1 : shbuffer'[i] = Again(g, m + 1 + i)
    <3>1. \A i \in 1 .. n - 1 : i + 1 \in 1 .. n /\ m + (i + 1) = m + 1 + i
      OBVIOUS
    <3> QED
      BY <1>7, <1>9, <1>11, <3>1
  <2>4. Phase(L, g, shoffset', m + 1, n - 1)
    BY <1>5, <1>9, <2>1 DEF Phase
  <2>5. ASSUME shran'[m + 1] = g
        PROVE  shoffset' = L /\ m + 1 = g /\ n - 1 = L - g
    <3>1. Again(g, m + 1) = g
      BY <1>6, <1>11, <2>1, <2>5
    <3> QED
      <4>1. L \in Nat /\ m \in Nat /\ n \in Nat /\ g \in 1 .. L
        BY <1>2, <1>5, <1>6, <1>7
      <4>2. g = IF m + 1 <= L THEN m + 1 ELSE g + (m + 1 - L)
        BY <1>2, <3>1 DEF Again
      <4>3. m + 1 = g
        BY <4>1, <4>2
      <4> QED
        BY <1>9, <2>1, <4>1, <4>3 DEF Phase
  <2> QED
    BY <2>1, <2>2, <2>3, <2>4, <2>5
<1> QED
  BY <1>4, <1>10, <1>11

\* A step that leaves offset, buffer and lines run alone leaves their order alone, if it
\* makes no child that is about to give back.
LEMMA OrderStays ==
    ASSUME InOneGo, InTwo, UNCHANGED <<shinput, shscript, shoffset, shbuffer, shran>>,
           Busy' => Busy,
           (shpc' = "fork" /\ shwaits' = 0) \/ (1 \in DOMAIN shjobs' /\ shjobs'[1] = "new") =>
             (shpc = "fork" /\ shwaits = 0) \/ (1 \in DOMAIN shjobs /\ shjobs[1] = "new")
    PROVE  InOneGo' /\ InTwo'
<1>1. GivesBack' = GivesBack /\ \A g, i : Again(g, i)' = Again(g, i)
  BY SameLine
<1>2. InOneGo'
  BY <1>1 DEF InOneGo
<1>3. ASSUME NEW g \in 1 .. Len(shscript), shinput = "file", GivesBack = {g}
      PROVE  /\ \A i \in 1 .. Len(shran) : shran[i] = Again(g, i)
             /\ \A i \in 1 .. Len(shbuffer) : shbuffer[i] = Again(g, Len(shran) + i)
             /\ Phase(Len(shscript), g, shoffset, Len(shran), Len(shbuffer))
             /\ (/\ Busy' /\ shran[Len(shran)] = g
                 /\ (shpc' = "fork" /\ shwaits' = 0) \/ (1 \in DOMAIN shjobs' /\ shjobs'[1] = "new"))
                => shoffset = Len(shscript) /\ Len(shran) = g /\ Len(shbuffer) = Len(shscript) - g
  BY <1>3 DEF InTwo, Phase
<1>4. InTwo'
  BY <1>1, <1>3 DEF InTwo, Phase, Again
<1> QED
  BY <1>2, <1>4

\* A fork, ...
LEMMA ForkInOrder ==
    ASSUME NEW j \in {1, 2}, ShInv, Forks(j)
    PROVE  InOneGo' /\ InTwo'
<1>1. ShTyped /\ RowRuns /\ ChildrenCounted /\ InOneGo /\ InTwo /\ Busy /\ shpc = "fork"
  BY DEF ShInv, Forks, Busy
<1>2. Len(Row) \in {1, 2} /\ (HasPipe <=> Len(Row) = 2)
  BY <1>1, RowFacts DEF HasPipe
<1>3. shwaits' # 0
  BY DEF Forks, Waits
<1>4. ASSUME 1 \in DOMAIN shjobs', shjobs'[1] = "new"
      PROVE  shwaits = 0 \/ (1 \in DOMAIN shjobs /\ shjobs[1] = "new")
  <2>1. CASE j = 1
    <3>1. 1 = IF HasPipe /\ shwaits = 0 THEN 1 ELSE Len(Row)
      BY <2>1 DEF Forks
    <3>2. shwaits # 0 => HasPipe
      BY <1>1 DEF ChildrenCounted
    <3> QED
      BY <1>2, <3>1, <3>2
  <2>2. CASE j # 1
    BY <1>4, <2>2 DEF Forks
  <2> QED
    BY <2>1, <2>2
<1> QED
  BY <1>1, <1>3, <1>4, OrderStays DEF Forks

\* ... the end of a line ...
LEMMA WaitInOrder == ShInv /\ (CloseEnds \/ WaitChild) => InOneGo' /\ InTwo'
<1> SUFFICES ASSUME ShInv, CloseEnds \/ WaitChild
             PROVE  InOneGo' /\ InTwo'
  OBVIOUS
<1>1. InOneGo /\ InTwo /\ UNCHANGED <<shinput, shscript, shoffset, shbuffer, shran>> /\ Busy /\ shpc' # "fork"
  BY DEF ShInv, CloseEnds, WaitChild, Busy
<1>2. 1 \in DOMAIN shjobs' /\ shjobs'[1] = "new" => 1 \in DOMAIN shjobs /\ shjobs[1] = "new"
  BY DEF CloseEnds, WaitChild
<1> QED
  BY <1>1, <1>2, OrderStays

\* ... and the steps of a child.
LEMMA ChildInOrder ==
    ASSUME NEW j \in {1, 2}, ShInv, ChildStep(j)
    PROVE  InOneGo' /\ InTwo'
<1>1. /\ ShTyped /\ InOneGo /\ InTwo /\ Busy
      /\ UNCHANGED <<shinput, shscript, shbuffer, shran, shpc, shwaits>>
      /\ \A i \in DOMAIN shjobs' : i \in DOMAIN shjobs /\ (shjobs'[i] = "new" => shjobs[i] = "new" /\ i # j)
  BY ChildCounted DEF ShInv
<1>2. CASE shoffset' = shoffset
  BY <1>1, <1>2, OrderStays
<1>3. CASE shoffset' # shoffset
  <2>1. /\ shinput = "file" /\ 1 \in DOMAIN shjobs /\ shjobs[1] = "new"
        /\ shran[Len(shran)] \in GivesBack /\ shran[Len(shran)] \in 1 .. Len(shscript)
        /\ Len(shbuffer) <= shoffset /\ shoffset' = shoffset - Len(shbuffer)
    BY <1>3, ChildGivesBack
  <2>2. GivesBack' = GivesBack /\ \A g, i : Again(g, i)' = Again(g, i)
    BY <1>1, SameLine
  <2>3. ~(shinput = "pipe" \/ GivesBack = {})
    BY <2>1
  <2>4. InOneGo'
    BY <1>1, <2>2, <2>3 DEF InOneGo
  <2>5. j = 1
    <3>1. ChildrenCounted /\ Execs(j)
      BY <1>3 DEF ChildStep, Ends, ShInv
    <3>2. (HasPipe => j = 1) /\ j \in DOMAIN shjobs
      BY <1>3, <3>1 DEF Execs, GivenBack
    <3> QED
      BY <1>1, <3>1, <3>2 DEF ChildrenCounted
  <2>6. ~(1 \in DOMAIN shjobs' /\ shjobs'[1] = "new")
    BY <1>1, <2>5
  <2>7. PICK L \in Nat : L = Len(shscript)
    BY <1>1, ShellAssumption DEF ShTyped
  <2>8. ASSUME NEW g \in 1 .. L, shinput = "file", GivesBack = {g}
        PROVE  /\ \A i \in 1 .. Len(shran) : shran[i] = Again(g, i)
               /\ \A i \in 1 .. Len(shbuffer) : shbuffer[i] = Again(g, Len(shran) + i)
               /\ Phase(L, g, shoffset', Len(shran), Len(shbuffer))
               /\ Busy' /\ shran[Len(shran)] = g => ~(shpc' = "fork" /\ shwaits' = 0)
    <3>1. /\ \A i \in 1 .. Len(shran) : shran[i] = Again(g, i)
          /\ \A i \in 1 .. Len(shbuffer) : shbuffer[i] = Again(g, Len(shran) + i)
      BY <1>1, <2>7, <2>8 DEF InTwo
    <3>2. shran[Len(shran)] = g
      BY <2>1, <2>8
    <3>3. shoffset = L /\ Len(shran) = g /\ Len(shbuffer) = L - g
      BY <1>1, <2>1, <2>7, <2>8, <3>2 DEF InTwo
    <3>4. Phase(L, g, shoffset', Len(shran), Len(shbuffer))
      BY <2>1, <2>7, <2>8, <3>3 DEF Phase
    <3>5. ~(shpc = "fork" /\ shwaits = 0)
      BY <2>1 DEF ShInv, ChildrenCounted
    <3> QED
      BY <1>1, <3>1, <3>4, <3>5
  <2>9. InTwo'
    BY <1>1, <2>2, <2>6, <2>7, <2>8 DEF InTwo, Phase, Again
  <2> QED
    BY <2>4, <2>9
<1> QED
  BY <1>2, <1>3

\* ShInv is inductive.
LEMMA ShInvStep == ShInv /\ [ShNext]_shVars => ShInv'
<1> SUFFICES ASSUME ShInv, [ShNext]_shVars
             PROVE  ShInv'
  OBVIOUS
<1>1. CASE UNCHANGED shVars
  <2>1. /\ UNCHANGED <<shinput, shscript, shoffset, shbuffer, shran, shpc, shjobs, shends, shwaits>>
        /\ ShTyped /\ RowRuns /\ ChildrenCounted /\ InOneGo /\ InTwo /\ Busy' = Busy
    BY <1>1 DEF shVars, ShInv, Busy
  <2>2. Row' = Row /\ (HasPipe' <=> HasPipe) /\ Waits' = Waits
    BY <2>1, SameLine
  <2>3. ShTyped' /\ RowRuns' /\ ChildrenCounted'
    BY <2>1, <2>2 DEF ShTyped, RowRuns, ChildrenCounted
  <2>4. InOneGo' /\ InTwo'
    BY <2>1, OrderStays
  <2> QED
    BY <2>3, <2>4 DEF ShInv
<1>2. CASE ReadLine
  BY <1>2, ReadCounted, ReadInOneGo, ReadInTwo DEF ShInv
<1>3. CASE CloseEnds \/ WaitChild
  BY <1>3, WaitCounted, WaitInOrder DEF ShInv
<1>4. ASSUME NEW j \in {1, 2}, Forks(j)
      PROVE  ShInv'
  BY <1>4, ForkCounted, ForkInOrder DEF ShInv
<1>5. ASSUME NEW j \in {1, 2}, ChildStep(j)
      PROVE  ShInv'
  BY <1>5, ChildCounted, ChildInOrder DEF ShInv
<1> QED
  BY <1>1, <1>2, <1>3, <1>4, <1>5 DEF ShNext, ShStep

\* ShInit: nothing was read.
LEMMA ShInvInit == ShInit => ShInv
<1> SUFFICES ASSUME ShInit
             PROVE  ShInv
  OBVIOUS
<1>1. PICK L \in Nat : L = Len(shscript)
  BY ShellAssumption DEF ShInit
<1>2. 0 \in 0 .. L /\ 0 \in 0 .. 2 /\ <<>> \in Seq(1 .. L)
  BY <1>1
<1>3. DOMAIN shjobs = {} /\ Len(shran) = 0 /\ Len(shbuffer) = 0
  BY DEF ShInit
<1>4. ShTyped
  BY <1>1, <1>2, <1>3 DEF ShInit, ShTyped
<1>5. RowRuns /\ ChildrenCounted
  BY <1>3 DEF ShInit, RowRuns, ChildrenCounted, Busy
<1>6. InOneGo
  BY <1>3 DEF ShInit, InOneGo
<1>7. InTwo
  BY <1>3 DEF ShInit, InTwo, Busy
<1> QED
  BY <1>4, <1>5, <1>6, <1>7 DEF ShInv

\* A sequence that agrees with a longer one is its beginning.
LEMMA BeginningIsPrefix ==
    ASSUME NEW s \in Seq(Nat), NEW t \in Seq(Nat), Len(s) <= Len(t),
           \A i \in 1 .. Len(s) : s[i] = t[i]
    PROVE  IsPrefix(s, t)
<1>1. PICK n \in Nat : n = Len(s)
  OBVIOUS
<1>2. PICK a : a = SubSeq(s, 1, n)
  OBVIOUS
<1>3. PICK b : b = SubSeq(t, 1, n)
  OBVIOUS
<1>4. a \in Seq(Nat) /\ Len(a) = n /\ \A i \in 1 .. n : a[i] = s[i]
  BY <1>1, <1>2, SubSeqProperties
<1>5. b \in Seq(Nat) /\ Len(b) = n /\ \A i \in 1 .. n : b[i] = t[i]
  BY <1>1, <1>3, SubSeqProperties
<1>6. a = b
  BY <1>1, <1>4, <1>5, SeqEqual
<1> QED
  BY <1>1, <1>2, <1>3, <1>6 DEF IsPrefix

\* What ShInv says of the lines run is what RunAsRead says.
LEMMA RanInOrder == ShInv => RunAsRead
<1> SUFFICES ASSUME ShInv
             PROVE  RunAsRead
  OBVIOUS
<1>1. ShTyped /\ InOneGo /\ InTwo
  BY DEF ShInv
<1>2. PICK L \in Nat : L = Len(shscript) /\ DOMAIN shscript = 1 .. L
  BY <1>1, ShellAssumption DEF ShTyped
<1>3. shran \in Seq(1 .. L) /\ shbuffer \in Seq(1 .. L) /\ shoffset \in 0 .. L
  BY <1>1, <1>2 DEF ShTyped
<1>4. PICK m \in Nat : m = Len(shran)
  BY <1>3
<1>5. shran \in Seq(Nat) /\ Len(shbuffer) \in Nat
  BY <1>3
<1>6. /\ Once \in Seq(Nat) /\ Len(Once) = L /\ \A i \in 1 .. L : Once[i] = i
  <2>1. Once = [i \in 1 .. L |-> i]
    BY <1>2 DEF Once
  <2> QED
    BY <2>1
<1>7. ASSUME shinput = "pipe" \/ GivesBack = {}
      PROVE  IsPrefix(shran, Once)
  <2>1. m <= L /\ \A i \in 1 .. m : shran[i] = i
    BY <1>1, <1>2, <1>3, <1>4, <1>5, <1>7 DEF InOneGo
  <2> QED
    BY <1>4, <1>5, <1>6, <2>1, BeginningIsPrefix
<1>8. ASSUME shinput = "file", Cardinality(GivesBack) = 1
      PROVE  IsPrefix(shran, Twice)
  <2>1. GivesBack \subseteq 1 .. L
    BY <1>2 DEF GivesBack
  <2>2. IsFiniteSet(GivesBack)
    <3>1. IsFiniteSet(1 .. L)
      BY <1>2, FS_Interval
    <3> QED
      BY <2>1, <3>1, FS_Subset
  <2>3. PICK g : GivesBack = {g}
    BY <1>8, <2>2, FS_Singleton
  <2>4. g \in 1 .. L
    BY <2>1, <2>3
  <2>5. Min(GivesBack) = g
    BY <2>3, <2>4 DEF Min
  <2>6. PICK n \in Nat : n = L - g
    BY <2>4
  <2>7. PICK r : r = [k \in 1 .. n |-> g + k]
    OBVIOUS
  <2>8. r \in Seq(Nat) /\ Len(r) = n /\ \A k \in 1 .. n : r[k] = g + k
    BY <2>4, <2>6, <2>7
  <2>9. Twice = Once \o r
    BY <1>2, <2>5, <2>6, <2>7 DEF Twice
  <2>10. PICK t : t = Twice
    OBVIOUS
  <2>11. /\ t \in Seq(Nat) /\ Len(t) = L + n
         /\ \A i \in 1 .. L + n : t[i] = IF i <= L THEN Once[i] ELSE r[i - L]
    BY <1>6, <2>8, <2>9, <2>10, ConcatProperties
  <2>12. m <= L + n /\ \A i \in 1 .. m : shran[i] = Again(g, i)
    <3>1. \A i \in 1 .. m : shran[i] = Again(g, i)
      BY <1>1, <1>2, <1>4, <1>8, <2>3, <2>4 DEF InTwo
    <3>2. Phase(L, g, shoffset, m, Len(shbuffer))
      BY <1>1, <1>2, <1>4, <1>8, <2>3, <2>4 DEF InTwo, Phase
    <3> QED
      BY <1>2, <1>4, <1>5, <2>4, <2>6, <3>1, <3>2 DEF Phase
  <2>13. ASSUME NEW i \in 1 .. m
         PROVE  shran[i] = t[i]
    <3>1. shran[i] = IF i <= L THEN i ELSE g + (i - L)
      BY <1>2, <2>12 DEF Again
    <3>2. i \in 1 .. L + n
      BY <1>2, <1>4, <2>6, <2>12
    <3>3. CASE i <= L
      BY <1>2, <1>4, <1>6, <2>11, <3>1, <3>2, <3>3
    <3>4. CASE i > L
      <4>1. i - L \in 1 .. n
        BY <1>2, <1>4, <2>6, <3>2, <3>4
      <4> QED
        BY <1>2, <1>4, <2>8, <2>11, <3>1, <3>2, <3>4, <4>1
    <3> QED
      BY <1>2, <1>4, <3>3, <3>4
  <2> QED
    BY <1>2, <1>4, <1>5, <2>6, <2>10, <2>11, <2>12, <2>13, BeginningIsPrefix
<1> QED
  BY <1>7, <1>8 DEF RunAsRead

\* The promises of the shell.
LEMMA ShPromises == ShInv => ShTypeOK /\ NoChildAtPrompt /\ RunAsRead
<1>1. ASSUME ShInv
      PROVE  ShTypeOK /\ NoChildAtPrompt
  <2>1. ShTyped /\ ChildrenCounted
    BY <1>1 DEF ShInv
  <2>2. PICK L \in Nat : L = Len(shscript) /\ DOMAIN shscript = 1 .. L
    BY <2>1, ShellAssumption DEF ShTyped
  <2>3. /\ \A i \in DOMAIN shbuffer : shbuffer[i] \in DOMAIN shscript
        /\ \A i \in DOMAIN shran : shran[i] \in DOMAIN shscript
    BY <2>1, <2>2 DEF ShTyped
  <2> QED
    BY <2>1, <2>3 DEF ShTyped, ShTypeOK, ChildrenCounted, NoChildAtPrompt, Busy
<1> QED
  BY <1>1, RanInOrder

\* Whatever the script and however the commands end or are not found: the shell comes
\* back to its prompt without children, and the lines run are the script, or, where one
\* line gave back what it had in its copy of the buffer, the script and the lines behind
\* that one again (interpreter.c: fork(), wait(), exit() of a child).
THEOREM ShellInOrder == ShSpec => [](ShTypeOK /\ NoChildAtPrompt /\ RunAsRead)
  BY ShInvInit, ShInvStep, ShPromises, PTL DEF ShSpec

-------------------------------------------------------------------------------
(* The kernel module.                                                            *)

\* The characters of the texts.
Chars == UNION {{Formatted(v)[i] : i \in 1 .. Len(Formatted(v))} : v \in Memory}

KTyped ==
    /\ kstate \in {"out", "kobj", "sysfs", "in", "undo", "unsysfs", "unkobj", "unproc"}
    /\ kfiles \subseteq {"proc", "kobj", "sysfs"}
    /\ myvar \in Memory /\ myvar_lock \in KUsers \cup {Nobody}
    /\ kpc \in [KUsers -> {"idle", "lock", "unlock", "leave"}]
    /\ kcall \in [KUsers -> {"read", "write", "show", "store"}]
    /\ karg \in [KUsers -> Memory \cup KCounts]
    /\ kread \in [KUsers -> Seq(Chars)]
    /\ kseen \in [KUsers -> SUBSET Memory]
    /\ kdone \in [KUsers -> BOOLEAN] /\ kopen \in [KUsers -> BOOLEAN]

\* The entries that each step of a load or unload leaves.
FilesOfState ==
    /\ kstate \in {"out", "unproc"} => kfiles = {}
    /\ kstate \in {"kobj", "unkobj"} => kfiles = {"proc"}
    /\ kstate \in {"sysfs", "unsysfs"} => kfiles = {"proc", "kobj"}
    /\ kstate = "in" => kfiles = {"proc", "kobj", "sysfs"}
    /\ kstate = "undo" => kfiles \subseteq {"proc"}

\* A call that runs is in a module that is there, one through sysfs while that is waited
\* for; it has what its kind needs, and the variable's value among those it has seen.
CallRuns(u) ==
    kpc[u] # "idle" =>
      /\ kstate # "out" /\ (FileOf(u) = "sysfs" => kstate \in {"in", "unsysfs"})
      /\ myvar \in kseen[u]
      /\ kcall[u] = "read" => karg[u] \in KCounts
      /\ kcall[u] \in {"write", "store"} => karg[u] \in KValues

\* What was read is of the one value that was seen, as far as it was read.
ReadOf(u, v) ==
    /\ Len(kread[u]) <= Len(Formatted(v))
    /\ kread[u] = SubSeq(Formatted(v), 1, Len(kread[u]))
    /\ kdone[u] => Len(kread[u]) = Len(Formatted(v))

ReadSoFar(u) ==
    /\ kopen[u] => kcall[u] = "read"
    /\ kdone[u] => kcall[u] \in {"read", "show"}
    /\ kcall[u] = "show" /\ kpc[u] \in {"lock", "unlock"} => kread[u] = <<>>
    /\ kcall[u] = "show" /\ kdone[u] => \E v \in kseen[u] : kread[u] = Formatted(v)
    /\ Len(kread[u]) <= 11
    /\ kcall[u] = "read" => \A v \in Memory : kseen[u] \subseteq {v} => ReadOf(u, v)

KInv == KTyped /\ FilesOfState /\ \A u \in KUsers : CallRuns(u) /\ ReadSoFar(u)

\* The text of a value fits the room that it is printed into.
LEMMA TextFacts ==
    ASSUME NEW v \in Memory
    PROVE  /\ Formatted(v) \in Seq(Chars) /\ Len(Formatted(v)) \in 2 .. 11
           /\ Len(Formatted(v)) <= 11 /\ Printed(v) = Formatted(v)
           /\ SubSeq(Formatted(v), 1, Len(Formatted(v))) = Formatted(v)
<1>1. DigitCount(v) \in 1 .. 10
  <2>1. PICK D : D = {d \in 1 .. 9 : 10 ^ d <= v}
    OBVIOUS
  <2>2. D \in SUBSET (1 .. 9)
    BY <2>1
  <2>3. IsFiniteSet(1 .. 9) /\ Cardinality(1 .. 9) = 9
    <3>1. 1 \in Int /\ 9 \in Int
      OBVIOUS
    <3>2. IsFiniteSet(1 .. 9) /\ Cardinality(1 .. 9) = IF 1 > 9 THEN 0 ELSE 9 - 1 + 1
      BY <3>1, FS_Interval
    <3> QED
      BY <3>2
  <2>4. IsFiniteSet(D) /\ Cardinality(D) <= 9
    BY <2>2, <2>3, FS_Subset
  <2>5. Cardinality(D) \in 0 .. 9
    BY <2>4, FS_CardinalityType
  <2> QED
    BY <2>1, <2>5 DEF DigitCount
<1>2. PICK n \in 1 .. 10 : n = DigitCount(v)
  BY <1>1
<1>3. PICK s : s = Formatted(v)
  OBVIOUS
<1>4. DOMAIN s = 1 .. n + 1 /\ s = [i \in 1 .. n + 1 |-> s[i]]
  BY <1>2, <1>3 DEF Formatted
<1>5. \A i \in 1 .. n + 1 : s[i] \in {s[k] : k \in 1 .. n + 1}
  OBVIOUS
<1>6. Len(s) = n + 1
  BY <1>2, <1>4
<1>7. s \in Seq(Chars)
  <2>1. \A i \in 1 .. n + 1 : s[i] \in Chars
    <3>1. PICK X : X = {s[k] : k \in 1 .. n + 1}
      OBVIOUS
    <3>2. X = {Formatted(v)[k] : k \in 1 .. Len(Formatted(v))}
      BY <1>3, <1>6, <3>1
    <3>3. X \subseteq Chars
      BY <3>2 DEF Chars
    <3> QED
      BY <1>5, <3>1, <3>3
  <2> QED
    BY <1>2, <1>4, <2>1
<1>8. SubSeq(s, 1, Len(s)) = s
  <2>1. PICK t : t = SubSeq(s, 1, Len(s))
    OBVIOUS
  <2>2. t \in Seq(Chars) /\ Len(t) = Len(s) /\ \A i \in 1 .. Len(s) : t[i] = s[i]
    BY <1>2, <1>6, <1>7, <2>1, SubSeqProperties
  <2> QED
    BY <1>7, <2>1, <2>2, SeqEqual
<1>9. Len(s) < Room /\ Len(s) <= 11
  BY <1>2, <1>6 DEF Room
<1> QED
  BY <1>2, <1>3, <1>6, <1>7, <1>8, <1>9 DEF Printed

\* d is what follows on the first k characters of s, up to the m-th.
IsPiece(s, k, m, d) ==
    /\ d = SubSeq(s, k + 1, m)
    /\ SubSeq(s, 1, k) \o d = SubSeq(s, 1, m)
    /\ d \in Seq(Chars) /\ Len(d) = m - k
    /\ d = <<>> <=> m = k

\* A beginning of a text, and what follows it up to some place.
LEMMA ReadFurther ==
    ASSUME NEW s \in Seq(Chars), NEW k \in Nat, NEW m \in Nat, k <= m, m <= Len(s)
    PROVE  \E d : IsPiece(s, k, m, d)
<1>1. PICK n \in Nat : n = Len(s)
  OBVIOUS
<1>2. k <= m /\ m <= n /\ k \in Nat /\ m \in Nat
  BY <1>1
<1>3. PICK a : a = SubSeq(s, 1, k)
  OBVIOUS
<1>4. PICK b : b = SubSeq(s, k + 1, m)
  OBVIOUS
<1>5. PICK c : c = SubSeq(s, 1, m)
  OBVIOUS
<1>6. a \in Seq(Chars) /\ Len(a) = k /\ \A i \in 1 .. k : a[i] = s[i]
  BY <1>1, <1>2, <1>3, SubSeqProperties
<1>7. b \in Seq(Chars) /\ Len(b) = m - k /\ \A i \in 1 .. m - k : b[i] = s[k + i]
  <2>1. b \in Seq(Chars) /\ Len(b) = m - (k + 1) + 1 /\ \A i \in 1 .. m - (k + 1) + 1 : b[i] = s[k + 1 + i - 1]
    BY <1>1, <1>2, <1>4, SubSeqProperties
  <2> QED
    BY <1>2, <2>1
<1>8. c \in Seq(Chars) /\ Len(c) = m /\ \A i \in 1 .. m : c[i] = s[i]
  BY <1>1, <1>2, <1>5, SubSeqProperties
<1>9. PICK d : d = a \o b
  OBVIOUS
<1>10. d \in Seq(Chars) /\ Len(d) = m /\ \A i \in 1 .. m : d[i] = IF i <= k THEN a[i] ELSE b[i - k]
  <2>1. /\ a \o b \in Seq(Chars) /\ Len(a \o b) = Len(a) + Len(b)
        /\ \A i \in 1 .. Len(a) + Len(b) : (a \o b)[i] = IF i <= Len(a) THEN a[i] ELSE b[i - Len(a)]
    BY <1>6, <1>7, ConcatProperties
  <2>2. Len(a) + Len(b) = m /\ Len(a) = k
    BY <1>2, <1>6, <1>7
  <2> QED
    BY <1>9, <2>1, <2>2
<1>11. ASSUME NEW i \in 1 .. m
       PROVE  d[i] = c[i]
  <2>1. CASE i <= k
    BY <1>2, <1>6, <1>8, <1>10, <2>1
  <2>2. CASE i > k
    <3>1. i - k \in 1 .. m - k /\ k + (i - k) = i
      BY <1>2, <2>2
    <3>2. b[i - k] = s[i]
      BY <1>7, <3>1
    <3>3. d[i] = b[i - k]
      BY <1>2, <1>10, <2>2
    <3> QED
      BY <1>8, <3>2, <3>3
  <2> QED
    BY <1>2, <2>1, <2>2
<1>12. d = c
  BY <1>8, <1>10, <1>11, SeqEqual
<1>13. b = <<>> <=> m = k
  <2>1. b = <<>> <=> Len(b) = 0
    BY <1>7, EmptySeq
  <2> QED
    BY <1>2, <1>7, <2>1
<1> QED
  BY <1>3, <1>4, <1>5, <1>7, <1>9, <1>12, <1>13 DEF IsPiece

\* A user that a step does not concern: its call goes on as before ...
LEMMA CallGoesOn ==
    ASSUME NEW u \in KUsers, CallRuns(u), kstate' = kstate,
           kpc'[u] # "idle" => kpc[u] # "idle",
           kcall'[u] = kcall[u], kpc'[u] # "idle" => karg'[u] = karg[u],
           myvar \in kseen[u] => myvar' \in kseen'[u]
    PROVE  CallRuns(u)'
<1>1. FileOf(u)' = FileOf(u)
  BY DEF FileOf
<1> QED
  BY <1>1 DEF CallRuns

\* ... and so does what it read, when the step shows it no value or one more.
LEMMA ReadGoesOn ==
    ASSUME NEW u \in KUsers, ReadSoFar(u),
           kopen'[u] => kopen[u], kcall'[u] = kcall[u], kread'[u] = kread[u], kdone'[u] = kdone[u],
           kpc'[u] \in {"lock", "unlock"} => kpc[u] \in {"lock", "unlock"},
           kseen[u] \subseteq kseen'[u]
    PROVE  ReadSoFar(u)'
<1>1. ASSUME NEW v, ReadOf(u, v)
      PROVE  ReadOf(u, v)'
  BY <1>1 DEF ReadOf
<1>2. \A v \in Memory : kseen'[u] \subseteq {v} => kseen[u] \subseteq {v}
  OBVIOUS
<1>3. kcall'[u] = "read" => \A v \in Memory : kseen'[u] \subseteq {v} => ReadOf(u, v)'
  BY <1>1, <1>2 DEF ReadSoFar
<1> QED
  BY <1>3 DEF ReadSoFar

\* Loading and unloading: a removal waits for the calls that run.
LEMMA ModuleKept == KInv /\ KModuleStep => KInv'
<1> SUFFICES ASSUME KInv, KModuleStep
             PROVE  KInv'
  OBVIOUS
<1>1. KTyped /\ FilesOfState /\ \A u \in KUsers : CallRuns(u) /\ ReadSoFar(u)
  BY DEF KInv
<1>2. /\ UNCHANGED <<myvar_lock, kpc, kcall, karg, kread, kseen, kdone>>
      /\ LoadProc \/ LoadKobj \/ LoadSysfs \/ ((UndoProc \/ Unload) /\ UNCHANGED <<myvar, kopen>>)
  BY DEF KModuleStep
<1>3. \A u \in KUsers : FileOf(u)' = FileOf(u) /\ FileOf(u) \in {"proc", "sysfs"}
  BY <1>2 DEF FileOf
<1>4. \A u \in KUsers : kopen'[u] => kopen[u]
  BY <1>2 DEF LoadProc, LoadKobj, LoadSysfs
<1>5. \A u \in KUsers : ReadSoFar(u)'
  BY <1>1, <1>2, <1>4, ReadGoesOn
<1>6. SUFFICES KTyped' /\ FilesOfState' /\ \A u \in KUsers : CallRuns(u)'
  BY <1>5 DEF KInv
<1>7. CASE LoadProc
  <2>1. /\ kstate = "out" /\ myvar' = 0 /\ kopen' = [u \in KUsers |-> FALSE]
        /\ (kstate' = "kobj" /\ kfiles' = {"proc"}) \/ (kstate' = kstate /\ kfiles' = kfiles)
    BY <1>7 DEF LoadProc, kModuleVars
  <2>2. \A u \in KUsers : kpc[u] = "idle"
    BY <1>1, <2>1 DEF CallRuns
  <2>3. KTyped'
    BY <1>1, <1>2, <2>1 DEF KTyped, Memory
  <2>4. FilesOfState'
    BY <1>1, <2>1 DEF FilesOfState
  <2> QED
    BY <1>2, <2>2, <2>3, <2>4 DEF CallRuns
<1>8. CASE LoadKobj \/ LoadSysfs
  <2>1. /\ UNCHANGED <<myvar, kopen>> /\ kstate \in {"kobj", "sysfs"} /\ kstate' \in {"sysfs", "in", "undo"}
    BY <1>8 DEF LoadKobj, LoadSysfs
  <2>2. kfiles' \subseteq {"proc", "kobj", "sysfs"} /\ FilesOfState'
    BY <1>1, <1>8 DEF LoadKobj, LoadSysfs, FilesOfState
  <2>3. KTyped'
    BY <1>1, <1>2, <2>1, <2>2 DEF KTyped
  <2>4. \A u \in KUsers : CallRuns(u)'
    BY <1>1, <1>2, <1>3, <2>1 DEF CallRuns
  <2> QED
    BY <2>2, <2>3, <2>4
<1>9. CASE (UndoProc \/ Unload) /\ UNCHANGED <<myvar, kopen>>
  <2>1. /\ kstate \in {"in", "unsysfs", "unkobj", "unproc", "undo"}
        /\ kstate' \in {"unsysfs", "unkobj", "unproc", "undo", "out"}
        /\ kfiles' \subseteq kfiles /\ FilesOfState'
    <3>1. CASE UndoProc
      BY <1>1, <3>1 DEF UndoProc, Removes, FilesOfState
    <3>2. CASE Unload
      BY <1>1, <3>2 DEF Unload, Removes, FilesOfState
    <3> QED
      BY <1>9, <3>1, <3>2
  <2>2. KTyped'
    BY <1>1, <1>2, <1>9, <2>1 DEF KTyped
  <2>3. ASSUME NEW u \in KUsers, kpc[u] # "idle"
        PROVE  kstate' # "out" /\ (FileOf(u) = "sysfs" => kstate' \in {"in", "unsysfs"})
    <3>1. FileOf(u) = "sysfs" => kstate \in {"in", "unsysfs"}
      BY <1>1, <2>3 DEF CallRuns
    <3>2. u \in Inside(FileOf(u))
      BY <2>3 DEF Inside
    <3>3. CASE FileOf(u) = "sysfs"
      BY <1>9, <3>1, <3>2, <3>3 DEF UndoProc, Unload, Removes
    <3>4. CASE FileOf(u) = "proc"
      BY <1>9, <3>2, <3>4 DEF UndoProc, Unload, Removes
    <3> QED
      BY <1>3, <3>3, <3>4
  <2>4. \A u \in KUsers : CallRuns(u)'
    BY <1>1, <1>2, <1>3, <1>9, <2>3 DEF CallRuns
  <2> QED
    BY <2>1, <2>2, <2>4
<1> QED
  BY <1>2, <1>7, <1>8, <1>9

\* A new call, through a file that is there.
LEMMA CallKept ==
    ASSUME NEW w \in KUsers, NEW call \in {"read", "write", "show", "store"}, NEW arg,
           call = "read" => arg \in KCounts,
           call \in {"write", "store"} => arg \in KValues,
           call = "show" => arg = 0,
           KInv, KCalls(w, call, arg)
    PROVE  KInv'
<1>1. KTyped /\ FilesOfState /\ \A u \in KUsers : CallRuns(u) /\ ReadSoFar(u)
  BY DEF KInv
<1>2. PICK on \in BOOLEAN : on = (call = "read" /\ kopen[w])
  BY <1>1 DEF KTyped
<1>3. /\ kpc[w] = "idle"
      /\ (IF call \in {"read", "write"} THEN "proc" ELSE "sysfs") \in kfiles
      /\ kpc' = [kpc EXCEPT ![w] = "lock"]
      /\ kcall' = [kcall EXCEPT ![w] = call] /\ karg' = [karg EXCEPT ![w] = arg]
      /\ kread' = [kread EXCEPT ![w] = IF on THEN kread[w] ELSE <<>>]
      /\ kseen' = [kseen EXCEPT ![w] = IF on THEN kseen[w] \cup {myvar} ELSE {myvar}]
      /\ kopen' = [kopen EXCEPT ![w] = (call = "read")]
      /\ kdone' = [kdone EXCEPT ![w] = FALSE]
      /\ UNCHANGED <<kstate, kfiles, myvar, myvar_lock>>
  BY <1>2 DEF KCalls, kModuleVars
<1>4. /\ myvar \in Memory /\ kpc \in [KUsers -> {"idle", "lock", "unlock", "leave"}]
      /\ kcall \in [KUsers -> {"read", "write", "show", "store"}]
      /\ karg \in [KUsers -> Memory \cup KCounts]
      /\ kread \in [KUsers -> Seq(Chars)] /\ kseen \in [KUsers -> SUBSET Memory]
      /\ kdone \in [KUsers -> BOOLEAN] /\ kopen \in [KUsers -> BOOLEAN]
  BY <1>1 DEF KTyped
<1>5. /\ kpc'[w] = "lock" /\ kcall'[w] = call /\ karg'[w] = arg /\ kopen'[w] = (call = "read")
      /\ kdone'[w] = FALSE /\ myvar \in kseen'[w]
      /\ kread'[w] = IF on THEN kread[w] ELSE <<>>
      /\ on => kseen[w] \subseteq kseen'[w]
  BY <1>3, <1>4
<1>6. arg \in Memory \cup KCounts /\ <<>> \in Seq(Chars) /\ (call = "read") \in BOOLEAN
  BY DEF Memory
<1>7. KTyped'
  <2>1. kpc' \in [KUsers -> {"idle", "lock", "unlock", "leave"}]
    BY <1>3, <1>4
  <2>2. kcall' \in [KUsers -> {"read", "write", "show", "store"}]
    BY <1>3, <1>4
  <2>3. karg' \in [KUsers -> Memory \cup KCounts]
    BY <1>3, <1>4, <1>6
  <2>4. kread' \in [KUsers -> Seq(Chars)]
    BY <1>3, <1>4, <1>6
  <2>5. kseen' \in [KUsers -> SUBSET Memory]
    BY <1>3, <1>4
  <2>6. kdone' \in [KUsers -> BOOLEAN] /\ kopen' \in [KUsers -> BOOLEAN]
    BY <1>3, <1>4, <1>6
  <2> QED
    BY <1>1, <1>3, <2>1, <2>2, <2>3, <2>4, <2>5, <2>6 DEF KTyped
<1>8. FilesOfState'
  BY <1>1, <1>3 DEF FilesOfState
<1>9. ASSUME NEW u \in KUsers, u # w
      PROVE  CallRuns(u)' /\ ReadSoFar(u)'
  <2>1. /\ kpc'[u] = kpc[u] /\ kcall'[u] = kcall[u] /\ karg'[u] = karg[u] /\ kread'[u] = kread[u]
        /\ kseen'[u] = kseen[u] /\ kopen'[u] = kopen[u] /\ kdone'[u] = kdone[u]
    BY <1>3, <1>4, <1>9
  <2> QED
    BY <1>1, <1>3, <2>1, CallGoesOn, ReadGoesOn
<1>10. CallRuns(w)'
  <2>1. kstate # "out" /\ (call \in {"show", "store"} => kstate \in {"in", "unsysfs"})
    BY <1>1, <1>3 DEF FilesOfState, KTyped
  <2>2. FileOf(w)' = "sysfs" => call \in {"show", "store"}
    BY <1>5 DEF FileOf
  <2> QED
    BY <1>3, <1>5, <2>1, <2>2 DEF CallRuns
<1>11. ReadSoFar(w)'
  <2>1. call = "show" => kread'[w] = <<>>
    BY <1>2, <1>5
  <2>2. Len(kread'[w]) <= 11
    BY <1>1, <1>5 DEF ReadSoFar
  <2>3. ASSUME NEW v \in Memory, call = "read", kseen'[w] \subseteq {v}
        PROVE  ReadOf(w, v)'
    <3>1. CASE on
      <4>1. kseen[w] \subseteq {v} /\ kcall[w] = "read"
        BY <1>1, <1>2, <1>5, <2>3, <3>1 DEF ReadSoFar
      <4>2. ReadOf(w, v)
        BY <1>1, <4>1 DEF ReadSoFar
      <4> QED
        BY <1>5, <3>1, <4>2 DEF ReadOf
    <3>2. CASE ~on
      <4>1. kread'[w] = <<>> /\ kdone'[w] = FALSE /\ Len(<<>>) = 0
        BY <1>5, <3>2
      <4>2. Formatted(v) \in Seq(Chars) /\ Len(Formatted(v)) \in 2 .. 11
        BY TextFacts
      <4>3. SubSeq(Formatted(v), 1, 0) = <<>>
        BY <4>2
      <4> QED
        BY <4>1, <4>2, <4>3 DEF ReadOf
    <3> QED
      BY <1>2, <3>1, <3>2
  <2> QED
    BY <1>5, <2>1, <2>2, <2>3 DEF ReadSoFar
<1> QED
  BY <1>7, <1>8, <1>9, <1>10, <1>11 DEF KInv

\* A piece read through procfs follows on what was read of the same text, and is empty
\* only at its end.
LEMMA GotFacts ==
    ASSUME KTyped, NEW w \in KUsers, kcall[w] = "read", karg[w] \in KCounts, Len(kread[w]) <= 11
    PROVE  /\ Got(w) \in Seq(Chars) /\ Len(kread[w] \o Got(w)) <= 11
           /\ Len(kread[w]) <= Len(Formatted(myvar)) /\
              kread[w] = SubSeq(Formatted(myvar), 1, Len(kread[w])) =>
                \E m \in 0 .. Len(Formatted(myvar)) :
                  /\ kread[w] \o Got(w) = SubSeq(Formatted(myvar), 1, m)
                  /\ Len(kread[w] \o Got(w)) = m
                  /\ Got(w) = <<>> => m = Len(Formatted(myvar))
<1>1. PICK s : s = Formatted(myvar)
  OBVIOUS
<1>2. s \in Seq(Chars) /\ Len(s) \in 2 .. 11 /\ Printed(myvar) = s
  BY <1>1, TextFacts DEF KTyped
<1>3. PICK n \in 2 .. 11 : n = Len(s)
  BY <1>2
<1>4. PICK c \in Nat \ {0} : c = karg[w]
  BY ProcSysVarAssumption
<1>5. PICK r \in Seq(Chars) : r = kread[w]
  BY DEF KTyped
<1>6. PICK k \in Nat : k = Len(r)
  BY <1>5
<1>7. PICK m \in Nat : m = IF k + c < n THEN k + c ELSE n
  BY <1>3, <1>4, <1>6
<1>8. PICK b : b = Got(w)
  OBVIOUS
<1>9. b = SubSeq(s, k + 1, m)
  BY <1>2, <1>3, <1>4, <1>5, <1>6, <1>7, <1>8 DEF Got
<1>10. m <= n /\ (k < n => m > k) /\ (k >= n => m = n)
  BY <1>3, <1>4, <1>6, <1>7
<1>11. k <= 11
  BY <1>5, <1>6
<1>12. CASE k > n
  <2>1. b = <<>>
    BY <1>2, <1>3, <1>6, <1>9, <1>10, <1>12
  <2>2. b \in Seq(Chars) /\ r \o b = r
    BY <1>5, <2>1
  <2> QED
    BY <1>1, <1>3, <1>5, <1>6, <1>8, <1>11, <1>12, <2>2
<1>13. CASE k <= n
  <2>1. k \in Nat /\ m \in Nat /\ k <= m /\ m <= Len(s) /\ m \in 0 .. n
    BY <1>3, <1>6, <1>7, <1>10, <1>13
  <2>2. /\ SubSeq(s, 1, k) \o b = SubSeq(s, 1, m)
        /\ b \in Seq(Chars) /\ Len(b) = m - k
        /\ b = <<>> <=> m = k
    <3>1. PICK d : IsPiece(s, k, m, d)
      <4>1. s \in Seq(Chars) /\ k \in Nat /\ m \in Nat /\ k <= m /\ m <= Len(s)
        BY <1>2, <2>1
      <4> QED
        BY <4>1, ReadFurther
    <3>2. d = SubSeq(s, k + 1, m) /\ Len(d) = m - k
      BY <3>1 DEF IsPiece
    <3> QED
      BY <1>9, <3>1, <3>2 DEF IsPiece
  <2>3. PICK l : l = Len(r \o b)
    OBVIOUS
  <2>4. l = m /\ m <= 11
    <3>1. l = Len(r) + Len(b)
      BY <1>5, <2>2, <2>3, ConcatProperties
    <3>2. l = k + (m - k)
      BY <1>6, <2>2, <3>1
    <3> QED
      <4>1. m \in Nat /\ k \in Nat /\ n \in 2 .. 11 /\ m <= n
        BY <1>3, <1>6, <1>7, <1>10
      <4>2. k + (m - k) = m /\ m <= 11
        BY <4>1
      <4> QED
        BY <3>2, <4>2
  <2>5. b = <<>> => m = n
    BY <1>3, <1>6, <1>7, <1>10, <1>13, <2>2
  <2>6. r = SubSeq(s, 1, k) => r \o b = SubSeq(s, 1, m)
    BY <2>2
  <2> QED
    BY <1>1, <1>3, <1>5, <1>6, <1>8, <2>1, <2>2, <2>3, <2>4, <2>5, <2>6
<1>14. k > n \/ k <= n
  BY <1>3, <1>6
<1> QED
  BY <1>12, <1>13, <1>14

\* A handler takes the mutex, or its call returns.
LEMMA EntersOrReturnsKept ==
    ASSUME NEW w \in KUsers, KInv, KLocks(w) \/ KReturns(w)
    PROVE  KInv'
<1>1. KTyped /\ FilesOfState /\ \A u \in KUsers : CallRuns(u) /\ ReadSoFar(u)
  BY DEF KInv
<1>2. /\ UNCHANGED <<kstate, kfiles, myvar, kcall, kopen, kread, kseen, kdone>>
      /\ \/ kpc[w] = "lock" /\ kpc' = [kpc EXCEPT ![w] = "unlock"] /\ karg' = karg
         \/ kpc' = [kpc EXCEPT ![w] = "idle"] /\ karg' = [karg EXCEPT ![w] = 0]
      /\ myvar_lock' \in KUsers \cup {Nobody}
  BY <1>1 DEF KLocks, KReturns, kModuleVars, kReaderVars, KTyped
<1>3. 0 \in Memory
  BY DEF Memory
<1>4. KTyped'
  <2>1. /\ kpc \in [KUsers -> {"idle", "lock", "unlock", "leave"}]
        /\ karg \in [KUsers -> Memory \cup KCounts]
    BY <1>1 DEF KTyped
  <2>2. kpc' \in [KUsers -> {"idle", "lock", "unlock", "leave"}]
    BY <1>2, <2>1
  <2>3. karg' \in [KUsers -> Memory \cup KCounts]
    BY <1>2, <1>3, <2>1
  <2> QED
    BY <1>1, <1>2, <2>2, <2>3 DEF KTyped
<1>5. ASSUME NEW u \in KUsers
      PROVE  /\ kpc'[u] # "idle" => kpc[u] # "idle" /\ karg'[u] = karg[u]
             /\ kpc'[u] \in {"lock", "unlock"} => kpc[u] \in {"lock", "unlock"}
  <2>1. kpc \in [KUsers -> {"idle", "lock", "unlock", "leave"}] /\ karg \in [KUsers -> Memory \cup KCounts]
    BY <1>1 DEF KTyped
  <2>2. CASE u = w
    BY <1>2, <2>1, <2>2
  <2>3. CASE u # w
    BY <1>2, <2>1, <2>3
  <2> QED
    BY <2>2, <2>3
<1>6. ASSUME NEW u \in KUsers
      PROVE  CallRuns(u)' /\ ReadSoFar(u)'
  BY <1>1, <1>2, <1>5, CallGoesOn, ReadGoesOn
<1>7. FilesOfState'
  BY <1>1, <1>2 DEF FilesOfState
<1> QED
  BY <1>4, <1>6, <1>7 DEF KInv

\* The statement behind the mutex: a write shows its value to everybody who has a read
\* under way, ...
LEMMA WriteKept ==
    ASSUME NEW w \in KUsers, KInv, KAccess(w), kcall[w] \in {"write", "store"}
    PROVE  KInv'
<1>1. KTyped /\ FilesOfState /\ \A u \in KUsers : CallRuns(u) /\ ReadSoFar(u)
  BY DEF KInv
<1>2. /\ kpc[w] = "unlock" /\ kpc' = [kpc EXCEPT ![w] = "leave"] /\ myvar_lock' = Nobody
      /\ myvar' = karg[w] /\ kseen' = [o \in KUsers |-> kseen[o] \cup {karg[w]}]
      /\ UNCHANGED <<kstate, kfiles, kcall, karg, kopen, kread, kdone>>
  BY DEF KAccess, Unlocks, kModuleVars
<1>3. PICK v \in Memory : v = karg[w]
  BY <1>1, <1>2 DEF CallRuns, Memory
<1>4. kpc \in [KUsers -> {"idle", "lock", "unlock", "leave"}] /\ kseen \in [KUsers -> SUBSET Memory]
  BY <1>1 DEF KTyped
<1>5. kpc' \in [KUsers -> {"idle", "lock", "unlock", "leave"}] /\ kseen' \in [KUsers -> SUBSET Memory]
  BY <1>2, <1>3, <1>4
<1>6. KTyped'
  BY <1>1, <1>2, <1>3, <1>5 DEF KTyped
<1>7. ASSUME NEW u \in KUsers
      PROVE  /\ kpc'[u] # "idle" => kpc[u] # "idle"
             /\ kpc'[u] \in {"lock", "unlock"} => kpc[u] \in {"lock", "unlock"}
             /\ kseen[u] \subseteq kseen'[u] /\ myvar' \in kseen'[u]
  <2>1. CASE u = w
    BY <1>2, <1>3, <1>4, <2>1
  <2>2. CASE u # w
    BY <1>2, <1>3, <1>4, <2>2
  <2> QED
    BY <2>1, <2>2
<1>8. ASSUME NEW u \in KUsers
      PROVE  CallRuns(u)' /\ ReadSoFar(u)'
  BY <1>1, <1>2, <1>7, CallGoesOn, ReadGoesOn
<1>9. FilesOfState'
  BY <1>1, <1>2 DEF FilesOfState
<1> QED
  BY <1>6, <1>8, <1>9 DEF KInv

\* ... and a read takes the whole text, or a piece.
LEMMA ReadKept ==
    ASSUME NEW w \in KUsers, KInv, KAccess(w), kcall[w] \notin {"write", "store"}
    PROVE  KInv'
<1>1. KTyped /\ FilesOfState /\ \A u \in KUsers : CallRuns(u) /\ ReadSoFar(u)
  BY DEF KInv
<1>2. PICK got : got = Got(w)
  OBVIOUS
<1>3. PICK done \in BOOLEAN : done = (got = <<>> \/ kcall[w] = "show")
  OBVIOUS
<1>4. /\ kpc \in [KUsers -> {"idle", "lock", "unlock", "leave"}] /\ kread \in [KUsers -> Seq(Chars)]
      /\ kdone \in [KUsers -> BOOLEAN] /\ kopen \in [KUsers -> BOOLEAN] /\ myvar \in Memory
  BY <1>1 DEF KTyped
<1>5. /\ kpc[w] = "unlock" /\ kpc' = [kpc EXCEPT ![w] = "leave"] /\ myvar_lock' = Nobody
      /\ kread' = [kread EXCEPT ![w] = kread[w] \o got] /\ kdone' = [kdone EXCEPT ![w] = done]
      /\ kopen' = [kopen EXCEPT ![w] = ~done]
      /\ UNCHANGED <<kstate, kfiles, kcall, karg, myvar, kseen>>
  <2>1. kdone' = [kdone EXCEPT ![w] = done]
    BY <1>2, <1>3 DEF KAccess
  <2>2. kdone'[w] = done
    BY <1>4, <2>1
  <2> QED
    BY <1>2, <2>1, <2>2 DEF KAccess, Unlocks, kModuleVars
<1>6. kcall[w] \in {"read", "show"} /\ CallRuns(w) /\ ReadSoFar(w) /\ kpc[w] # "idle" /\ myvar \in kseen[w]
  BY <1>1, <1>5 DEF KTyped, CallRuns
<1>7. kpc'[w] = "leave" /\ kread'[w] = kread[w] \o got /\ kdone'[w] = done /\ kopen'[w] = ~done
  BY <1>4, <1>5
<1>8. got \in Seq(Chars) /\ ReadSoFar(w)'
  <2>1. CASE kcall[w] = "show"
    <3>1. got = Formatted(myvar) /\ kread[w] = <<>> /\ done = TRUE
      BY <1>2, <1>3, <1>5, <1>6, <2>1 DEF Got, ReadSoFar
    <3>2. got \in Seq(Chars) /\ Len(got) <= 11
      <4>1. PICK v \in Memory : v = myvar
        BY <1>4
      <4>2. got = Formatted(v)
        BY <3>1, <4>1
      <4>3. Formatted(v) \in Seq(Chars) /\ Len(Formatted(v)) <= 11
        BY TextFacts
      <4> QED
        BY <4>2, <4>3
    <3>3. <<>> \o got = got
      BY <3>2
    <3>4. kread'[w] = got /\ Len(kread'[w]) <= 11
      BY <1>7, <3>1, <3>2, <3>3
    <3> QED
      BY <1>5, <1>6, <1>7, <2>1, <3>1, <3>2, <3>4 DEF ReadSoFar
  <2>2. CASE kcall[w] = "read"
    <3>1. karg[w] \in KCounts /\ Len(kread[w]) <= 11
      BY <1>6, <2>2 DEF CallRuns, ReadSoFar
    <3>2. /\ got \in Seq(Chars) /\ Len(kread[w] \o got) <= 11
          /\ Len(kread[w]) <= Len(Formatted(myvar)) /\
             kread[w] = SubSeq(Formatted(myvar), 1, Len(kread[w])) =>
               \E m \in 0 .. Len(Formatted(myvar)) :
                 /\ kread[w] \o got = SubSeq(Formatted(myvar), 1, m)
                 /\ Len(kread[w] \o got) = m
                 /\ got = <<>> => m = Len(Formatted(myvar))
      BY <1>1, <1>2, <2>2, <3>1, GotFacts
    <3>3. ASSUME NEW v \in Memory, kseen[w] \subseteq {v}
          PROVE  ReadOf(w, v)'
      <4>1. v = myvar /\ ReadOf(w, v)
        BY <1>6, <2>2, <3>3 DEF ReadSoFar
      <4>2. PICK m \in 0 .. Len(Formatted(v)) :
              /\ kread[w] \o got = SubSeq(Formatted(v), 1, m)
              /\ Len(kread[w] \o got) = m
              /\ got = <<>> => m = Len(Formatted(v))
        BY <3>2, <4>1 DEF ReadOf
      <4>3. Len(Formatted(v)) \in 2 .. 11
        BY TextFacts
      <4>4. done => got = <<>>
        BY <1>3, <2>2
      <4> QED
        BY <1>7, <4>2, <4>3, <4>4 DEF ReadOf
    <3> QED
      BY <1>5, <1>6, <1>7, <2>2, <3>2, <3>3 DEF ReadSoFar
  <2> QED
    BY <1>6, <2>1, <2>2
<1>9. CallRuns(w)'
  BY <1>5, <1>6, CallGoesOn
<1>10. ASSUME NEW u \in KUsers, u # w
       PROVE  CallRuns(u)' /\ ReadSoFar(u)'
  <2>1. /\ kpc'[u] = kpc[u] /\ kread'[u] = kread[u] /\ kopen'[u] = kopen[u] /\ kdone'[u] = kdone[u]
    BY <1>4, <1>5, <1>10
  <2> QED
    BY <1>1, <1>5, <2>1, CallGoesOn, ReadGoesOn
<1>11. KTyped'
  <2>1. kpc' \in [KUsers -> {"idle", "lock", "unlock", "leave"}] /\ kdone' \in [KUsers -> BOOLEAN]
    BY <1>4, <1>5
  <2>2. kopen' \in [KUsers -> BOOLEAN]
    BY <1>4, <1>5
  <2>3. kread[w] \o got \in Seq(Chars)
    BY <1>4, <1>8, ConcatProperties
  <2>4. kread' \in [KUsers -> Seq(Chars)]
    BY <1>4, <1>5, <2>3
  <2> QED
    BY <1>1, <1>5, <2>1, <2>2, <2>4 DEF KTyped
<1>12. FilesOfState'
  BY <1>1, <1>5 DEF FilesOfState
<1> QED
  BY <1>8, <1>9, <1>10, <1>11, <1>12 DEF KInv

\* KInv is inductive.
LEMMA KInvStep == KInv /\ [KNext]_kVars => KInv'
<1> SUFFICES ASSUME KInv, [KNext]_kVars
             PROVE  KInv'
  OBVIOUS
<1>1. CASE UNCHANGED kVars
  <2>1. KTyped /\ FilesOfState /\ \A u \in KUsers : CallRuns(u) /\ ReadSoFar(u)
    BY DEF KInv
  <2>2. UNCHANGED <<kstate, kfiles, myvar, myvar_lock, kpc, kcall, karg, kopen, kread, kseen, kdone>>
    BY <1>1 DEF kVars
  <2>3. KTyped' /\ FilesOfState'
    BY <2>1, <2>2 DEF KTyped, FilesOfState
  <2>4. \A u \in KUsers : CallRuns(u)' /\ ReadSoFar(u)'
    BY <2>1, <2>2, CallGoesOn, ReadGoesOn
  <2> QED
    BY <2>3, <2>4 DEF KInv
<1>2. CASE KModuleStep
  BY <1>2, ModuleKept
<1>3. ASSUME NEW u \in KUsers, KHandler(u)
      PROVE  KInv'
  BY <1>3, EntersOrReturnsKept, WriteKept, ReadKept DEF KHandler
<1>4. ASSUME NEW u \in KUsers, KUse(u)
      PROVE  KInv'
  <2>1. ASSUME NEW c \in KCounts, KCalls(u, "read", c)
        PROVE  KInv'
    BY <2>1, CallKept
  <2>2. ASSUME NEW v \in KValues, KCalls(u, "write", v)
        PROVE  KInv'
    BY <2>2, CallKept
  <2>3. ASSUME NEW v \in KValues, KCalls(u, "store", v)
        PROVE  KInv'
    BY <2>3, CallKept
  <2>4. ASSUME KCalls(u, "show", 0)
        PROVE  KInv'
    BY <2>4, CallKept
  <2> QED
    BY <1>4, <2>1, <2>2, <2>3, <2>4 DEF KUse
<1> QED
  BY <1>1, <1>2, <1>3, <1>4 DEF KNext

\* KInit: the module is out, and nobody has read.
LEMMA KInvInit == KInit => KInv
<1> SUFFICES ASSUME KInit
             PROVE  KInv
  OBVIOUS
<1>1. 0 \in Memory /\ <<>> \in Seq(Chars) /\ Len(<<>>) = 0
  BY DEF Memory
<1>2. KTyped /\ FilesOfState
  BY <1>1 DEF KInit, KTyped, FilesOfState
<1>3. ASSUME NEW u \in KUsers
      PROVE  CallRuns(u) /\ ReadSoFar(u)
  <2>1. kpc[u] = "idle" /\ kcall[u] = "read" /\ kread[u] = <<>> /\ kdone[u] = FALSE /\ kopen[u] = FALSE
    BY DEF KInit
  <2>2. ASSUME NEW v \in Memory
        PROVE  ReadOf(u, v)
    <3>1. Formatted(v) \in Seq(Chars) /\ Len(Formatted(v)) \in 2 .. 11
      BY TextFacts
    <3>2. SubSeq(Formatted(v), 1, 0) = <<>>
      BY <3>1
    <3> QED
      BY <1>1, <2>1, <3>1, <3>2 DEF ReadOf
  <2> QED
    BY <1>1, <2>1, <2>2 DEF CallRuns, ReadSoFar
<1> QED
  BY <1>2, <1>3 DEF KInv

\* The promises of the module.
LEMMA KPromises == KInv => KTypeOK /\ NothingLeadsOut /\ ReadsWhole
<1> SUFFICES ASSUME KInv
             PROVE  KTypeOK /\ NothingLeadsOut /\ ReadsWhole
  OBVIOUS
<1>1. KTyped /\ FilesOfState /\ \A u \in KUsers : CallRuns(u) /\ ReadSoFar(u)
  BY DEF KInv
<1>2. KTypeOK
  BY <1>1 DEF KTyped, KTypeOK, ReadSoFar
<1>3. NothingLeadsOut
  BY <1>1 DEF FilesOfState, CallRuns, NothingLeadsOut
<1>4. ASSUME NEW u \in KUsers, kdone[u], kcall[u] = "show" \/ Cardinality(kseen[u]) = 1
      PROVE  \E v \in kseen[u] : kread[u] = Formatted(v)
  <2>1. CASE kcall[u] = "show"
    BY <1>1, <1>4, <2>1 DEF ReadSoFar
  <2>2. CASE kcall[u] # "show"
    <3>1. kcall[u] = "read" /\ Cardinality(kseen[u]) = 1
      BY <1>1, <1>4, <2>2 DEF ReadSoFar
    <3>2. PICK v : kseen[u] = {v}
      <4>1. kseen[u] \in SUBSET Memory
        BY <1>1 DEF KTyped
      <4>2. IsFiniteSet(Memory)
        BY ProcSysVarAssumption, FS_AddElement DEF Memory
      <4>3. IsFiniteSet(kseen[u])
        BY <4>1, <4>2, FS_Subset
      <4> QED
        BY <3>1, <4>3, FS_Singleton
    <3>3. v \in Memory
      BY <1>1, <3>2 DEF KTyped
    <3>4. ReadOf(u, v)
      BY <1>1, <3>1, <3>2, <3>3 DEF ReadSoFar
    <3>5. Len(kread[u]) = Len(Formatted(v)) /\ kread[u] = SubSeq(Formatted(v), 1, Len(Formatted(v)))
      BY <1>4, <3>4 DEF ReadOf
    <3>6. SubSeq(Formatted(v), 1, Len(Formatted(v))) = Formatted(v)
      BY <3>3, TextFacts
    <3> QED
      BY <3>2, <3>5, <3>6
  <2> QED
    BY <2>1, <2>2
<1> QED
  BY <1>2, <1>3, <1>4 DEF ReadsWhole

\* Whatever step of a load fails and whoever uses the files during an unload: no call and
\* no entry leads into a module that is gone, and a file read to its end gave a value that
\* the variable had (proc_sys_var.c: proc_sys_init(), proc_sys_exit() and the handlers).
THEOREM ModuleIsSound == KSpec => [](KTypeOK /\ NothingLeadsOut /\ ReadsWhole)
  BY KInvInit, KInvStep, KPromises, PTL DEF KSpec
===============================================================================
