-------------------------- MODULE TaxiControlProofs --------------------------
(* Theorems about TaxiControl, for every number of drivers, queue length,      *)
(* number of deaths, pid allocation and allocator.                             *)
EXTENDS TaxiControl, FiniteSetTheorems, TLAPS

------------------------------------------------------------------------------
(* Queues.                                                                     *)

\* Sending to a queue, and receiving from one that is not empty, keep its type
\* and its bound.
LEMMA QueueType ==
    ASSUME NEW S, NEW q \in Queues(S), NEW m \in S
    PROVE  Queue(q, m) \in Queues(S)
  BY TaxiAssumption DEF Queue, Queues

\* What is left of a queue after a receive is a queue.
LEMMA QueueTail ==
    ASSUME NEW S, NEW q \in Queues(S), q # <<>>
    PROVE  Tail(q) \in Queues(S)
  BY TaxiAssumption DEF Queues

\* A socket nobody sent to holds a queue.
LEMMA EmptyQueue == \A S : <<>> \in Queues(S)
  BY TaxiAssumption DEF Queues

------------------------------------------------------------------------------
(* Types.                                                                      *)

\* The steps of a driver keep the types.
LEMMA DriverTypes ==
    ASSUME TypeOK, NEW k \in Slots, DriverStep(k) \/ TimerExpires(k) \/ Kill(k)
    PROVE  TypeOK'
<1> USE DEF TypeOK, Events, table, cli, kernel, sockets
<1>1. CASE DriverPoll(k)
  BY <1>1 DEF DriverPoll, DriverEvent
<1>2. CASE DriverTimer(k)
  BY <1>2 DEF DriverTimer
<1>3. CASE DriverHup(k)
  BY <1>3, EmptyQueue DEF DriverHup, Exits
<1>4. CASE DriverAgain(k)
  BY <1>4 DEF DriverAgain
<1>5. CASE DriverRecvFails(k)
  BY <1>5, EmptyQueue DEF DriverRecvFails, Exits
<1>6. ASSUME NEW a \in Answers, Reply(k, a)
      PROVE  toCli' \in [Slots -> Queues(Answers)]
  BY <1>6, QueueType DEF Reply
<1>7. ASSUME NEW a \in Answers, NEW m, Receives(k, m), Answer(k, a)
      PROVE  /\ toCli' \in [Slots -> Queues(Answers)]
             /\ toDriver' \in [Slots -> Queues(Commands)]
             /\ dpc' \in [Slots -> {"poll", "timer", "sock"}]
  <2>1. Tail(toDriver[k]) \in Queues(Commands)
    <3>1. toDriver[k] \in Queues(Commands) /\ toDriver[k] # <<>>
      BY <1>7 DEF Receives
    <3> QED  BY <3>1, QueueTail
  <2>2. toCli' \in [Slots -> Queues(Answers)]
    BY <1>6, <1>7 DEF Answer
  <2> QED  BY <1>7, <2>1, <2>2 DEF Answer
<1>8. CASE DriverQuit(k)
  <2>1. toCli' \in [Slots -> Queues(Answers)]
    BY <1>6, <1>8 DEF DriverQuit, Answers
  <2>2. Exits(k) /\ UNCHANGED kills
    BY <1>8 DEF DriverQuit
  <2>3. toDriver' \in [Slots -> Queues(Commands)]
    BY <2>2, EmptyQueue DEF Exits
  <2>4. /\ proc' \in [Slots -> {"none", "run", "zombie", "reaped"}]
        /\ dpc' \in [Slots -> {"poll", "timer", "sock"}]
        /\ rev' \in [Slots -> Events]
        /\ busy' \in [Slots -> BOOLEAN]
        /\ timer' \in [Slots -> {"off", "armed", "expired"}]
    BY <2>2 DEF Exits
  <2> QED  BY <2>1, <2>2, <2>3, <2>4 DEF Exits
<1>9. CASE DriverStatus(k)
  <2>1. StatusAnswer(k) \in Answers
    BY DEF StatusAnswer, Answers
  <2> QED  BY <1>7, <1>9, <2>1 DEF DriverStatus, Answer
<1>10. CASE DriverBadTask(k)
  <2>1. "BadTimer" \in Answers
    BY DEF Answers
  <2> QED  BY <1>7, <1>10, <2>1 DEF DriverBadTask, Answer
<1>11. CASE DriverTask(k)
  <2>1. "OK" \in Answers /\ "Busy" \in Answers
    BY DEF Answers
  <2>2. CASE Accepts(k)
    <3>1. Receives(k, "TASK") /\ Answer(k, "OK")
      BY <1>11, <2>2 DEF DriverTask
    <3>2. /\ busy' = [busy EXCEPT ![k] = TRUE]
          /\ timer' = [timer EXCEPT ![k] = "armed"]
      BY <1>11, <2>2 DEF DriverTask
    <3> QED  BY <1>7, <2>1, <3>1, <3>2 DEF Answer
  <2>3. CASE ~Accepts(k)
    <3>1. Receives(k, "TASK") /\ Answer(k, "Busy") /\ UNCHANGED <<busy, timer>>
      BY <1>11, <2>3 DEF DriverTask
    <3> QED  BY <1>7, <2>1, <3>1 DEF Answer
  <2> QED  BY <2>2, <2>3
<1>12. CASE TimerExpires(k)
  BY <1>12 DEF TimerExpires
<1>13. CASE Kill(k)
  BY <1>13, TaxiAssumption, EmptyQueue DEF Kill, Exits
<1> QED
  BY <1>1, <1>2, <1>3, <1>4, <1>5, <1>8, <1>9, <1>10, <1>11, <1>12, <1>13
     DEF DriverStep

\* The steps of the CLI keep the types.
LEMMA CliTypes ==
    ASSUME TypeOK, CliStep
    PROVE  TypeOK'
<1> USE DEF TypeOK, Events, CliStates, table, kernel, sockets, driver, CliGoes
<1>1. CASE ReapChildren
  BY <1>1 DEF ReapChildren, PolledEntries, Live
<1>2. ASSUME NEW input \in BOOLEAN, CliPoll(input)
      PROVE  TypeOK'
  BY <1>2 DEF CliPoll, CliEvent
<1>3. CASE CliPollInterrupted
  BY <1>3 DEF CliPollInterrupted
<1>4. ASSUME NEW p \in Pids, CmdCreateDriver(p)
      PROVE  TypeOK'
  <2>1. n + 1 \in Slots /\ n' \in 0 .. MaxDrivers
    BY <1>4, TaxiAssumption DEF CmdCreateDriver, Slots
  <2> QED  BY <1>4, <2>1 DEF CmdCreateDriver, InheritedEnds
<1>5. ASSUME NEW S \in SUBSET Slots, NEW m \in Commands, SendCmd(S, m)
      PROVE  /\ toDriver' \in [Slots -> Queues(Commands)]
             /\ alive' \in [Slots -> BOOLEAN]
             /\ open' \in [Slots -> BOOLEAN]
  BY <1>5, QueueType DEF SendCmd
<1>6. ASSUME NEW p \in Pids, NEW m \in {"TASK", "BADTASK", "STATUS"}, CmdSend(p, m)
      PROVE  TypeOK'
  <2>1. Reached(p) \in SUBSET Slots
    BY TaxiAssumption DEF Reached, FirstWithPid, Entries, Slots
  <2>2. m \in Commands
    BY DEF Commands
  <2> QED  BY <1>5, <1>6, <2>1, <2>2 DEF CmdSend
<1>7. CASE CmdGetDrivers
  <2>1. Live \in SUBSET Slots /\ "STATUS" \in Commands
    BY DEF Live, Commands
  <2> QED  BY <1>5, <1>7, <2>1 DEF CmdGetDrivers
<1>8. CASE CmdOther \/ CmdExit
  BY <1>8 DEF CmdOther, CmdExit
<1>9. CASE Scan
  BY <1>9, EmptyQueue DEF Scan
<1>10. CASE SendQuits
  <2>1. "QUIT" \in Commands
    BY DEF Commands
  <2> QED  BY <1>10, <2>1, QueueType DEF SendQuits
<1>11. CASE CloseAll
  BY <1>11 DEF CloseAll, DropAll
<1>12. ASSUME NEW k \in Slots, WaitOne(k)
       PROVE  TypeOK'
  BY <1>12 DEF WaitOne, cli
<1>13. CASE WaitDone
  BY <1>13 DEF WaitDone
<1>14. CASE CliDies
  BY <1>14 DEF CliDies, DropAll
<1> QED
  BY <1>1, <1>2, <1>3, <1>4, <1>6, <1>7, <1>8, <1>9, <1>10, <1>11, <1>12, <1>13, <1>14
     DEF CliStep, CliProgress, Command

\* The types hold before the first command.
LEMMA InitTypes == Init => TypeOK
  BY TaxiAssumption, EmptyQueue DEF Init, TypeOK, Events, CliStates

\* Every variable keeps its type.
THEOREM TypeCorrect == SafeSpec => []TypeOK
<1>1. TypeOK /\ [Next]_vars => TypeOK'
  <2>1. TypeOK /\ UNCHANGED vars => TypeOK'
    BY DEF TypeOK, vars, table, cli, kernel, sockets, driver
  <2> QED  BY <2>1, DriverTypes, CliTypes DEF Next
<1> QED  BY <1>1, InitTypes, PTL DEF SafeSpec

------------------------------------------------------------------------------
(* The inductive invariant behind the safety properties.                       *)

\* The table and the kernel's processes: entries 1 .. n are the ones with a
\* process, and two of them share a pid only if one was waited for.
Bookkeeping ==
    \A k \in Slots :
        /\ open[k] <=> alive[k]
        /\ k <= n <=> proc[k] # "none"
        /\ k > n => pid[k] = NoPid
        /\ alive[k] => proc[k] \in {"run", "zombie"}
        /\ cpc \in {"wait", "done", "gone"} => ~alive[k]
        /\ \A j \in Slots : j # k /\ j <= n /\ pid[j] = pid[k] =>
                             proc[j] = "reaped" \/ proc[k] = "reaped"

\* The locals of a driver: busy goes with a timer that is set, and only an
\* expired one is ever read.
DriverLocals ==
    \A k \in Slots :
        /\ ~Running(k) => dpc[k] = "poll" /\ rev[k] = "none" /\ ~busy[k]
        /\ busy[k] <=> timer[k] # "off"
        /\ dpc[k] = "timer" => timer[k] = "expired"

\* pfds[] against the table: an event of a driver that is gone stays true, and an
\* entry without an element of pfds[] is younger than all that have one.
PollIndex ==
    /\ \A k \in polled : k <= n
    /\ \A k \in Slots : ev[k] = "hup" => proc[k] \in {"zombie", "reaped"}
    /\ cpc \in {"poll", "cmd"} => \A k \in Slots : alive[k] => k \in polled
    /\ cpc = "scan" => \A k \in Slots : alive[k] => k \in polled \/ \A j \in polled : j < k

IInv == TypeOK /\ Bookkeeping /\ DriverLocals /\ PollIndex

\* An entry in service is the one its pid is looked up by: reap_children() finds
\* it, and find_driver() stops earlier only at one that was waited for.
LEMMA EntriesMatch ==
    ASSUME TypeOK, Bookkeeping, NEW k \in Slots, alive[k]
    PROVE  /\ ReapedEntry(pid[k]) = {k}
           /\ k \in ReapedEntry(pid[k])
           /\ \A j \in FirstWithPid(pid[k]) : j # k => proc[j] = "reaped"
<1>1. k \in Entries /\ Entries \subseteq Slots
  <2>1. proc[k] # "none"
    BY DEF Bookkeeping
  <2>2. k <= n
    BY <2>1 DEF Bookkeeping
  <2>3. n \in 0 .. MaxDrivers
    BY DEF TypeOK
  <2> QED  BY <2>2, <2>3, TaxiAssumption DEF Entries, Slots
<1>2. ASSUME NEW j \in Entries, j # k, pid[j] = pid[k]
      PROVE  proc[j] = "reaped" /\ ~alive[j]
  <2>1. j \in Slots /\ j <= n
    BY <1>1, TaxiAssumption DEF Entries, TypeOK
  <2>2. proc[k] # "reaped"
    BY DEF Bookkeeping
  <2>3. proc[j] = "reaped"
    BY <1>2, <2>1, <2>2 DEF Bookkeeping
  <2> QED  BY <2>1, <2>3 DEF Bookkeeping
<1>3. ReapedEntry(pid[k]) = {k}
  BY <1>1, <1>2 DEF ReapedEntry, Entries
<1> QED  BY <1>1, <1>2, <1>3 DEF FirstWithPid

\* The invariant holds before the first command, when there is no entry.
LEMMA InitIInv == Init => IInv
  BY InitTypes, TaxiAssumption
     DEF Init, IInv, Bookkeeping, DriverLocals, PollIndex, Slots, Running

\* What a step of driver k may touch of what the invariant speaks of.
LEMMA DriverKeepsIInv ==
    ASSUME IInv, NEW k \in Slots, DriverStep(k) \/ TimerExpires(k) \/ Kill(k)
    PROVE  IInv'
<1> USE DEF table, cli, kernel, sockets, Running, AtSocket
<1>0. TypeOK'
  BY DriverTypes DEF IInv
<1>1. ASSUME proc[k] = "run", Exits(k)
      PROVE  Bookkeeping' /\ DriverLocals' /\ PollIndex'
  BY <1>1 DEF IInv, TypeOK, Bookkeeping, DriverLocals, PollIndex, Exits
<1>2. ASSUME UNCHANGED <<table, cli, proc>>
      PROVE  Bookkeeping' /\ PollIndex'
  BY <1>2 DEF IInv, Bookkeeping, PollIndex
<1>3. CASE DriverPoll(k)
  BY <1>0, <1>2, <1>3 DEF DriverPoll, IInv, TypeOK, DriverLocals
<1>4. CASE DriverTimer(k)
  BY <1>0, <1>2, <1>4 DEF DriverTimer, IInv, TypeOK, DriverLocals
<1>5. CASE DriverHup(k)
  BY <1>0, <1>1, <1>5 DEF DriverHup, IInv
<1>6. CASE DriverAgain(k)
  BY <1>0, <1>2, <1>6 DEF DriverAgain, IInv, TypeOK, DriverLocals
<1>7. CASE DriverRecvFails(k)
  BY <1>0, <1>1, <1>7 DEF DriverRecvFails, IInv
<1>8. CASE DriverQuit(k)
  BY <1>0, <1>1, <1>8 DEF DriverQuit, Receives, IInv
<1>9. CASE DriverStatus(k)
  BY <1>0, <1>2, <1>9 DEF DriverStatus, Receives, Answer, IInv, TypeOK, DriverLocals
<1>10. CASE DriverBadTask(k)
  BY <1>0, <1>2, <1>10 DEF DriverBadTask, Receives, Answer, IInv, TypeOK, DriverLocals
<1>11. CASE DriverTask(k)
  <2>1. dpc' = [dpc EXCEPT ![k] = "poll"] /\ UNCHANGED <<table, cli, proc, rev>>
    BY <1>11 DEF DriverTask, Answer
  <2>2. \/ UNCHANGED <<busy, timer>>
        \/ /\ busy' = [busy EXCEPT ![k] = TRUE]
           /\ timer' = [timer EXCEPT ![k] = "armed"]
    BY <1>11 DEF DriverTask
  <2> QED  BY <1>0, <1>2, <1>11, <2>1, <2>2
              DEF DriverTask, Receives, IInv, TypeOK, DriverLocals
<1>12. CASE TimerExpires(k)
  BY <1>0, <1>2, <1>12 DEF TimerExpires, IInv, TypeOK, DriverLocals
<1>13. CASE Kill(k)
  BY <1>0, <1>1, <1>13 DEF Kill, IInv
<1> QED
  BY <1>3, <1>4, <1>5, <1>6, <1>7, <1>8, <1>9, <1>10, <1>11, <1>12, <1>13 DEF DriverStep

\* The steps of the CLI keep the invariant: it alone writes the table, reaps and
\* forks.
LEMMA CliKeepsIInv ==
    ASSUME IInv, CliStep
    PROVE  IInv'
<1> USE DEF table, kernel, sockets, driver, Running, CliGoes
<1>0. TypeOK'
  BY CliTypes DEF IInv
<1>1. ASSUME UNCHANGED <<n, pid, driver>>, UNCHANGED proc
      PROVE  DriverLocals'
  BY <1>1 DEF IInv, DriverLocals
<1>2. CASE ReapChildren
  <2>1. ASSUME NEW k \in Slots, alive[k]
        PROVE  k \in ReapedEntry(pid[k])
    BY <2>1, EntriesMatch DEF IInv
  <2> DEFINE Z    == {k \in Slots : proc[k] = "zombie"}
             dead == UNION {ReapedEntry(pid[z]) : z \in Z}
  <2>2. /\ proc' = [k \in Slots |-> IF k \in Z THEN "reaped" ELSE proc[k]]
        /\ alive' = [k \in Slots |-> alive[k] /\ k \notin dead]
        /\ open' = [k \in Slots |-> open[k] /\ k \notin dead]
        /\ UNCHANGED <<n, pid>>
    BY <1>2 DEF ReapChildren
  <2>3. Bookkeeping'
    <3>1. ASSUME NEW k \in Slots, alive'[k]
          PROVE  proc'[k] = "run"
      <4>1. alive[k] /\ k \notin dead
        BY <2>2, <3>1
      <4>2. proc[k] # "zombie"
        BY <2>1, <4>1 DEF Z, dead
      <4> QED  BY <2>2, <4>1, <4>2 DEF IInv, TypeOK, Bookkeeping
    <3>2. \A k \in Slots : open'[k] <=> alive'[k]
      BY <2>2 DEF IInv, Bookkeeping
    <3>3. \A k \in Slots : /\ proc'[k] = "none" <=> proc[k] = "none"
                           /\ proc[k] = "reaped" => proc'[k] = "reaped"
      BY <2>2 DEF IInv, TypeOK
    <3>4. /\ n' = n /\ pid' = pid /\ cpc' = "poll"
          /\ \A k \in Slots : alive'[k] => alive[k]
      BY <1>2, <2>2 DEF ReapChildren
    <3> HIDE DEF Z, dead
    <3>5. ASSUME NEW k \in Slots, NEW j \in Slots, j # k, j <= n, pid[j] = pid[k]
          PROVE  proc'[j] = "reaped" \/ proc'[k] = "reaped"
      BY <3>3, <3>5 DEF IInv, Bookkeeping
    <3>6. ASSUME NEW k \in Slots
          PROVE  (k <= n <=> proc'[k] # "none") /\ (k > n => pid[k] = NoPid)
      BY <3>3 DEF IInv, Bookkeeping
    <3> QED  BY <3>1, <3>2, <3>4, <3>5, <3>6 DEF Bookkeeping
  <2>4. DriverLocals'
    BY <1>2 DEF ReapChildren, IInv, TypeOK, DriverLocals
  <2>5. PollIndex'
    BY <1>2 DEF ReapChildren, PolledEntries, Live, IInv, TypeOK, Bookkeeping, PollIndex
  <2> QED  BY <1>0, <2>3, <2>4, <2>5 DEF IInv
<1>3. ASSUME NEW input \in BOOLEAN, CliPoll(input)
      PROVE  IInv'
  <2>1. PollIndex'
    BY <1>3 DEF CliPoll, CliEvent, IInv, TypeOK, Bookkeeping, PollIndex
  <2> QED  BY <1>0, <1>1, <1>3, <2>1 DEF CliPoll, IInv, Bookkeeping
<1>4. CASE CliPollInterrupted
  BY <1>0, <1>1, <1>4 DEF CliPollInterrupted, IInv, Bookkeeping, PollIndex
<1>5. ASSUME NEW p \in Pids, CmdCreateDriver(p)
      PROVE  IInv'
  <2>1. n + 1 \in Slots /\ n' = n + 1 /\ n \in Nat
    BY <1>5, TaxiAssumption DEF CmdCreateDriver, Slots, IInv, TypeOK
  <2>2. Bookkeeping'
    BY <1>5, <2>1, TaxiAssumption
       DEF CmdCreateDriver, FreePids, IInv, TypeOK, Bookkeeping, Slots
  <2>3. DriverLocals'
    BY <1>5, <2>1 DEF CmdCreateDriver, IInv, TypeOK, Bookkeeping, DriverLocals, Slots
  <2>4. PollIndex'
    BY <1>5, <2>1 DEF CmdCreateDriver, IInv, TypeOK, Bookkeeping, PollIndex, Slots
  <2> QED  BY <1>0, <2>2, <2>3, <2>4 DEF IInv
<1>6. ASSUME /\ \A k \in Slots : alive'[k] => alive[k]
             /\ \A k \in Slots : open'[k] <=> alive'[k]
             /\ UNCHANGED <<n, pid, proc, driver, polled, ev>>
             /\ cpc' = "scan" => cpc \in {"cmd", "scan"}
             /\ cpc' \notin {"poll", "cmd"}
             /\ cpc' \in {"wait", "done", "gone"} => \A k \in Slots : ~alive'[k]
      PROVE  Bookkeeping' /\ DriverLocals' /\ PollIndex'
  BY <1>6 DEF IInv, Bookkeeping, DriverLocals, PollIndex
<1>7. ASSUME NEW S, NEW m, SendCmd(S, m)
      PROVE  /\ \A k \in Slots : alive'[k] => alive[k]
             /\ \A k \in Slots : open'[k] <=> alive'[k]
  BY <1>7 DEF SendCmd, IInv, TypeOK, Bookkeeping
<1>8. ASSUME NEW p \in Pids, NEW m \in {"TASK", "BADTASK", "STATUS"}, CmdSend(p, m)
      PROVE  IInv'
  BY <1>0, <1>6, <1>7, <1>8 DEF CmdSend, IInv
<1>9. CASE CmdGetDrivers
  BY <1>0, <1>6, <1>7, <1>9 DEF CmdGetDrivers, IInv
<1>10. CASE CmdOther \/ CmdExit
  BY <1>0, <1>6, <1>10 DEF CmdOther, CmdExit, IInv, Bookkeeping
<1>11. CASE Scan
  <2>1. /\ \A k \in Slots : alive'[k] => alive[k]
        /\ \A k \in Slots : open'[k] <=> alive'[k]
        /\ polled' = {} /\ \A k \in Slots : ev'[k] = "none"
        /\ UNCHANGED <<n, pid, proc, driver>> /\ cpc' = "top"
    BY <1>11 DEF Scan, IInv, TypeOK, Bookkeeping
  <2> QED  BY <1>0, <1>1, <2>1 DEF IInv, Bookkeeping, PollIndex
<1>12. CASE SendQuits
  BY <1>0, <1>6, <1>12 DEF SendQuits, IInv, Bookkeeping
<1>13. CASE CloseAll
  BY <1>0, <1>6, <1>13 DEF CloseAll, DropAll, IInv
<1>14. ASSUME NEW k \in Slots, WaitOne(k)
       PROVE  IInv'
  <2>1. \A j \in Slots : j # k => proc'[j] = proc[j]
    BY <1>14 DEF WaitOne, IInv, TypeOK
  <2>2. proc[k] = "zombie" /\ proc'[k] = "reaped"
    BY <1>14 DEF WaitOne, IInv, TypeOK
  <2>3. UNCHANGED <<n, pid, alive, open, cpc, polled, ev, driver>>
    BY <1>14 DEF WaitOne, cli
  <2>4. cpc = "wait"
    BY <1>14 DEF WaitOne
  <2>5. Bookkeeping'
    BY <2>1, <2>2, <2>3, <2>4 DEF IInv, Bookkeeping
  <2>6. DriverLocals'
    BY <2>1, <2>2, <2>3 DEF IInv, DriverLocals
  <2>7. PollIndex'
    BY <2>1, <2>2, <2>3 DEF IInv, PollIndex
  <2> QED  BY <1>0, <2>5, <2>6, <2>7 DEF IInv
<1>15. CASE WaitDone
  BY <1>0, <1>6, <1>15 DEF WaitDone, IInv, Bookkeeping
<1>16. CASE CliDies
  <2>1. /\ \A k \in Slots : ~alive'[k] /\ ~open'[k] /\ ev'[k] = "none"
        /\ polled' = {} /\ UNCHANGED <<n, pid, proc, driver>> /\ cpc' = "gone"
    BY <1>16 DEF CliDies, DropAll
  <2> QED  BY <1>0, <1>1, <2>1 DEF IInv, Bookkeeping, PollIndex
<1> QED
  BY <1>2, <1>3, <1>4, <1>5, <1>8, <1>9, <1>10, <1>11, <1>12, <1>13, <1>14, <1>15, <1>16
     DEF CliStep, CliProgress, Command

\* Every step keeps the invariant.
LEMMA NextKeepsIInv == IInv /\ [Next]_vars => IInv'
<1>1. IInv /\ UNCHANGED vars => IInv'
  BY DEF IInv, TypeOK, Bookkeeping, DriverLocals, PollIndex, Running,
         vars, table, cli, kernel, sockets, driver
<1> QED  BY <1>1, DriverKeepsIInv, CliKeepsIInv DEF Next

\* The invariant IInv of the driver table, its processes and its descriptors holds
\* in every reachable state: what TableCorrect and the others rest on.
THEOREM Inductive == SafeSpec => []IInv
  BY InitIInv, NextKeepsIInv, PTL DEF SafeSpec

------------------------------------------------------------------------------
(* The table and the kernel.                                                   *)

\* An entry in service has its descriptor open, has not been waited for and is the
\* one reap_children() finds by its pid; find_driver() misses it only behind an
\* entry whose process was waited for.
THEOREM TableCorrect == SafeSpec => []TableMatchesKernel
<1>1. IInv => TableMatchesKernel
  BY EntriesMatch DEF IInv, Bookkeeping, TableMatchesKernel
<1> QED  BY <1>1, Inductive, PTL

------------------------------------------------------------------------------
(* The index of the scan.                                                      *)

\* Sets of slots are finite and can be counted.
LEMMA SlotsFinite ==
    ASSUME NEW S \in SUBSET Slots
    PROVE  IsFiniteSet(S) /\ Cardinality(S) \in Nat
<1>1. IsFiniteSet(Slots)
  BY FS_Interval, TaxiAssumption DEF Slots
<1>2. IsFiniteSet(S)
  BY <1>1, FS_Subset
<1> QED  BY <1>2, FS_CardinalityType

\* Two members of a set have different ranks, and none is beyond its size: an
\* index that counts the members of the set pfds[] was built from finds its own.
LEMMA RankFinds ==
    ASSUME NEW S \in SUBSET Slots, NEW k \in S
    PROVE  /\ Rank(S, k) <= Cardinality(S)
           /\ \A j \in S : Rank(S, j) = Rank(S, k) => j = k
<1> DEFINE upto(i) == {j \in S : j <= i}
<1>1. Rank(S, k) <= Cardinality(S)
  <2>1. upto(k) \in SUBSET S
    OBVIOUS
  <2> QED  BY <2>1, SlotsFinite, FS_Subset DEF Rank
<1>2. ASSUME NEW i \in S, NEW j \in S, i < j
      PROVE  Rank(S, i) # Rank(S, j)
  <2>1. i \in Nat /\ j \in Nat /\ \A l \in S : l \in Nat
    BY TaxiAssumption DEF Slots
  <2>2. upto(i) \in SUBSET upto(j) /\ j \in upto(j) /\ j \notin upto(i)
    <3>1. \A l \in S : l <= i => l <= j
      BY <1>2, <2>1
    <3>2. j <= j /\ ~(j <= i)
      BY <1>2, <2>1
    <3> QED  BY <3>1, <3>2
  <2>3. upto(j) \in SUBSET Slots
    OBVIOUS
  <2>4. IsFiniteSet(upto(j))
    BY <2>3, SlotsFinite
  <2>5. Cardinality(upto(i)) # Cardinality(upto(j))
    <3> HIDE DEF upto
    <3> QED  BY <2>2, <2>4, FS_Subset
  <2> QED  BY <2>5 DEF Rank
<1>3. \A j \in S : Rank(S, j) = Rank(S, k) => j = k
  <2>1. \A j \in S : j \in Nat
    BY TaxiAssumption DEF Slots
  <2> QED  BY <1>2, <2>1
<1> QED  BY <1>1, <1>3

\* While no earlier entry of pfds[] has been dropped since it was built, an entry
\* is served with its own event.
LEMMA ServedWithOwnEvent ==
    ASSUME IInv, cpc = "scan", NEW k \in polled, alive[k], NEW past,
           \A j \in polled : j < k => alive[j]
    PROVE  Revents(k, past) = ev[k]
<1>1. polled \in SUBSET Slots /\ k \in Slots /\ \A j \in Slots : j \in Nat
  BY TaxiAssumption DEF IInv, TypeOK, Slots
<1>2. ASSUME NEW j \in Slots, j <= k
      PROVE  j \in Live <=> j \in polled
  <2>1. CASE alive[j]
    BY <1>1, <1>2, <2>1 DEF IInv, PollIndex, Live
  <2>2. CASE ~alive[j]
    BY <1>1, <1>2, <2>2 DEF Live
  <2> QED  BY <2>1, <2>2
<1>3. {j \in Live : j <= k} = {j \in polled : j <= k}
  BY <1>1, <1>2 DEF Live
<1>4. Rank(Live, k) = Rank(polled, k)
  BY <1>3 DEF Rank
<1>5. /\ Rank(Live, k) <= Cardinality(polled)
      /\ \A j \in polled : Rank(polled, j) = Rank(Live, k) <=> j = k
  BY <1>1, <1>4, RankFinds
<1>6. (CHOOSE j \in polled : Rank(polled, j) = Rank(Live, k)) = k
  BY <1>5
<1> QED  BY <1>5, <1>6 DEF Revents

\* An entry younger than all of pfds[] reads past it when none of them was dropped.
LEMMA ServedPastTheEnd ==
    ASSUME IInv, cpc = "scan", NEW k \in Slots \ polled, alive[k], NEW past,
           \A j \in polled : alive[j]
    PROVE  Revents(k, past) = past
<1>1. polled \in SUBSET Slots /\ \A j \in Slots : j \in Nat
  BY TaxiAssumption DEF IInv, TypeOK, Slots
<1>2. \A j \in polled : j < k
  BY DEF IInv, PollIndex
<1> DEFINE upto == {j \in Live : j <= k}
<1>3. polled \cup {k} \in SUBSET upto /\ upto \in SUBSET Slots
  BY <1>1, <1>2 DEF Live
<1>4. /\ IsFiniteSet(upto) /\ IsFiniteSet(polled)
      /\ Cardinality(upto) \in Nat /\ Cardinality(polled) \in Nat
  BY <1>1, <1>3, SlotsFinite
<1>5. Cardinality(polled \cup {k}) = Cardinality(polled) + 1
  BY <1>4, FS_AddElement
<1>6. Cardinality(polled) + 1 <= Cardinality(upto)
  <2> HIDE DEF upto
  <2> QED  BY <1>3, <1>4, <1>5, FS_Subset
<1>7. ~(Rank(Live, k) <= Cardinality(polled))
  BY <1>4, <1>6 DEF Rank
<1> QED  BY <1>7 DEF Revents

\* Only the scan takes the CLI from its loop over the table to the next iteration.
LEMMA OnlyScan ==
    ASSUME Next, cpc = "scan", cpc' = "top"
    PROVE  Scan
  BY DEF Next, CliStep, CliProgress, CliGoes, ReapChildren, CliPoll, Command,
         CmdCreateDriver, CmdSend, CmdGetDrivers, CmdOther, CmdExit, SendQuits, CloseAll,
         WaitOne, WaitDone, CliPollInterrupted, CliDies, cli,
         DriverStep, DriverPoll, DriverTimer, DriverHup, DriverAgain, DriverRecvFails,
         DriverQuit, DriverStatus, DriverBadTask, DriverTask, Answer, Exits,
         TimerExpires, Kill

\* What the scan does to the live entries, one by one.
LEMMA ScanDrops ==
    ASSUME IInv, Scan, NEW k \in Slots, alive[k], ~alive'[k]
    PROVE  \E past \in Beyond : \/ Revents(k, past) = "hup"
                                \/ Revents(k, past) = "in" /\ ~Running(k)
<1>1. PICK past \in [Slots -> Beyond] :
        LET Sees(e) == {i \in Live : Revents(i, past[i]) = e}
        IN  alive' = [i \in Slots |-> alive[i] /\ i \notin
                        (Sees("hup") \cup {j \in Sees("in") : ~Running(j)})]
  BY DEF Scan
<1>2. past[k] \in Beyond
  OBVIOUS
<1> DEFINE Sees(e) == {i \in Live : Revents(i, past[i]) = e}
           dead    == Sees("hup") \cup {j \in Sees("in") : ~Running(j)}
<1>3. alive' = [i \in Slots |-> alive[i] /\ i \notin dead]
  BY <1>1
<1>4. k \in dead
  <2> HIDE DEF dead
  <2> QED  BY <1>3
<1>5. \/ Revents(k, past[k]) = "hup"
      \/ Revents(k, past[k]) = "in" /\ ~Running(k)
  <2>1. k \in Sees("hup") \/ (k \in Sees("in") /\ ~Running(k))
    BY <1>4
  <2> QED  BY <2>1
<1> QED  BY <1>2, <1>5

\* A running driver loses its service in the scan only to the stale index: an
\* earlier entry died in this iteration, or the driver is too young for pfds[].
THEOREM MisdropCorrect == SafeSpec => MisdropNeedsStaleIndex
<1> DEFINE A == cpc = "scan" /\ cpc' = "top" =>
                  \A k \in Slots :
                    alive[k] /\ Running(k) /\ ~alive'[k] =>
                      k \notin polled \/ \E j \in polled : j < k /\ ~alive[j]
<1>1. IInv /\ [Next]_vars => [A]_vars
  <2>1. SUFFICES ASSUME IInv, Next, cpc = "scan", cpc' = "top",
                        NEW k \in Slots, alive[k], Running(k), ~alive'[k],
                        k \in polled, \A j \in polled : j < k => alive[j]
                 PROVE  FALSE
    OBVIOUS
  <2>2. Scan
    BY <2>1, OnlyScan
  <2>3. \A past : Revents(k, past) = ev[k]
    BY <2>1, ServedWithOwnEvent
  <2>4. ev[k] = "hup"
    BY <2>1, <2>2, <2>3, ScanDrops
  <2> QED  BY <2>1, <2>4 DEF IInv, PollIndex, Running
<1>2. SafeSpec => [][A]_vars
  BY <1>1, Inductive, PTL DEF SafeSpec
<1> QED  BY <1>2 DEF MisdropNeedsStaleIndex

------------------------------------------------------------------------------
(* No loss without a death.                                                    *)

Serving == cpc \in {"top", "poll", "cmd", "scan", "quit"}

\* While the CLI serves, no QUIT is on its way; and if besides nothing died and no
\* event is made up, every driver runs, is in service and saw no hang-up.
Calm ==
    Serving =>
      /\ \A k \in Slots : \A i \in DOMAIN toDriver[k] : toDriver[k][i] # "QUIT"
      /\ kills = 0 /\ Beyond = {"none"} =>
           \A k \in Entries : alive[k] /\ proc[k] = "run" /\ rev[k] # "hup"

\* A queue without QUIT is still without it when another command is sent and
\* when one is received.
LEMMA NoQuitKept ==
    ASSUME NEW q \in Queues(Commands), \A i \in DOMAIN q : q[i] # "QUIT"
    PROVE  /\ \A m \in Commands \ {"QUIT"} :
                \A i \in DOMAIN Queue(q, m) : Queue(q, m)[i] # "QUIT"
           /\ q # <<>> => \A i \in DOMAIN Tail(q) : Tail(q)[i] # "QUIT"
           /\ q # <<>> => Head(q) # "QUIT"
  BY DEF Queue, Queues

\* While nobody is killed, no step of a driver ends it: its CLI end is open and no
\* QUIT is on its way.
LEMMA DriverKeepsCalm ==
    ASSUME IInv, Calm, NEW k \in Slots, DriverStep(k) \/ TimerExpires(k) \/ Kill(k)
    PROVE  Calm'
<1> USE DEF table, cli, kernel, sockets, Running, AtSocket, Serving, Entries
<1>1. SUFFICES ASSUME Serving PROVE Calm'
  <2>1. cpc' = cpc
    BY DEF DriverStep, DriverPoll, DriverTimer, DriverHup, DriverAgain, DriverRecvFails,
           DriverQuit, DriverStatus, DriverBadTask, DriverTask, Answer, Exits,
           TimerExpires, Kill
  <2> QED  BY <2>1 DEF Calm
<1>2. \A j \in Slots : \A i \in DOMAIN toDriver[j] : toDriver[j][i] # "QUIT"
  BY <1>1 DEF Calm
<1>3. k \in Entries => CliEndOpen(k) \/ ~alive[k]
  BY DEF CliEndOpen, IInv, Bookkeeping
<1>4. Running(k) => k \in Entries
  BY TaxiAssumption DEF IInv, TypeOK, Bookkeeping, Slots
<1>5. ASSUME Running(k), rev[k] = "hup" \/ Reset(k) \/ kills' = kills + 1,
             kills' = 0, kills \in Nat, Beyond = {"none"}, kills' >= kills
      PROVE  FALSE
  BY <1>1, <1>3, <1>4, <1>5 DEF Calm, Reset
<1>6. ASSUME Running(k), rev[k] = "hup" \/ Reset(k) \/ kills' = kills + 1,
             kills' = kills \/ kills' = kills + 1, Exits(k)
      PROVE  Calm'
  <2>1. \A j \in Slots : \A i \in DOMAIN toDriver'[j] : toDriver'[j][i] # "QUIT"
    BY <1>2, <1>6 DEF Exits, IInv, TypeOK
  <2>2. ~(kills' = 0 /\ Beyond = {"none"})
    BY <1>5, <1>6, TaxiAssumption DEF IInv, TypeOK
  <2> QED  BY <2>1, <2>2 DEF Calm
<1>7. ASSUME UNCHANGED <<table, cli, kernel, rev>>,
             \/ UNCHANGED toDriver
             \/ toDriver[k] # <<>> /\ toDriver' = [toDriver EXCEPT ![k] = Tail(@)]
      PROVE  Calm'
  <2>1. \A j \in Slots : toDriver[j] \in Queues(Commands)
    BY DEF IInv, TypeOK
  <2>2. \A j \in Slots : \/ toDriver'[j] = toDriver[j]
                         \/ toDriver[j] # <<>> /\ toDriver'[j] = Tail(toDriver[j])
    BY <1>7 DEF IInv, TypeOK
  <2>3. ASSUME NEW j \in Slots
        PROVE  \A i \in DOMAIN toDriver'[j] : toDriver'[j][i] # "QUIT"
    <3>1. CASE toDriver'[j] = toDriver[j]
      BY <1>2, <3>1
    <3>2. CASE toDriver[j] # <<>> /\ toDriver'[j] = Tail(toDriver[j])
      BY <1>2, <2>1, <3>2, NoQuitKept
    <3> QED  BY <2>2, <3>1, <3>2
  <2> QED  BY <1>1, <1>7, <2>3 DEF Calm
<1>8. CASE DriverPoll(k)
  <2>1. UNCHANGED <<table, cli, kernel, toDriver>> /\ rev' = [rev EXCEPT ![k] = DriverEvent(k)]
    BY <1>8 DEF DriverPoll
  <2>2. alive[k] => DriverEvent(k) # "hup"
    BY DEF DriverEvent, CliEndOpen, IInv, Bookkeeping
  <2> QED  BY <1>1, <2>1, <2>2 DEF Calm, IInv, TypeOK
<1>9. CASE DriverTimer(k)
  BY <1>7, <1>9 DEF DriverTimer
<1>10. CASE DriverHup(k)
  BY <1>6, <1>10 DEF DriverHup
<1>11. CASE DriverAgain(k)
  BY <1>7, <1>11 DEF DriverAgain
<1>12. CASE DriverRecvFails(k)
  BY <1>6, <1>12 DEF DriverRecvFails
<1>13. CASE DriverQuit(k)
  <2>1. toDriver[k] \in Queues(Commands) /\ toDriver[k] # <<>> /\ Head(toDriver[k]) = "QUIT"
    BY <1>13 DEF DriverQuit, Receives, IInv, TypeOK
  <2> QED  BY <1>2, <2>1, NoQuitKept
<1>14. CASE DriverStatus(k) \/ DriverBadTask(k)
  BY <1>7, <1>14 DEF DriverStatus, DriverBadTask, Receives, Answer
<1>15. CASE DriverTask(k)
  BY <1>7, <1>15 DEF DriverTask, Receives, Answer
<1>16. CASE TimerExpires(k)
  BY <1>7, <1>16 DEF TimerExpires
<1>17. CASE Kill(k)
  BY <1>6, <1>17 DEF Kill
<1> QED
  BY <1>8, <1>9, <1>10, <1>11, <1>12, <1>13, <1>14, <1>15, <1>16, <1>17 DEF DriverStep

\* While nobody is killed and pfds[] is followed by zeroes, no step of the CLI
\* before the shutdown drops a driver.
LEMMA CliKeepsCalm ==
    ASSUME IInv, Calm, CliStep
    PROVE  Calm'
<1> USE DEF table, cli, kernel, sockets, driver, CliGoes, Serving
<1>1. CASE ReapChildren
  <2>1. UNCHANGED <<n, toDriver, rev, kills>> /\ Serving
    BY <1>1 DEF ReapChildren
  <2>2. kills = 0 /\ Beyond = {"none"} =>
           \A k \in Entries : proc[k] = "run" /\ alive[k] /\ rev[k] # "hup"
    BY <2>1 DEF Calm
  <2>3. Entries \subseteq Slots /\ \A k \in Slots : proc[k] # "none" => k \in Entries
    BY TaxiAssumption DEF IInv, TypeOK, Bookkeeping, Entries, Slots
  <2>4. ASSUME kills = 0, Beyond = {"none"}
        PROVE  \A k \in Entries : alive'[k] /\ proc'[k] = "run"
    <3>1. {k \in Slots : proc[k] = "zombie"} = {}
      BY <2>2, <2>3, <2>4
    <3> QED  BY <1>1, <2>2, <2>3, <2>4, <3>1 DEF ReapChildren
  <2> QED  BY <2>1, <2>2, <2>4 DEF Calm, Entries
<1>2. ASSUME Serving, UNCHANGED <<table, kernel, toDriver, driver>>
      PROVE  Calm'
  BY <1>2 DEF Calm, Entries
<1>3. ASSUME NEW input \in BOOLEAN, CliPoll(input)
      PROVE  Calm'
  BY <1>2, <1>3 DEF CliPoll
<1>4. CASE CliPollInterrupted
  BY <1>2, <1>4 DEF CliPollInterrupted
<1>5. ASSUME NEW p \in Pids, CmdCreateDriver(p)
      PROVE  Calm'
  <2>1. n + 1 \in Slots /\ n \in Nat
    BY <1>5, TaxiAssumption DEF CmdCreateDriver, Slots, IInv, TypeOK
  <2>2. rev[n + 1] # "hup"
    BY <2>1 DEF IInv, Bookkeeping, DriverLocals, Running
  <2> QED  BY <1>5, <2>1, <2>2 DEF CmdCreateDriver, Calm, Entries, IInv, TypeOK, Slots
<1>6. ASSUME NEW S \in SUBSET Live, NEW m \in Commands \ {"QUIT"}, SendCmd(S, m),
             cpc = "cmd", UNCHANGED <<n, kernel, driver>>
      PROVE  Calm'
  <2>1. \A k \in Slots : /\ toDriver[k] \in Queues(Commands)
                         /\ \A i \in DOMAIN toDriver[k] : toDriver[k][i] # "QUIT"
    BY <1>6 DEF IInv, TypeOK, Calm
  <2>2. \A k \in Slots : toDriver'[k] = toDriver[k] \/ toDriver'[k] = Queue(toDriver[k], m)
    BY <1>6 DEF SendCmd
  <2>3. \A k \in Slots : \A i \in DOMAIN toDriver'[k] : toDriver'[k][i] # "QUIT"
    BY <1>6, <2>1, <2>2, NoQuitKept
  <2>4. \A k \in Slots : proc[k] = "run" => alive'[k] = alive[k]
    BY <1>6 DEF SendCmd, PeerGone, Running, IInv, TypeOK
  <2>5. Entries \subseteq Slots
    BY TaxiAssumption DEF IInv, TypeOK, Entries, Slots
  <2> QED  BY <1>6, <2>3, <2>4, <2>5 DEF Calm, Entries
<1>7. ASSUME NEW p \in Pids, NEW m \in {"TASK", "BADTASK", "STATUS"}, CmdSend(p, m)
      PROVE  Calm'
  <2>1. Reached(p) \in SUBSET Live
    BY TaxiAssumption DEF Reached, FirstWithPid, Entries, Slots, Live, IInv, TypeOK
  <2>2. m \in Commands \ {"QUIT"}
    BY DEF Commands
  <2> QED  BY <1>6, <1>7, <2>1, <2>2 DEF CmdSend
<1>8. CASE CmdGetDrivers
  <2>1. "STATUS" \in Commands \ {"QUIT"}
    BY DEF Commands
  <2> QED  BY <1>6, <1>8, <2>1 DEF CmdGetDrivers
<1>9. CASE CmdOther \/ CmdExit
  BY <1>2, <1>9 DEF CmdOther, CmdExit
<1>10. CASE Scan
  <2>1. UNCHANGED <<n, kernel, toDriver, driver>> /\ cpc = "scan" /\ cpc' = "top"
    BY <1>10 DEF Scan
  <2>2. Entries \subseteq Slots /\ polled \subseteq Entries
    BY TaxiAssumption DEF IInv, TypeOK, PollIndex, Entries, Slots
  <2>3. ASSUME kills = 0, Beyond = {"none"}, NEW k \in Entries
        PROVE  alive'[k]
    <3>1. \A j \in Entries : alive[j] /\ proc[j] = "run"
      BY <2>1, <2>3 DEF Calm
    <3>2. SUFFICES ASSUME ~alive'[k] PROVE FALSE
      OBVIOUS
    <3>3. Revents(k, "none") = "hup"
      BY <1>10, <2>2, <2>3, <3>1, <3>2, ScanDrops DEF Running
    <3>4. CASE k \in polled
      <4>1. Revents(k, "none") = ev[k]
        BY <2>1, <2>2, <3>1, <3>4, ServedWithOwnEvent
      <4> QED  BY <2>2, <3>1, <3>3, <4>1 DEF IInv, PollIndex
    <3>5. CASE k \notin polled
      <4>1. Revents(k, "none") = "none"
        BY <2>1, <2>2, <3>1, <3>5, ServedPastTheEnd
      <4> QED  BY <3>3, <4>1
    <3> QED  BY <3>4, <3>5
  <2> QED  BY <2>1, <2>3 DEF Calm, Entries
<1>11. CASE SendQuits \/ CloseAll \/ WaitDone \/ CliDies \/ \E k \in Slots : WaitOne(k)
  <2>1. ~Serving'
    BY <1>11 DEF SendQuits, CloseAll, WaitDone, CliDies, WaitOne
  <2> QED  BY <2>1 DEF Calm
<1> QED
  BY <1>1, <1>3, <1>4, <1>5, <1>7, <1>8, <1>9, <1>10, <1>11
     DEF CliStep, CliProgress, Command

\* As long as no driver was killed and pfds[] is followed by zeroes, every driver
\* ever created runs and is in service until the CLI shuts down.
THEOREM NoLossCorrect == SafeSpec => []NoLossWithoutDeath
<1>1. Init => Calm
  BY TaxiAssumption DEF Init, Calm, Entries
<1>2. IInv /\ Calm /\ [Next]_vars => Calm'
  <2>1. Calm /\ UNCHANGED vars => Calm'
    BY DEF Calm, Serving, Entries, vars, table, cli, kernel, sockets, driver
  <2> QED  BY <2>1, DriverKeepsCalm, CliKeepsCalm DEF Next
<1>3. Calm => NoLossWithoutDeath
  BY DEF Calm, Serving, NoLossWithoutDeath, Running
<1> QED  BY <1>1, <1>2, <1>3, Inductive, PTL DEF SafeSpec

------------------------------------------------------------------------------
(* What a driver answered last.                                                *)

\* The last answer of a driver's step is the last one in a queue that had room.
LEMMA LastAnswer ==
    ASSUME TypeOK, NEW k \in Slots, NEW a \in Answers, Reply(k, a), ~Reset(k)
    PROVE  /\ \A j \in Slots \ {k} : toCli'[j] = toCli[j]
           /\ toCli'[k] # <<>> /\ Len(toCli'[k]) < SockCap =>
                toCli'[k][Len(toCli'[k])] = a
<1>1. toCli[k] \in Seq(Answers) /\ SockCap \in Nat
  BY TaxiAssumption DEF TypeOK, Queues
<1>2. toCli' = [toCli EXCEPT ![k] = IF CliEndOpen(k) THEN Queue(toCli[k], a) ELSE toCli[k]]
  BY DEF Reply
<1>3. toCli'[k] = IF CliEndOpen(k) THEN Queue(toCli[k], a) ELSE toCli[k]
  BY <1>2 DEF TypeOK
<1>4. CASE CliEndOpen(k)
  BY <1>1, <1>2, <1>3, <1>4 DEF Queue, TypeOK
<1>5. CASE ~CliEndOpen(k)
  BY <1>2, <1>3, <1>5 DEF Reset, TypeOK
<1> QED  BY <1>4, <1>5

\* An "Available" that waits last in a queue that is not full is still true.
THEOREM AvailableCorrect == SafeSpec => []AvailableIsCurrent
<1>1. Init => AvailableIsCurrent
  BY DEF Init, AvailableIsCurrent
<1>2. ASSUME IInv, AvailableIsCurrent, Next
      PROVE  AvailableIsCurrent'
  <2> USE DEF AvailableIsCurrent, Running, AtSocket, sockets, driver
  <2>1. TypeOK /\ TypeOK'
    BY <1>2, NextKeepsIInv DEF IInv
  <2>2. ASSUME UNCHANGED toCli, \A k \in Slots : proc'[k] = "run" => proc[k] = "run",
               \A k \in Slots : proc'[k] = "run" /\ busy'[k] => busy[k]
        PROVE  AvailableIsCurrent'
    BY <1>2, <2>2
  <2>3. ASSUME NEW k \in Slots, Exits(k)
        PROVE  /\ proc'[k] # "run"
               /\ \A j \in Slots \ {k} : proc'[j] = proc[j] /\ busy'[j] = busy[j]
    BY <2>1, <2>3 DEF Exits, TypeOK
  <2>4. ASSUME NEW k \in Slots, NEW m, Receives(k, m), NEW a \in Answers, Answer(k, a),
               \A j \in Slots \ {k} : busy'[j] = busy[j],
               a = "Available" => ~busy'[k]
        PROVE  AvailableIsCurrent'
    <3>1. Reply(k, a) /\ ~Reset(k) /\ UNCHANGED proc
      BY <2>4 DEF Answer, Receives, kernel
    <3>2. /\ \A j \in Slots \ {k} : toCli'[j] = toCli[j]
          /\ toCli'[k] # <<>> /\ Len(toCli'[k]) < SockCap =>
               toCli'[k][Len(toCli'[k])] = a
      BY <2>1, <2>4, <3>1, LastAnswer
    <3> QED  BY <1>2, <2>4, <3>1, <3>2
  <2>5. ASSUME NEW k \in Slots, DriverStep(k) \/ TimerExpires(k) \/ Kill(k)
        PROVE  AvailableIsCurrent'
    <3>1. CASE DriverPoll(k) \/ DriverAgain(k) \/ TimerExpires(k)
      BY <2>2, <3>1 DEF DriverPoll, DriverAgain, TimerExpires, kernel
    <3>2. CASE DriverTimer(k)
      BY <2>1, <2>2, <3>2 DEF DriverTimer, kernel, TypeOK
    <3>3. CASE DriverHup(k) \/ DriverRecvFails(k) \/ Kill(k)
      <4>1. Exits(k) /\ UNCHANGED toCli
        BY <3>3 DEF DriverHup, DriverRecvFails, Kill
      <4> QED  BY <2>2, <2>3, <4>1
    <3>4. CASE DriverQuit(k)
      <4>1. Exits(k) /\ Reply(k, "Bye")
        BY <3>4 DEF DriverQuit
      <4>2. \A j \in Slots \ {k} : toCli'[j] = toCli[j]
        BY <2>1, <4>1 DEF Reply, TypeOK
      <4> QED  BY <1>2, <2>3, <4>1, <4>2
    <3>5. CASE DriverStatus(k)
      <4>1. StatusAnswer(k) \in Answers /\ (StatusAnswer(k) = "Available" => ~busy[k])
        BY DEF StatusAnswer, Answers
      <4> QED  BY <2>4, <3>5, <4>1 DEF DriverStatus
    <3>6. CASE DriverBadTask(k)
      <4>1. "BadTimer" \in Answers
        BY DEF Answers
      <4> QED  BY <2>4, <3>6, <4>1 DEF DriverBadTask
    <3>7. CASE DriverTask(k)
      <4>1. "OK" \in Answers /\ "Busy" \in Answers
        BY DEF Answers
      <4>2. \A j \in Slots \ {k} : busy'[j] = busy[j]
        BY <2>1, <3>7 DEF DriverTask, TypeOK
      <4>3. Receives(k, "TASK") /\ (Answer(k, "OK") \/ Answer(k, "Busy"))
        BY <3>7 DEF DriverTask
      <4> QED  BY <2>4, <4>1, <4>2, <4>3
    <3> QED  BY <2>5, <3>1, <3>2, <3>3, <3>4, <3>5, <3>6, <3>7 DEF DriverStep
  <2>6. CASE CliStep
    <3>1. CASE ReapChildren
      BY <2>1, <2>2, <3>1 DEF ReapChildren, TypeOK
    <3>2. ASSUME NEW input \in BOOLEAN, CliPoll(input)
          PROVE  AvailableIsCurrent'
      BY <2>2, <3>2 DEF CliPoll, kernel
    <3>3. ASSUME NEW p \in Pids, CmdCreateDriver(p)
          PROVE  AvailableIsCurrent'
      <4>1. n + 1 \in Slots /\ n \in Nat
        BY <2>1, <3>3, TaxiAssumption DEF CmdCreateDriver, Slots, TypeOK
      <4>2. proc[n + 1] # "run" /\ ~busy[n + 1]
        BY <1>2, <4>1 DEF IInv, Bookkeeping, DriverLocals
      <4>3. proc' = [proc EXCEPT ![n + 1] = "run"] /\ UNCHANGED <<toCli, busy>>
        BY <3>3 DEF CmdCreateDriver
      <4>4. \A k \in Slots \ {n + 1} : proc'[k] = proc[k]
        BY <2>1, <4>3 DEF TypeOK
      <4> QED  BY <1>2, <4>2, <4>3, <4>4
    <3>4. CASE Scan
      <4>1. UNCHANGED <<proc, busy>>
        BY <3>4 DEF Scan, kernel
      <4>2. \A k \in Slots : toCli'[k] = <<>> \/ toCli'[k] = toCli[k]
        BY <3>4 DEF Scan
      <4> QED  BY <1>2, <4>1, <4>2
    <3>5. ASSUME NEW k \in Slots, WaitOne(k)
          PROVE  AvailableIsCurrent'
      BY <2>1, <2>2, <3>5 DEF WaitOne, TypeOK
    <3>6. CASE \/ CliPollInterrupted \/ CmdGetDrivers \/ CmdOther \/ CmdExit
               \/ SendQuits \/ CloseAll \/ WaitDone \/ CliDies
               \/ \E p \in Pids, m \in {"TASK", "BADTASK", "STATUS"} : CmdSend(p, m)
      BY <2>2, <3>6 DEF CliPollInterrupted, CmdGetDrivers, CmdOther, CmdExit, SendQuits,
                        CloseAll, WaitDone, CliDies, CmdSend, kernel
    <3> QED  BY <2>6, <3>1, <3>2, <3>3, <3>4, <3>5, <3>6 DEF CliStep, CliProgress, Command
  <2> QED  BY <1>2, <2>5, <2>6 DEF Next
<1>3. AvailableIsCurrent /\ UNCHANGED vars => AvailableIsCurrent'
  BY DEF AvailableIsCurrent, Running, vars, kernel, sockets, driver
<1> QED  BY <1>1, <1>2, <1>3, Inductive, PTL DEF SafeSpec

------------------------------------------------------------------------------
(* The drivers implement the fleet.                                            *)

Cab == [k \in Slots |-> CabOf(k)]

\* A step that takes the cab of k from one state to another and no other cab.
LEMMA OneCab ==
    ASSUME NEW k \in Slots, \A j \in Slots \ {k} : CabOf(j)' = CabOf(j)
    PROVE  Cab' = [Cab EXCEPT ![k] = CabOf(k)']
  BY DEF Cab

\* A step that changes no cab stutters.
LEMMA SameCabs ==
    ASSUME \A j \in Slots : CabOf(j)' = CabOf(j)
    PROVE  Cab' = Cab
  BY DEF Cab

\* A cab depends on the process, the busy flag and whether the timer has expired.
LEMMA CabFrame ==
    ASSUME NEW j \in Slots, proc'[j] = proc[j], busy'[j] = busy[j],
           timer'[j] = timer[j]
    PROVE  CabOf(j)' = CabOf(j)
  BY DEF CabOf, Running

\* Every step moves one cab the way Fleet allows, or none.
LEMMA FleetStep ==
    ASSUME IInv, IInv', Next
    PROVE  [F!FleetNext]_Cab
<1> USE DEF Running, AtSocket, kernel, sockets, driver
<1>1. TypeOK /\ DriverLocals /\ Bookkeeping
  BY DEF IInv
<1>2. ASSUME UNCHANGED <<proc, busy, timer>>
      PROVE  Cab' = Cab
  BY <1>2, SameCabs, CabFrame
<1>3. ASSUME NEW k \in Slots, proc[k] = "run", Exits(k)
      PROVE  F!Leave(k)
  <2>1. /\ proc'[k] = "zombie"
        /\ \A j \in Slots \ {k} : /\ proc'[j] = proc[j] /\ busy'[j] = busy[j]
                                  /\ timer'[j] = timer[j]
    BY <1>1, <1>3 DEF Exits, TypeOK
  <2>2. CabOf(k)' = "gone" /\ CabOf(k) \in {"free", "hired", "due"}
    BY <1>1, <1>3, <2>1 DEF CabOf, TypeOK
  <2>3. Cab' = [Cab EXCEPT ![k] = "gone"]
    BY <2>1, <2>2, OneCab, CabFrame
  <2> QED  BY <2>2, <2>3 DEF F!Leave, F!Becomes, Cab
<1>4. ASSUME NEW k \in Slots, DriverStep(k) \/ TimerExpires(k) \/ Kill(k)
      PROVE  F!FleetNext \/ Cab' = Cab
  <2>1. CASE DriverPoll(k) \/ DriverAgain(k)
    BY <1>2, <2>1 DEF DriverPoll, DriverAgain
  <2>2. CASE DriverStatus(k) \/ DriverBadTask(k)
    BY <1>2, <2>2 DEF DriverStatus, DriverBadTask, Answer
  <2>3. CASE DriverHup(k) \/ DriverRecvFails(k) \/ DriverQuit(k) \/ Kill(k)
    <3>1. proc[k] = "run" /\ Exits(k)
      BY <2>3 DEF DriverHup, DriverRecvFails, DriverQuit, Receives, Kill
    <3> QED  BY <1>3, <3>1 DEF F!FleetNext
  <2>4. CASE DriverTimer(k)
    <3>1. /\ proc[k] = "run" /\ busy[k] /\ timer[k] = "expired"
          /\ proc' = proc /\ ~busy'[k]
          /\ \A j \in Slots \ {k} : busy'[j] = busy[j] /\ timer'[j] = timer[j]
      BY <1>1, <2>4 DEF DriverTimer, TypeOK, DriverLocals
    <3>2. CabOf(k) = "due" /\ CabOf(k)' = "free"
      BY <3>1 DEF CabOf
    <3>3. Cab' = [Cab EXCEPT ![k] = "free"]
      BY <3>1, <3>2, OneCab, CabFrame
    <3> QED  BY <3>2, <3>3 DEF F!FleetNext, F!Release, F!Becomes, Cab
  <2>5. CASE DriverTask(k)
    <3>1. CASE ~Accepts(k)
      BY <1>2, <2>5, <3>1 DEF DriverTask, Answer
    <3>2. CASE Accepts(k)
      <4>1. /\ proc[k] = "run" /\ ~busy[k]
            /\ proc' = proc /\ busy'[k] /\ timer'[k] = "armed"
            /\ \A j \in Slots \ {k} : busy'[j] = busy[j] /\ timer'[j] = timer[j]
        BY <1>1, <2>5, <3>2 DEF DriverTask, Accepts, Receives, Answer, TypeOK
      <4>2. CabOf(k) = "free" /\ CabOf(k)' = "hired"
        BY <4>1 DEF CabOf
      <4>3. Cab' = [Cab EXCEPT ![k] = "hired"]
        BY <4>1, <4>2, OneCab, CabFrame
      <4> QED  BY <4>2, <4>3 DEF F!FleetNext, F!Hire, F!Becomes, Cab
    <3> QED  BY <3>1, <3>2
  <2>6. CASE TimerExpires(k)
    <3>1. /\ proc[k] = "run" /\ busy[k] /\ timer[k] = "armed"
          /\ UNCHANGED <<proc, busy>> /\ timer'[k] = "expired"
          /\ \A j \in Slots \ {k} : timer'[j] = timer[j]
      BY <1>1, <2>6 DEF TimerExpires, TypeOK, DriverLocals
    <3>2. CabOf(k) = "hired" /\ CabOf(k)' = "due"
      BY <3>1 DEF CabOf
    <3>3. Cab' = [Cab EXCEPT ![k] = "due"]
      BY <3>1, <3>2, OneCab, CabFrame
    <3> QED  BY <3>2, <3>3 DEF F!FleetNext, F!Due, F!Becomes, Cab
  <2> QED  BY <1>4, <2>1, <2>2, <2>3, <2>4, <2>5, <2>6 DEF DriverStep
<1>5. ASSUME UNCHANGED driver,
             \A k \in Slots : proc'[k] = proc[k] \/ (proc[k] = "zombie" /\ proc'[k] = "reaped")
      PROVE  Cab' = Cab
  <2>1. ASSUME NEW k \in Slots
        PROVE  CabOf(k)' = CabOf(k)
    <3>1. CASE proc'[k] = proc[k]
      BY <1>5, <3>1, CabFrame
    <3>2. CASE proc[k] = "zombie" /\ proc'[k] = "reaped"
      BY <3>2 DEF CabOf
    <3> QED  BY <1>5, <3>1, <3>2
  <2> QED  BY <2>1, SameCabs
<1>6. CASE CliStep
  <2>1. CASE ReapChildren
    <3>1. \A k \in Slots : proc'[k] = IF proc[k] = "zombie" THEN "reaped" ELSE proc[k]
      BY <2>1 DEF ReapChildren
    <3>2. UNCHANGED driver
      BY <2>1 DEF ReapChildren
    <3>3. \A k \in Slots : proc'[k] = proc[k] \/ (proc[k] = "zombie" /\ proc'[k] = "reaped")
      BY <3>1
    <3> QED  BY <1>5, <3>2, <3>3
  <2>2. ASSUME NEW k \in Slots, WaitOne(k)
        PROVE  Cab' = Cab
    <3>1. \A j \in Slots : proc'[j] = IF j = k THEN "reaped" ELSE proc[j]
      BY <1>1, <2>2 DEF WaitOne, TypeOK
    <3>2. UNCHANGED driver /\ proc[k] = "zombie"
      BY <2>2 DEF WaitOne
    <3>3. \A j \in Slots : proc'[j] = proc[j] \/ (proc[j] = "zombie" /\ proc'[j] = "reaped")
      BY <3>1, <3>2
    <3> QED  BY <1>5, <3>2, <3>3
  <2>3. ASSUME NEW p \in Pids, CmdCreateDriver(p)
        PROVE  F!FleetNext
    <3>1. PICK k \in Slots : k = n + 1
      BY <1>1, <2>3, TaxiAssumption DEF CmdCreateDriver, Slots, TypeOK
    <3>2. proc[k] = "none" /\ ~busy[k]
      BY <1>1, <3>1, TaxiAssumption DEF Bookkeeping, DriverLocals, TypeOK
    <3>3. /\ proc'[k] = "run" /\ UNCHANGED <<busy, timer>>
          /\ \A j \in Slots \ {k} : proc'[j] = proc[j]
      BY <1>1, <2>3, <3>1 DEF CmdCreateDriver, TypeOK
    <3>4. CabOf(k) = "none" /\ CabOf(k)' = "free"
      BY <3>2, <3>3 DEF CabOf
    <3>5. Cab' = [Cab EXCEPT ![k] = "free"]
      BY <3>3, <3>4, OneCab, CabFrame
    <3> QED  BY <3>4, <3>5 DEF F!FleetNext, F!Join, F!Becomes, Cab
  <2>4. ASSUME NEW input \in BOOLEAN, CliPoll(input)
        PROVE  Cab' = Cab
    BY <1>2, <2>4 DEF CliPoll
  <2>5. CASE \/ CliPollInterrupted \/ CmdGetDrivers \/ CmdOther \/ CmdExit \/ Scan
             \/ SendQuits \/ CloseAll \/ WaitDone \/ CliDies
             \/ \E p \in Pids, m \in {"TASK", "BADTASK", "STATUS"} : CmdSend(p, m)
    BY <1>2, <2>5 DEF CliPollInterrupted, CmdGetDrivers, CmdOther, CmdExit, Scan,
                      SendQuits, CloseAll, WaitDone, CliDies, CmdSend
  <2> QED  BY <1>6, <2>1, <2>2, <2>3, <2>4, <2>5 DEF CliStep, CliProgress, Command
<1> QED  BY <1>4, <1>6 DEF Next

\* The controller implements the safety part of Fleet: a task is given only to a
\* free driver, a driver goes free only once its timer fired, and no driver that
\* left, or whose slot was used, ever joins again.
THEOREM FleetCorrect == SafeSpec => F!FleetSafety
<1>1. Init => F!FleetInit
  <2>1. ASSUME Init, NEW k \in Slots
        PROVE  CabOf(k) = "none"
    <3>1. proc[k] = "none"
      BY <2>1 DEF Init
    <3> QED  BY <3>1 DEF CabOf, Running
  <2> QED  BY <2>1 DEF F!FleetInit
<1>2. ASSUME IInv, IInv', [Next]_vars
      PROVE  [F!FleetNext]_Cab
  <2>1. CASE Next
    BY <1>2, <2>1, FleetStep
  <2>2. CASE UNCHANGED vars
    <3>1. UNCHANGED <<proc, busy, timer>>
      BY <2>2 DEF vars, kernel, driver
    <3> QED  BY <3>1, SameCabs, CabFrame
  <2> QED  BY <1>2, <2>1, <2>2
<1> QED  BY <1>1, <1>2, Inductive, PTL DEF SafeSpec, F!FleetSafety, Cab
==============================================================================
