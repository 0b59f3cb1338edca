----------------------------- MODULE TaxiControl -----------------------------
(* src/taxi_control/main.c: a command line (the CLI) that forks driver         *)
(* processes and talks to each over its own SOCK_SEQPACKET socket pair.        *)
(* The CLI and every driver are single-threaded event loops around poll().     *)
(*                                                                             *)
(* A slot k stands for the k-th driver ever created: entry drivers[k-1] of the *)
(* table, the process forked for it and the socket pair between the two.       *)
EXTENDS Naturals, Sequences, FiniteSets

CONSTANTS
    Pids,           \* process ids the kernel hands out
    NoPid,          \* pid of an entry that is not in use
    MaxDrivers,     \* bound: create_driver commands in a behaviour
    SockCap,        \* bound: messages one direction of a socket can hold
    MaxKills,       \* bound: drivers that die other than by _exit in their loop
    PidReuse,       \* whether the kernel hands out the pid of a reaped process
    Beyond          \* what a read of pfds[] past its last element may yield

ASSUME TaxiAssumption ==
    /\ MaxDrivers \in Nat /\ SockCap \in Nat \ {0} /\ MaxKills \in Nat
    /\ NoPid \notin Pids
    /\ PidReuse \in BOOLEAN
    /\ Beyond # {} /\ Beyond \subseteq {"none", "in", "hup"}

Slots == 1 .. MaxDrivers

VARIABLES
    n,              \* drivers_n
    pid,            \* drivers[k].pid
    alive,          \* drivers[k].alive
    open,           \* drivers[k].fd >= 0: the CLI's end is open in the CLI
    cpc,            \* where the CLI is in main()
    polled,         \* entries that got an element of pfds[] in this iteration
    ev,             \* the revents poll() returned for them
    proc,           \* the process forked for k: "none", "run", "zombie", "reaped"
    inherits,       \* CLI ends of earlier drivers that process k holds open
    toDriver,       \* queued at the driver's end of socket k
    toCli,          \* queued at the CLI's end of socket k
    kills,          \* drivers killed so far
    dpc,            \* where driver k is in driver_loop()
    rev,            \* pfds[0].revents in driver k
    busy,           \* busy in driver k
    timer           \* the timerfd of driver k: "off", "armed", "expired"

table   == <<n, pid, alive, open>>
cli     == <<cpc, polled, ev>>
kernel  == <<proc, inherits, kills>>
sockets == <<toDriver, toCli>>
driver  == <<dpc, rev, busy, timer>>
vars    == <<table, cli, kernel, sockets, driver>>

Events    == {"none", "in", "hup"}
Commands  == {"TASK", "BADTASK", "STATUS", "QUIT"}   \* BADTASK: more than 86400 s
Answers   == {"OK", "Busy", "Available", "BadTimer", "Bye"}
CliStates == {"top", "poll", "cmd", "scan", "quit", "close", "wait", "done", "gone"}

Queues(S) == {q \in Seq(S) : Len(q) <= SockCap}

TypeOK ==
    /\ n \in 0 .. MaxDrivers
    /\ pid \in [Slots -> Pids \cup {NoPid}]
    /\ alive \in [Slots -> BOOLEAN]
    /\ open \in [Slots -> BOOLEAN]
    /\ cpc \in CliStates
    /\ polled \in SUBSET Slots
    /\ ev \in [Slots -> Events]
    /\ proc \in [Slots -> {"none", "run", "zombie", "reaped"}]
    /\ inherits \in [Slots -> SUBSET Slots]
    /\ toDriver \in [Slots -> Queues(Commands)]
    /\ toCli \in [Slots -> Queues(Answers)]
    /\ kills \in 0 .. MaxKills
    /\ dpc \in [Slots -> {"poll", "timer", "sock"}]
    /\ rev \in [Slots -> Events]
    /\ busy \in [Slots -> BOOLEAN]
    /\ timer \in [Slots -> {"off", "armed", "expired"}]

------------------------------------------------------------------------------
(* The kernel: sockets, processes and pids.                                    *)

Running(k) == proc[k] = "run"

\* The CLI's end of socket k exists while some process holds a descriptor of it:
\* the CLI, or a driver forked while the CLI held it (the child closes only its
\* own pair's sv[0]).
CliEndOpen(k) == open[k] \/ \E j \in Slots : Running(j) /\ k \in inherits[j]

\* The end of a driver is held by the driver alone, so it closes when it exits.
CliEvent(k) == IF ~Running(k) THEN "hup" ELSE IF toCli[k] # <<>> THEN "in" ELSE "none"

DriverEvent(k) ==
    IF ~CliEndOpen(k) THEN "hup" ELSE IF toDriver[k] # <<>> THEN "in" ELSE "none"

\* A pid is free when no process, zombies included, has it.
FreePids == {p \in Pids : \A k \in Slots : pid[k] = p => PidReuse /\ proc[k] = "reaped"}

\* Both ends are non-blocking: a send finds the peer gone (EPIPE), finds the queue
\* full (EAGAIN) or queues the message.
\* (Mutant: one message too many.)
QueueLate(q, m) == IF Len(q) <= SockCap THEN Append(q, m) ELSE q
Queue(q, m) == IF Len(q) < SockCap THEN Append(q, m) ELSE q

------------------------------------------------------------------------------
(* The driver process: driver_loop().                                          *)

\* poll(): blocks until the socket or the timer has an event.
DriverPoll(k) ==
    /\ Running(k) /\ dpc[k] = "poll"
    /\ DriverEvent(k) # "none" \/ timer[k] = "expired"
    /\ rev' = [rev EXCEPT ![k] = DriverEvent(k)]
    /\ dpc' = [dpc EXCEPT ![k] = IF timer[k] = "expired" THEN "timer" ELSE "sock"]
    /\ UNCHANGED <<table, cli, kernel, sockets, busy, timer>>

\* The task is over: read the timer, go free, disarm.
DriverTimer(k) ==
    /\ Running(k) /\ dpc[k] = "timer"
    /\ busy' = [busy EXCEPT ![k] = FALSE]
    /\ timer' = [timer EXCEPT ![k] = "off"]
    /\ dpc' = [dpc EXCEPT ![k] = "sock"]
    /\ UNCHANGED <<table, cli, kernel, sockets, rev>>

\* The process ends: the kernel closes its descriptors and drops what it did not
\* read; it stays a zombie until the CLI waits for it.
Exits(k) ==
    /\ proc' = [proc EXCEPT ![k] = "zombie"]
    /\ toDriver' = [toDriver EXCEPT ![k] = <<>>]
    /\ dpc' = [dpc EXCEPT ![k] = "poll"]
    /\ rev' = [rev EXCEPT ![k] = "none"]
    /\ busy' = [busy EXCEPT ![k] = FALSE]
    /\ timer' = [timer EXCEPT ![k] = "off"]
    /\ UNCHANGED <<table, cli, inherits>>

AtSocket(k) == Running(k) /\ dpc[k] = "sock"

\* No process holds the CLI's end any more.
DriverHup(k) ==
    /\ AtSocket(k) /\ rev[k] = "hup"
    /\ Exits(k)
    /\ UNCHANGED <<toCli, kills>>

\* poll() returned for the timer only.
DriverAgain(k) ==
    /\ AtSocket(k) /\ rev[k] = "none"
    /\ dpc' = [dpc EXCEPT ![k] = "poll"]
    /\ UNCHANGED <<table, cli, kernel, sockets, rev, busy, timer>>

\* recv() fails with ECONNRESET: since poll() the CLI's end was closed with
\* answers in it that nobody read.
Reset(k) == ~CliEndOpen(k) /\ toCli[k] # <<>>

DriverRecvFails(k) ==
    /\ AtSocket(k) /\ rev[k] = "in" /\ Reset(k)
    /\ Exits(k)
    /\ UNCHANGED <<toCli, kills>>

Receives(k, m) ==
    /\ AtSocket(k) /\ rev[k] = "in" /\ ~Reset(k)
    /\ toDriver[k] # <<>> /\ Head(toDriver[k]) = m

\* The result of send() is ignored: an answer that does not fit is lost.
Reply(k, a) ==
    toCli' = [toCli EXCEPT ![k] = IF CliEndOpen(k) THEN Queue(@, a) ELSE @]

\* Back to poll() with the command answered.
Answer(k, a) ==
    /\ Reply(k, a)
    /\ toDriver' = [toDriver EXCEPT ![k] = Tail(@)]
    /\ dpc' = [dpc EXCEPT ![k] = "poll"]
    /\ UNCHANGED <<table, cli, kernel, rev>>

DriverQuit(k) ==
    /\ Receives(k, "QUIT")
    /\ Reply(k, "Bye")
    /\ Exits(k)
    /\ UNCHANGED kills

\* (Mutant: the answer goes by the timer, which may have expired unread.)
StatusByTimer(k) == IF timer[k] = "armed" THEN "Busy" ELSE "Available"
StatusAnswer(k) == IF busy[k] THEN "Busy" ELSE "Available"

DriverStatus(k) ==
    /\ Receives(k, "STATUS")
    /\ Answer(k, StatusAnswer(k))
    /\ UNCHANGED <<busy, timer>>

DriverBadTask(k) ==
    /\ Receives(k, "BADTASK")
    /\ Answer(k, "BadTimer")
    /\ UNCHANGED <<busy, timer>>

\* A busy driver refuses; a task that fell due after poll() still counts as busy.
\* (Mutant: it does not.)
AcceptsIfDue(k) == ~busy[k] \/ timer[k] = "expired"
Accepts(k) == ~busy[k]

DriverTask(k) ==
    /\ Receives(k, "TASK")
    /\ IF Accepts(k)
       THEN /\ busy' = [busy EXCEPT ![k] = TRUE]
            /\ timer' = [timer EXCEPT ![k] = "armed"]
            /\ Answer(k, "OK")
       ELSE /\ Answer(k, "Busy")
            /\ UNCHANGED <<busy, timer>>

\* The kernel's side of a driver: its task time passes; it is killed.
TimerExpires(k) ==
    /\ Running(k) /\ timer[k] = "armed"
    /\ timer' = [timer EXCEPT ![k] = "expired"]
    /\ UNCHANGED <<table, cli, kernel, sockets, dpc, rev, busy>>

Kill(k) ==
    /\ Running(k) /\ kills < MaxKills
    /\ Exits(k)
    /\ kills' = kills + 1
    /\ UNCHANGED toCli

DriverStep(k) ==
    \/ DriverPoll(k) \/ DriverTimer(k) \/ DriverHup(k) \/ DriverAgain(k)
    \/ DriverRecvFails(k) \/ DriverQuit(k) \/ DriverStatus(k) \/ DriverBadTask(k)
    \/ DriverTask(k)

------------------------------------------------------------------------------
(* The CLI: main() and the commands.                                           *)

CliGoes(pc) == cpc' = pc

\* Entries of the table that are in use, and those whose socket is served.
Entries == 1 .. n
Live == {k \in Slots : alive[k]}

\* (Mutant: the first with that pid, as in find_driver().)
ReapedAnyEntry(p) == {k \in Entries : pid[k] = p /\ \A j \in Entries : pid[j] = p => k <= j}

\* The entry reap_children() marks dead for the pid that waitpid() returned.
ReapedEntry(p) == {k \in Entries : /\ alive[k] /\ pid[k] = p
                                   /\ \A j \in Entries : alive[j] /\ pid[j] = p => k <= j}

\* The entries that get an element of pfds[].
\* (Mutant: nfds forgets the standard input, so poll() misses the last one.)
AllButLast(S) == {j \in S : \E k \in S : j < k}
PolledEntries(S) == S

\* reap_children(), then pfds[] is built from the live entries.
ReapChildren ==
    LET Z    == {k \in Slots : proc[k] = "zombie"}
        dead == UNION {ReapedEntry(pid[z]) : z \in Z}
    IN  /\ cpc = "top" /\ CliGoes("poll")
        /\ proc' = [k \in Slots |-> IF k \in Z THEN "reaped" ELSE proc[k]]
        /\ alive' = [k \in Slots |-> alive[k] /\ k \notin dead]
        /\ open' = [k \in Slots |-> open[k] /\ k \notin dead]
        /\ polled' = PolledEntries(Live \ dead)
        /\ UNCHANGED <<n, pid, ev, inherits, kills, sockets, driver>>

\* poll(): blocks until a driver's socket has an event or a line can be read.
CliPoll(input) ==
    /\ cpc = "poll"
    /\ ev' = [k \in Slots |-> IF k \in polled THEN CliEvent(k) ELSE "none"]
    /\ input \/ \E k \in polled : CliEvent(k) # "none"
    /\ CliGoes(IF input THEN "cmd" ELSE "scan")
    /\ UNCHANGED <<table, polled, kernel, sockets, driver>>

\* poll() interrupted by a signal.
CliPollInterrupted ==
    /\ cpc = "poll" /\ CliGoes("top")
    /\ UNCHANGED <<table, polled, ev, kernel, sockets, driver>>

\* fork(): the child holds the CLI ends the CLI holds, except its own pair's,
\* which it closes.
\* (Mutant: the child keeps its own pair's sv[0] too.)
AllEnds(k) == {j \in Slots : open[j]} \cup {k}
InheritedEnds(k) == {j \in Slots : open[j]}

\* create_driver: a socket pair, a process and a new entry.
CmdCreateDriver(p) ==
    LET k == n + 1
    IN  /\ cpc = "cmd" /\ CliGoes("scan")
        /\ n < MaxDrivers /\ p \in FreePids
        /\ n' = k
        /\ pid' = [pid EXCEPT ![k] = p]
        /\ alive' = [alive EXCEPT ![k] = TRUE]
        /\ open' = [open EXCEPT ![k] = TRUE]
        /\ proc' = [proc EXCEPT ![k] = "run"]
        /\ inherits' = [inherits EXCEPT ![k] = InheritedEnds(k)]
        /\ UNCHANGED <<polled, ev, kills, sockets, driver>>

\* send() to the driver fails with EPIPE or ECONNRESET.
\* (Mutant: any failed send counts, a full queue too.)
AnySendFailure(k) == ~Running(k) \/ Len(toDriver[k]) = SockCap
PeerGone(k) == ~Running(k)

\* send_cmd() to each entry of S.  EPIPE marks the entry dead and closes its
\* descriptor; a full queue is only reported.
SendCmd(S, m) ==
    LET dead == {k \in S : PeerGone(k)}
    IN  /\ toDriver' = [k \in Slots |-> IF k \in S \ dead THEN Queue(toDriver[k], m)
                                                          ELSE toDriver[k]]
        /\ alive' = [k \in Slots |-> alive[k] /\ k \notin dead]
        /\ open' = [k \in Slots |-> open[k] /\ k \notin dead]

\* find_driver(): the first entry with that pid, dead or not.
FirstWithPid(p) == {k \in Entries : pid[k] = p /\ \A j \in Entries : pid[j] = p => k <= j}

\* The entry a command with a pid reaches; none: "Error NoSuchDriver".
Reached(p) == {k \in FirstWithPid(p) : alive[k]}

\* send_task and get_status for a pid the user typed.
CmdSend(p, m) ==
    /\ cpc = "cmd" /\ CliGoes("scan")
    /\ SendCmd(Reached(p), m)
    /\ UNCHANGED <<n, pid, polled, ev, kernel, toCli, driver>>

\* get_drivers: STATUS to every live entry.
CmdGetDrivers ==
    /\ cpc = "cmd" /\ CliGoes("scan")
    /\ SendCmd(Live, "STATUS")
    /\ UNCHANGED <<n, pid, polled, ev, kernel, toCli, driver>>

\* An empty line, a usage error or an unknown command.
CmdOther ==
    /\ cpc = "cmd" /\ CliGoes("scan")
    /\ UNCHANGED <<table, polled, ev, kernel, sockets, driver>>

\* exit, quit or the end of the input.
CmdExit ==
    /\ cpc = "cmd" /\ CliGoes("quit")
    /\ UNCHANGED <<table, polled, ev, kernel, sockets, driver>>

Command ==
    \/ \E p \in Pids : CmdCreateDriver(p)
    \/ \E p \in Pids, m \in {"TASK", "BADTASK", "STATUS"} : CmdSend(p, m)
    \/ CmdGetDrivers \/ CmdOther \/ CmdExit

\* The loop over the table walks pfds[] with an index of its own that moves once
\* per entry alive NOW, while pfds[] has one element per entry alive THEN.
Rank(S, k) == Cardinality({j \in S : j <= k})

\* (Mutant: the index starts at pfds[0], the standard input's.)
RankFromStdin(k, past) ==
    IF Rank(Live, k) = 1 THEN "none"
    ELSE IF Rank(Live, k) - 1 <= Cardinality(polled)
         THEN ev[CHOOSE j \in polled : Rank(polled, j) = Rank(Live, k) - 1]
         ELSE past

\* The revents the entry k is served with; past is what lies behind pfds[].
Revents(k, past) ==
    LET r == Rank(Live, k)
    IN  IF r <= Cardinality(polled)
        THEN ev[CHOOSE j \in polled : Rank(polled, j) = r]
        ELSE past

\* Serve every live entry: POLLHUP drops it; POLLIN reads all its answers, and
\* drops it if the driver turns out to be gone.
Scan ==
    \E past \in [Slots -> Beyond] :
        LET Sees(e) == {k \in Live : Revents(k, past[k]) = e}
            dead    == Sees("hup") \cup {k \in Sees("in") : ~Running(k)}
        IN  /\ cpc = "scan" /\ CliGoes("top")
            /\ alive' = [k \in Slots |-> alive[k] /\ k \notin dead]
            /\ open' = [k \in Slots |-> open[k] /\ k \notin dead]
            /\ toCli' = [k \in Slots |-> IF k \in Sees("in") THEN <<>> ELSE toCli[k]]
            /\ polled' = {}
            /\ ev' = [k \in Slots |-> "none"]
            /\ UNCHANGED <<n, pid, kernel, toDriver, driver>>

\* shutdown_all(): QUIT to the live entries (a failed send is ignored), ...
SendQuits ==
    /\ cpc = "quit" /\ CliGoes("close")
    /\ toDriver' = [k \in Slots |-> IF alive[k] /\ Running(k) THEN Queue(toDriver[k], "QUIT")
                                                              ELSE toDriver[k]]
    /\ UNCHANGED <<table, polled, ev, kernel, toCli, driver>>

\* ... close every descriptor, ...
DropAll ==
    /\ alive' = [k \in Slots |-> FALSE]
    /\ open' = [k \in Slots |-> FALSE]

CloseAll ==
    /\ cpc = "close" /\ CliGoes("wait")
    /\ DropAll
    /\ UNCHANGED <<n, pid, polled, ev, kernel, sockets, driver>>

\* ... and wait for every child.
WaitOne(k) ==
    /\ cpc = "wait" /\ proc[k] = "zombie"
    /\ proc' = [proc EXCEPT ![k] = "reaped"]
    /\ UNCHANGED <<table, cli, inherits, kills, sockets, driver>>

NoChildren == \A k \in Slots : proc[k] \in {"none", "reaped"}

WaitDone ==
    /\ cpc = "wait" /\ CliGoes("done")
    /\ NoChildren
    /\ UNCHANGED <<table, polled, ev, kernel, sockets, driver>>

\* The CLI is killed, or a system call fails and die() exits: no shutdown_all(),
\* only the kernel closes its descriptors.
CliDies ==
    /\ cpc \notin {"done", "gone"} /\ CliGoes("gone")
    /\ DropAll
    /\ polled' = {} /\ ev' = [k \in Slots |-> "none"]
    /\ UNCHANGED <<n, pid, kernel, sockets, driver>>

\* What the CLI does without waiting for its user.
CliProgress ==
    \/ ReapChildren \/ CliPoll(FALSE) \/ Command \/ Scan
    \/ SendQuits \/ CloseAll \/ (\E k \in Slots : WaitOne(k)) \/ WaitDone

CliStep == CliProgress \/ CliPoll(TRUE) \/ CliPollInterrupted \/ CliDies

------------------------------------------------------------------------------
Init ==
    /\ n = 0 /\ kills = 0
    /\ pid = [k \in Slots |-> NoPid]
    /\ alive = [k \in Slots |-> FALSE]
    /\ open = [k \in Slots |-> FALSE]
    /\ cpc = "top" /\ polled = {}
    /\ ev = [k \in Slots |-> "none"]
    /\ proc = [k \in Slots |-> "none"]
    /\ inherits = [k \in Slots |-> {}]
    /\ toDriver = [k \in Slots |-> <<>>]
    /\ toCli = [k \in Slots |-> <<>>]
    /\ dpc = [k \in Slots |-> "poll"]
    /\ rev = [k \in Slots |-> "none"]
    /\ busy = [k \in Slots |-> FALSE]
    /\ timer = [k \in Slots |-> "off"]

Finished == cpc \in {"done", "gone"} /\ \A k \in Slots : ~Running(k)

Next ==
    \/ CliStep
    \/ \E k \in Slots : DriverStep(k) \/ TimerExpires(k) \/ Kill(k)

\* Each event loop runs when poll() or a ready line lets it; time passes.  The
\* user need not type, nothing need be killed.
Fairness ==
    /\ WF_vars(CliProgress)
    /\ \A k \in Slots : WF_vars(DriverStep(k)) /\ WF_vars(TimerExpires(k))

SafeSpec == Init /\ [][Next]_vars

Spec == SafeSpec /\ Fairness
------------------------------------------------------------------------------
(* Safety.                                                                     *)

\* The table agrees with the kernel: a descriptor is open exactly while its entry
\* is alive; an entry in service has not been waited for, so no other process has
\* its pid and reap_children() finds that very entry; and when find_driver() stops
\* at an earlier entry, that one's process has been waited for.
TableMatchesKernel ==
    \A k \in Slots :
        /\ open[k] <=> alive[k]
        /\ alive[k] =>
             /\ proc[k] \in {"run", "zombie"}
             /\ ReapedEntry(pid[k]) = {k}
             /\ \A j \in FirstWithPid(pid[k]) : j # k => proc[j] = "reaped"

\* Without a death, and where pfds[] is followed by zeroes, no command, full
\* queue, lost answer or order of events takes a driver out of service before
\* the CLI shuts down.
NoLossWithoutDeath ==
    kills = 0 /\ Beyond = {"none"} /\ cpc \in {"top", "poll", "cmd", "scan", "quit"}
        => \A k \in Entries : alive[k] /\ Running(k)

\* The last answer waiting in a socket tells the driver's present state when it
\* is "Available", unless the queue is full, when a later "OK" may have been lost.
AvailableIsCurrent ==
    \A k \in Slots :
        /\ Running(k) /\ toCli[k] # <<>> /\ Len(toCli[k]) < SockCap
        /\ toCli[k][Len(toCli[k])] = "Available"
        => ~busy[k]

\* A running driver loses its service in the scan only because its index is off:
\* an earlier entry was found dead by a command of this very iteration, or the
\* driver was created in it and has no element of pfds[].
MisdropNeedsStaleIndex ==
    [][cpc = "scan" /\ cpc' = "top" =>
         \A k \in Slots :
            alive[k] /\ Running(k) /\ ~alive'[k] =>
               k \notin polled \/ \E j \in polled : j < k /\ ~alive[j]]_vars

\* The message of send_task and get_status, "Error NoSuchDriver", is true: no
\* driver process with that pid runs.  (The code violates it.)
NoSuchDriverIsTrue ==
    cpc = "cmd" => \A p \in Pids : Reached(p) = {} =>
                        ~\E k \in Slots : Running(k) /\ pid[k] = p

------------------------------------------------------------------------------
(* Liveness, and what the whole promises.                                      *)

\* A driver that died is taken out of service.
DeadDriverForgotten ==
    \A k \in Slots : (alive[k] /\ proc[k] = "zombie") ~> ~alive[k]

\* Once the CLI shuts down or dies, every driver exits, also one whose QUIT did
\* not fit its queue, one the CLI had dropped while it ran and one whose CLI end
\* a later driver inherited; then waitpid() has no child left and the CLI ends.
AllDriversExit == cpc \in {"quit", "gone"} ~> Finished

CabOf(k) ==
    CASE proc[k] = "none"                 -> "none"
      [] proc[k] \in {"zombie", "reaped"} -> "gone"
      [] Running(k) /\ ~busy[k]           -> "free"
      [] Running(k) /\ busy[k]            -> IF timer[k] = "expired" THEN "due" ELSE "hired"

F == INSTANCE Fleet WITH Cabs <- Slots, cab <- [k \in Slots |-> CabOf(k)]

\* The drivers are the cabs of Fleet: a task is never given to a busy driver, a
\* driver goes free only when its timer fired, and every task ends.
ImplementsFleet == F!FleetSpec
==============================================================================
