# A verification of eltex_systems

The repository is a collection of small system programs in C.  Four of them are
systems in the proper sense: several processes or threads that share state, pass
messages, time out, die and are started again.  The others are smaller: pairs of
processes that exchange one message, a shell, a kernel module, two phone books, and
single programs with a loop that can go wrong.  This directory holds TLA+ models of
both kinds, TLC configurations that check them on small instances, and theorems about
all of them that TLAPS proves for every instance: each safety property that TLC checks
is also the statement of a theorem.

    tlc -config <Run>.cfg <MC module>      # e.g. tlc -config TaxiTable.cfg MCTaxi
    tlapm TaxiControlProofs.tla            # and each other *Proofs.tla

## 1. Inventory

### taxi_control (`taxi_control/main.c`)
A command line (CLI) forks a driver process per `create_driver`, each with its own
`SOCK_SEQPACKET` socket pair, and multiplexes its terminal and all sockets in one
`poll()` loop.  A driver is a second event loop over its socket and a `timerfd`.
* *State*: the table `drivers[]` (pid, fd, alive), the `pfds[]` of the present
  iteration; in a driver `busy`, its timer, the events `poll()` returned; in the
  kernel the two queues of a pair, who holds which end, zombies and pids.
* *Operations*: `create_driver`, `send_task`, `get_status`, `get_drivers`, `exit`;
  reaping, the scan of the sockets, the shutdown; in a driver QUIT, STATUS, TASK and
  the timer.
* *Hard*: the scan's index is computed again after the command of the same
  iteration changed the table; descriptors are inherited by later drivers; all
  sends are non-blocking and may be lost; pids are used again; the timer fires
  between `poll()` and the command; the CLI may die without a shutdown.
* *Correct when*: the table agrees with the kernel, no running driver is dropped, a
  busy driver is never given a task, answers are current, the dead are forgotten,
  and nobody outlives the CLI.

### message_queues chat (`message_queues/chat_server.c`, `chat_client.c`)
A single-threaded server reads joins and lines from one POSIX queue and sends each
to a queue per client; a history is replayed to newcomers.  A client has a prompt
thread and a receiver thread that share the screen through a mutex.
* *State*: the table of clients, the history, the queues; per client the mutex, the
  screen, what the receiver holds.
* *Operations*: start, stop and crash of either side; join, message, replay, `/quit`.
* *Hard*: sends block, so server and clients can wait for each other; the prompt
  waits for the user with the screen locked; a client leaves without a word; a new
  server replaces the queue of one whose clients live on.
* *Correct when*: members see the history, each message once and in one order; the
  server is not stopped by anything but a user; refusals are true.

### shared_memory chat (`shared_memory/chat.h`, `chat_server.c`, `chat_client.c`)
Clients write to and poll a log in a System V segment under a semaphore; the server
only sets both up and removes both.
* *State*: the segment (`server_running`, counters, log), the semaphore; per client
  the positions of three threads, `g_running`, `last_seen`, the screen.
* *Operations*: start, stop and crash of the server; join, post, read, `/quit`; kill.
* *Hard*: `lock_sem()` ignores a failed `semop()`; a killed client keeps the lock (no
  `SEM_UNDO`); a restarted server clears the segment under the feet of clients.
* *Correct when*: one thread is inside; the log only grows; a posted line is kept;
  screens show a prefix of the log; stopping the server releases everybody.

### echo_raw (`echo_raw/`)
A UDP echo over raw sockets: the server appends to each request a counter per client
address, kept in a chained hash table; `shutdown` resets it.
* *State*: the table; per client whether it waits, what it printed; packets under way.
* *Operations*: `rawudp_ct_next`, `rawudp_ct_reset`; send, receive, serve.
* *Hard*: raw sockets hear every UDP packet of the host; nothing is acknowledged,
  numbered or sent again; ports are picked at random; the counter wraps.
* *Correct when*: one counter per address whatever keys collide; a client prints the
  answer to its own last line, numbered consecutively; echoes end.

### The smaller programs
| part | state and operations | hard | correct when |
|---|---|---|---|
| input of the taxi CLI (`taxi_control/main.c:300-340`) | lines in the kernel, in the buffer of `stdin`, served | `poll()` sees the descriptor, not the buffer | all a terminal or a file holds is served, and its end seen |
| packets (`echo_raw/src/packet.c`, `checksum.c`) | a sum over bytes; lengths in a header | odd lengths, carries, a sum of 0; lengths that contradict each other | the checksum verifies; the payload lies inside the packet |
| queue exchange (`message_queues/{server,client}_{posix,sysv}.c`) | one queue under one name | no types in the POSIX queue; names and queues removed under others | directions stay apart, nothing is left, nobody waits for ever who need not |
| segment exchange (`shared_memory/{server,client}_{posix,sysv}.c`) | flag and text in a segment | plain memory, polled; segments left over | whole texts, a reply comes |
| FIFO exchange (`channels/fifo-*.c`) | a FIFO under a name | `open()` waits for the other side; the name is removed by any client | a greeting is heard, nothing is left |
| signals (`signals/`) | handler, mask, pending signals | signals before the set-up, and together | no death once the id was told; a message follows |
| shells (`channels/interpreter.c`, `processes/task3.c`) | children, pipe ends, the shared offset of standard input | failed `fork()`s, failed `execvp()`s, ends left open | no child at the prompt; lines run once; the script ends |
| kernel module (`modules/proc_sys_var.c`) | the variable, its mutex, three entries | failing loads, unloading under use, reads in pieces | nothing leads into a module that is out; reads are whole |
| phone books (`functions/functions.c`, `dynmem/dynmem.c`) | an array and a doubly linked list | what `scanf()` leaves unread; unlinking at the ends | both are one numbered sequence |
| panels (`virtual_fs/nedomc.c`) | two listings with a cursor | directories that cannot be opened, links, `MAX_FILES` | a panel shows its directory, the cursor is in it |
| bits (`bits_operations/bits.c`) | loops over an int | the sign | values are right, loops end |
| arrays (`massives/massives.c`) | spiral; an array turned round | the last turn, the middle | every cell once, each element once |

### Not modelled
| part | why |
|---|---|
| `channels/pipe.c`, `processes/task1.c`, `task2.c`, `virtual_fs/work_with_file.c` | straight lines of `fork()`, `wait()`, reads and writes with one possible order that matters to no one |
| `square_matrix()` and `triangles()` of `massives.c` | a matrix filled by a formula |
| `pointers/`, `static_libraries/`, `dynamic_libraries/`, `module3/` | exercises in the language or the linker, without behaviour of their own |
| layout of screens, wording of messages, command line parsing | no property is about them |
| names and words longer than their buffers | what follows is undefined for every property |

The components do not interact with one another: each directory is a program.

## 2. Modules

| module | what it is | extends / instantiates |
|---|---|---|
| `Fleet` | what the taxi controller promises: a cab is free, hired, due, gone | |
| `TaxiControl` | CLI, drivers, sockets, processes | `Fleet` under a refinement mapping |
| `TaxiControlProofs` | theorems about `TaxiControl` | `TaxiControl` |
| `MqChat` | the chat over message queues | |
| `MqChatProofs` | theorems about `MqChat` | `MqChat` |
| `ShmChat` | the chat over shared memory | |
| `ShmChatProofs` | theorems about `ShmChat` | `ShmChat` |
| `Tally` | what the echo server promises: a counter per address | |
| `ClientTable` | the chained hash table | `Tally` under a refinement mapping |
| `ClientTableProofs` | theorems about `ClientTable` | `ClientTable` |
| `Echo` | server, clients and network of the echo | `ClientTable`, for the server's table |
| `EchoProofs` | theorems about `Echo` | `Echo`; `ClientTableProofs`, for the lemmas about the table |
| `TaxiInput` | lines on their way into the taxi CLI | |
| `Packets` | checksum and parser | |
| `PhoneBook` | what both phone books promise: a sequence with numbered listings, and removal by the number listed | |
| `BookMenu` | the menu loop and the `scanf()` calls of both | |
| `ArrayBook`, `ListBook` | the array, the linked list | `BookMenu`; `PhoneBook` under a refinement mapping |
| `QueueExchange`, `SegmentExchange`, `FifoExchange` | the exchanges, each with any number of servers and clients | |
| `Signals`, `Shell`, `ProcSysVar`, `Panels`, `Bits`, `Arrays` | one program each, or a few of a kind | |
| `MCPrograms` | all the small programs, one at a time | `ClientTable` and the modules from `TaxiInput` on |
| `ProcessProofs` | theorems about the exchanges, `Signals`, `Shell`, `ProcSysVar`: small programs of several processes | these modules |
| `SequentialProofs` | theorems about the phone books, `Panels`, `Packets`, `Bits`, `Arrays`, `TaxiInput`: one process each | these modules |
| `ProgramsProofs` | what is proved of each small program, for the specification of all of them | `MCPrograms` and the three modules with the proofs |
| `MCTaxi`, `MCMqChat`, `MCShmChat`, `MCEcho` | constants and symmetry for TLC | the above |

Operators marked "(Mutant: ...)" are what a plausible slip in the code would make of
the definition that follows them; no specification uses them.  Each property, and
each part of the conjunctions that `Programs` checks, was seen to be violated when one of
them takes the place of its neighbour.

### TaxiControl
A slot `k` is the k-th driver ever created: entry `drivers[k-1]`, the process and the
socket pair.  The CLI goes through `top` (reap, build `pfds[]`), `poll`, `cmd`, `scan`
and, at the end, `quit`, `close`, `wait`; each is one action because what the CLI does
between two system calls on which another process can act commutes with the rest, and
the points where it does not (between `poll()`, the command and the scan; between the
QUITs and the closes) are kept apart.  `Rank` and `Revents` are the running index of
the scan: `polled` remembers who has an element of `pfds[]`, and `Beyond` is what may
lie behind it.  `CliEndOpen` is the rule of descriptor inheritance: the CLI's end of a
pair exists while the CLI or any later driver holds it.  `BADTASK` stands for a task
longer than a day; a task of no or negative length never leaves the CLI (`main.c:354`).
The remaining time in "Busy n" is left out.

### MqChat
The server's handlers are cut at every `mq_send`, which may block (`SendsTo` waits for
room); the client's threads at every lock and queue operation.  `srvq` has a queue per
start of the server, since a client of an earlier start still holds that one.  `cq[c]`
outlives its client because the server has it open.

### ShmChat
`main()` takes its place among the names in four steps: the test (`Register`), the name
and the read of `client_count` (`ReadCount`), its store (`CountName`), the notice
(`Announce`).  After a failed lock two of them can be between these steps, so that the
limit is passed or an increment lost.  The name is always written inside its array: the
index is the value that was tested, which an optimizing build (`gcc -O2`) loads once,
while it loads the counter anew for the `++`.  A thread writes in three steps, `Reserves` (test and address), `Put` (copy), `Bump`
(`message_count++`, whose read may be stale when another thread is inside too), so that
a failed lock has the effects it has in the code.  `broken` is a history variable: some
`lock_sem()` failed or a server was started over attached clients; what holds only
before that says so.

### ClientTable and Echo
A bucket's linked list is the sequence of its nodes.  `HashKey` is any function from
keys to buckets: nothing proved or checked depends on the hash.  In `Echo` the payload
is the line's identity, its length and the counters appended so far (an answer that
the server hears is echoed again).  A packet under way is in a bag, so order is lost;
arriving, it is copied to all listeners of its host, minus what is lost.

### The smaller programs
Their variables and actions carry a prefix where names would meet, since `MCPrograms`
extends all of the modules.  What needs a word:

* `BookMenu`: `scanf("%d")` that meets a word leaves it unread and its variable alone, so
  the next `scanf()` meets it too; `unread` is that word.  A `%s` takes it.  `number`
  is what `remove_abonent()` scanned in the last turn, `NoNumber` after any other turn;
  `PhoneBook` says that the entry taken out is the one a listing gives that number, and that
  a negative one cancels in the array and takes the first entry of the list.  Variables
  that are not initialized (`choice` and `number` of `dynmem.c`, the nodes of `malloc()`)
  start with any value.
* `QueueExchange`, `SegmentExchange`, `FifoExchange`: a process runs once, started at any
  time; objects are numbered as they are created, and the name or key stands for one of
  them or none.  Who has one open keeps it when the name goes.
* `SegmentExchange`: the text is copied in halves; `data->flag = 0` may be dropped, because
  it is overwritten and not read.  Other stores keep their order, which the compilers
  at hand do and the C standard does not promise.
* `FifoExchange`: `open()` for writing waits for a reader and the other way round; who
  enters wakes those who wait, even if it is gone again before they run.  What was
  written is lost when nobody has the FIFO open any more.
* `Shell`: `exit(1)` in a child flushes its copy of `stdin`.  If standard input is a file,
  glibc moves the shared offset back by what the copy holds unread; a pipe cannot be
  moved.  (Seen with the built program: lines behind a command that is not found run
  twice.)  Lines have one length, a script is shorter than a stdio buffer, commands
  do not read the script.
* `ProcSysVar`: removing an entry refuses new calls and waits for those under way; that is
  the kernel's promise and external.  The number is formatted digit by digit, because
  `ReadsWhole` is about digits of two numbers.
* `Panels`: real paths are sequences of names and `Contents` says where a name leads, a link
  included.  After a failed `opendir()` the panel's names are freed and still in use:
  `freed`, after which `UseFreed` may end the program.
* `Packets`: a byte has three values instead of 256, so that sums carry and come to 0
  early; header lengths are the real ones.  `check` is stored without `htons()`
  (`packet.c:66`, `:77`): on a little-endian host the two bytes are swapped, and
  `ChecksumVerifies` says when that verifies all the same.
* `Bits`: an int has four bytes of two bits.  `ValueOf`, the number that the bits stand
  for, doubles from the highest bit down, so that a proof about it is an induction over
  bits and never meets a power of 2.  Of what the comments call the direct code of a
  negative number, `BitsRight` states the digits below the sign only; see 5 for the sign.
* `TaxiInput`: a pipe may hold lines back until more is written, and its end, `POLLHUP`
  without `POLLIN`, is missed, so that the CLI spins.  `InputServed` is about the rest.

## 3. Runs

| run | shows | bounds, and why they are enough |
|---|---|---|
| `TaxiTable` | `TypeOK`, `TableMatchesKernel`, `MisdropNeedsStaleIndex` | 2 drivers, 2 pids with reuse, 1 kill, queues of 1, any value behind `pfds[]`: a pid comes back while its old entry is still there, and an entry dies in front of another |
| `TaxiOne` | `AvailableIsCurrent`, `DeadDriverForgotten`, `ImplementsFleet` | 1 driver, since cabs are independent of each other; queues of 3: an answer before, one after and room for one more; with fairness |
| `TaxiExit` | `NoLossWithoutDeath`, `AllDriversExit` | 2 drivers: the first pair's CLI end is inherited by the second; queues of 1, so that every second send fails and QUIT may not fit; 1 kill, after which the scan may drop the other driver while it runs; with fairness |
| `TaxiNoSuch` | `NoSuchDriverIsTrue` is **violated** | see 5 |
| `MqSafe` | `TypeOK`, `StreamIsHistory`, `ScreensAgree` | 3 clients, 2 fit the table and 2 type; queues of 1, a history of 3 that four messages overflow; crashes, of at most one client (`Explored`) |
| `MqServes` | `ScreensAgree`, `ServerServes` | queues of 1 so that everybody blocks everybody; 2 lines each; 2 starts of the server; with fairness |
| `MqReject` | `RejectionIsTrue` is **violated** | see 5 |
| `ShmSafe` | `TypeOK`, `OneInside`, `PostedIsKept`, `ScreenIsPrefix`, `AppendOnly` | 2 clients (six threads); one name, so that the second client meets a full table, or passes its limit after a failed lock; a log of 2 that the notice and one line fill; 1 kill, 2 starts, 1 interrupted wait; where `broken` is true only the types are promised, and kills, restarts and a second line are not explored there (`Explored`) |
| `ShmStop` | `StopReleasesAll` | 2 clients, one name, a log of 2; 1 kill, also inside the section; with fairness |
| `Programs` | see the next table | one small program per behaviour |
| `EchoFaults` | `ConsecutiveNumbers`, `NoCrossTalk`, `AnswersItsLine` | 2 clients on one host, 2 sessions, counters mod 2 (every second number wraps); one duplicate or one interrupt (`OneFault`), so that an old answer, or that to an old shutdown, meets a new line or session; a shutdown is not counted as a line; symmetry of the clients |
| `EchoEnds` | `TypeOK`, `Answered`, `EchoesEnd` | a client with the server's address; lines of 3 and 6 in a payload of 8: an answer that fills it to the last byte, and a few echoes of echoes; a loss and a server restart; with fairness |

`Programs` checks the small programs in one run.  They share nothing: the variable
`program` picks one, the others keep one initial state (`OthersStay`), and the states of the
run are the sum of theirs, not the product.  Each has the fairness of its own
specification.  What the modules state of their programs is checked in a few conjunctions,
one for each kind of promise, whose parts stand in the modules:

| property of the run | parts |
|---|---|
| `ProgramTypes` | the type invariants of all modules, with the limits of tables, queues and listings |
| `OneNodePerKey`, `ImplementsTally` | the hash table |
| `ImplementsBook` | `ArrayImplementsBook`, `ListImplementsBook` |
| `WordEmptiesBook`, `TwoWayLinked` | the array; the links of the list |
| `HeardRight` | `QDirectionsApart`, `WholeReply`, `WholeGreeting`, `GreetingIsHeard` |
| `NothingLeft` | `QNothingLeft`, `FNothingLeft` |
| `ExchangesEnd` | `QExchangesEnd`, `ReplyComes`, `FMetEnds` |
| `ShellInStep` | `NoChildAtPrompt`, `RunAsRead` |
| `ModuleSound` | `NothingLeadsOut`, `ReadsWhole` |
| `ToldIsSafe`, `StaysInOrder` | the signal programs; the panels |
| `ProgramsGoOn` | `ScriptEnds`, `UnloadEnds`, `MessageFollows`, `InputServed`, `LoopsEnd` |
| `ComputedRight` | `ChecksumVerifies`, `PayloadInside`, `BitsRight`, `SpiralUnbroken`, `TurnedRound` |

The parts, by module:

| module | properties | bounds, and why they are enough |
|---|---|---|
| `ClientTable` | `OneNodePerKey`, `ImplementsTally` | 4 keys, 3 in one bucket: first, middle and last node; counters mod 4 |
| `ArrayBook` | `ArrayImplementsBook`, `WordEmptiesBook` | 3 entries: full, first, middle, last; 2 words; all items and two numbers that are none |
| `ListBook` | `TwoWayLinked`, `ListImplementsBook` | 3 cells, as above, with `malloc()` failing at any time |
| `QueueExchange` | `QDirectionsApart`, `QNothingLeft`, `QExchangesEnd` | 2 servers, 2 clients, a queue of 2 (less than the greetings and replies of all), 1 kill |
| `SegmentExchange` | `WholeReply`, `WholeGreeting`, `ReplyComes` | 3 processes out of 2 servers and 2 clients, 1 kill: overlapping servers, two clients at once, a left-over segment |
| `FifoExchange` | `GreetingIsHeard`, `FNothingLeft`, `FMetEnds` | 2 servers, 2 clients, 1 kill: the name removed between `mkfifo()` and `open()`, a write without a reader |
| `Signals` | `ToldIsSafe`, `MessageFollows` | 4 signals: one early, two together, one during the message |
| `Shell` | `NoChildAtPrompt`, `RunAsRead`, `ScriptEnds` | scripts of up to 2 lines of all kinds and 3 lines of four kinds, from a file and a pipe; 6 lines run, enough for a script of 3 whose second and third line run again |
| `ProcSysVar` | `NothingLeadsOut`, `ReadsWhole`, `UnloadEnds` | 2 processes, values 0 and 42 (one and two digits), buffers of 2: a two-digit read takes two pieces and the end a third |
| `Panels` | `StaysInOrder` | 3 directories: one in which everything fits, one cut off, one empty; a link; any set of directories that can be opened, and it changes |
| `TaxiInput` | `InputServed` | 4 lines from a terminal, a file, a pipe with and without a writer that waits |
| `Packets` | `ChecksumVerifies`, `PayloadInside` | all datagrams of up to 4 bytes of three values; headers with every field below, at and above its limits |
| `Bits` | `BitsRight`, `LoopsEnd` | every int of 8 bits, every byte and one bit more |
| `Arrays` | `SpiralUnbroken`, `TurnedRound` | sizes 0 to 5, odd and even, three elements |

Deadlock checking is off throughout: all of these systems may stop (the user types
nothing more, everybody has left).  That nobody waits who should not is what
`AllDriversExit`, `ServerServes`, `StopReleasesAll` and `Answered` are for.  Symmetry is
used only in runs without liveness.

### Fairness
A process or thread that can run does, weakly fair, one condition per thread: the
kernel's scheduler gives that and no more.  For the taxi CLI it is one condition for
the loop, because `poll()` returns when something is ready; timers expire.  In `MqChat`
no one has to type: that a user sits at the prompt for ever is one of the things
`ServerServes` is about.  In `ShmChat` a user at the prompt presses Enter some time, and
a lock need not be fair: `Lock` has no fairness, only the failing of a wait for a
removed semaphore has.  In `Echo` every packet under way arrives or is lost.

In the exchanges each process that was started runs (`WF` per process); nobody has to be
started.  In `Shell` the shell and each child run, and a command ends when nothing keeps
it.  In `ProcSysVar` handlers have strong fairness, because `mutex_lock()` queues its waiters,
and a load or unload that was begun goes on.  A program alone (`ArrayBook` as long as it
need not wait for the user, `Bits`, `Signals` with the kernel's delivery, the taxi CLI)
simply runs.

## 4. Theorems

The theorems hold for every value of the constants that the named assumptions allow.
Every invariant, every action property and the safety part of every refinement that a
run checks is stated by one of them; the run shows it on a small instance, the theorem
for any number of drivers, clients, messages, restarts, kills and faults.

| property of a run | theorem | module |
|---|---|---|
| `TypeOK`, `TableMatchesKernel`, `MisdropNeedsStaleIndex`, `NoLossWithoutDeath`, `AvailableIsCurrent`; `Fleet` without its fairness | `TypeCorrect`, `TableCorrect`, `MisdropCorrect`, `NoLossCorrect`, `AvailableCorrect`; `FleetCorrect` | `TaxiControlProofs` |
| `TypeOK`, `StreamIsHistory`, `ScreensAgree` | `TypeCorrect`, `MembersHearTheHistory`, `ScreensInOneOrder` | `MqChatProofs` |
| `TypeOK`, `OneInside`, `AppendOnly`, `ScreenIsPrefix`, `PostedIsKept` | `TypeCorrect`, `MutualExclusion`, `LogAppendsOnly`, `ScreensShowTheLog`, `PostedStays` | `ShmChatProofs` |
| `TypeOK`, `NoCrossTalk`, `ConsecutiveNumbers`, `AnswersItsLine` | `TypeCorrect`, `EchoesOwnLines`, `AnswersInTurn`, `AnswersLastLine` | `EchoProofs` |
| `OneNodePerKey`, `ImplementsTally` | `OneNodeCorrect`, `Refinement`; `TableStaysInOrder`, `TableCounts` | `ClientTableProofs`; `ProgramsProofs` |
| `ProgramTypes`, `ComputedRight` | `ProgramsTypeCorrect`, `ComputedIsRight` | `ProgramsProofs` |
| `HeardRight`, `NothingLeft` | `MessagesHeardRight`, `NothingLeftBehind` | `ProgramsProofs` |
| `ToldIsSafe`, `ShellInStep`, `ModuleSound` | `ToldIsSafeToo`, `ShellRunsInStep`, `ModuleStaysSound` | `ProgramsProofs` |
| `ImplementsBook`, `TwoWayLinked`, `StaysInOrder` | `BooksAreBooks`, `ListStaysLinked`, `PanelsStayInOrder` | `ProgramsProofs` |

`ProcessProofs` and `SequentialProofs` also state the same of each small program by itself
(`QueueExchanged`, `SegmentExchanged`, `FifoExchanged`, `SignalsSafe`, `ShellInOrder`,
`ModuleIsSound`; `ArrayIsBook`, `ListIsBook`, `PanelsInOrder`, `BitsAreRight`,
`ArraysAreRight`, `InputTypeCorrect`, `PacketsAreRight`).

### Inductive invariants
Hardly any of the properties is inductive.  Each proof strengthens it to an invariant
that is, shows that the initial states satisfy it and that each action keeps it, one
lemma per action or per conjunct, and concludes.  TLC checked these invariants, or the
parts of them that it can evaluate, on the instances of section 3 before they were proved.

**TaxiControl.** That `waitpid()` finds the very entry needs that two entries share a pid
only if one was waited for; that the scan drops none but the dead needs to know what
`pfds[]` says of whom.  `IInv` adds

* `Bookkeeping` - entries are exactly the slots with a process, an entry in service is
  not reaped, pids of unreaped processes differ;
* `DriverLocals` - `busy` exactly while the timer is set, and the timer is read only
  when it expired;
* `PollIndex` - a `POLLHUP` once returned stays true, and who has no element of
  `pfds[]` is younger than all who have.

From it follow `TableCorrect`, `MisdropCorrect` (with a lemma on `Rank`: as long as no
earlier entry left, the running index of the scan finds an entry's own element),
`NoLossCorrect` (with `Calm`: no QUIT is queued before the shutdown, nobody hangs up),
`AvailableCorrect`, and `FleetCorrect`: every step of the controller is a step of one
cab of `Fleet` or none.

**MqChat.** A message is in at most three kinds of places on its way: a server queue, the
server's hands, and the streams of the clients (screen, what the receiver holds, its
queue, what the server is about to send it).  `IInv` says where the server's and the
clients' threads can be (`ServerLoops`, `ClientThreads`) and of the traffic that a request
is in the server queues once (`Once`), that nobody has seen what was not handled
(`NotYetSeen`, `NotYetJoined`), and that any two streams, the history among them, have
what both hold in one order (`InOrder`).  `ScreensAgree` alone speaks only of what
is shown; the step that shows a message needs to know it of what will be.

**ShmChat.** `OneInside` needs that the semaphore is 0 while somebody is inside
(`Exclusive`); `AppendOnly` and `PostedIsKept` need that a thread between two steps of a
post still has the first free entry (`WritesNext`), `TypeOK` that as long as nothing is
`broken` at most one client is between the test and the store of `client_count`, and each
client is counted once however it gets there (`Counted`) - the three threads of a client run
only in certain combinations (`Places`).  The bound of the semaphore, which every
restart of the server can raise above 1, is counted by the threads inside (`Bounded`).

**Echo.** `NoCrossTalk` follows from where packets can come from and go to (`ByServer`,
`OwnLines`).  `ConsecutiveNumbers` needs that a client that does not wait has nothing on
the way and one that does its last line or the answer, once (`OneByOne`), and that the
server's counter of a client is that of the last answer (`InTurn`), both as long as
nothing was duplicated, interrupted or, for the second, restarted.  What is needed of
the table is taken from `ClientTableProofs` under the instance.

**ClientTable.** `TableInv`: every list is of nodes for different keys, all of which hash
there.  For the refinement, `rawudp_ct_next` is `Count` and `rawudp_ct_reset` is `Forget`
of the abstract `Tally`: a walk for any other key, in the same list or another, finds
the node it found before.

**Exchanges.** `QInv`: as long as a queue can be found and nobody was killed, some server
is still to remove it (`QKept`).  `SInv`: for a server whose run no other server's
overlaps, what flag and text are at each step of it and of the clients that found its
segment (`Opening`, `Answering`, `Greeted`, ...).  `FInv`: whoever reads alone has a greeting
or a server that is about to write it (`FPromised`), and while the name is there,
somebody will see to its removal (`FKept`).

**Signals, Shell, ProcSysVar.** `GInv`: a signal pending after the id was told meets a
program that handles it or holds it back.  `ShInv`: the shell waits as often as it has
children and whoever holds a pipe end lives (`ChildrenCounted`); the lines run, those in
the buffer of `stdin` and the offset follow one another, in one go or, when one line
gives the rest back, in two (`InOneGo`, `InTwo`).  `KInv`: which entries each step of
loading and unloading leaves, that whoever is inside keeps the module in, and that
what was read so far is the beginning of one value's digits.

**Phone books.** `ArrayTypeOK` is inductive, and listing, adding and removing are those of
`PhoneBook` on the first `abonent_count` entries.  For the list, `ListKept` says that there
is a sequence of cells, without repetition, which the links lead through in both
directions and which holds every live cell (`Chained`); adding hangs a cell behind it,
removing takes one out, and the entries in that order are the abstract sequence.
`Walk`, the operator the properties are stated with, is shown to return it, and the walk
of `remove_abonent()` to stop at the entry listed under the number typed (`ReachedFacts`).
The two books are refined under one property; the one that does not run stays empty.

**Panels.** `PInv`: each panel has at most `MAX_FILES` entries and is in order unless its
names were freed.

**Bits, Arrays, Packets.** `BInv`: below `shift` zeroes were turned into ones, above it
nothing changed (`Borrowing`); ones counted and ones left are all (`Counting`).  `AInv`:
after `t` turns the four bounds enclose exactly the cells without a number, the numbers
lie along a path, and the next side starts next to its end (`Spiral`); the elements up
to the present one and their mirror images have changed places (`Turning`).  `PkInv`: the
sum of the words taken so far is `pksum` plus a multiple of all ones (`SumKept`), which
folding the carries keeps; the checksum then completes it to a multiple.

### How recursion is dealt with
The provers cannot use an induction theorem that takes an operator as a parameter.
Where an argument is by induction it is by the least counterexample instead:
`LeastNumber` says that a non-empty set of natural numbers has a least element (`<` on
`Nat` is well-founded, a fact of the library without an operator parameter), and
`RecurrenceExists` builds from it, for a first value and a step, the function that a
recursive definition chooses.  `ValueOf` and `OnesSum` are reasoned about in that way.

### Assumptions
They are the `ASSUME`s of the modules, evaluated by TLC on every run, and say what the
code's types and sizes say: limits are positive numbers; servers and clients are
different processes; the packet sizes of `EchoAssumption` leave room for a counter; an
"exit" in a script of `ShellAssumption` is alone in its line.  Sets are finite where a
counter of the code counts their elements (the clients of the shared segment, the
servers of an exchange over a segment or a FIFO, the cells of the heap, the entries of
a directory, the values of the module's variable).

### What stays with TLC
Liveness is out of the prover's reach, as is `ENABLED`: `DeadDriverForgotten`,
`AllDriversExit`, `ServerServes`, `StopReleasesAll`, `WordEmptiesBook`, `ExchangesEnd`,
`ProgramsGoOn`, `Answered`, `EchoesEnd`, and the fairness half of `ImplementsFleet`.  So
do the two findings, which TLC refutes.

## 5. Findings

* `TaxiNoSuch` - `main.c:378-393` walks `pfds[]` with an index that counts the entries
  alive *now*, though a command of the same iteration may have marked an earlier one
  dead (`:208-212`).  The next driver is then served with the dead one's `POLLHUP` and
  dropped although it runs; the CLI says "Error NoSuchDriver" of it from then on.
  `MisdropNeedsStaleIndex`, checked and proved, says that this and the driver created in
  the same iteration (which reads behind the array) are the only ways.  A dropped
  driver still ends: `AllDriversExit`.
* `MqReject` - `client_count` is never decremented (`chat_server.c:52`), so "Too many
  clients" is said of an empty room after `MAX_CLIENTS` joins.

Seen while reading and not modelled: the CLI serves `POLLHUP` before `POLLIN` (`main.c:382`),
so the last answers of a driver that died are never printed, which nothing promises; `echo_client.c:52` computes the UDP checksum with
the source 0.0.0.0, which the kernel later replaces (a raw receiver does not look at
it).

What the models of the small programs show, and their properties spell out as the
condition under which the rest holds: a word instead of a number empties the array book
(`WordEmptiesBook`); a POSIX queue server can take its own greeting (`QDirectionsApart`);
lines of a script run twice (`RunAsRead`); names are used after they were freed when a
directory cannot be opened (`StaysInOrder`); checksums are stored in the host's byte order
(`ChecksumVerifies`); a negative number is halved for ever (`LoopsEnd`); digits of two values
can meet in one read of procfs (`ReadsWhole`); a FIFO server waits for ever when its name
was removed (`FMetEnds`).

In one place comments of the repository say otherwise, and no run is spent on it because it
shows at once: `bits.c:39` announces the direct code of a negative number, `:42` and `:49`
say that it is computed by inverting and `:53` that it is printed.  The direct code has
the sign 1; the complement of `:49` inverts the sign with the other bits, so that a 0 is
printed before the digits (-5 and 5 are shown alike).  `BitsRight` promises the digits
below the sign and nothing of the sign.

Some hazards of the code are outside of every property; `hazards` in `PROJECT.json` says
of each why.  They are: clients of an earlier start that go on beside those of the new one
(message queues), a server started over attached clients (shared memory), a segment left
over by a killed server of the exchange, digits of two values in one read of procfs.

## 6. Plan

1. *(done)* taxi controller, both chats, echo; first proofs.
2. *(done)* the smaller programs, and the refinements of `PhoneBook`.
3. *(done)* proofs: the types, safety invariants, step properties and refinements of
   every component, for every value of the constants.
4. Open: shorter arguments where a proof is by brute case distinction (`InTwo` of the
   shell, `OneOnItsWay` of the echo), and the safety half of the liveness that only TLC
   checks: in `MqChat`, who can wait for whom; in `Bits` and `Arrays`, the measure that
   each iteration lowers.
