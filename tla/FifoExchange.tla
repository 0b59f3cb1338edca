----------------------------- MODULE FifoExchange ------------------------------
(* src/channels/fifo-server.c with fifo-client.c: a server leaves "Hi!" for a client *)
(* in a FIFO in the file system.  Each process runs once, at any time.  What the     *)
(* kernel does with a FIFO is external: an open() waits for one from the other side, *)
(* and what is in the FIFO is lost with the last that has it open.                   *)
EXTENDS Naturals, Sequences, FiniteSets

CONSTANTS
    FServers, FClients, \* processes
    FMaxKills           \* bound: processes that are killed

ASSUME FifoExchangeAssumption ==
    FServers \cap FClients = {} /\ IsFiniteSet(FServers) /\ FMaxKills \in Nat

FProcesses == FServers \cup FClients
NoFifo     == 0

VARIABLES
    fnamed,             \* the FIFO that "myfifo" is
    fifos,              \* all FIFOs ever created: the greetings in each
    fpc,                \* each process: its next system call
    fown,               \* the FIFO it has open, or waits to open
    fheard,             \* a client's buf: "greeting", or "stack", what was there before
    fkills

fVars == <<fnamed, fifos, fpc, fown, fheard, fkills>>

FTypeOK ==
    /\ fnamed \in 0 .. Len(fifos) /\ fifos \in Seq(0 .. Cardinality(FServers))
    /\ fpc \in [FProcesses -> {"start", "open", "opening", "write", "read", "unlink", "end", "killed"}]
    /\ fown \in [FProcesses -> 0 .. Len(fifos)]
    /\ fheard \in [FClients -> {"stack", "greeting"}] /\ fkills \in 0 .. FMaxKills

FInit ==
    /\ fnamed = NoFifo /\ fifos = <<>>
    /\ fpc = [p \in FProcesses |-> "start"] /\ fown = [p \in FProcesses |-> NoFifo]
    /\ fheard = [c \in FClients |-> "stack"] /\ fkills = 0

FOpened(group, f) == {p \in group : fown[p] = f /\ fpc[p] \in {"opening", "write", "read"}}
FReaders(f) == FOpened(FClients, f)
\* (Mutant: clients open with O_RDWR.)
WritersRdwr(f) == FOpened(FProcesses, f)
FWriters(f) == FOpened(FServers, f)

\* The processes of gone no longer have f open.
FContent(f, gone) == IF FOpened(FProcesses, f) \subseteq gone THEN 0 ELSE fifos[f]

\* mkfifo(); that there is one already is only reported.
MakeFifo(s) ==
    /\ fpc[s] = "start" /\ fpc' = [fpc EXCEPT ![s] = "open"]
    /\ IF fnamed = NoFifo
       THEN fifos' = Append(fifos, 0) /\ fnamed' = Len(fifos')
       ELSE UNCHANGED <<fnamed, fifos>>
    /\ UNCHANGED <<fown, fheard, fkills>>

\* What open() waits for.
\* (Mutant: a client opens with O_NONBLOCK.)
Unawaited(p, f) == p \in FClients \/ FReaders(f) # {}
FMet(p, f) == IF p \in FClients THEN FWriters(f) # {} ELSE FReaders(f) # {}

\* open(), on the name as it is now, fails or takes effect on the others at once: who
\* waits for this side goes on.
FReady(p) == IF p \in FServers THEN "write" ELSE "read"
OpenFifo(p) ==
    /\ fpc[p] = IF p \in FServers THEN "open" ELSE "start"
    /\ IF fnamed = NoFifo
       THEN fpc' = [fpc EXCEPT ![p] = "end"] /\ UNCHANGED fown
       ELSE /\ fown' = [fown EXCEPT ![p] = fnamed]
            /\ fpc' = [o \in FProcesses |->
                 CASE o = p -> IF FMet(p, fnamed) THEN FReady(p) ELSE "opening"
                   [] o # p /\ fpc[o] = "opening" /\ fown[o] = fnamed
                            /\ (o \in FServers <=> p \in FClients) -> FReady(o)
                   [] OTHER -> fpc[o]]
    /\ UNCHANGED <<fnamed, fifos, fheard, fkills>>

\* write() and close(); without a reader it is death by SIGPIPE.
WriteGreeting(s) ==
    /\ fpc[s] = "write"
    /\ IF FReaders(fown[s]) = {}
       THEN /\ fpc' = [fpc EXCEPT ![s] = "killed"]
            /\ fifos' = [fifos EXCEPT ![fown[s]] = FContent(fown[s], {s})]
       ELSE /\ fpc' = [fpc EXCEPT ![s] = "end"]
            /\ fifos' = [fifos EXCEPT ![fown[s]] = @ + 1]
    /\ UNCHANGED <<fnamed, fown, fheard, fkills>>

\* read() takes all there is and waits for more than nothing as long as there is a
\* writer; without one buf stays as it is.  Then close().
ReadGreeting(c) ==
    /\ fpc[c] = "read" /\ (fifos[fown[c]] > 0 \/ FWriters(fown[c]) = {})
    /\ fpc' = [fpc EXCEPT ![c] = "unlink"]
    /\ fheard' = [fheard EXCEPT ![c] = IF fifos[fown[c]] > 0 THEN "greeting" ELSE "stack"]
    /\ fifos' = [fifos EXCEPT ![fown[c]] = 0]
    /\ UNCHANGED <<fnamed, fown, fkills>>

\* unlink() of the name, whichever FIFO it is now.
\* (Mutant: the name stays.)
NameStays == fnamed' = fnamed
NameGoes == fnamed' = NoFifo

UnlinkFifo(c) ==
    /\ fpc[c] = "unlink" /\ fpc' = [fpc EXCEPT ![c] = "end"] /\ NameGoes
    /\ UNCHANGED <<fifos, fown, fheard, fkills>>

FActive == {p \in FProcesses : fpc[p] \notin {"start", "end", "killed"}}

FKill(p) ==
    /\ p \in FActive /\ fkills < FMaxKills /\ fkills' = fkills + 1
    /\ fpc' = [fpc EXCEPT ![p] = "killed"]
    /\ fifos' = IF fown[p] = NoFifo THEN fifos
                ELSE [fifos EXCEPT ![fown[p]] = FContent(fown[p], {p})]
    /\ UNCHANGED <<fnamed, fown, fheard>>

\* What a process does once the user has started it.
FProceeds(p) ==
    \/ p \in FServers /\ ((fpc[p] = "open" /\ OpenFifo(p)) \/ WriteGreeting(p))
    \/ p \in FClients /\ (ReadGreeting(p) \/ UnlinkFifo(p))

FStarts(p) == IF p \in FServers THEN MakeFifo(p) ELSE fpc[p] = "start" /\ OpenFifo(p)

FNext == \E p \in FProcesses : FProceeds(p) \/ FStarts(p) \/ FKill(p)

FFairness == \A p \in FProcesses : WF_fVars(FProceeds(p))

FSpec == FInit /\ [][FNext]_fVars /\ FFairness

-------------------------------------------------------------------------------
FOthers(p, group) == {o \in group \ {p} : fown[o] = fown[p]}

\* A client that shares its FIFO with no other prints a greeting, and never what was
\* on its stack, however many servers come and go, one of them by SIGPIPE.
GreetingIsHeard ==
    \A c \in FClients :
      fpc[c] \in {"unlink", "end"} /\ fown[c] # NoFifo /\ FOthers(c, FClients) = {} /\ fkills = 0
        => fheard[c] = "greeting"

\* When all have ended by themselves, no FIFO is left in the file system.
FNothingLeft == FActive = {} /\ fkills = 0 => fnamed = NoFifo

\* Who met the other side ends: only an open() can wait for ever, for a FIFO whose
\* name a client of another server removed.
FMetEnds == \A p \in FProcesses : (fpc[p] \in {"write", "read", "unlink"}) ~> (p \notin FActive)
===============================================================================
