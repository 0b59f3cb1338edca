--------------------------- MODULE SegmentExchange ----------------------------
(* src/shared_memory/server_posix.c with client_posix.c, and server_sysv.c with    *)
(* client_sysv.c: server and client pass a text back and forth in a shared segment  *)
(* under a flag that both poll.  Flag and text are plain memory: a text is copied   *)
(* half by half, and an optimizing build may drop a store.                          *)
EXTENDS Naturals, Sequences, FiniteSets

CONSTANTS
    SServers, SClients, \* processes, each of which runs once
    SMaxRuns,           \* bound: processes that run
    SMaxKills           \* bound: processes that are killed

ASSUME SegmentExchangeAssumption ==
    SServers \cap SClients = {} /\ IsFiniteSet(SServers) /\ {SMaxRuns, SMaxKills} \subseteq Nat

SProcesses == SServers \cup SClients
NoSegment  == 0
Silence    == <<"", "">>
Hi         == <<"Hi!", "Hi!">>
Hello      == <<"Hello!", "Hello!">>

VARIABLES
    sapi,               \* which pair of programs: "posix" or "sysv"
    snamed,             \* the segment that SHM_NAME or the key stands for
    segments,           \* all segments ever created: size set or not, flag and text
    spc,                \* each process: what it does next
    sown,               \* its segment
    sheard,             \* the text it printed that the other side wrote
    skills

sVars == <<sapi, snamed, segments, spc, sown, sheard, skills>>

Texts == {"", "Hi!", "Hello!"} \X {"", "Hi!", "Hello!"}

STypeOK ==
    /\ sapi \in {"posix", "sysv"} /\ snamed \in 0 .. Len(segments)
    /\ segments \in Seq([sized : BOOLEAN, flag : 0 .. 2, text : Texts])
    /\ spc \in [SProcesses -> {"start", "size", "clear", "copy", "copied", "flag", "poll",
                               "print", "remove", "end", "killed"}]
    /\ \A p \in SProcesses : sown[p] \in 0 .. Len(segments)
    /\ sheard \in [SProcesses -> Texts] /\ skills \in 0 .. SMaxKills

SInit ==
    /\ sapi \in {"posix", "sysv"} /\ snamed = NoSegment /\ segments = <<>>
    /\ spc = [p \in SProcesses |-> "start"]
    /\ sown = [p \in SProcesses |-> NoSegment]
    /\ sheard = [p \in SProcesses |-> Silence] /\ skills = 0

MoreRun == Cardinality({p \in SProcesses : spc[p] # "start"}) < SMaxRuns

SGoes(p, to) == spc' = [spc EXCEPT ![p] = to]

\* shm_open(), shmget() with O_CREAT, IPC_CREAT: a new segment is zeroed, one that
\* is still there is as it was.  A POSIX one has no size yet.
CreateSegment(s) ==
    /\ spc[s] = "start" /\ MoreRun /\ SGoes(s, IF sapi = "posix" THEN "size" ELSE "clear")
    /\ IF snamed = NoSegment
       THEN /\ segments' = Append(segments, [sized |-> sapi = "sysv", flag |-> 0, text |-> Silence])
            /\ snamed' = Len(segments')
       ELSE UNCHANGED <<segments, snamed>>
    /\ sown' = [sown EXCEPT ![s] = snamed']
    /\ UNCHANGED <<sapi, sheard, skills>>

\* A client opens what is there, or gives up.
OpenSegment(c) ==
    /\ spc[c] = "start" /\ MoreRun /\ SGoes(c, IF snamed = NoSegment THEN "end" ELSE "poll")
    /\ sown' = [sown EXCEPT ![c] = snamed]
    /\ UNCHANGED <<sapi, snamed, segments, sheard, skills>>

Seg(p) == segments[sown[p]]

\* ftruncate()
SetSize(s) ==
    /\ spc[s] = "size" /\ SGoes(s, "clear")
    /\ segments' = [segments EXCEPT ![sown[s]].sized = TRUE]
    /\ UNCHANGED <<sapi, snamed, sown, sheard, skills>>

\* data->flag = 0, which is overwritten without being read and may be dropped.
ClearFlag(s) ==
    /\ spc[s] = "clear" /\ SGoes(s, "copy")
    /\ \/ segments' = [segments EXCEPT ![sown[s]].flag = 0]
       \/ UNCHANGED segments
    /\ UNCHANGED <<sapi, snamed, sown, sheard, skills>>

Says(p) == IF p \in SServers THEN Hi ELSE Hello

\* strncpy() of "Hi!" or "Hello!", in halves, and then the flag.
CopyHalf(p, half, to) ==
    /\ segments' = [segments EXCEPT ![sown[p]].text[half] = Says(p)[half]]
    /\ SGoes(p, to)

\* (Mutant: the server sets the flag before the text.)
SetsFlagFirst(p) ==
    \/ spc[p] = "copy" /\ SGoes(p, "copied")
         /\ segments' = [segments EXCEPT ![sown[p]].flag = IF p \in SServers THEN 1 ELSE 2]
    \/ spc[p] = "copied" /\ CopyHalf(p, 1, "flag")
    \/ spc[p] = "flag" /\ CopyHalf(p, 2, IF p \in SServers THEN "poll" ELSE "end")
Speaks(p) ==
    \/ spc[p] = "copy" /\ CopyHalf(p, 1, "copied")
    \/ spc[p] = "copied" /\ CopyHalf(p, 2, "flag")
    \/ spc[p] = "flag" /\ SGoes(p, IF p \in SServers THEN "poll" ELSE "end")
         /\ segments' = [segments EXCEPT ![sown[p]].flag = IF p \in SServers THEN 1 ELSE 2]

Speak(p) == Speaks(p) /\ UNCHANGED <<sapi, snamed, sown, sheard, skills>>

\* The flag each side waits for.
\* (Mutant: the server takes the first change of the flag for the reply.)
AwaitsAny(p) == IF p \in SServers THEN {1, 2} ELSE {1}
\* (Mutant: the client waits for the reply's flag.)
AwaitsReply(p) == {2}
Awaits(p) == IF p \in SServers THEN {2} ELSE {1}

\* A segment without a size is death by SIGBUS.
Poll(p) ==
    /\ spc[p] = "poll"
    /\ \/ ~Seg(p).sized /\ SGoes(p, "killed")
       \/ Seg(p).sized /\ Seg(p).flag \in Awaits(p) /\ SGoes(p, "print")
    /\ UNCHANGED <<sapi, snamed, segments, sown, sheard, skills>>

PrintText(p) ==
    /\ spc[p] = "print" /\ SGoes(p, IF p \in SServers THEN "remove" ELSE "copy")
    /\ sheard' = [sheard EXCEPT ![p] = Seg(p).text]
    /\ UNCHANGED <<sapi, snamed, segments, sown, skills>>

\* shm_unlink() removes the name, whichever segment it stands for now; IPC_RMID
\* the server's own segment.  Who is attached stays so.
RemoveSegment(s) ==
    /\ spc[s] = "remove" /\ SGoes(s, "end")
    /\ snamed' = IF sapi = "posix" \/ snamed = sown[s] THEN NoSegment ELSE snamed
    /\ UNCHANGED <<sapi, segments, sown, sheard, skills>>

SActive == {p \in SProcesses : spc[p] \notin {"start", "end", "killed"}}

SKill(p) ==
    /\ p \in SActive /\ skills < SMaxKills
    /\ SGoes(p, "killed") /\ skills' = skills + 1
    /\ UNCHANGED <<sapi, snamed, segments, sown, sheard>>

\* What a process does once the user has started it.
SProceeds(p) ==
    \/ p \in SServers /\ SetSize(p)
    \/ p \in SServers /\ ClearFlag(p)
    \/ p \in SServers /\ RemoveSegment(p)
    \/ Speak(p) \/ Poll(p) \/ PrintText(p)

SNext ==
    \E p \in SProcesses :
      \/ SProceeds(p) \/ SKill(p)
      \/ p \in SServers /\ CreateSegment(p)
      \/ p \in SClients /\ OpenSegment(p)

SFairness == \A p \in SProcesses : WF_sVars(SProceeds(p))

SSpec == SInit /\ [][SNext]_sVars /\ SFairness

-------------------------------------------------------------------------------
Sharing(p, group) == {o \in group \ {p} : sown[o] = sown[p]}

\* A server that no other server's run overlaps, dead ones included, prints the
\* whole of a reply, however many clients write theirs at once.
WholeReply ==
    \A s \in SServers : sheard[s] # Silence /\ Sharing(s, SServers) = {} => sheard[s] = Hello

\* A client that is alone with one server prints the whole of the greeting, and
\* not its own reply.
WholeGreeting ==
    \A c \in SClients :
      sheard[c] # Silence /\ Sharing(c, SClients) = {} /\ Cardinality(Sharing(c, SServers)) = 1
        => sheard[c] = Hi

\* One client that lives is enough for a server without rivals to end.
ReplyComes ==
    \A s \in SServers :
      (s \in SActive /\ \E c \in Sharing(s, SClients) : c \in SActive)
        ~> (s \notin SActive \/ Sharing(s, SServers) # {} \/ skills > 0
              \/ \A c \in Sharing(s, SClients) : spc[c] = "killed")
===============================================================================
