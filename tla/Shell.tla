-------------------------------- MODULE Shell ---------------------------------
(* src/channels/interpreter.c, and src/processes/task3.c for lines without a "|":  *)
(* a shell that reads a line, runs its one or two commands as children and waits   *)
(* for them.  Its standard input, a file or a pipe, is buffered in the shell and   *)
(* shared with the children, each of which has a copy of the buffer.               *)
EXTENDS Integers, Sequences, FiniteSets, SequencesExt

CONSTANTS
    Scripts,            \* what standard input may hold: sequences of lines of one length
    MaxRan              \* bound: lines that are run

\* A line is the sequence of its commands, one or two; <<>> is an empty line.  "exit"
\* alone ends the shell.  A "bad" command is one that execvp() does not find, which
\* an "exit" beside a "|" is too.
Commands == {"good", "bad", "exit"}

ASSUME ShellAssumption ==
    /\ Scripts \subseteq Seq(Seq(Commands))
    /\ \A s \in Scripts : \A i \in DOMAIN s :
         /\ Len(s[i]) <= 2
         /\ \A k \in DOMAIN s[i] : s[i][k] = "exit" => s[i] = <<"exit">>
    /\ MaxRan \in Nat

VARIABLES
    shinput,            \* what standard input is: "file" or "pipe"
    shscript,
    shoffset,           \* the lines before the offset of standard input
    shbuffer,           \* the lines read() and not yet taken by fgets()
    shran,              \* the lines run so far
    shpc,               \* the shell: "read", "fork", "close", "wait", "end"
    shjobs,             \* the children: "new", "runs" or "zombie"; 1 is the left one
    shends,             \* who has the write end of the pipe; 0 is the shell
    shwaits             \* calls of wait() to go

shVars == <<shinput, shscript, shoffset, shbuffer, shran, shpc, shjobs, shends, shwaits>>

ShTypeOK ==
    /\ shinput \in {"file", "pipe"} /\ shscript \in Scripts
    /\ shoffset \in 0 .. Len(shscript)
    /\ \A i \in DOMAIN shbuffer : shbuffer[i] \in DOMAIN shscript
    /\ \A i \in DOMAIN shran : shran[i] \in DOMAIN shscript
    /\ shpc \in {"read", "fork", "close", "wait", "end"}
    /\ DOMAIN shjobs \subseteq {1, 2} /\ \A j \in DOMAIN shjobs : shjobs[j] \in {"new", "runs", "zombie"}
    /\ shends \subseteq {0, 1, 2} /\ shwaits \in 0 .. 2

ShInit ==
    /\ shinput \in {"file", "pipe"} /\ shscript \in Scripts
    /\ shoffset = 0 /\ shbuffer = <<>> /\ shran = <<>>
    /\ shpc = "read" /\ shjobs = [j \in {} |-> "new"] /\ shends = {} /\ shwaits = 0

Row      == shscript[shran[Len(shran)]]         \* line, while it runs
HasPipe  == Len(Row) = 2

\* One read() fills the buffer with all there is.  A pipe may have to be waited for.
Refilled == IF shbuffer # <<>> THEN shbuffer ELSE [i \in 1 .. Len(shscript) - shoffset |-> shoffset + i]

\* fgets() and what is done with the line before the fork.
ReadLine ==
    /\ shpc = "read" /\ Len(shran) < MaxRan
    /\ shoffset' = IF shbuffer = <<>> THEN Len(shscript) ELSE shoffset
    /\ IF Refilled = <<>> \/ shscript[Head(Refilled)] = <<"exit">>
       THEN shpc' = "end" /\ shbuffer' = Refilled /\ UNCHANGED <<shran, shends>>
       ELSE LET line == shscript[Head(Refilled)] IN
            /\ shbuffer' = Tail(Refilled) /\ shran' = Append(shran, Head(Refilled))
            /\ shpc' = IF line = <<>> THEN "read" ELSE "fork"
            /\ shends' = IF Len(line) = 2 THEN {0} ELSE {}
    /\ UNCHANGED <<shinput, shscript, shjobs, shwaits>>

\* (Mutant: one wait for both children.)
OneWait == 1
Waits == IF HasPipe THEN 2 ELSE 1

\* fork(), which may fail; after the last one the shell closes the pipe and waits.
\* Without a pipe it waits even if there is no child, which wait() does not do.
Forks(j) ==
    /\ shpc = "fork" /\ j = IF HasPipe /\ shwaits = 0 THEN 1 ELSE Len(Row)
    /\ \/ /\ shjobs' = [i \in DOMAIN shjobs \cup {j} |-> IF i = j THEN "new" ELSE shjobs[i]]
          /\ shends' = IF HasPipe THEN shends \cup {j} ELSE shends
       \/ UNCHANGED <<shjobs, shends>>
    /\ shpc' = IF j = Len(Row) THEN "close" ELSE "fork"
    /\ shwaits' = IF j = Len(Row) THEN Waits ELSE 1
    /\ UNCHANGED <<shinput, shscript, shoffset, shbuffer, shran>>

CloseEnds ==
    /\ shpc = "close" /\ shpc' = "wait" /\ shends' = shends \ {0}
    /\ UNCHANGED <<shinput, shscript, shoffset, shbuffer, shran, shjobs, shwaits>>

\* wait(): any child that ended, or no child at all.
WaitChild ==
    /\ shpc = "wait"
    /\ IF shwaits = 0
       THEN shpc' = "read" /\ UNCHANGED <<shjobs, shwaits>>
       ELSE /\ \/ \E j \in DOMAIN shjobs :
                    shjobs[j] = "zombie" /\ shjobs' = [i \in DOMAIN shjobs \ {j} |-> shjobs[i]]
               \/ DOMAIN shjobs = {} /\ UNCHANGED shjobs
            /\ shwaits' = shwaits - 1 /\ UNCHANGED shpc
    /\ UNCHANGED <<shinput, shscript, shoffset, shbuffer, shran, shends>>

\* The right child has closed both ends when it calls execvp(); the left one has the
\* write end as its standard output.
\* (Mutant: the right child closes the read end only.)
KeepsEnds(j) == {j}
EndsKept(j) == IF HasPipe /\ j = 2 THEN {} ELSE {j}

\* exit(1) gives back what the copy of the buffer holds: lseek() by as much, which is
\* not possible in a pipe, nor before the start.  The right child's standard input is
\* the pipe.
\* (Mutant: it is still the shell's.)
GivenBackByAny(j) ==
    IF shinput = "file" /\ Len(shbuffer) <= shoffset THEN shoffset - Len(shbuffer) ELSE shoffset
GivenBack(j) ==
    IF shinput = "file" /\ (HasPipe => j = 1) /\ Len(shbuffer) <= shoffset
    THEN shoffset - Len(shbuffer) ELSE shoffset

Execs(j) ==
    /\ j \in DOMAIN shjobs /\ shjobs[j] = "new"
    /\ IF Row[j] = "good"
       THEN /\ shjobs' = [shjobs EXCEPT ![j] = "runs"]
            /\ shends' = (shends \ {j}) \cup (shends \cap EndsKept(j))
            /\ UNCHANGED shoffset
       ELSE /\ shjobs' = [shjobs EXCEPT ![j] = "zombie"]
            /\ shends' = shends \ {j} /\ shoffset' = GivenBack(j)
    /\ UNCHANGED <<shinput, shscript, shbuffer, shran, shpc, shwaits>>

\* A command ends, one that reads from the pipe at the end of its input.  (Commands
\* do not read the shell's standard input.)
Ends(j) ==
    /\ j \in DOMAIN shjobs /\ shjobs[j] = "runs"
    /\ HasPipe /\ j = 2 => shends = {}
    /\ shjobs' = [shjobs EXCEPT ![j] = "zombie"] /\ shends' = shends \ {j}
    /\ UNCHANGED <<shinput, shscript, shoffset, shbuffer, shran, shpc, shwaits>>

ShStep == ReadLine \/ CloseEnds \/ WaitChild \/ \E j \in {1, 2} : Forks(j)
ChildStep(j) == Execs(j) \/ Ends(j)

ShNext == ShStep \/ \E j \in {1, 2} : ChildStep(j)

\* Shell and children run, and every command ends when nothing keeps it.
ShFairness == WF_shVars(ShStep) /\ \A j \in {1, 2} : WF_shVars(ChildStep(j))

ShSpec == ShInit /\ [][ShNext]_shVars /\ ShFairness

-------------------------------------------------------------------------------
\* No child is left behind, running or unwaited for, when the shell comes back to
\* its prompt, also when a fork failed.
NoChildAtPrompt == shpc \in {"read", "end"} => DOMAIN shjobs = {} /\ shends = {}

\* Commands of line i that are children with the shell's standard input.
OnInput(i) == IF shscript[i] = <<>> THEN {} ELSE {shscript[i][1]}
GivesBack == {i \in DOMAIN shscript : shscript[i] # <<"exit">> /\ "bad" \in OnInput(i)}

\* A script is run line by line, once.  Only a command that is not found, and that has
\* the script itself as its standard input, changes that: if there is one such line,
\* those behind it are run once more.
Once  == [i \in DOMAIN shscript |-> i]
Twice == Once \o [k \in 1 .. Len(shscript) - Min(GivesBack) |-> Min(GivesBack) + k]
RunAsRead ==
    /\ shinput = "pipe" \/ GivesBack = {} => IsPrefix(shran, Once)
    /\ shinput = "file" /\ Cardinality(GivesBack) = 1 => IsPrefix(shran, Twice)

\* A script of good commands and at most one that is not found comes to its end: no
\* child keeps a pipe open for which another waits.
ScriptEnds == (shpc = "fork" /\ Cardinality(GivesBack) <= 1) ~> shpc = "end"
===============================================================================
