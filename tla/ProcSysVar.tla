------------------------------ MODULE ProcSysVar -------------------------------
(* src/modules/proc_sys_var.c: a kernel module with one integer that can be read    *)
(* and written as /proc/myvar and as /sys/kernel/myvar/myvar, while the module is    *)
(* loaded, fails to load, or is taken out.                                           *)
EXTENDS Integers, Sequences, FiniteSets

CONSTANTS
    KUsers,             \* processes that use the two files
    KValues,            \* ints they write; 0 is the first value
    KCounts             \* the sizes of the buffers they read into

ASSUME ProcSysVarAssumption ==
    /\ KValues \subseteq Nat /\ IsFiniteSet(KValues)
    /\ KCounts \subseteq Nat \ {0}

Memory == KValues \cup {0}
Nobody == "nobody"

VARIABLES
    kstate,             \* the next step of loading or unloading; "in", "out"
    kfiles,             \* the entries that are there: "proc", "kobj", "sysfs"
    myvar,
    myvar_lock,         \* who holds the mutex
    kpc,                \* each process: "idle", or where it is in a handler
    kcall,              \* its call: "read" and "write" of procfs, "show" and "store"
    karg,               \* the count of a read, the number a write is about
    kopen,              \* it has procfs open and reads on
    kread,              \* the characters it has read since it opened a file
    kseen,              \* the values of myvar since then
    kdone               \* the file was read to its end

kVars == <<kstate, kfiles, myvar, myvar_lock, kpc, kcall, karg, kopen, kread, kseen, kdone>>
kModuleVars == <<kstate, kfiles>>
kReaderVars == <<kopen, kread, kseen, kdone>>

\* printf("%d\n"): the digits of an int, at most ten, and a character that is none.
Newline == 10
DigitCount(n) == 1 + Cardinality({d \in 1 .. 9 : 10 ^ d <= n})
Formatted(n)  ==
    [i \in 1 .. DigitCount(n) + 1 |->
       IF i > DigitCount(n) THEN Newline ELSE (n \div 10 ^ (DigitCount(n) - i)) % 10]

KTypeOK ==
    /\ kstate \in {"out", "kobj", "sysfs", "in", "undo", "unsysfs", "unkobj", "unproc"}
    /\ kfiles \subseteq {"proc", "kobj", "sysfs"}
    /\ myvar \in Memory /\ myvar_lock \in KUsers \cup {Nobody}
    /\ kpc \in [KUsers -> {"idle", "lock", "unlock", "leave"}]
    /\ kcall \in [KUsers -> {"read", "write", "show", "store"}]
    /\ \A u \in KUsers : karg[u] \in Memory \cup KCounts
    /\ \A u \in KUsers : Len(kread[u]) <= 11
    /\ kseen \in [KUsers -> SUBSET Memory]
    /\ {kdone, kopen} \subseteq [KUsers -> BOOLEAN]

KInit ==
    /\ kstate = "out" /\ kfiles = {} /\ myvar = 0 /\ myvar_lock = Nobody
    /\ kpc = [u \in KUsers |-> "idle"] /\ kcall = [u \in KUsers |-> "read"]
    /\ karg = [u \in KUsers |-> 0] /\ kread = [u \in KUsers |-> <<>>]
    /\ kseen = [u \in KUsers |-> {}] /\ kdone = [u \in KUsers |-> FALSE]
    /\ kopen = [u \in KUsers |-> FALSE]

-------------------------------------------------------------------------------
(* proc_sys_init(), proc_sys_exit() *)

FileOf(u) == IF kcall[u] \in {"read", "write"} THEN "proc" ELSE "sysfs"
Inside(file) == {u \in KUsers : kpc[u] # "idle" /\ FileOf(u) = file}

\* What the kernel promises of a removal: new calls are refused, calls under way are
\* waited for.  A directory takes its files along.
Removes(files, next) ==
    /\ kfiles' = kfiles \ files
    /\ kstate' = next

\* A file of an earlier load that is still open is dead.
LoadProc ==
    /\ kstate = "out" /\ myvar' = 0 /\ kopen' = [u \in KUsers |-> FALSE]
    /\ \/ kstate' = "kobj" /\ kfiles' = {"proc"}
       \/ UNCHANGED kModuleVars

LoadKobj ==
    /\ kstate = "kobj"
    /\ \/ kstate' = "sysfs" /\ kfiles' = kfiles \cup {"kobj"}
       \/ kstate' = "undo" /\ UNCHANGED kfiles
    /\ UNCHANGED <<myvar, kopen>>

LoadSysfs ==
    /\ kstate = "sysfs"
    /\ \/ kstate' = "in" /\ kfiles' = kfiles \cup {"sysfs"}
       \/ kstate' = "undo" /\ kfiles' = kfiles \ {"kobj"}
    /\ UNCHANGED <<myvar, kopen>>

\* The load gives up: proc_remove(), then the module's memory is freed.
\* (Mutant: the entry stays.)
KeepsProc == kstate = "undo" /\ kstate' = "out" /\ UNCHANGED kfiles
UndoProc ==
    /\ kstate = "undo"
    /\ \/ "proc" \in kfiles /\ Removes({"proc"}, "undo")
       \/ "proc" \notin kfiles /\ Inside("proc") = {} /\ kstate' = "out" /\ UNCHANGED kfiles

Unload ==
    \/ kstate = "in" /\ Removes({"sysfs"}, "unsysfs")
    \/ kstate = "unsysfs" /\ Inside("sysfs") = {} /\ Removes({"kobj"}, "unkobj")
    \/ kstate = "unkobj" /\ Removes({"proc"}, "unproc")
    \/ kstate = "unproc" /\ Inside("proc") = {} /\ kstate' = "out" /\ UNCHANGED kfiles

KModuleStep ==
    /\ \/ LoadProc \/ LoadKobj \/ LoadSysfs
       \/ (UndoProc \/ Unload) /\ UNCHANGED <<myvar, kopen>>
    /\ UNCHANGED <<myvar_lock, kpc, kcall, karg, kread, kseen, kdone>>

-------------------------------------------------------------------------------
(* Users of the files *)

\* A process opens a file, or reads on where the last read of the same file ended.
KCalls(u, call, arg) ==
    /\ kpc[u] = "idle"
    /\ (IF call \in {"read", "write"} THEN "proc" ELSE "sysfs") \in kfiles
    /\ kpc' = [kpc EXCEPT ![u] = "lock"]
    /\ kcall' = [kcall EXCEPT ![u] = call] /\ karg' = [karg EXCEPT ![u] = arg]
    /\ LET on == call = "read" /\ kopen[u] IN
       /\ kread' = [kread EXCEPT ![u] = IF on THEN @ ELSE <<>>]
       /\ kseen' = [kseen EXCEPT ![u] = IF on THEN @ \cup {myvar} ELSE {myvar}]
    /\ kopen' = [kopen EXCEPT ![u] = call = "read"]
    /\ kdone' = [kdone EXCEPT ![u] = FALSE]
    /\ UNCHANGED <<kModuleVars, myvar, myvar_lock>>

KLocks(u) ==
    /\ kpc[u] = "lock" /\ myvar_lock = Nobody
    /\ kpc' = [kpc EXCEPT ![u] = "unlock"] /\ myvar_lock' = u
    /\ UNCHANGED <<kModuleVars, myvar, kcall, karg, kReaderVars>>

\* scnprintf(tmp, sizeof(tmp)) keeps room for a final 0.
\* (Mutant: sizeof(tmp) is 2.)
RoomForOne == 1
Room == 31
Printed(n) == SubSeq(Formatted(n), 1, IF Len(Formatted(n)) < Room THEN Len(Formatted(n)) ELSE Room)

\* simple_read_from_buffer(): count characters from the offset on; none is the end.
\* sysfs keeps what show() printed and hands it out whole.
Got(u) ==
    IF kcall[u] = "show" THEN Formatted(myvar)
    ELSE LET from == Len(kread[u])
             upto == from + karg[u]
         IN  SubSeq(Printed(myvar), from + 1,
                    IF upto < Len(Printed(myvar)) THEN upto ELSE Len(Printed(myvar)))

\* (Mutant: the mutex is not given back.)
StaysLocked(u) == myvar_lock' = myvar_lock
Unlocks(u) == myvar_lock' = Nobody

\* The locked statement, and the unlock.
KAccess(u) ==
    /\ kpc[u] = "unlock" /\ kpc' = [kpc EXCEPT ![u] = "leave"]
    /\ Unlocks(u)
    /\ IF kcall[u] \in {"write", "store"}
       THEN /\ myvar' = karg[u]
            /\ kseen' = [o \in KUsers |-> kseen[o] \cup {karg[u]}]
            /\ UNCHANGED <<kopen, kread, kdone>>
       ELSE /\ kread' = [kread EXCEPT ![u] = @ \o Got(u)]
            /\ kdone' = [kdone EXCEPT ![u] = Got(u) = <<>> \/ kcall[u] = "show"]
            /\ kopen' = [kopen EXCEPT ![u] = ~kdone'[u]]
            /\ UNCHANGED <<myvar, kseen>>
    /\ UNCHANGED <<kModuleVars, kcall, karg>>

\* The call returns.  (A text that is no number, or too long for tmp, is refused
\* before the lock; nothing changes.)
KReturns(u) ==
    /\ \/ kpc[u] = "leave"
       \/ kpc[u] = "lock" /\ kcall[u] \in {"write", "store"}
    /\ kpc' = [kpc EXCEPT ![u] = "idle"] /\ karg' = [karg EXCEPT ![u] = 0]
    /\ UNCHANGED <<kModuleVars, myvar, myvar_lock, kcall, kReaderVars>>

KHandler(u) == KLocks(u) \/ KAccess(u) \/ KReturns(u)

KUse(u) ==
    \/ \E c \in KCounts : KCalls(u, "read", c)
    \/ \E v \in KValues : KCalls(u, "write", v) \/ KCalls(u, "store", v)
    \/ KCalls(u, "show", 0)

KNext == KModuleStep \/ \E u \in KUsers : KHandler(u) \/ KUse(u)

\* Handlers run on, mutex_lock() is fair among them, and a load or unload that was
\* begun goes on.
KFairness ==
    /\ WF_kVars(kstate \notin {"out", "in"} /\ KModuleStep)
    /\ \A u \in KUsers : SF_kVars(KHandler(u))

KSpec == KInit /\ [][KNext]_kVars /\ KFairness

-------------------------------------------------------------------------------
\* No call runs in, and no entry leads to, a module that is not there, whatever step
\* of a load failed and whoever uses the files during an unload.
NothingLeadsOut ==
    kstate = "out" => kfiles = {} /\ \A u \in KUsers : kpc[u] = "idle"

\* A file read to its end gave a value that myvar had, unless it was read in pieces
\* through procfs, which formats anew for each, and written in between.
ReadsWhole ==
    \A u \in KUsers : kdone[u] /\ (kcall[u] = "show" \/ Cardinality(kseen[u]) = 1) =>
      \E v \in kseen[u] : kread[u] = Formatted(v)

\* An unload, and the undoing of a load, comes to its end however the files are used.
UnloadEnds == kstate \notin {"out", "in"} ~> kstate \in {"out", "in"}
===============================================================================
