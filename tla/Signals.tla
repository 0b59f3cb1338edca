------------------------------- MODULE Signals --------------------------------
(* src/signals: sigusr1_handler.c, sigwait_loop.c and block_sigint.c, each of which *)
(* tells its process id and waits, and sender.c, which a user runs with an id.       *)
EXTENDS Naturals, FiniteSets

CONSTANT MaxSends       \* bound: runs of sender

ASSUME SignalsAssumption == MaxSends \in Nat

Receivers == {"sigusr1_handler", "sigwait_loop", "block_sigint"}
SigNames  == {"USR1", "INT"}

VARIABLES
    greceiver,          \* the program that runs
    gpc,                \* "first" or "second" step of the start, "wait", "print" after
                        \* sigwait(), "dead"
    ghandler,           \* it is in sigusr1_handler()
    gpending,           \* signals sent and not yet delivered: each once
    gearly,             \* signals sent before the id was told
    gowed,              \* SIGUSR1 and its message: "no", "sent", "taken" since it was sent
    gkiller,            \* the signal that ended it
    gsends

gVars == <<greceiver, gpc, ghandler, gpending, gearly, gowed, gkiller, gsends>>

SignalsTypeOK ==
    /\ greceiver \in Receivers /\ gpc \in {"first", "second", "wait", "print", "dead"}
    /\ ghandler \in BOOLEAN /\ gowed \in {"no", "sent", "taken"}
    /\ gpending \subseteq SigNames /\ gearly \subseteq SigNames
    /\ gkiller \in SigNames \cup {"nobody"} /\ gsends \in 0 .. MaxSends

SignalsInit ==
    /\ greceiver \in Receivers /\ gpc = "first" /\ ghandler = FALSE
    /\ gpending = {} /\ gearly = {} /\ gowed = "no" /\ gkiller = "nobody" /\ gsends = 0

\* sigaction() or sigprocmask(), and then printf() of getpid().
\* (Mutant: the id is told first.)
TellsFirst == [ready |-> {"wait", "print"}, told |-> {"second", "wait", "print"}]
Order == [ready |-> {"second", "wait", "print"}, told |-> {"wait", "print"}]

SetUpDone == gpc \in Order.ready

Begins ==
    /\ gpc \in {"first", "second"} /\ ~ghandler
    /\ gpc' = IF gpc = "first" THEN "second" ELSE "wait"
    /\ UNCHANGED <<greceiver, ghandler, gpending, gearly, gowed, gkiller, gsends>>

\* The signals that are held back; a handler's own is while it runs.
Blocked ==
    (IF SetUpDone /\ greceiver = "sigwait_loop" THEN {"USR1"} ELSE {})
    \cup (IF SetUpDone /\ greceiver = "block_sigint" THEN {"INT"} ELSE {})
    \cup (IF ghandler THEN {"USR1"} ELSE {})

\* sender.c: kill(), with an id that the program told or that the user found out.
RunSender(sig) ==
    /\ gpc # "dead" /\ gsends < MaxSends /\ gsends' = gsends + 1
    /\ gpending' = gpending \cup {sig}
    /\ gearly' = IF gpc \in Order.told THEN gearly ELSE gearly \cup {sig}
    /\ gowed' = IF sig = "USR1" THEN "sent" ELSE gowed
    /\ UNCHANGED <<greceiver, gpc, ghandler, gkiller>>

Taken == IF gowed = "sent" THEN "taken" ELSE gowed
Paid  == IF gowed = "taken" THEN "no" ELSE gowed

\* The kernel delivers a signal: to the handler, or it ends the program.
DeliverSignal(sig) ==
    /\ gpc # "dead" /\ sig \in gpending \ Blocked
    /\ gpending' = gpending \ {sig}
    /\ IF sig = "USR1" /\ greceiver = "sigusr1_handler" /\ SetUpDone
       THEN ghandler' = TRUE /\ gowed' = Taken /\ UNCHANGED <<gpc, gkiller>>
       ELSE gpc' = "dead" /\ gkiller' = sig /\ UNCHANGED <<ghandler, gowed>>
    /\ UNCHANGED <<greceiver, gearly, gsends>>

\* The handler prints; pause() returns, and is called again.
HandlerPrints ==
    /\ gpc # "dead" /\ ghandler /\ ghandler' = FALSE /\ gowed' = Paid
    /\ UNCHANGED <<greceiver, gpc, gpending, gearly, gkiller, gsends>>

SigwaitReturns ==
    /\ greceiver = "sigwait_loop" /\ gpc = "wait" /\ "USR1" \in gpending
    /\ gpc' = "print" /\ gpending' = gpending \ {"USR1"} /\ gowed' = Taken
    /\ UNCHANGED <<greceiver, ghandler, gearly, gkiller, gsends>>

\* (Mutant: what came during the message is forgotten.)
Forgets == gpending \ {"USR1"}
Keeps == gpending

SigwaitPrints ==
    /\ gpc = "print" /\ gpc' = "wait" /\ gowed' = Paid /\ gpending' = Keeps
    /\ UNCHANGED <<greceiver, ghandler, gearly, gkiller, gsends>>

Receives ==
    \/ Begins \/ HandlerPrints \/ SigwaitReturns \/ SigwaitPrints
    \/ \E sig \in SigNames : DeliverSignal(sig)

SignalsNext == Receives \/ \E sig \in SigNames : RunSender(sig)

\* The program runs and the kernel delivers.
SignalsFairness == WF_gVars(Receives)

SignalsSpec == SignalsInit /\ [][SignalsNext]_gVars /\ SignalsFairness

-------------------------------------------------------------------------------
\* Who waits until the program told its id cannot end it with the signal that it
\* is about, whatever was sent and delivered before.
ToldIsSafe ==
    gkiller = (IF greceiver = "block_sigint" THEN "INT" ELSE "USR1") => gkiller \in gearly

\* Signals that come together are one, but a message always follows the last.
MessageFollows ==
    (greceiver # "block_sigint" /\ gowed # "no") ~> (gowed = "no" \/ gpc = "dead")
===============================================================================
