------------------------------- MODULE Logger -------------------------------
(***************************************************************************)
(* The loggers of log.c.  A program owns one logger_t variable, copied     *)
(* from console_logger or sys_logger; init gives it private counters on    *)
(* the heap, destroy frees them and leaves the pointer behind.  The        *)
(* program calls the logger in any order, also after destroy, where what   *)
(* happens is undefined and ends the behaviour.                            *)
(***************************************************************************)
EXTENDS Integers, Sequences, FiniteSets

CONSTANTS
    Blocks,     \* heap blocks calloc may return
    MaxSent     \* bound: messages counted in one block

VARIABLES
    kind,       \* the functions of the logger: "std" or "syslog"
    priv,       \* its private state: NULL or a block
    heap,       \* [Blocks -> {"fresh", "live", "freed"}]
    counts,     \* what each block counts: warn, error, info, debug
    opened,     \* whether the syslog connection is open
    exited,     \* the process has left through exit(-1)
    undefined,  \* a freed block was used
    sent,       \* history: messages logged since the current block was made
    stats       \* what dump_stats printed last

vars == <<kind, priv, heap, counts, opened, exited, undefined, sent, stats>>

Kinds == {"std", "syslog"}
Classes == {"warn", "error", "info", "debug"}
None == [c \in Classes |-> 0]

Live == priv \in Blocks /\ heap[priv] = "live"
Dangling == priv \in Blocks /\ heap[priv] = "freed"

Init ==
    /\ kind \in Kinds /\ priv = "NULL"
    /\ heap = [b \in Blocks |-> "fresh"] /\ counts = [b \in Blocks |-> None]
    /\ opened = FALSE /\ exited = FALSE /\ undefined = FALSE
    /\ sent = None /\ stats = None

\* logger = console_logger or logger = sys_logger: their priv is NULL.
Assign(k) ==
    /\ kind' = k /\ priv' = "NULL"
    /\ UNCHANGED <<heap, counts, opened, exited, undefined, sent, stats>>

\* PRIV_CHECK of a NULL pointer prints a line and exits; of a freed block it
\* hands the block out, and what follows is undefined.
PrivCheckFails ==
    /\ ~Live
    /\ exited' = (priv = "NULL") /\ undefined' = Dangling
    /\ UNCHANGED <<kind, priv, heap, counts, opened, sent, stats>>

\* warn, error, info and debug count the message and print it or hand it to
\* syslog; a debug message at or below debug_level is counted and not printed.
Log(class) ==
    \/ PrivCheckFails
    \/ /\ Live
       /\ counts' = [counts EXCEPT ![priv][class] = @ + 1]
       /\ sent' = [sent EXCEPT ![class] = @ + 1]
       /\ UNCHANGED <<kind, priv, heap, opened, exited, undefined, stats>>

\* init: openlog for syslog, then private state unless there is some already;
\* calloc failing ends in PRIV_CHECK.
Mutant_InitAlways ==
    /\ opened' = (opened \/ kind = "syslog")
    /\ \E b \in Blocks :
          /\ heap[b] = "fresh" /\ priv' = b
          /\ heap' = [heap EXCEPT ![b] = "live"] /\ sent' = None
    /\ UNCHANGED <<kind, counts, exited, undefined, stats>>

init ==
    /\ opened' = (opened \/ kind = "syslog")
    /\ \/ priv # "NULL" /\ UNCHANGED <<priv, heap, exited, sent>>
       \/ /\ priv = "NULL" /\ UNCHANGED exited
          /\ \E b \in Blocks :
                /\ heap[b] = "fresh" /\ priv' = b
                /\ heap' = [heap EXCEPT ![b] = "live"]
          /\ sent' = None
       \/ priv = "NULL" /\ exited' = TRUE /\ UNCHANGED <<priv, heap, sent>>
    /\ UNCHANGED <<kind, counts, undefined, stats>>

\* destroy frees the block, keeps the pointer, and closes the connection.
destroy ==
    \/ PrivCheckFails
    \/ /\ Live /\ heap' = [heap EXCEPT ![priv] = "freed"]
       /\ counts' = [counts EXCEPT ![priv] = None]
       /\ opened' = (opened /\ kind # "syslog")
       /\ UNCHANGED <<kind, priv, exited, undefined, sent, stats>>

\* dump_stats reads the counters; reset only checks them, and only for syslog.
dump_stats ==
    \/ PrivCheckFails
    \/ /\ Live
       /\ stats' = counts[priv]
       /\ UNCHANGED <<kind, priv, heap, counts, opened, exited, undefined, sent>>

reset == kind = "syslog" /\ PrivCheckFails

----------------------------------------------------------------------------
(* A program that destroys a logger before it assigns another, and assigns  *)
(* the variable before it calls init again.                                 *)

Running == ~exited /\ ~undefined
Total(n) == n["warn"] + n["error"] + n["info"] + n["debug"]

Next ==
    \/ Running /\ ~Live /\ \E k \in Kinds : Assign(k)
    \/ Running /\ ~Dangling /\ init
    \/ Running /\ Total(sent) < MaxSent /\ \E c \in Classes : Log(c)
    \/ Running /\ destroy
    \/ Running /\ dump_stats
    \/ Running /\ reset

Spec == Init /\ [][Next]_vars

----------------------------------------------------------------------------
\* What dump_stats prints are the messages logged since init, whether they were
\* printed or not, also when init was called again on a logger in use.
Exact == stats' # stats => stats' = sent
StatsExact == [][Exact]_vars

\* A program that destroys a logger before it switches to the other one loses no
\* memory: the only live block is the one its logger points to.
NoBlockLost == \A b \in Blocks : heap[b] = "live" => priv = b

\* The syslog connection is open exactly while the program has a live syslog
\* logger (or died in calloc after openlog).
ConnectionFollowsLogger == opened => kind = "syslog" /\ (Live \/ exited)

\* What the loggers promise, in one.
LoggerSound == [](NoBlockLost /\ ConnectionFollowsLogger) /\ StatsExact
============================================================================
