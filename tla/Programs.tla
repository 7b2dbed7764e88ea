------------------------------ MODULE Programs ------------------------------
(***************************************************************************)
(* The programs with threads, timers or a select loop side by side:        *)
(* client_thread.c, thread_timer.c and server_example.c, each with two     *)
(* settings of its constants.  They share no state, so a behaviour is a    *)
(* behaviour of one program, chosen at the start; the others are never     *)
(* started.                                                                *)
(***************************************************************************)
EXTENDS Integers, Sequences

CONSTANTS
    OneItems, OneCapacity,                              \* ClientThreads, one pair
    NumPairs, Items, Capacity,                          \* ClientThreads, several pairs
    Ratio, Durations,                                   \* TimerLoop
    SetStep, SetPatience,                               \* ... with its intervals set
    SetRounds, SetReported, SetBehind,
    UnsetStep, UnsetPatience,                           \* ... without
    UnsetRounds, UnsetReported, UnsetBehind,
    max_servers,                                        \* ServerExample
    QuietQueue, QuietSent,                              \* ... no datagram damaged
    NoisyQueue, NoisySent                               \* ... damaged or not

VARIABLES
    program,                                            \* the program that runs
    mpc, ringbuf, queues, data, wpc, wi, wq, rpc, rq,   \* ClientThreads
    last, blank,
    tpc, fd, due, period, pending, highfd, origfds,     \* TimerLoop
    currfds, test, rc, waited, reports, age,
    spc, i, server_handle, max_server_handle,           \* ServerExample
    read_handles, queue, received, sent, lost

client == <<mpc, ringbuf, queues, data, wpc, wi, wq, rpc, rq, last, blank>>
timers == <<tpc, fd, due, period, pending, highfd, origfds, currfds, test, rc, waited, reports,
            age>>
server == <<spc, i, server_handle, max_server_handle, read_handles, queue, received, sent, lost>>
vars == <<program, client, timers, server>>

----------------------------------------------------------------------------
(* One pair, and several pairs on one array and successive queues.           *)

One == INSTANCE ClientThreads WITH NumPairs <- 1, Items <- OneItems, Capacity <- OneCapacity
Two == INSTANCE ClientThreads

(* The loop as test_simple.c runs it, and as thread_timer.c does, with any   *)
(* contents of the uninitialised intervals.                                  *)

Set == INSTANCE TimerLoop WITH Initialised <- TRUE, Step <- SetStep, Patience <- SetPatience,
    Rounds <- SetRounds, Reported <- SetReported, MaxBehind <- SetBehind, pc <- tpc
Unset == INSTANCE TimerLoop WITH Initialised <- FALSE, Step <- UnsetStep, Patience <- UnsetPatience,
    Rounds <- UnsetRounds, Reported <- UnsetReported, MaxBehind <- UnsetBehind, pc <- tpc

(* Datagrams undamaged, or not.                                              *)

Quiet == INSTANCE ServerExample WITH
    MaxQueue <- QuietQueue, MaxSent <- QuietSent, Damaged <- FALSE, pc <- spc
Noisy == INSTANCE ServerExample WITH
    MaxQueue <- NoisyQueue, MaxSent <- NoisySent, Damaged <- TRUE, pc <- spc

----------------------------------------------------------------------------
Init ==
    \/ program = "one" /\ One!Init /\ Set!Init /\ Quiet!Init
    \/ program \in {"two", "set", "unset", "quiet", "noisy"} /\ Two!Init /\ Set!Init /\ Quiet!Init

Next ==
    /\ UNCHANGED program
    /\ \/ program = "one" /\ One!Next /\ UNCHANGED <<timers, server>>
       \/ program = "two" /\ Two!Next /\ UNCHANGED <<timers, server>>
       \/ program = "set" /\ Set!Next /\ UNCHANGED <<client, server>>
       \/ program = "unset" /\ Unset!Next /\ UNCHANGED <<client, server>>
       \/ program = "quiet" /\ Quiet!Next /\ UNCHANGED <<client, timers>>
       \/ program = "noisy" /\ Noisy!Next /\ UNCHANGED <<client, timers>>

\* The fairness of each module's Spec, for the program that runs.
Fairness ==
    /\ WF_client(program = "one" /\ One!Main)
    /\ WF_client(program = "one" /\ One!Writer(1))
    /\ WF_client(program = "one" /\ One!Reader(1))
    /\ WF_client(program = "two" /\ Two!Main)
    /\ \A p \in Two!Pairs : /\ WF_client(program = "two" /\ Two!Writer(p))
                         /\ WF_client(program = "two" /\ Two!Reader(p))
    /\ WF_timers(program = "set" /\ Set!Thread) /\ WF_timers(program = "set" /\ Set!Tick)
    /\ WF_timers(program = "unset" /\ Unset!Thread) /\ WF_timers(program = "unset" /\ Unset!Tick)
    /\ WF_server(program = "quiet" /\ Quiet!Create)
    /\ WF_server(program = "quiet" /\ Quiet!NotReady)
    /\ WF_server(program = "quiet" /\ Quiet!Round)
    /\ SF_server(program = "quiet" /\ Quiet!Select)
    /\ \A k \in Quiet!Servers : SF_server(program = "quiet" /\ i = k /\ Quiet!Recvfrom)

Spec == Init /\ [][Next]_vars /\ Fairness

----------------------------------------------------------------------------
\* The client threads: although both writers fill one array while the readers
\* look at it through queued pointers, and main replaces the queue under them, no
\* reader meets a record not filled in, final records are neither lost nor made
\* up, and what the first reader takes from the first queue rises.
ClientSound ==
    /\ [](/\ program = "one" => One!NoBlankRecord /\ One!FinalsAccounted
          /\ program = "two" => Two!NoBlankRecord /\ Two!FinalsAccounted)
    /\ [][program = "two" => Two!Rises]_client

\* The timer loop: every round watches all three timers, or all but ms1 in exactly
\* one order of the descriptors, and never blocks in a read, whatever the intervals
\* hold.  With the intervals filled in it reports every expiration of a watched
\* timer once, however late it runs and however far apart the timers were armed,
\* and gives no false watchdog alarm.
TimersSound ==
    /\ program = "set" => Set!TimersSound
    /\ program = "unset" => Unset!TimersSound

\* The example server: after a timeout or an error of select it reads from no
\* socket it did not find ready in the same round, and every datagram is printed
\* once and in order, waits, or was dropped by the kernel.
ServerSound ==
    /\ program = "quiet" => Quiet!ServerSound
    /\ program = "noisy" => Noisy!ServerSound

\* Threads end: a writer returns through full queues and changes of queue, with
\* one pair main joins its reader and exits, and the timer loop ends even when two
\* of its timers were armed with garbage.
ThreadsReturn ==
    /\ \A p \in Two!Pairs : (program = "two" /\ wpc[p] = "store")
                            ~> (program = "two" => wpc[p] = "done" \/ Two!Exited)
    /\ <>(program = "one" => One!Exited)
    /\ <>(program \in {"set", "unset"} => Set!Ended)

\* Every datagram the kernel queued is printed in the end, whichever socket it
\* waits on: a busy socket does not starve the other.
EveryoneServed == \A n \in 1 .. QuietSent :
    (program = "quiet" /\ \E k \in Quiet!Servers : n \in Quiet!Elements(queue[k]))
        ~> (program = "quiet" => spc = "exited" \/ \E k \in Quiet!Servers : n \in Quiet!Elements(received[k]))
============================================================================
