--------------------------- MODULE ProgramsSound ---------------------------
(***************************************************************************)
(* The invariants of ProgramProofs, for the composition Programs: each     *)
(* program of the composition is one instance of them.                     *)
(***************************************************************************)
EXTENDS Programs, FiniteSets, TLAPS

(* What the code fixes of the constants: a pair of threads at least, timers  *)
(* of different periods, and, for the loop with its intervals set, a         *)
(* watchdog longer than the period of ms10 and two rounds at least.          *)

Threads ==
    /\ OneItems \in Nat /\ OneCapacity \in Nat
    /\ NumPairs \in Nat /\ NumPairs >= 1 /\ Items \in Nat /\ Capacity \in Nat

Loops ==
    /\ Ratio \in Nat /\ Ratio >= 2 /\ Durations \subseteq Nat
    /\ SetStep \in Nat /\ SetStep >= 1 /\ SetPatience \in Nat /\ SetPatience >= SetStep * Ratio
    /\ SetRounds \in Nat /\ SetRounds >= 2 /\ SetReported \in Nat
    /\ SetBehind \in Nat /\ SetBehind >= 1
    /\ UnsetStep \in Nat /\ UnsetStep >= 1 /\ UnsetPatience \in Nat
    /\ UnsetRounds \in Nat /\ UnsetReported \in Nat
    /\ UnsetBehind \in Nat /\ UnsetBehind >= 1

(* The invariants with the constants of either setting.                      *)

P == INSTANCE ProgramProofs WITH
    NumPairs <- 1, Items <- OneItems, Capacity <- OneCapacity,
    Initialised <- TRUE, Step <- SetStep, Patience <- SetPatience,
    Rounds <- SetRounds, Reported <- SetReported, MaxBehind <- SetBehind,
    MaxQueue <- QuietQueue, MaxSent <- QuietSent, Damaged <- FALSE
Q == INSTANCE ProgramProofs WITH
    Initialised <- FALSE, Step <- UnsetStep, Patience <- UnsetPatience,
    Rounds <- UnsetRounds, Reported <- UnsetReported, MaxBehind <- UnsetBehind,
    MaxQueue <- NoisyQueue, MaxSent <- NoisySent, Damaged <- TRUE

----------------------------------------------------------------------------
(* The instances the proofs speak of are those of the composition. *)

LEMMA SetSame ==
    /\ Set!Init => P!TL!Init
    /\ [Set!Next]_(Set!vars) => [P!TL!Next]_(P!TL!vars)
    /\ P!TL!TimersSound => Set!TimersSound
<1>1. Set!Init => P!TL!Init
  BY DEF Set!Init, P!TL!Init, Set!Timers, P!TL!Timers, Set!ms1, P!TL!ms1, Set!ms10, P!TL!ms10,
     Set!ms100, P!TL!ms100, Set!Zero, P!TL!Zero
<1>2. [Set!Next]_(Set!vars) => [P!TL!Next]_(P!TL!vars)
  BY DEF Set!Cardinality, P!TL!Cardinality, Set!Next, P!TL!Next, Set!Thread, P!TL!Thread,
     Set!Create, P!TL!Create, Set!Timers, P!TL!Timers, Set!ms1, P!TL!ms1, Set!ms10, P!TL!ms10,
     Set!ms100, P!TL!ms100, Set!kernel, P!TL!kernel, Set!sets, P!TL!sets, Set!Settime,
     P!TL!Settime, Set!Settime1, P!TL!Settime1, Set!Settime10, P!TL!Settime10, Set!Settime100,
     P!TL!Settime100, Set!Armings, P!TL!Armings, Set!Periods, P!TL!Periods, Set!Interval,
     P!TL!Interval, Set!Setup, P!TL!Setup, Set!Exhausted, P!TL!Exhausted, Set!Pselect,
     P!TL!Pselect, Set!Ready, P!TL!Ready, Set!Watched, P!TL!Watched, Set!Watchdog,
     P!TL!Watchdog, Set!Read100, P!TL!Read100, Set!READ_OVER, P!TL!READ_OVER, Set!Take,
     P!TL!Take, Set!Read10, P!TL!Read10, Set!Read1, P!TL!Read1, Set!Again, P!TL!Again,
     Set!After, P!TL!After, Set!SelectFails, P!TL!SelectFails, Set!Tick, P!TL!Tick, Set!Unheard,
     P!TL!Unheard, Set!Ended, P!TL!Ended, Set!InLoop, P!TL!InLoop, Set!vars, P!TL!vars
<1>3. P!TL!TimersSound => Set!TimersSound
  BY DEF Set!TimersSound, P!TL!TimersSound, Set!AllWatched, P!TL!AllWatched, Set!Watched,
     P!TL!Watched, Set!Timers, P!TL!Timers, Set!ms1, P!TL!ms1, Set!ms10, P!TL!ms10, Set!ms100,
     P!TL!ms100, Set!CountsAgree, P!TL!CountsAgree, Set!Periods, P!TL!Periods, Set!Interval,
     P!TL!Interval, Set!Heard, P!TL!Heard, Set!Misordered, P!TL!Misordered, Set!NoFalseWatchdog,
     P!TL!NoFalseWatchdog, Set!EachTimerReported, P!TL!EachTimerReported, Set!NeverBlocksInRead,
     P!TL!NeverBlocksInRead
<1> QED
  BY <1>1, <1>2, <1>3

LEMMA UnsetSame ==
    /\ Unset!Init => Q!TL!Init
    /\ [Unset!Next]_(Unset!vars) => [Q!TL!Next]_(Q!TL!vars)
    /\ Q!TL!TimersSound => Unset!TimersSound
<1>1. Unset!Init => Q!TL!Init
  BY DEF Unset!Init, Q!TL!Init, Unset!Timers, Q!TL!Timers, Unset!ms1, Q!TL!ms1, Unset!ms10,
     Q!TL!ms10, Unset!ms100, Q!TL!ms100, Unset!Zero, Q!TL!Zero
<1>2. [Unset!Next]_(Unset!vars) => [Q!TL!Next]_(Q!TL!vars)
  BY DEF Unset!Cardinality, Q!TL!Cardinality, Unset!Next, Q!TL!Next, Unset!Thread, Q!TL!Thread,
     Unset!Create, Q!TL!Create, Unset!Timers, Q!TL!Timers, Unset!ms1, Q!TL!ms1, Unset!ms10,
     Q!TL!ms10, Unset!ms100, Q!TL!ms100, Unset!kernel, Q!TL!kernel, Unset!sets, Q!TL!sets,
     Unset!Settime, Q!TL!Settime, Unset!Settime1, Q!TL!Settime1, Unset!Settime10,
     Q!TL!Settime10, Unset!Settime100, Q!TL!Settime100, Unset!Armings, Q!TL!Armings,
     Unset!Periods, Q!TL!Periods, Unset!Interval, Q!TL!Interval, Unset!Setup, Q!TL!Setup,
     Unset!Exhausted, Q!TL!Exhausted, Unset!Pselect, Q!TL!Pselect, Unset!Ready, Q!TL!Ready,
     Unset!Watched, Q!TL!Watched, Unset!Watchdog, Q!TL!Watchdog, Unset!Read100, Q!TL!Read100,
     Unset!READ_OVER, Q!TL!READ_OVER, Unset!Take, Q!TL!Take, Unset!Read10, Q!TL!Read10,
     Unset!Read1, Q!TL!Read1, Unset!Again, Q!TL!Again, Unset!After, Q!TL!After,
     Unset!SelectFails, Q!TL!SelectFails, Unset!Tick, Q!TL!Tick, Unset!Unheard, Q!TL!Unheard,
     Unset!Ended, Q!TL!Ended, Unset!InLoop, Q!TL!InLoop, Unset!vars, Q!TL!vars
<1>3. Q!TL!TimersSound => Unset!TimersSound
  BY DEF Unset!TimersSound, Q!TL!TimersSound, Unset!AllWatched, Q!TL!AllWatched, Unset!Watched,
     Q!TL!Watched, Unset!Timers, Q!TL!Timers, Unset!ms1, Q!TL!ms1, Unset!ms10, Q!TL!ms10,
     Unset!ms100, Q!TL!ms100, Unset!CountsAgree, Q!TL!CountsAgree, Unset!Periods, Q!TL!Periods,
     Unset!Interval, Q!TL!Interval, Unset!Heard, Q!TL!Heard, Unset!Misordered, Q!TL!Misordered,
     Unset!NoFalseWatchdog, Q!TL!NoFalseWatchdog, Unset!EachTimerReported,
     Q!TL!EachTimerReported, Unset!NeverBlocksInRead, Q!TL!NeverBlocksInRead
<1> QED
  BY <1>1, <1>2, <1>3

LEMMA QuietSame ==
    /\ Quiet!Init => P!S!Init
    /\ [Quiet!Next]_(Quiet!vars) => [P!S!Next]_(P!S!vars)
    /\ P!S!ServerSound => Quiet!ServerSound
<1>1. Quiet!Init => P!S!Init
  BY DEF Quiet!Init, P!S!Init, Quiet!Servers, P!S!Servers
<1>2. [Quiet!Next]_(Quiet!vars) => [P!S!Next]_(P!S!vars)
  BY DEF Quiet!Next, P!S!Next, Quiet!Create, P!S!Create, Quiet!Free, P!S!Free, Quiet!Servers,
     P!S!Servers, Quiet!network, P!S!network, Quiet!Select, P!S!Select, Quiet!Ready,
     P!S!Ready, Quiet!Watched, P!S!Watched, Quiet!sockets, P!S!sockets, Quiet!Recvfrom,
     P!S!Recvfrom, Quiet!NotReady, P!S!NotReady, Quiet!Round, P!S!Round,
     Quiet!CreateFails, P!S!CreateFails, Quiet!Elements, P!S!Elements, Quiet!Timeout,
     P!S!Timeout, Quiet!SelectError, P!S!SelectError, Quiet!RecvfromError,
     P!S!RecvfromError, Quiet!Send, P!S!Send, Quiet!Discard, P!S!Discard, Quiet!vars,
     P!S!vars
<1>3. P!S!ServerSound => Quiet!ServerSound
  BY DEF Quiet!ServerSound, P!S!ServerSound, Quiet!NeverBlocks, P!S!NeverBlocks, Quiet!Servers,
     P!S!Servers, Quiet!DatagramsAccounted, P!S!DatagramsAccounted, Quiet!Elements,
     P!S!Elements
<1> QED
  BY <1>1, <1>2, <1>3

LEMMA NoisySame ==
    /\ Noisy!Init => Q!S!Init
    /\ [Noisy!Next]_(Noisy!vars) => [Q!S!Next]_(Q!S!vars)
    /\ Q!S!ServerSound => Noisy!ServerSound
<1>1. Noisy!Init => Q!S!Init
  BY DEF Noisy!Init, Q!S!Init, Noisy!Servers, Q!S!Servers
<1>2. [Noisy!Next]_(Noisy!vars) => [Q!S!Next]_(Q!S!vars)
  BY DEF Noisy!Next, Q!S!Next, Noisy!Create, Q!S!Create, Noisy!Free, Q!S!Free, Noisy!Servers,
     Q!S!Servers, Noisy!network, Q!S!network, Noisy!Select, Q!S!Select, Noisy!Ready,
     Q!S!Ready, Noisy!Watched, Q!S!Watched, Noisy!sockets, Q!S!sockets, Noisy!Recvfrom,
     Q!S!Recvfrom, Noisy!NotReady, Q!S!NotReady, Noisy!Round, Q!S!Round,
     Noisy!CreateFails, Q!S!CreateFails, Noisy!Elements, Q!S!Elements, Noisy!Timeout,
     Q!S!Timeout, Noisy!SelectError, Q!S!SelectError, Noisy!RecvfromError,
     Q!S!RecvfromError, Noisy!Send, Q!S!Send, Noisy!Discard, Q!S!Discard, Noisy!vars,
     Q!S!vars
<1>3. Q!S!ServerSound => Noisy!ServerSound
  BY DEF Noisy!ServerSound, Q!S!ServerSound, Noisy!NeverBlocks, Q!S!NeverBlocks, Noisy!Servers,
     Q!S!Servers, Noisy!DatagramsAccounted, Q!S!DatagramsAccounted, Noisy!Elements,
     Q!S!Elements
<1> QED
  BY <1>1, <1>2, <1>3

LEMMA OneSame ==
    /\ One!Init => P!C!Init
    /\ [One!Next]_(One!vars) => [P!C!Next]_(P!C!vars)
    /\ P!C!NoBlankRecord /\ P!C!FinalsAccounted => One!NoBlankRecord /\ One!FinalsAccounted
    /\ P!C!Rises => One!Rises
<1>1. One!Init => P!C!Init
  BY DEF One!Init, P!C!Init, One!Pairs, P!C!Pairs, One!Indices, P!C!Indices, One!Empty,
     P!C!Empty
<1>2. [One!Next]_(One!vars) => [P!C!Next]_(P!C!vars)
  BY DEF One!Next, P!C!Next, One!Main, P!C!Main, One!MainSetup, P!C!MainSetup, One!Fail,
     P!C!Fail, One!wvars, P!C!wvars, One!rvars, P!C!rvars, One!CreateQueue,
     P!C!CreateQueue, One!CreateWriter, P!C!CreateWriter, One!CreateReader,
     P!C!CreateReader, One!Join, P!C!Join, One!DestroyAttr, P!C!DestroyAttr, One!JoinFails,
     P!C!JoinFails, One!Pairs, P!C!Pairs, One!Writer, P!C!Writer,
     One!WStore, P!C!WStore, One!Exited, P!C!Exited, One!Filled, P!C!Filled, One!WLoad,
     P!C!WLoad, One!WEnqueue, P!C!WEnqueue, One!Reader, P!C!Reader, One!RLoad,
     P!C!RLoad, One!RDequeue, P!C!RDequeue, One!vars, P!C!vars
<1>3. P!C!NoBlankRecord /\ P!C!FinalsAccounted => One!NoBlankRecord /\ One!FinalsAccounted
  BY DEF One!Cardinality, P!C!Cardinality, One!NoBlankRecord, P!C!NoBlankRecord,
     One!FinalsAccounted, P!C!FinalsAccounted, One!FinalsQueued, P!C!FinalsQueued,
     One!Pairs, P!C!Pairs, One!Done, P!C!Done
<1>4. P!C!Rises => One!Rises
  BY DEF One!Rises, P!C!Rises
<1> QED
  BY <1>1, <1>2, <1>3, <1>4

LEMMA TwoSame ==
    /\ Two!Init => Q!C!Init
    /\ [Two!Next]_(Two!vars) => [Q!C!Next]_(Q!C!vars)
    /\ Q!C!NoBlankRecord /\ Q!C!FinalsAccounted => Two!NoBlankRecord /\ Two!FinalsAccounted
    /\ Q!C!Rises => Two!Rises
<1>1. Two!Init => Q!C!Init
  BY DEF Two!Init, Q!C!Init, Two!Pairs, Q!C!Pairs, Two!Indices, Q!C!Indices, Two!Empty,
     Q!C!Empty
<1>2. [Two!Next]_(Two!vars) => [Q!C!Next]_(Q!C!vars)
  BY DEF Two!Next, Q!C!Next, Two!Main, Q!C!Main, Two!MainSetup, Q!C!MainSetup, Two!Fail,
     Q!C!Fail, Two!wvars, Q!C!wvars, Two!rvars, Q!C!rvars, Two!CreateQueue,
     Q!C!CreateQueue, Two!CreateWriter, Q!C!CreateWriter, Two!CreateReader,
     Q!C!CreateReader, Two!Join, Q!C!Join, Two!DestroyAttr, Q!C!DestroyAttr, Two!JoinFails,
     Q!C!JoinFails, Two!Pairs, Q!C!Pairs, Two!Writer, Q!C!Writer,
     Two!WStore, Q!C!WStore, Two!Exited, Q!C!Exited, Two!Filled, Q!C!Filled, Two!WLoad,
     Q!C!WLoad, Two!WEnqueue, Q!C!WEnqueue, Two!Reader, Q!C!Reader, Two!RLoad,
     Q!C!RLoad, Two!RDequeue, Q!C!RDequeue, Two!vars, Q!C!vars
<1>3. Q!C!NoBlankRecord /\ Q!C!FinalsAccounted => Two!NoBlankRecord /\ Two!FinalsAccounted
  BY DEF Two!Cardinality, Q!C!Cardinality, Two!NoBlankRecord, Q!C!NoBlankRecord,
     Two!FinalsAccounted, Q!C!FinalsAccounted, Two!FinalsQueued, Q!C!FinalsQueued,
     Two!Pairs, Q!C!Pairs, Two!Done, Q!C!Done
<1>4. Q!C!Rises => Two!Rises
  BY DEF Two!Rises, Q!C!Rises
<1> QED
  BY <1>1, <1>2, <1>3, <1>4

----------------------------------------------------------------------------
(* The timer loop *)

TimersInv ==
    /\ program = "set" => P!TimerInv
    /\ program = "unset" => Q!TimerInv

\* Whatever the periods, the rounds, the backlog and the descriptors the kernel
\* hands out: every round watches the three timers, or all but ms1 in exactly one
\* order, and the thread never blocks in a read, even with garbage in the intervals;
\* with the intervals filled in, no expiration of a watched timer goes unreported,
\* however far apart the timers were armed, and the watchdog gives no false alarm.
THEOREM TimersSoundAll ==
    ASSUME Loops PROVE Spec => []TimersSound
<1>1. P!Positive /\ Q!Positive
  BY DEF Loops, P!Positive, Q!Positive
<1>2. Init => TimersInv
  <2>1. Init => Set!Init /\ Unset!Init
    BY DEF Init, Set!Init, Unset!Init, Set!Zero, Unset!Zero, Set!Timers, Unset!Timers,
      Set!ms1, Set!ms10, Set!ms100, Unset!ms1, Unset!ms10, Unset!ms100
  <2> QED
    BY <1>1, <2>1, SetSame, UnsetSame, P!TimerInit, Q!TimerInit DEF TimersInv
<1>3. TimersInv /\ [Next]_vars => TimersInv'
  <2> SUFFICES ASSUME TimersInv, [Next]_vars PROVE TimersInv'
    OBVIOUS
  <2>1. program' = program
    BY DEF Next, vars
  <2>2. program = "set" => [Set!Next]_(Set!vars)
    BY DEF Next, vars, timers, Set!vars
  <2>3. program = "unset" => [Unset!Next]_(Unset!vars)
    BY DEF Next, vars, timers, Unset!vars
  <2> QED
    BY <1>1, <2>1, <2>2, <2>3, SetSame, UnsetSame, P!TimerNext, Q!TimerNext DEF TimersInv
<1>4. TimersInv => TimersSound
  BY <1>1, SetSame, UnsetSame, P!TimerImplies, Q!TimerImplies DEF TimersInv, TimersSound
<1> QED
  BY <1>2, <1>3, <1>4, PTL DEF Spec

----------------------------------------------------------------------------
(* The example server *)

ServersInv ==
    /\ program = "quiet" => P!ServerInv
    /\ program = "noisy" => Q!ServerInv

\* For any number of sockets and any traffic: after a timeout or an error of
\* select the server reads only from sockets found ready in the same round, and
\* every datagram is printed once and in order, waits, or was dropped.
THEOREM ServerSoundAll ==
    ASSUME max_servers \in Nat PROVE Spec => []ServerSound
<1>1. Init => ServersInv
  <2>1. Init => Quiet!Init /\ Noisy!Init
    BY DEF Init, Quiet!Init, Noisy!Init, Quiet!Servers, Noisy!Servers
  <2> QED
    BY <2>1, QuietSame, NoisySame, P!ServerInit, Q!ServerInit DEF ServersInv
<1>2. ServersInv /\ [Next]_vars => ServersInv'
  <2> SUFFICES ASSUME ServersInv, [Next]_vars PROVE ServersInv'
    OBVIOUS
  <2>1. program' = program
    BY DEF Next, vars
  <2>2. program = "quiet" => [Quiet!Next]_(Quiet!vars)
    BY DEF Next, vars, server, Quiet!vars
  <2>3. program = "noisy" => [Noisy!Next]_(Noisy!vars)
    BY DEF Next, vars, server, Noisy!vars
  <2> QED
    BY <2>1, <2>2, <2>3, QuietSame, NoisySame, P!ServerNext, Q!ServerNext DEF ServersInv
<1>3. ServersInv => ServerSound
  BY QuietSame, NoisySame, P!ServerImplies, Q!ServerImplies DEF ServersInv, ServerSound
<1> QED
  BY <1>1, <1>2, <1>3, PTL DEF Spec

----------------------------------------------------------------------------
(* The client threads *)

ClientsInv ==
    /\ program = "one" => P!ClientInv
    /\ program = "two" => Q!ClientInv

\* For any number of pairs and of records and any capacity of the queues:
\* although writers share one array and main replaces the queue under running
\* threads, no reader meets a record not filled in, final records are neither
\* lost nor made up, and the first reader's numbers from the first queue rise.
THEOREM ClientSoundAll ==
    ASSUME Threads PROVE Spec => ClientSound
<1>1. P!SomeClients /\ Q!SomeClients
  BY DEF Threads, P!SomeClients, Q!SomeClients
<1>2. Init => ClientsInv
  <2>1. Init => (program = "one" => One!Init) /\ (program = "two" => Two!Init)
    BY DEF Init
  <2> QED
    BY <1>1, <2>1, OneSame, TwoSame, P!ClientInit, Q!ClientInit DEF ClientsInv
<1>3. ClientsInv /\ [Next]_vars => ClientsInv' /\ [program = "two" => Two!Rises]_client
  <2> SUFFICES ASSUME ClientsInv, [Next]_vars
               PROVE  ClientsInv' /\ [program = "two" => Two!Rises]_client
    OBVIOUS
  <2>1. program' = program
    BY DEF Next, vars
  <2>2. program = "one" => [One!Next]_(One!vars)
    BY DEF Next, vars, client, One!vars
  <2>3. program = "two" => [Two!Next]_(Two!vars)
    BY DEF Next, vars, client, Two!vars
  <2>4. ClientsInv'
    BY <1>1, <2>1, <2>2, <2>3, OneSame, TwoSame, P!ClientNext, Q!ClientNext DEF ClientsInv
  <2>5. program = "two" => [Q!C!Rises]_(Q!C!vars)
    BY <1>1, <2>3, TwoSame, Q!ClientNext DEF ClientsInv
  <2>6. [program = "two" => Two!Rises]_client
    BY <2>5, TwoSame DEF client, Q!C!vars
  <2> QED
    BY <2>4, <2>6
<1>4. ClientsInv => /\ program = "one" => One!NoBlankRecord /\ One!FinalsAccounted
                    /\ program = "two" => Two!NoBlankRecord /\ Two!FinalsAccounted
  BY OneSame, TwoSame, P!ClientImplies, Q!ClientImplies DEF ClientsInv
<1> QED
  BY <1>2, <1>3, <1>4, PTL DEF Spec, ClientSound
============================================================================
