----------------------------- MODULE TimerLoop -----------------------------
(***************************************************************************)
(* thread_timer of thread_timer.c: three timer descriptors, armed for 1,   *)
(* 10 and 100 ms one after the other, watched by a pselect loop of a fixed *)
(* number of rounds with a watchdog timeout.  Time passes in instants of   *)
(* its own, between any two calls of the thread: a timer first expires one *)
(* instant (1 us) after it is armed, and a slow thread finds several       *)
(* expirations.  With Initialised FALSE the two slower timers are armed    *)
(* from the uninitialised structures the code passes; TRUE is the copy of  *)
(* the loop in test_simple.c, which fills them in.                         *)
(***************************************************************************)
EXTENDS Integers, FiniteSets

CONSTANTS
    Initialised,  \* whether ms10_interval and ms100_interval are filled in
    Durations,    \* what an uninitialised structure may hold, 0 aside
    Ratio,        \* the ratio of the periods: 10 in the code
    Step,         \* instants in the fastest period: 1000 in the code
    Patience,     \* instants in the watchdog timeout: seconds in the code
    Rounds,       \* rounds of the loop: 10000 in the code
    Reported,     \* the round before which a watchdog is reported: 1000
    MaxBehind     \* bound: expirations of a watched timer left unread

VARIABLES
    pc,         \* the statement the thread is at
    fd,         \* the descriptors of ms1, ms10, ms100; -1 when creation failed
    due,        \* instants until a timer's next expiration; 0 when not armed
    period,     \* its interval; 0 for none
    pending,    \* expirations not read yet
    highfd, origfds, currfds,
    test, rc,
    waited,     \* instants pselect has waited
    reports,    \* history: how often each timer's expirations were reported
    age         \* history: instants since each timer was armed with its interval

vars == <<pc, fd, due, period, pending, highfd, origfds, currfds, test, rc, waited, reports, age>>
kernel == <<due, period, pending, age>>
sets == <<highfd, origfds, currfds>>

ms1 == 1
ms10 == 2
ms100 == 3
Timers == {ms1, ms10, ms100}
Periods(t) == IF t = ms1 THEN 1 ELSE IF t = ms10 THEN Ratio ELSE Ratio * Ratio
Interval(t) == Step * Periods(t)
Zero == [t \in Timers |-> 0]

Init ==
    /\ pc = "create" /\ fd = [t \in Timers |-> -1]
    /\ due = Zero /\ period = Zero /\ pending = Zero
    /\ highfd = 0 /\ origfds = {} /\ currfds = {} /\ test = 0 /\ rc = 0 /\ waited = 0
    /\ reports = Zero /\ age = Zero

Ended == pc \in {"aborted", "undefined", "done", "watchdog fired", "error in select"}
InLoop == pc \in {"select", "read100", "read10", "read1", "again"}

\* Three timerfd_create calls: the kernel hands out the lowest free descriptor
\* each time, above 2, or fails; a close elsewhere can free a lower one.  The
\* assert is satisfied by any one of the three; FD_SET of a failed one is undefined.
Create ==
    /\ pc = "create"
    /\ \E ok \in SUBSET Timers, to \in [Timers -> 3 .. 5] :
          /\ \A t, u \in ok : t < u => to[t] # to[u]
          /\ fd' = [t \in Timers |-> IF t \in ok THEN to[t] ELSE -1]
          /\ pc' = IF ok = {} THEN "aborted" ELSE IF ok = Timers THEN "settime1" ELSE "undefined"
    /\ UNCHANGED <<kernel, sets, test, rc, waited, reports>>

\* timerfd_settime, one call for each timer.  The value ms1 gets is filled in; the
\* others are armed with what the stack holds: refused or not armed, to fire once or
\* periodically, soon or late, often or seldom.
Armings(t) ==
    IF t = ms1 \/ Initialised THEN {[due |-> 1, period |-> Interval(t)]}
    ELSE [due : Durations, period : Durations \cup {0}] \cup {[due |-> 0, period |-> 0]}

Settime(t, ahead) ==
    /\ \E a \in Armings(t) :
          due' = [due EXCEPT ![t] = a.due] /\ period' = [period EXCEPT ![t] = a.period]
    /\ pc' = ahead
    /\ UNCHANGED <<fd, pending, age, sets, test, rc, waited, reports>>

Settime1 == pc = "settime1" /\ Settime(ms1, "settime10")
Settime10 == pc = "settime10" /\ Settime(ms10, "settime100")
Settime100 == pc = "settime100" /\ Settime(ms100, "setup")

\* The descriptor sets, and highfd as the code computes it.
Setup ==
    /\ pc = "setup"
    /\ origfds' = {fd[t] : t \in Timers} /\ currfds' = origfds'
    /\ highfd' = 1 + (IF fd[ms100] > fd[ms10] THEN fd[ms100]
                      ELSE IF fd[ms10] > fd[ms1] THEN fd[ms10] ELSE fd[ms1])
    /\ pc' = "select" /\ UNCHANGED <<fd, kernel, test, rc, waited, reports>>

----------------------------------------------------------------------------
Watched == {t \in Timers : fd[t] \in currfds /\ fd[t] < highfd}
Ready == {t \in Watched : pending[t] > 0}

\* The loop ends after its rounds with rc left at 0.
Exhausted ==
    /\ pc = "select" /\ test >= Rounds
    /\ test' = test + 1 /\ pc' = "after"
    /\ UNCHANGED <<fd, kernel, sets, rc, waited, reports>>

\* pselect returns the watched descriptors that are ready.
Pselect ==
    /\ pc = "select" /\ test < Rounds /\ Ready # {}
    /\ test' = test + 1 /\ rc' = Cardinality(Ready)
    /\ currfds' = {fd[t] : t \in Ready} /\ pc' = "read100" /\ waited' = 0
    /\ UNCHANGED <<fd, kernel, highfd, origfds, reports>>

\* Nothing watched is ready when the watchdog expires.
Watchdog ==
    /\ pc = "select" /\ test < Rounds /\ Ready = {} /\ waited >= Patience
    /\ test' = test + 1 /\ rc' = 0 /\ currfds' = {} /\ pc' = "after"
    /\ UNCHANGED <<fd, kernel, highfd, origfds, waited, reports>>

\* pselect fails, ENOMEM for one; every signal is blocked, so never by EINTR.
SelectFails ==
    /\ pc = "select" /\ test < Rounds
    /\ test' = test + 1 /\ rc' = -1 /\ pc' = "after"
    /\ UNCHANGED <<fd, kernel, sets, waited, reports>>

Mutant_ReadOnce(t, ahead) ==
    \/ /\ fd[t] \in currfds /\ pending[t] > 0
       /\ reports' = [reports EXCEPT ![t] = @ + 1]
       /\ pending' = [pending EXCEPT ![t] = 0] /\ pc' = ahead
    \/ /\ fd[t] \notin currfds
       /\ pc' = ahead /\ UNCHANGED <<pending, reports>>

\* READ_OVER: read_overrun returns and clears the count; on a timer with none
\* the read would block.
Take(t, ahead) ==
    \/ /\ fd[t] \in currfds /\ pending[t] > 0
       /\ reports' = [reports EXCEPT ![t] = @ + pending[t]]
       /\ pending' = [pending EXCEPT ![t] = 0] /\ pc' = ahead
    \/ /\ fd[t] \notin currfds
       /\ pc' = ahead /\ UNCHANGED <<pending, reports>>

READ_OVER(t, ahead) ==
    /\ Take(t, ahead) /\ UNCHANGED <<fd, due, period, age, sets, test, rc, waited>>

Read100 == pc = "read100" /\ READ_OVER(ms100, "read10")
Read10 == pc = "read10" /\ READ_OVER(ms10, "read1")
Read1 == pc = "read1" /\ READ_OVER(ms1, "again")

Again ==
    /\ pc = "again" /\ rc' = 0 /\ currfds' = origfds /\ pc' = "select"
    /\ UNCHANGED <<fd, kernel, highfd, origfds, test, waited, reports>>

\* The last lines: the messages depend on rc and on test.
After ==
    /\ pc = "after"
    /\ pc' = IF rc = 0 /\ test < Reported THEN "watchdog fired"
             ELSE IF rc = -1 THEN "error in select" ELSE "done"
    /\ UNCHANGED <<fd, kernel, sets, test, rc, waited, reports>>

Thread == \/ Create \/ Settime1 \/ Settime10 \/ Settime100 \/ Setup \/ Exhausted \/ Pselect \/ Watchdog
          \/ Read100 \/ Read10 \/ Read1 \/ Again \/ After

\* An instant passes: every armed timer comes nearer its expiration.  Only the
\* backlog of a timer pselect does not look at is left to saturate.
Unheard == {t \in Timers : InLoop /\ fd[t] >= highfd}

Tick ==
    /\ pc \notin {"create", "settime1"} /\ ~Ended
    /\ \A t \in Timers \ Unheard : due[t] = 1 => pending[t] < MaxBehind
    /\ pending' = [t \in Timers |->
          IF due[t] = 1 /\ pending[t] < MaxBehind THEN pending[t] + 1 ELSE pending[t]]
    /\ due' = [t \in Timers |-> IF due[t] = 0 THEN 0
                                ELSE IF due[t] = 1 THEN period[t] ELSE due[t] - 1]
    /\ waited' = IF pc = "select" /\ waited < Patience THEN waited + 1 ELSE waited
    /\ age' = [t \in Timers |-> IF Initialised /\ due[t] > 0 THEN age[t] + 1 ELSE age[t]]
    /\ UNCHANGED <<pc, fd, period, sets, test, rc, reports>>

Next == Thread \/ SelectFails \/ Tick

Safe == Init /\ [][Next]_vars

\* The thread runs and time passes; nothing makes pselect fail.
Spec == Safe /\ WF_vars(Thread) /\ WF_vars(Tick)

----------------------------------------------------------------------------
\* The one order of the descriptors for which highfd leaves out a timer, ms1: it
\* takes a closed descriptor between the calls of timerfd_create.
Misordered == fd[ms10] < fd[ms100] /\ fd[ms100] < fd[ms1]
Heard == IF Misordered THEN {ms10, ms100} ELSE Timers

\* Whatever descriptors the kernel hands out, every round watches all three timers,
\* or the two slower ones in exactly the one order highfd is wrong for.
AllWatched == pc = "select" => Watched = Heard

\* The thread never blocks in the read of a timer: whenever it comes to read one
\* that pselect reported, there is something to read.
NeverBlocksInRead == \A t \in Timers :
    /\ pc = (IF t = ms100 THEN "read100" ELSE IF t = ms10 THEN "read10" ELSE "read1")
    /\ fd[t] \in currfds
    => pending[t] > 0

\* No expiration of a watched timer goes unreported or is reported twice, however
\* late the thread comes and however long it took from one timerfd_settime to the
\* next: what was reported and what waits add up to the periods begun since the
\* timer was armed.  So a slower timer, armed later, is never ahead of its share.
CountsAgree == Initialised =>
    LET count == [t \in Timers |-> reports[t] + pending[t]]
    IN  /\ \A t \in Heard : count[t] = (age[t] + Interval(t) - 1) \div Interval(t)
        /\ ~Misordered => \A t \in Timers : (count[t] - 1) * Periods(t) < count[ms1]

\* The watchdog never expires while a watched timer runs, so its message is never
\* a false alarm.
NoFalseWatchdog == Initialised /\ pc = "after" /\ rc = 0 => test > Rounds

\* A full run of the loop has heard of every timer it watches, and of no other.
EachTimerReported == Initialised /\ pc = "done" => \A t \in Timers : reports[t] > 0 <=> t \in Heard

\* What the loop promises whichever descriptors the kernel hands out, in one; the
\* first and the last part whatever the intervals hold, too.
TimersSound ==
    AllWatched /\ CountsAgree /\ NoFalseWatchdog /\ EachTimerReported /\ NeverBlocksInRead

\* The loop ends, whatever the slower timers were armed with.
LoopEnds == <>Ended
============================================================================
