----------------------------- MODULE UtilTime -----------------------------
(***************************************************************************)
(* The struct timeval arithmetic of util.c and twd_time.h.  A caller keeps *)
(* a deadline d, folds times into it with timeval_min and timeval_min_sec  *)
(* (the way an event loop computes its select timeout), and a record y     *)
(* that timeval_subtract rewrites in place each time it is used.           *)
(***************************************************************************)
EXTENDS Integers, FiniteSets

CONSTANTS
    USEC,       \* microseconds in a second: 1000000 in the code
    MSECS,      \* milliseconds in a second: 1000 in the code
    FarSecs,    \* the seconds beyond which timeval_minus_msec saturates
    Secs,       \* the tv_sec values of the times used
    MaxDelay,   \* bound: the longest delay used, in milliseconds
    MaxFolds    \* bound: times folded into one deadline

VARIABLES
    d,          \* the deadline; {0, 0} stands for none
    folded,     \* history: the times folded into d since it was {0, 0}
    y,          \* the record timeval_subtract is given and rewrites
    y0          \* history: y as its owner set it

vars == <<d, folded, y, y0>>

Timevals == [tv_sec : Secs, tv_usec : 0 .. USEC - 1]
Delays == -MaxDelay .. MaxDelay
Never == [tv_sec |-> 0, tv_usec |-> 0]
UsecsPerMsec == USEC \div MSECS

\* The C operators: division truncates towards zero, and % agrees with it.
CDiv(a, b) == IF a < 0 THEN -((-a) \div b) ELSE a \div b
CMod(a, b) == a - b * CDiv(a, b)

\* The instant a timeval stands for, in microseconds.
Instant(t) == t.tv_sec * USEC + t.tv_usec
Normal(t) == t.tv_usec \in 0 .. USEC - 1

----------------------------------------------------------------------------
(* util.c *)

\* The values roughly(value) may return.
roughly(value) ==
    LET near(v) == IF v <= 1 THEN {v}
                   ELSE {(v * 3) \div 4 + r : r \in 0 .. (v \div 2) - 1}
    IN  IF value < 0 THEN {-r : r \in near(-value)} ELSE near(value)

timeval_minus(s1, s2) ==
    IF s1.tv_usec >= s2.tv_usec
    THEN [tv_sec |-> s1.tv_sec - s2.tv_sec, tv_usec |-> s1.tv_usec - s2.tv_usec]
    ELSE [tv_sec |-> s1.tv_sec - s2.tv_sec - 1,
          tv_usec |-> s1.tv_usec + USEC - s2.tv_usec]

timeval_minus_msec(s1, s2) ==
    CASE s1.tv_sec < s2.tv_sec -> 0
      [] s1.tv_sec - s2.tv_sec > FarSecs -> FarSecs * MSECS
      [] s1.tv_sec > s2.tv_sec /\ s1.tv_sec - s2.tv_sec <= FarSecs ->
            (s1.tv_sec - s2.tv_sec) * MSECS
               + CDiv(s1.tv_usec - s2.tv_usec, UsecsPerMsec)
      [] s1.tv_sec = s2.tv_sec /\ s1.tv_usec <= s2.tv_usec -> 0
      [] OTHER -> (s1.tv_usec - s2.tv_usec) \div UsecsPerMsec

timeval_add_msec(s, msecs) ==
    LET sec == s.tv_sec + CDiv(msecs, MSECS)
        usecs == s.tv_usec + CMod(msecs, MSECS) * UsecsPerMsec
    IN  IF usecs < USEC THEN [tv_sec |-> sec, tv_usec |-> usecs]
        ELSE [tv_sec |-> sec + 1, tv_usec |-> usecs - USEC]

timeval_compare(s1, s2) ==
    CASE s1.tv_sec < s2.tv_sec -> -1
      [] s1.tv_sec > s2.tv_sec -> 1
      [] OTHER -> CASE s1.tv_usec < s2.tv_usec -> -1
                    [] s1.tv_usec > s2.tv_usec -> 1
                    [] OTHER -> 0

\* The new value of the deadline e after timeval_min(&e, s).
timeval_min(e, s) ==
    IF s.tv_sec # 0 /\ (e.tv_sec = 0 \/ timeval_compare(e, s) > 0) THEN s ELSE e

\* The values e may have after timeval_min_sec(&e, secs).
timeval_min_sec(e, secs) ==
    IF e.tv_sec = 0 \/ e.tv_sec > secs
    THEN [tv_sec : {secs}, tv_usec : 0 .. USEC - 1] ELSE {e}

----------------------------------------------------------------------------
(* twd_time.h: the difference x - yy, the negative flag, and what is left in *)
(* the caller's second record.                                              *)

Borrowed(x, yy) ==
    IF x.tv_usec >= yy.tv_usec THEN yy
    ELSE LET nsec == (yy.tv_usec - x.tv_usec) \div USEC + 1
         IN  [tv_sec |-> yy.tv_sec + nsec, tv_usec |-> yy.tv_usec - USEC * nsec]

Repaid(x, yy) ==
    IF x.tv_usec - yy.tv_usec <= USEC THEN yy
    ELSE LET nsec == (x.tv_usec - yy.tv_usec) \div USEC
         IN  [tv_sec |-> yy.tv_sec - nsec, tv_usec |-> yy.tv_usec + USEC * nsec]

Mutant_SubtractNoRepay(x, yy) ==
    LET left == Borrowed(x, yy)
    IN  [result |-> [tv_sec |-> x.tv_sec - left.tv_sec,
                     tv_usec |-> x.tv_usec - left.tv_usec],
         negative |-> x.tv_sec < left.tv_sec, y |-> left]

timeval_subtract(x, yy) ==
    LET left == Repaid(x, Borrowed(x, yy))
    IN  [result |-> [tv_sec |-> x.tv_sec - left.tv_sec,
                     tv_usec |-> x.tv_usec - left.tv_usec],
         negative |-> x.tv_sec < left.tv_sec, y |-> left]

----------------------------------------------------------------------------
Init == d = Never /\ folded = {} /\ y \in Timevals /\ y0 = y

\* Fold the time s into the deadline.
FoldMin(s) ==
    /\ d' = timeval_min(d, s)
    /\ folded' = folded \cup {s}

\* Fold in an event due about msecs after the time now.
FoldDelay(now, msecs) == \E r \in roughly(msecs) : FoldMin(timeval_add_msec(now, r))

\* Fold in "some time during the second secs".
FoldMinSec(secs) == \E e \in timeval_min_sec(d, secs) :
    /\ d' = e
    /\ folded' = folded \cup {[tv_sec |-> secs, tv_usec |-> USEC - 1]}

Subtract(x) == y' = timeval_subtract(x, y).y

Restart == d' = Never /\ folded' = {}

Next ==
    \/ /\ Cardinality(folded) < MaxFolds /\ UNCHANGED <<y, y0>>
       /\ \/ \E s \in Timevals : FoldMin(s)
          \/ \E s \in Timevals, m \in Delays : m >= 0 /\ FoldDelay(s, m)
          \/ \E secs \in Secs : FoldMinSec(secs)
    \/ Restart /\ UNCHANGED <<y, y0>>
    \/ \E x \in Timevals : Subtract(x) /\ UNCHANGED <<d, folded, y0>>

Spec == Init /\ [][Next]_vars

----------------------------------------------------------------------------
\* The deadline kept by timeval_min and timeval_min_sec is never later than
\* any time folded into it: {0, 0} is the only time that means none.
DeadlineNotLate == \A s \in folded : s # Never =>
    d # Never /\ timeval_compare(d, s) <= 0

\* The deadline is not early either: it falls in the second of a time that was
\* folded in, so no event loop wakes for nothing by more than that.
DeadlineNotEarly == d # Never => \E s \in folded : d.tv_sec = s.tv_sec

\* However often timeval_subtract has borrowed from y in place, y still stands
\* for its owner's time, and a subtraction gives the true difference with at
\* most one whole second left in tv_usec.
SubtractKeepsY ==
    /\ Instant(y) = Instant(y0)
    /\ \A x \in Timevals : LET s == timeval_subtract(x, y) IN
          /\ Instant(s.result) = Instant(x) - Instant(y0)
          /\ s.result.tv_usec \in 0 .. USEC

\* On a record not borrowed from yet, timeval_subtract and timeval_minus agree,
\* the result is normalised and the negative flag means "earlier".
FreshSubtract == y = y0 => \A x \in Timevals :
    LET s == timeval_subtract(x, y) IN
    /\ s.result = timeval_minus(x, y) /\ Normal(s.result)
    /\ s.negative <=> timeval_compare(x, y) < 0

\* Milliseconds: timeval_minus_msec is the difference to within a millisecond,
\* never negative, and adding it back to y0 comes within a millisecond of x;
\* timeval_add_msec moves the instant by exactly msecs, also back in time, and
\* keeps tv_usec normalised when it moves forward.
MsecsAreExact == \A x \in Timevals, m \in Delays :
    LET gap == Instant(x) - Instant(y0)
        ms == timeval_minus_msec(x, y0)
        later == timeval_add_msec(x, m)
    IN  /\ gap <= 0 => ms = 0
        /\ gap > 0 /\ x.tv_sec - y0.tv_sec <= FarSecs =>
              ms >= 0 /\ ms * UsecsPerMsec - gap \in -(UsecsPerMsec - 1) .. UsecsPerMsec - 1
        /\ x.tv_sec - y0.tv_sec > FarSecs => ms = FarSecs * MSECS
        /\ Instant(later) = Instant(x) + m * UsecsPerMsec
        /\ m >= 0 => Normal(later)

\* An event set for roughly(m) milliseconds after y0 is due within a quarter of
\* the delay asked for, and never at y0 or on its other side, so a jittered timer
\* neither fires at once nor is moved into the past.
JitterNear == \A m \in Delays : \A r \in roughly(m) :
    LET due == Instant(timeval_add_msec(y0, r)) - Instant(y0)
        ask == m * UsecsPerMsec
        slack == 3 * UsecsPerMsec
    IN  /\ ask = 0 <=> due = 0
        /\ ask > 0 => due > 0 /\ 4 * due >= 3 * ask - slack /\ 4 * due <= 5 * ask
        /\ ask < 0 => due < 0 /\ 4 * due <= 3 * ask + slack /\ 4 * due >= 5 * ask

\* What the timeval arithmetic promises, in one.
TimesSound ==
    /\ DeadlineNotLate /\ DeadlineNotEarly
    /\ SubtractKeepsY /\ FreshSubtract
    /\ MsecsAreExact /\ JitterNear
============================================================================
