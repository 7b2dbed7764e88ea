------------------------------- MODULE RingSpsc -------------------------------
(***************************************************************************)
(* One writer thread and one reader thread share a ring buffer without a    *)
(* lock: thread_writer and thread_reader of test_ringbuffer.c, with         *)
(* ringbuffer_write and ringbuffer_read of ringbuffer.c inlined and split   *)
(* at every access to shared memory, the way the unoptimised build runs     *)
(* them.  Steps interleave freely; x86 locked instructions make atomic_add  *)
(* and atomic_compare_and_swap single steps.  memcpy moves one unit per     *)
(* step, in any order.  C leaves the order of the two loads of              *)
(* "rbuf->widx - rbuf->ridx" open, so both are modelled.                    *)
(*                                                                          *)
(* The stream is Total units long and sent as records of Rec units.  A unit *)
(* is labelled with its place in the stream: the first unit of a record     *)
(* carries seqnum, the last one flags, and flags is 1 only in the last      *)
(* record.  InFlight bounds how far the writer may run ahead of the reader: *)
(* InFlight >= Total is the code as it stands, a smaller value is a caller  *)
(* that sizes the ring "so large that it will never block"                  *)
(* (test_simple.c).                                                         *)
(***************************************************************************)
EXTENDS RingIndex, Sequences

CONSTANTS
    Rec,        \* sizeof(ack_t) in units
    Total,      \* TEST_LOOPS records, in units
    InFlight    \* most units written and not yet read when a write returns

(* x units are a number of whole records. *)
Whole(x) == \E m \in 0 .. x : x = m * Rec

ASSUME StreamAssumption ==
    /\ Rec \in Nat \ {0} /\ Rec <= Size
    /\ Total \in Nat \ {0} /\ Whole(Total)
    /\ InFlight \in Nat /\ InFlight >= Rec

VARIABLES
    mem,            \* the memory file: a stream label per unit
    ridx, widx,     \* rbuf->ridx, rbuf->widx
    wpc,            \* where thread_writer is
    wtmp,           \* the index its first load returned
    wlen,           \* len of ringbuffer_write
    wat, wleft,     \* memcpy: index of its target, units still to copy
    wbase,          \* label of the first unit of the current record
    rpc,            \* where thread_reader is
    rlen, rleft,    \* len of ringbuffer_read, units still to copy
    rtmp,           \* temp of the compare-and-swap loop
    got,            \* ack_t a
    expect,         \* seqnums, in units
    wrote, took,    \* units appended and removed so far (history)
    exit            \* "running", or how the process ended

writerVars == <<wpc, wtmp, wlen, wat, wleft, wbase, wrote>>
readerVars == <<rpc, rlen, rleft, rtmp, got, expect, took>>
vars == <<mem, ridx, widx, writerVars, readerVars, exit>>

Label == 0 .. Total - 1
Fresh == Total                      \* a unit of the file nobody wrote yet
LastFlag == Total - 1               \* the unit whose flags field is 1

Init ==
    /\ mem = [c \in CellIds |-> Fresh]
    /\ ridx = 0 /\ widx = 0
    /\ wpc = "idle" /\ wtmp = 0 /\ wlen = 0 /\ wat = 0 /\ wleft = {} /\ wbase = 0
    /\ rpc = "idle" /\ rlen = 0 /\ rleft = {} /\ rtmp = 0
    /\ got = [k \in 1 .. Rec |-> Fresh]
    /\ expect = 0
    /\ wrote = 0 /\ took = 0
    /\ exit = "running"

-----------------------------------------------------------------------------
(* thread_writer calls ringbuffer_write, whose first act is to load one of  *)
(* the two indices.                                                         *)
WFirstLoad ==
    /\ exit = "running" /\ wpc = "idle"
    /\ (wrote - took) + Rec <= InFlight
    /\ \/ wpc' = "haveW" /\ wtmp' = widx
       \/ wpc' = "haveR" /\ wtmp' = ridx
    /\ UNCHANGED <<mem, ridx, widx, wlen, wat, wleft, wbase, wrote, readerVars, exit>>

WriterSees == IF wpc = "haveW" THEN ringbuffer_used(wtmp, ridx) ELSE ringbuffer_used(widx, wtmp)

(* Mutant: one unit is always kept free. *)
Mutant_WSecondLoadOneFree ==
    /\ exit = "running" /\ wpc \in {"haveW", "haveR"}
    /\ wlen' = min_size_t(SubW(Size - 1, WriterSees), Rec)
    /\ wpc' = IF wlen' > 0 THEN "addr" ELSE "idle"
    /\ UNCHANGED <<mem, ridx, widx, wtmp, wat, wleft, wbase, wrote, readerVars, exit>>

(* The second load settles len; with no room the call returns 0 and the     *)
(* thread yields and tries again.                                           *)
WSecondLoad ==
    /\ exit = "running" /\ wpc \in {"haveW", "haveR"}
    /\ wlen' = min_size_t(SubW(Size, WriterSees), Rec)
    /\ wpc' = IF wlen' > 0 THEN "addr" ELSE "idle"
    /\ UNCHANGED <<mem, ridx, widx, wtmp, wat, wleft, wbase, wrote, readerVars, exit>>

(* &rbuf->address[rbuf->widx] loads widx once more. *)
WAddress ==
    /\ exit = "running" /\ wpc = "addr"
    /\ wat' = widx
    /\ wleft' = 0 .. (wlen - 1)
    /\ wpc' = "copy"
    /\ UNCHANGED <<mem, ridx, widx, wtmp, wlen, wbase, wrote, readerVars, exit>>

WCopy ==
    /\ exit = "running" /\ wpc = "copy"
    /\ \E j \in wleft :
         /\ Mapped(wat + j)
         /\ mem' = [mem EXCEPT ![Cell(wat + j)] = wbase + j]
         /\ wleft' = wleft \ {j}
         /\ wpc' = IF wleft = {j} THEN "add" ELSE "copy"
    /\ UNCHANGED <<ridx, widx, wtmp, wlen, wat, wbase, wrote, readerVars, exit>>

(* memcpy leaves the two mappings: undefined behaviour, modelled no further. *)
WStray ==
    /\ exit = "running" /\ wpc = "copy"
    /\ \E j \in wleft : ~Mapped(wat + j)
    /\ exit' = "stray"
    /\ UNCHANGED <<mem, ridx, widx, writerVars, readerVars>>

(* A short count makes the thread send the whole record again, except that  *)
(* any non-zero count will do for the last one.                             *)
RecordSent == wlen = Rec \/ wbase + Rec = Total

(* Mutant: a plain store computed from the earlier load of widx. *)
Mutant_WAddStale ==
    /\ exit = "running" /\ wpc = "add"
    /\ widx' = AddW(wat, wlen)
    /\ wrote' = wrote + wlen
    /\ wbase' = IF RecordSent THEN wbase + Rec ELSE wbase
    /\ wpc' = IF RecordSent /\ wbase + Rec = Total THEN "done" ELSE "idle"
    /\ UNCHANGED <<mem, ridx, wtmp, wlen, wat, wleft, readerVars, exit>>

(* atomic_add(&rbuf->widx, len), and thread_writer's test of the count. *)
WAdd ==
    /\ exit = "running" /\ wpc = "add"
    /\ widx' = AddW(widx, wlen)
    /\ wrote' = wrote + wlen
    /\ wbase' = IF RecordSent THEN wbase + Rec ELSE wbase
    /\ wpc' = IF RecordSent /\ wbase + Rec = Total THEN "done" ELSE "idle"
    /\ UNCHANGED <<mem, ridx, wtmp, wlen, wat, wleft, readerVars, exit>>

Writer == WFirstLoad \/ WSecondLoad \/ WAddress \/ WCopy \/ WStray \/ WAdd

-----------------------------------------------------------------------------
(* Mutant: the test for an empty ring is dropped. *)
Mutant_RUsedNoTest ==
    /\ exit = "running" /\ rpc = "idle"
    /\ rlen' = Rec
    /\ rleft' = 0 .. (rlen' - 1)
    /\ rpc' = "copy"
    /\ UNCHANGED <<mem, ridx, widx, rtmp, got, expect, took, writerVars, exit>>

(* Mutant: the test asks for more than one record. *)
(* ringbuffer_read finds data; while there is none the thread yields, which *)
(* changes nothing.  Only this thread writes ridx.                          *)
RUsed ==
    /\ exit = "running" /\ rpc = "idle"
    /\ ringbuffer_used(widx, ridx) > 0
    /\ rlen' = min_size_t(ringbuffer_used(widx, ridx), Rec)
    /\ rleft' = 0 .. (rlen' - 1)
    /\ rpc' = "copy"
    /\ UNCHANGED <<mem, ridx, widx, rtmp, got, expect, took, writerVars, exit>>

RCopy ==
    /\ exit = "running" /\ rpc = "copy"
    /\ \E j \in rleft :
         /\ got' = [got EXCEPT ![j + 1] = mem[Cell(ridx + j)]]
         /\ rleft' = rleft \ {j}
         /\ rpc' = IF rleft = {j} THEN "inc" ELSE "copy"
    /\ UNCHANGED <<mem, ridx, widx, rlen, rtmp, expect, took, writerVars, exit>>

(* Mutant: the wrap comes too late. *)
Mutant_RIncLateWrap ==
    /\ exit = "running" /\ rpc = "inc"
    /\ ridx' = AddW(ridx, rlen)
    /\ took' = took + rlen
    /\ rpc' = IF ridx' > Size + Rec THEN "load" ELSE "check"
    /\ UNCHANGED <<mem, widx, rlen, rleft, rtmp, got, expect, writerVars, exit>>

(* rbuf->ridx += len, then the test that decides whether to wrap. *)
RInc ==
    /\ exit = "running" /\ rpc = "inc"
    /\ ridx' = AddW(ridx, rlen)
    /\ took' = took + rlen
    /\ rpc' = IF ridx' > Size THEN "load" ELSE "check"
    /\ UNCHANGED <<mem, widx, rlen, rleft, rtmp, got, expect, writerVars, exit>>

RLoad ==
    /\ exit = "running" /\ rpc = "load"
    /\ rtmp' = widx
    /\ rpc' = "cas"
    /\ UNCHANGED <<mem, ridx, widx, rlen, rleft, got, expect, took, writerVars, exit>>

(* Mutant: a store instead of the compare-and-swap. *)
Mutant_RCasBlind ==
    /\ exit = "running" /\ rpc = "cas"
    /\ widx' = SubW(rtmp, Size) /\ rpc' = "sub"
    /\ UNCHANGED <<mem, ridx, rlen, rleft, rtmp, got, expect, took, writerVars, exit>>

(* Mutant: the load stays outside the loop. *)
Mutant_RCasNoReload ==
    /\ exit = "running" /\ rpc = "cas"
    /\ IF widx = rtmp
         THEN widx' = SubW(rtmp, Size) /\ rpc' = "sub"
         ELSE UNCHANGED <<rpc, widx>>
    /\ UNCHANGED <<mem, ridx, rlen, rleft, rtmp, got, expect, took, writerVars, exit>>

RCas ==
    /\ exit = "running" /\ rpc = "cas"
    /\ IF widx = rtmp
         THEN widx' = SubW(rtmp, Size) /\ rpc' = "sub"
         ELSE rpc' = "load" /\ UNCHANGED widx
    /\ UNCHANGED <<mem, ridx, rlen, rleft, rtmp, got, expect, took, writerVars, exit>>

(* Mutant: "ridx -= size" is forgotten. *)
Mutant_RSubForgotten ==
    /\ exit = "running" /\ rpc = "sub"
    /\ rpc' = "check"
    /\ UNCHANGED <<mem, ridx, widx, rlen, rleft, rtmp, got, expect, took, writerVars, exit>>

RSub ==
    /\ exit = "running" /\ rpc = "sub"
    /\ ridx' = SubW(ridx, Size)
    /\ rpc' = "check"
    /\ UNCHANGED <<mem, widx, rlen, rleft, rtmp, got, expect, took, writerVars, exit>>

(* thread_reader looks at the count, then at flags; a wrong seqnum is only   *)
(* reported.                                                                *)
RCheck ==
    /\ exit = "running" /\ rpc = "check"
    /\ IF rlen # Rec
         THEN exit' = "truncated" /\ UNCHANGED <<rpc, expect>>
         ELSE /\ UNCHANGED exit
              /\ IF got[Rec] = LastFlag
                   THEN rpc' = "done" /\ UNCHANGED expect
                   ELSE rpc' = "idle" /\ expect' = expect + Rec
    /\ UNCHANGED <<mem, ridx, widx, rlen, rleft, rtmp, got, took, writerVars>>

Reader == RUsed \/ RCopy \/ RInc \/ RLoad \/ RCas \/ RSub \/ RCheck

-----------------------------------------------------------------------------
(* Both threads joined, or the process gone. *)
Ended == exit # "running" \/ (wpc = "done" /\ rpc = "done")
Finished == Ended /\ UNCHANGED vars

Next == Writer \/ Reader \/ Finished

Safe == Init /\ [][Next]_vars

(* Both are runnable threads of one process: the scheduler runs each again  *)
(* and again (they only ever sched_yield).                                  *)
Spec == Safe /\ WF_vars(Writer) /\ WF_vars(Reader)

-----------------------------------------------------------------------------
InUse == wrote - took               \* units in the ring, by the history
Wrapping == rpc = "sub"             \* widx has moved down and ridx has not
PastFirstMapping == rpc \in {"load", "cas", "sub"}

(* Types of the shared ring, of each thread's locals and of the history. *)
TypeOK ==
    /\ mem \in [CellIds -> 0 .. Total]
    /\ ridx \in Word /\ widx \in Word
    /\ wpc \in {"idle", "haveW", "haveR", "addr", "copy", "add", "done"}
    /\ wtmp \in Word /\ wlen \in 0 .. Rec /\ wat \in Word
    /\ wleft \subseteq 0 .. (Rec - 1)
    /\ wbase \in 0 .. Total
    /\ rpc \in {"idle", "copy", "inc", "load", "cas", "sub", "check", "done"}
    /\ rlen \in 0 .. Rec /\ rleft \subseteq 0 .. (Rec - 1) /\ rtmp \in Word
    /\ got \in [1 .. Rec -> 0 .. Total]
    /\ expect \in Nat /\ wrote \in Nat /\ took \in Nat
    /\ exit \in {"running", "stray", "truncated"}

(* The compare-and-swap loop and the atomic add never lose an update: the   *)
(* two indices differ by exactly the units written and not read, except     *)
(* that widx is a whole size low between the swap and "ridx -= size".       *)
Accounting ==
    /\ InUse >= 0
    /\ widx + (IF Wrapping THEN Size ELSE 0) = ridx + InUse

(* However the threads interleave, thread_reader copies out of the two      *)
(* mappings only, and the wrap loop finds widx at least size up, so         *)
(* "temp - size" never wraps.                                               *)
ReaderInside ==
    /\ rpc \in {"idle", "copy", "inc", "check"} => ridx <= Size
    /\ PastFirstMapping => ridx > Size
    /\ rpc \in {"load", "cas"} => widx >= Size

(* thread_reader never leaves through its "TRUNCATED READ" exit. *)
NeverTruncated == exit # "truncated"

(* ringbuffer_write never copies outside the double mapping. *)
NeverStray == exit # "stray"

(* thread_reader's "missing seqno" test: a record looked at is the next one *)
(* of the stream, whole.                                                    *)
SeqnumInOrder ==
    rpc = "check" /\ rlen = Rec => \A k \in 1 .. Rec : got[k] = expect + k - 1

(* A thread's memcpy and the other thread's memcpy are never inside the     *)
(* same unit at the same time, so no record is torn.                        *)
CopiesDisjoint ==
    exit = "running" /\ wpc = "copy" /\ rpc = "copy" =>
        \A i \in wleft, j \in rleft : Mapped(wat + i) => Cell(wat + i) # Cell(ridx + j)

(* Both threads get to their end, or the process is ended by one of them.   *)
Terminates == <>Ended

(* Paced, both threads return: no record is lost on the way to the flag. *)
BothDone == <>(wpc = "done" /\ rpc = "done")

(* Seen from outside, the two threads operate a FIFO: a record enters at    *)
(* atomic_add and leaves at "ridx += len".                                  *)
InRing == [k \in 1 .. InUse |-> mem[Cell(ridx + (k - 1))]]
LastPut == IF wrote = 0 THEN <<>> ELSE [k \in 1 .. Rec |-> (wrote - Rec) + (k - 1)]
Delivered == IF PastFirstMapping \/ rpc = "check" THEN [k \in 1 .. rlen |-> got[k]] ELSE <<>>
Fifo == INSTANCE ByteFifo WITH
            Byte <- Label, Capacity <- Size,
            queue <- InRing, in <- LastPut, out <- Delivered
ImplementsByteFifo == Fifo!Spec

-----------------------------------------------------------------------------
(* The inductive invariants behind the properties above.                    *)

ReaderShape ==
    /\ rpc \in {"idle", "copy", "inc", "check", "done"} => ridx <= Size
    /\ PastFirstMapping => ridx > Size /\ ridx <= Size + Rec
    /\ rpc \in {"copy", "inc"} => 1 <= rlen /\ rlen <= InUse
    /\ rpc = "copy" => rleft \subseteq 0 .. (rlen - 1)
    /\ rpc = "cas" => Size <= rtmp /\ rtmp <= widx

WriterShape ==
    /\ widx <= 2 * Size
    /\ wpc \in {"addr", "copy", "add"} => 1 <= wlen
    /\ wpc = "copy" => wleft \subseteq 0 .. (wlen - 1)
    /\ wpc = "add" => wleft = {}
    /\ wpc \in {"copy", "add"} =>
         /\ wat <= 2 * Size
         /\ widx = wat \/ widx + Size = wat
         /\ \A j \in 0 .. (wlen - 1) : j \in wleft \/ Mapped(wat + j)
    /\ wpc # "done" => wbase < Total
    /\ Whole(Total - wbase)

(* What holds however far the writer runs ahead: the accounting of the      *)
(* indices, where the reader may stand, and that the reader's wrap moves    *)
(* the target of a copy in progress by one whole size at most.              *)
RaceInv == TypeOK /\ Accounting /\ ReaderShape /\ WriterShape

(* Records that divide the ring stay whole, however far the writer runs     *)
(* ahead: every index is a number of records, so any pair of loads leaves   *)
(* ringbuffer_write room for a record or none.                              *)
WholeInv ==
    /\ RaceInv
    /\ Whole(ridx) /\ Whole(widx) /\ Whole(InUse)
    /\ wpc \in {"haveW", "haveR"} => Whole(wtmp) /\ wtmp <= 2 * Size
    /\ wpc \in {"addr", "copy", "add"} => wlen = Rec
    /\ rpc \in {"copy", "inc", "load", "cas", "sub", "check"} => rlen = Rec

(* The caller keeps the ring large enough never to block. *)
Paced == InFlight + Rec <= Size

Copying == wpc \in {"copy", "add"}
Calling == wpc \in {"haveW", "haveR", "addr"} \/ Copying
Reading == rpc \in {"copy", "inc"}
HaveRead == PastFirstMapping \/ rpc = "check"

(* A stale first load is off by nothing or by one whole size. *)
StaleLoad ==
    /\ wpc = "haveW" => wtmp <= 2 * Size /\ (widx = wtmp \/ widx + Size = wtmp)
    /\ wpc = "haveR" => \E t \in 0 .. (InFlight - Rec) :
                           wtmp <= Size + Rec /\ (widx = wtmp + t \/ widx + Size = wtmp + t)

Pacing ==
    /\ InUse <= InFlight
    /\ Calling => InUse + Rec <= InFlight
    /\ Whole(InUse)
    /\ wpc = "addr" \/ Copying => wlen = Rec
    /\ Copying => wat + Rec <= 2 * Size
    /\ Reading \/ HaveRead => rlen = Rec

(* Every unit is where the reader will look for it: those in the ring,      *)
(* those being copied in, those copied out.                                 *)
InPlace ==
    /\ wbase = wrote
    /\ \A k \in 0 .. (InUse - 1) : mem[Cell(ridx + k)] = took + k
    /\ Copying => \A j \in 0 .. (Rec - 1) : j \in wleft \/ mem[Cell(wat + j)] = wrote + j
    /\ rpc = "idle" \/ Reading => expect = took
    /\ Reading => \A j \in 0 .. (Rec - 1) : j \in rleft \/ got[j + 1] = took + j
    /\ rpc = "inc" => rleft = {}
    /\ HaveRead => /\ expect + Rec = took
                   /\ \A j \in 0 .. (Rec - 1) : got[j + 1] = expect + j

(* What pacing adds: both loads of ringbuffer_write, however stale, leave   *)
(* room for the record or none, and no unit is ever overwritten unread.     *)
PacedInv == RaceInv /\ StaleLoad /\ Pacing /\ InPlace
=============================================================================
