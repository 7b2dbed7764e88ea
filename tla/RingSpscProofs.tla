---------------------------- MODULE RingSpscProofs ----------------------------
(***************************************************************************)
(* Proofs about RingSpsc for every ring size, record size, stream length    *)
(* and word size.  RaceInv holds however far the writer runs ahead; PacedInv*)
(* holds when the caller keeps one record of slack (Paced).                 *)
(***************************************************************************)
EXTENDS RingSpsc, SequenceTheorems, TLAPS

(* A function on 1..n is a sequence of length n. *)
LEMMA FunctionIsSeq ==
    ASSUME NEW S, NEW n \in Nat, NEW f \in [1 .. n -> S]
    PROVE  f \in Seq(S) /\ Len(f) = n
<1>1. f \in Seq(S)
  BY SeqDef
<1>2. DOMAIN f = 1 .. n
  OBVIOUS
<1>3. DOMAIN f = 1 .. Len(f) /\ Len(f) \in Nat
  BY <1>1, LenProperties
<1>4. Len(f) = n
  BY <1>2, <1>3
<1> QED
  BY <1>1, <1>4

-----------------------------------------------------------------------------
(* Arithmetic of whole records: the only products in the development.       *)

(* No units are no records. *)
LEMMA WholeZero == Whole(0)
BY StreamAssumption DEF Whole

(* One more record leaves a number of whole records. *)
LEMMA WholePlus ==
    ASSUME NEW x \in Nat, Whole(x)
    PROVE  Whole(x + Rec)
<1>1. PICK m \in 0 .. x : x = m * Rec
  BY DEF Whole
<1>2. x + Rec = (m + 1) * Rec
  BY <1>1, StreamAssumption
<1>3. m + 1 \in 0 .. (x + Rec)
  BY <1>1, StreamAssumption
<1> QED
  BY <1>2, <1>3 DEF Whole

(* Whole records are none, or at least one with whole records left. *)
LEMMA WholeMinus ==
    ASSUME NEW x \in Nat, Whole(x), x > 0
    PROVE  x >= Rec /\ Whole(x - Rec)
<1>1. PICK m \in 0 .. x : x = m * Rec
  BY DEF Whole
<1>2. m > 0
  BY <1>1, StreamAssumption
<1>3. PICK n \in Nat : m = n + 1
  <2>1. m - 1 \in Nat /\ m = (m - 1) + 1
    BY <1>1, <1>2
  <2> QED
    BY <2>1
<1>4. x = n * Rec + Rec
  BY <1>1, <1>3, StreamAssumption
<1>5. n * Rec \in Nat /\ n <= n * Rec
  BY <1>3, StreamAssumption
<1>6. x - Rec = n * Rec /\ x >= Rec /\ n \in 0 .. (x - Rec)
  BY <1>3, <1>4, <1>5, StreamAssumption
<1> QED
  BY <1>6 DEF Whole

-----------------------------------------------------------------------------
(* RaceInv: one lemma per action.                                           *)

(* The threads start with an empty ring. *)
LEMMA RaceInit == Init => RaceInv
<1> SUFFICES ASSUME Init PROVE RaceInv
  OBVIOUS
<1> USE SizeAssumption, StreamAssumption DEF Init
<1>1. TypeOK
  BY DEF TypeOK, Word, CellIds, Fresh
<1>2. Accounting
  BY DEF Accounting, InUse, Wrapping
<1>3. ReaderShape
  BY DEF ReaderShape, PastFirstMapping
<1>4. WriterShape
  BY DEF WriterShape
<1> QED
  BY <1>1, <1>2, <1>3, <1>4 DEF RaceInv

(* The first load of ringbuffer_used changes locals of the writer only. *)
LEMMA RaceWFirstLoad == ASSUME RaceInv, WFirstLoad PROVE RaceInv'
<1> USE SizeAssumption, StreamAssumption DEF RaceInv, WFirstLoad, readerVars
<1>1. TypeOK'
  BY DEF TypeOK
<1>2. Accounting'
  BY DEF Accounting, InUse, Wrapping
<1>3. ReaderShape'
  BY DEF ReaderShape, PastFirstMapping, InUse
<1>4. WriterShape'
  BY DEF WriterShape
<1> QED
  BY <1>1, <1>2, <1>3, <1>4

(* The second load settles len between nothing and a record. *)
LEMMA RaceWSecondLoad == ASSUME RaceInv, WSecondLoad PROVE RaceInv'
<1> USE SizeAssumption, StreamAssumption DEF RaceInv, WSecondLoad, readerVars
<1>0. WriterSees \in Word
  BY DEF TypeOK, WriterSees, ringbuffer_used, SubW, Word
<1>1. wlen' \in 0 .. Rec
  BY <1>0 DEF TypeOK, min_size_t, SubW, Word
<1>2. TypeOK'
  BY <1>1 DEF TypeOK
<1>3. Accounting'
  BY DEF Accounting, InUse, Wrapping
<1>4. ReaderShape'
  BY DEF ReaderShape, PastFirstMapping, InUse
<1>5. WriterShape'
  BY <1>1 DEF WriterShape
<1> QED
  BY <1>2, <1>3, <1>4, <1>5

(* The target of the copy is widx at that moment. *)
LEMMA RaceWAddress == ASSUME RaceInv, WAddress PROVE RaceInv'
<1> USE SizeAssumption, StreamAssumption DEF RaceInv, WAddress, readerVars
<1>1. TypeOK'
  BY DEF TypeOK
<1>2. Accounting'
  BY DEF Accounting, InUse, Wrapping
<1>3. ReaderShape'
  BY DEF ReaderShape, PastFirstMapping, InUse
<1>4. WriterShape'
  BY DEF WriterShape
<1> QED
  BY <1>1, <1>2, <1>3, <1>4

(* A unit copied in lies in the mapping, or the process is gone. *)
LEMMA RaceWCopy == ASSUME RaceInv, WCopy PROVE RaceInv'
<1> USE SizeAssumption, StreamAssumption DEF RaceInv, WCopy, readerVars
<1>0. PICK j \in wleft :
         /\ Mapped(wat + j)
         /\ mem' = [mem EXCEPT ![Cell(wat + j)] = wbase + j]
         /\ wleft' = wleft \ {j}
         /\ wpc' = IF wleft = {j} THEN "add" ELSE "copy"
  OBVIOUS
<1>1. j \in 0 .. (Rec - 1) /\ wbase + Rec <= Total
  <2>1. wbase < Total /\ Whole(Total - wbase) /\ wbase \in Nat
    BY DEF WriterShape, TypeOK
  <2>2. Total - wbase \in Nat /\ Total - wbase > 0
    BY <2>1
  <2>3. Total - wbase >= Rec
    BY <2>1, <2>2, WholeMinus
  <2> QED
    BY <2>1, <2>3 DEF TypeOK
<1>2. TypeOK'
  <2>0. wbase + j \in 0 .. Total /\ mem \in [CellIds -> 0 .. Total]
    BY <1>1 DEF TypeOK
  <2>1. mem' \in [CellIds -> 0 .. Total]
    BY <1>0, <2>0
  <2> QED
    BY <2>1, <1>0 DEF TypeOK
<1>3. Accounting'
  BY DEF Accounting, InUse, Wrapping
<1>4. ReaderShape'
  BY DEF ReaderShape, PastFirstMapping, InUse
<1>5. WriterShape'
  BY <1>0 DEF WriterShape
<1> QED
  BY <1>2, <1>3, <1>4, <1>5

(* A copy that leaves the mapping ends the process. *)
LEMMA RaceWStray == ASSUME RaceInv, WStray PROVE RaceInv'
<1> USE DEF RaceInv, WStray, readerVars, writerVars
<1>1. TypeOK'
  BY DEF TypeOK
<1>2. Accounting'
  BY DEF Accounting, InUse, Wrapping
<1>3. ReaderShape'
  BY DEF ReaderShape, PastFirstMapping, InUse
<1>4. WriterShape'
  BY DEF WriterShape
<1> QED
  BY <1>1, <1>2, <1>3, <1>4

(* atomic_add moves widx by what was copied, to twice Size at most. *)
LEMMA RaceWAdd == ASSUME RaceInv, WAdd PROVE RaceInv'
<1> USE SizeAssumption, StreamAssumption DEF RaceInv, WAdd, readerVars
<1>1. /\ wbase < Total /\ wbase \in Nat /\ Total - wbase >= Rec
      /\ Whole(Total - wbase) /\ Whole((Total - wbase) - Rec)
  <2>1. wbase < Total /\ Whole(Total - wbase) /\ wbase \in Nat
    BY DEF WriterShape, TypeOK
  <2>2. Total - wbase \in Nat /\ Total - wbase > 0
    BY <2>1
  <2> QED
    BY <2>1, <2>2, WholeMinus
<1>2. (Total - wbase) - Rec = Total - (wbase + Rec)
  BY <1>1
<1>3. widx + wlen <= 2 * Size /\ widx' = widx + wlen /\ wlen \in 1 .. Rec
  <2>1. wlen \in 1 .. Rec /\ widx \in Nat /\ wat \in Nat
    BY DEF TypeOK, WriterShape, Word
  <2>2. wlen - 1 \in 0 .. (wlen - 1) /\ wat + (wlen - 1) < 2 * Size
    BY <2>1 DEF WriterShape, Mapped
  <2>3. widx + wlen <= 2 * Size
    BY <2>1, <2>2 DEF WriterShape
  <2> QED
    BY <2>1, <2>3 DEF AddW
<1>4. TypeOK'
  BY <1>1, <1>3 DEF TypeOK, Word
<1>5. Accounting'
  BY <1>3 DEF Accounting, InUse, Wrapping, TypeOK, Word
<1>6. ReaderShape'
  BY <1>3 DEF ReaderShape, PastFirstMapping, InUse, TypeOK, Word
<1>7. WriterShape'
  BY <1>1, <1>2, <1>3 DEF WriterShape, RecordSent, TypeOK
<1> QED
  BY <1>4, <1>5, <1>6, <1>7

(* The reader takes no more than the ring holds. *)
LEMMA RaceRUsed == ASSUME RaceInv, RUsed PROVE RaceInv'
<1> USE SizeAssumption, StreamAssumption DEF RaceInv, RUsed, writerVars
<1>0. /\ ridx \in Nat /\ widx \in Nat /\ InUse \in Nat
      /\ widx = ridx + InUse
  BY DEF TypeOK, Word, Accounting, Wrapping, InUse
<1>1. ringbuffer_used(widx, ridx) = InUse
  BY <1>0 DEF ringbuffer_used, SubW
<1>2. rlen' \in 1 .. Rec /\ rlen' <= InUse
  BY <1>0, <1>1 DEF min_size_t
<1>3. TypeOK'
  BY <1>2 DEF TypeOK
<1>4. Accounting'
  BY DEF Accounting, InUse, Wrapping
<1>5. ReaderShape'
  BY <1>2 DEF ReaderShape, PastFirstMapping, InUse
<1>6. WriterShape'
  BY DEF WriterShape
<1> QED
  BY <1>3, <1>4, <1>5, <1>6

(* A unit copied out changes the record only. *)
LEMMA RaceRCopy == ASSUME RaceInv, RCopy PROVE RaceInv'
<1> USE SizeAssumption, StreamAssumption DEF RaceInv, RCopy, writerVars
<1>0. PICK j \in rleft :
         /\ got' = [got EXCEPT ![j + 1] = mem[Cell(ridx + j)]]
         /\ rleft' = rleft \ {j}
         /\ rpc' = IF rleft = {j} THEN "inc" ELSE "copy"
  OBVIOUS
<1>1. j \in 0 .. (Rec - 1) /\ ridx \in Nat /\ ridx <= Size
  BY DEF TypeOK, ReaderShape, Word
<1>2. Cell(ridx + j) \in CellIds
  BY <1>1 DEF Cell, CellIds
<1>3. got' \in [1 .. Rec -> 0 .. Total]
  BY <1>0, <1>1, <1>2 DEF TypeOK
<1>4. TypeOK'
  BY <1>0, <1>3 DEF TypeOK
<1>5. Accounting'
  BY <1>0 DEF Accounting, InUse, Wrapping
<1>6. ReaderShape'
  BY <1>0 DEF ReaderShape, PastFirstMapping, InUse
<1>7. WriterShape'
  BY DEF WriterShape
<1> QED
  BY <1>4, <1>5, <1>6, <1>7

(* ridx passes Size by a record at most before the wrap. *)
LEMMA RaceRInc == ASSUME RaceInv, RInc PROVE RaceInv'
<1> USE SizeAssumption, StreamAssumption DEF RaceInv, RInc, writerVars
<1>1. /\ ridx \in Nat /\ ridx <= Size /\ rlen \in 1 .. Rec /\ rlen <= InUse
      /\ widx = ridx + InUse
  BY DEF TypeOK, Word, ReaderShape, Accounting, Wrapping
<1>2. ridx' = ridx + rlen
  BY <1>1 DEF AddW
<1>3. TypeOK'
  BY <1>1, <1>2 DEF TypeOK, Word
<1>4. Accounting'
  BY <1>1, <1>2 DEF Accounting, InUse, Wrapping, TypeOK
<1>5. ReaderShape'
  BY <1>1, <1>2 DEF ReaderShape, PastFirstMapping
<1>6. WriterShape'
  BY DEF WriterShape
<1> QED
  BY <1>3, <1>4, <1>5, <1>6

(* The load finds widx at least Size up, behind ridx. *)
LEMMA RaceRLoad == ASSUME RaceInv, RLoad PROVE RaceInv'
<1> USE SizeAssumption, StreamAssumption DEF RaceInv, RLoad, writerVars
<1>1. widx = ridx + InUse /\ InUse \in Nat /\ ridx \in Nat /\ ridx > Size
  BY DEF TypeOK, Word, Accounting, ReaderShape, PastFirstMapping, Wrapping, InUse
<1>2. TypeOK'
  BY DEF TypeOK
<1>3. Accounting'
  BY DEF Accounting, InUse, Wrapping
<1>4. ReaderShape'
  BY <1>1 DEF ReaderShape, PastFirstMapping, InUse
<1>5. WriterShape'
  BY DEF WriterShape
<1> QED
  BY <1>2, <1>3, <1>4, <1>5

(* The swap lowers widx by one size; a copy in progress keeps its target.   *)
LEMMA RaceRCas == ASSUME RaceInv, RCas PROVE RaceInv'
<1> USE SizeAssumption, StreamAssumption DEF RaceInv, RCas, writerVars
<1>0. /\ widx = ridx + InUse /\ InUse \in Nat /\ ridx \in Nat /\ ridx > Size
      /\ widx \in Nat /\ rtmp \in Nat /\ widx <= 2 * Size
  BY DEF TypeOK, Word, Accounting, ReaderShape, WriterShape, PastFirstMapping, Wrapping, InUse
<1>1. CASE widx = rtmp
  <2>1. widx' = widx - Size /\ rpc' = "sub"
    BY <1>0, <1>1 DEF SubW
  <2>2. TypeOK'
    BY <2>1, <1>0, <1>1 DEF TypeOK, Word
  <2>3. Accounting'
    BY <2>1, <1>0, <1>1 DEF Accounting, InUse, Wrapping
  <2>4. ReaderShape'
    BY <2>1, <1>0, <1>1 DEF ReaderShape, PastFirstMapping, InUse
  <2>5. WriterShape'
    <3>1. wpc \in {"copy", "add"} => wat = widx
      BY <1>0 DEF WriterShape, TypeOK, Word
    <3> QED
      BY <2>1, <3>1, <1>0, <1>1 DEF WriterShape
  <2> QED
    BY <2>2, <2>3, <2>4, <2>5
<1>2. CASE widx # rtmp
  <2>1. rpc' = "load" /\ widx' = widx
    BY <1>2
  <2>2. TypeOK'
    BY <2>1 DEF TypeOK
  <2>3. Accounting'
    BY <2>1 DEF Accounting, InUse, Wrapping
  <2>4. ReaderShape'
    BY <2>1 DEF ReaderShape, PastFirstMapping, InUse
  <2>5. WriterShape'
    BY <2>1 DEF WriterShape
  <2> QED
    BY <2>2, <2>3, <2>4, <2>5
<1> QED
  BY <1>1, <1>2

(* "ridx -= size" closes the wrap. *)
LEMMA RaceRSub == ASSUME RaceInv, RSub PROVE RaceInv'
<1> USE SizeAssumption, StreamAssumption DEF RaceInv, RSub, writerVars
<1>1. /\ ridx \in Nat /\ ridx > Size /\ ridx <= Size + Rec
      /\ widx + Size = ridx + InUse
  BY DEF TypeOK, Word, Accounting, ReaderShape, PastFirstMapping, Wrapping
<1>2. ridx' = ridx - Size
  BY <1>1 DEF SubW
<1>3. TypeOK'
  BY <1>1, <1>2 DEF TypeOK, Word
<1>4. Accounting'
  BY <1>1, <1>2 DEF Accounting, InUse, Wrapping, TypeOK, Word
<1>5. ReaderShape'
  BY <1>1, <1>2 DEF ReaderShape, PastFirstMapping
<1>6. WriterShape'
  BY DEF WriterShape
<1> QED
  BY <1>3, <1>4, <1>5, <1>6

(* The tests of thread_reader leave the ring alone. *)
LEMMA RaceRCheck == ASSUME RaceInv, RCheck PROVE RaceInv'
<1> USE SizeAssumption, StreamAssumption DEF RaceInv, RCheck, writerVars
<1>1. TypeOK'
  BY DEF TypeOK
<1>2. Accounting'
  BY DEF Accounting, InUse, Wrapping
<1>3. ReaderShape'
  BY DEF ReaderShape, PastFirstMapping, InUse
<1>4. WriterShape'
  BY DEF WriterShape
<1> QED
  BY <1>1, <1>2, <1>3, <1>4

(* A step of neither thread changes nothing. *)
LEMMA RaceStutter == ASSUME RaceInv, UNCHANGED vars PROVE RaceInv'
BY DEF RaceInv, TypeOK, Accounting, ReaderShape, WriterShape, InUse, Wrapping,
       PastFirstMapping, vars, writerVars, readerVars

(* Every step of either thread keeps the invariant. *)
LEMMA RaceNext == RaceInv /\ [Next]_vars => RaceInv'
BY RaceWFirstLoad, RaceWSecondLoad, RaceWAddress, RaceWCopy, RaceWStray, RaceWAdd,
   RaceRUsed, RaceRCopy, RaceRInc, RaceRLoad, RaceRCas, RaceRSub, RaceRCheck, RaceStutter
   DEF Next, Writer, Reader, Finished

(* RaceInv is an invariant of the two threads, with no bound on how far the *)
(* writer runs ahead.                                                       *)
THEOREM RaceInvHolds == Safe => []RaceInv
<1>1. Init => RaceInv
  BY RaceInit
<1>2. RaceInv /\ [Next]_vars => RaceInv'
  BY RaceNext
<1> QED
  BY <1>1, <1>2, PTL DEF Safe

(* The lock-free indices lose no update, and the reader copies out of the   *)
(* double mapping only, under every interleaving.                           *)
THEOREM AccountingHolds == Safe => [](Accounting /\ ReaderInside)
<1>1. RaceInv => Accounting /\ ReaderInside
  BY SizeAssumption DEF RaceInv, Accounting, ReaderInside, ReaderShape, TypeOK, Word,
       PastFirstMapping, Wrapping, InUse
<1> QED
  BY <1>1, RaceInvHolds, PTL

-----------------------------------------------------------------------------
(* Records that divide the ring, with no pacing.                            *)

(* Sums and differences of whole records are whole records. *)
LEMMA WholeSum ==
    ASSUME NEW x \in Nat, NEW y \in Nat, Whole(x), Whole(y)
    PROVE  Whole(x + y) /\ (y <= x => Whole(x - y))
<1>1. PICK m \in 0 .. x : x = m * Rec
  BY DEF Whole
<1>2. PICK n \in 0 .. y : y = n * Rec
  BY DEF Whole
<1>3. m + n \in 0 .. (x + y) /\ x + y = (m + n) * Rec
  BY <1>1, <1>2, StreamAssumption
<1>4. ASSUME y <= x PROVE Whole(x - y)
  <2>1. x - y = (m - n) * Rec
    BY <1>1, <1>2, StreamAssumption
  <2>2. m - n \in Int /\ x - y \in Nat
    BY <1>1, <1>2, <1>4
  <2>3. m - n >= 0
    BY <2>1, <2>2, StreamAssumption
  <2>4. m - n <= x - y
    BY <2>1, <2>2, <2>3, StreamAssumption
  <2> QED
    BY <2>1, <2>2, <2>3, <2>4 DEF Whole
<1> QED
  BY <1>3, <1>4 DEF Whole

(* ringbuffer_write's clipping of a record, for any two loads of indices    *)
(* that are whole records: all of it or nothing.                            *)
LEMMA WholeRoom ==
    ASSUME Whole(Size), NEW a \in Nat, NEW b \in Nat, a <= 2 * Size, b <= 2 * Size,
           Whole(a), Whole(b)
    PROVE  min_size_t(SubW(Size, ringbuffer_used(a, b)), Rec) \in {0, Rec}
<1> USE SizeAssumption, StreamAssumption
<1>1. CASE b > a
  <2>1. ringbuffer_used(a, b) = (a + WordSize) - b
    BY <1>1 DEF ringbuffer_used, SubW
  <2>2. SubW(Size, ringbuffer_used(a, b)) = Size + (b - a)
    BY <1>1, <2>1 DEF SubW
  <2> QED
    BY <1>1, <2>2 DEF min_size_t
<1>2. CASE b <= a /\ a - b > Size
  <2>1. ringbuffer_used(a, b) = a - b
    BY <1>2 DEF ringbuffer_used, SubW
  <2>2. SubW(Size, ringbuffer_used(a, b)) = (Size + WordSize) - (a - b)
    BY <1>2, <2>1 DEF SubW
  <2> QED
    BY <1>2, <2>2 DEF min_size_t
<1>3. CASE b <= a /\ a - b <= Size
  <2>1. SubW(Size, ringbuffer_used(a, b)) = Size - (a - b)
    BY <1>3 DEF ringbuffer_used, SubW
  <2>2. Whole(a - b) /\ a - b \in Nat
    BY <1>3, WholeSum
  <2>3. Whole(Size - (a - b)) /\ Size - (a - b) \in Nat
    BY <1>3, <2>2, WholeSum
  <2>4. Size - (a - b) = 0 \/ Size - (a - b) >= Rec
    BY <2>3, WholeMinus
  <2> QED
    BY <2>1, <2>3, <2>4 DEF min_size_t
<1> QED
  BY <1>1, <1>2, <1>3

(* The writer's steps keep records whole. *)
LEMMA WholeWriter ==
    ASSUME Whole(Size), WholeInv, RaceInv', Writer
    PROVE  WholeInv'
<1> USE SizeAssumption, StreamAssumption
<1>a. /\ ridx \in Nat /\ widx \in Nat /\ wtmp \in Nat /\ wrote \in Nat /\ took \in Nat
      /\ rpc \in {"idle", "copy", "inc", "load", "cas", "sub", "check", "done"}
  BY DEF WholeInv, RaceInv, TypeOK, Word
<1>b. InUse \in Nat
  BY <1>a DEF WholeInv, RaceInv, Accounting, InUse
<1>c. widx <= 2 * Size
  BY DEF WholeInv, RaceInv, WriterShape
<1>d. ridx <= 2 * Size
  BY <1>a DEF WholeInv, RaceInv, ReaderShape, PastFirstMapping
<1>0. /\ ridx \in Nat /\ widx \in Nat /\ wtmp \in Nat /\ ridx <= 2 * Size /\ widx <= 2 * Size
      /\ InUse \in Nat
  BY <1>a, <1>b, <1>c, <1>d
<1>1. CASE WFirstLoad
  BY <1>0, <1>1 DEF WholeInv, WFirstLoad, readerVars, InUse
<1>2. CASE WSecondLoad
  <2>1. wlen' \in {0, Rec}
    <3>1. CASE wpc = "haveW"
      BY <3>1, <1>0, <1>2, WholeRoom DEF WSecondLoad, WriterSees, WholeInv
    <3>2. CASE wpc = "haveR"
      BY <3>2, <1>0, <1>2, WholeRoom DEF WSecondLoad, WriterSees, WholeInv
    <3> QED
      BY <3>1, <3>2, <1>2 DEF WSecondLoad
  <2> QED
    BY <2>1, <1>2 DEF WholeInv, WSecondLoad, readerVars, InUse
<1>3. CASE WAddress \/ WCopy \/ WStray
  BY <1>3 DEF WholeInv, WAddress, WCopy, WStray, readerVars, writerVars, InUse
<1>4. CASE WAdd
  <2>1. /\ wlen = Rec /\ wrote' = wrote + Rec /\ took' = took
        /\ widx' = AddW(widx, Rec) /\ wpc' \in {"idle", "done"}
        /\ UNCHANGED <<ridx, rpc, rlen>>
    BY <1>4 DEF WholeInv, WAdd, readerVars
  <2>2. widx' = widx + Rec
    BY <2>1, <1>0 DEF AddW
  <2>3. InUse' = InUse + Rec
    BY <2>1 DEF InUse, WholeInv, RaceInv, TypeOK
  <2>4. Whole(widx + Rec) /\ Whole(InUse + Rec)
    BY <1>0, WholePlus DEF WholeInv
  <2> QED
    BY <2>1, <2>2, <2>3, <2>4 DEF WholeInv
<1> QED
  BY <1>1, <1>2, <1>3, <1>4 DEF Writer

(* The reader's steps keep records whole. *)
LEMMA WholeReader ==
    ASSUME Whole(Size), WholeInv, RaceInv', Reader
    PROVE  WholeInv'
<1> USE SizeAssumption, StreamAssumption
<1>0. /\ ridx \in Nat /\ widx \in Nat /\ InUse \in Nat
      /\ rpc \in {"copy", "inc"} => Rec <= InUse
      /\ rpc # "sub" => widx = ridx + InUse
      /\ rpc \in {"load", "cas", "sub"} => ridx > Size
      /\ rpc \in {"inc"} => ridx <= Size
  <2>1. ridx \in Nat /\ widx \in Nat /\ wrote \in Nat /\ took \in Nat
    BY DEF WholeInv, RaceInv, TypeOK, Word
  <2>2. InUse \in Nat /\ (rpc # "sub" => widx = ridx + InUse)
    BY <2>1 DEF WholeInv, RaceInv, Accounting, InUse, Wrapping
  <2>3. /\ rpc \in {"copy", "inc"} => rlen = Rec /\ rlen <= InUse
        /\ rpc \in {"load", "cas", "sub"} => ridx > Size
        /\ rpc \in {"inc"} => ridx <= Size
    BY DEF WholeInv, RaceInv, ReaderShape, PastFirstMapping
  <2> QED
    BY <2>1, <2>2, <2>3
<1>1. CASE RUsed
  <2>1. ringbuffer_used(widx, ridx) = InUse /\ InUse > 0
    BY <1>0, <1>1 DEF RUsed, ringbuffer_used, SubW
  <2>2. InUse >= Rec
    BY <2>1, <1>0, WholeMinus DEF WholeInv
  <2>3. rlen' = Rec
    BY <2>1, <2>2, <1>0, <1>1 DEF RUsed, min_size_t
  <2> QED
    BY <2>3, <1>1 DEF WholeInv, RUsed, writerVars, InUse
<1>2. CASE RCopy \/ RLoad \/ RCheck
  BY <1>2 DEF WholeInv, RCopy, RLoad, RCheck, writerVars, InUse
<1>3. CASE RInc
  <2>1. /\ rpc = "inc" /\ rlen = Rec /\ rlen' = rlen /\ ridx' = AddW(ridx, Rec)
        /\ took' = took + Rec /\ UNCHANGED <<widx, wpc, wtmp, wlen, wrote>>
    BY <1>3 DEF WholeInv, RInc, writerVars
  <2>2. ridx' = ridx + Rec /\ Whole(ridx + Rec)
    BY <2>1, <1>0, WholePlus DEF AddW, WholeInv
  <2>3. InUse' = InUse - Rec
    BY <2>1 DEF InUse, WholeInv, RaceInv, TypeOK
  <2>4. Whole(InUse - Rec)
    BY <2>1, <1>0, WholeMinus DEF WholeInv
  <2> QED
    BY <2>1, <2>2, <2>3, <2>4 DEF WholeInv
<1>4. CASE RCas
  <2>1. UNCHANGED <<ridx, rlen, wpc, wtmp, wlen, wrote, took>> /\ rpc = "cas"
    BY <1>4 DEF RCas, writerVars
  <2>2. Whole(widx')
    <3>1. CASE widx' = widx
      BY <3>1 DEF WholeInv
    <3>2. CASE widx' # widx
      <4>1. widx' = widx - Size /\ Size <= widx
        BY <3>2, <1>0, <1>4, <2>1 DEF RCas, SubW
      <4>2. Whole(widx - Size)
        BY <4>1, <1>0, WholeSum DEF WholeInv
      <4> QED
        BY <4>1, <4>2
    <3> QED
      BY <3>1, <3>2
  <2> QED
    BY <2>1, <2>2 DEF WholeInv, InUse
<1>5. CASE RSub
  <2>1. UNCHANGED <<widx, rlen, wpc, wtmp, wlen, wrote, took>> /\ rpc = "sub"
        /\ ridx' = SubW(ridx, Size)
    BY <1>5 DEF RSub, writerVars
  <2>2. ridx' = ridx - Size /\ Whole(ridx - Size)
    BY <2>1, <1>0, WholeSum DEF SubW, WholeInv
  <2> QED
    BY <2>1, <2>2 DEF WholeInv, InUse
<1> QED
  BY <1>1, <1>2, <1>3, <1>4, <1>5 DEF Reader

(* When the record size divides the ring size thread_reader never takes its *)
(* "TRUNCATED READ" exit, with no pacing and in any interleaving.           *)
THEOREM WholeRecordsNeverTruncated ==
    ASSUME Whole(Size) PROVE Safe => []NeverTruncated
<1> DEFINE I == WholeInv /\ NeverTruncated
<1>1. Init => I
  <2> SUFFICES ASSUME Init PROVE I
    OBVIOUS
  <2>1. Whole(ridx) /\ Whole(widx) /\ Whole(InUse)
    BY WholeZero DEF Init, InUse
  <2> QED
    BY <2>1, RaceInit DEF Init, WholeInv, NeverTruncated
<1>2. I /\ [Next]_vars => I'
  <2> SUFFICES ASSUME I, [Next]_vars PROVE I'
    OBVIOUS
  <2>1. RaceInv'
    BY RaceNext DEF WholeInv
  <2>2. WholeInv'
    <3>1. CASE UNCHANGED vars
      BY <3>1, <2>1 DEF WholeInv, vars, writerVars, readerVars, InUse
    <3> QED
      BY <3>1, <2>1, WholeWriter, WholeReader DEF Next, Finished
  <2>3. NeverTruncated'
    <3>1. CASE RCheck
      BY <3>1 DEF RCheck, WholeInv, NeverTruncated
    <3>2. CASE WStray
      BY <3>2 DEF WStray, NeverTruncated
    <3>3. CASE UNCHANGED exit
      BY <3>3 DEF NeverTruncated
    <3> QED
      BY <3>1, <3>2, <3>3 DEF Next, Writer, Reader, Finished, vars, WFirstLoad, WSecondLoad,
         WAddress, WCopy, WAdd, RUsed, RCopy, RInc, RLoad, RCas, RSub
  <2> QED
    BY <2>2, <2>3
<1>3. I => NeverTruncated
  OBVIOUS
<1> QED
  BY <1>1, <1>2, <1>3, PTL DEF Safe

-----------------------------------------------------------------------------
(* Where the cells of the ring lie relative to each other.                  *)

(* Indices neither equal nor one Size apart are different cells. *)
LEMMA CellsApart ==
    ASSUME NEW a \in Nat, NEW b \in Nat, a < 2 * Size, b < 2 * Size,
           a # b, a # b + Size, b # a + Size
    PROVE  Cell(a) # Cell(b)
BY SizeAssumption DEF Cell

(* Equal indices, and indices one Size apart, are the same cell. *)
LEMMA CellsSame ==
    ASSUME NEW a \in Nat, NEW b \in Nat, a < 2 * Size, b < 2 * Size,
           a = b \/ a = b + Size \/ b = a + Size
    PROVE  Cell(a) = Cell(b)
BY SizeAssumption DEF Cell

(* The numbers every paced lemma starts from. *)
LEMMA Bounds ==
    ASSUME Paced, RaceInv, Pacing
    PROVE  /\ ridx \in Nat /\ widx \in Nat /\ InUse \in Nat
           /\ wat \in Nat /\ wtmp \in Nat /\ wrote \in Nat /\ took \in Nat
           /\ InUse <= InFlight
           /\ ridx <= Size + Rec /\ ridx + InUse <= 2 * Size
           /\ rpc # "sub" => widx = ridx + InUse
           /\ rpc = "sub" => widx + Size = ridx + InUse
           /\ Calling => ridx + InUse + Rec <= 2 * Size /\ InUse + Rec <= InFlight
BY SizeAssumption, StreamAssumption
   DEF Paced, RaceInv, TypeOK, Accounting, ReaderShape, Pacing, PastFirstMapping,
       Wrapping, InUse, Word

(* A copy in progress goes to the first free unit, seen through either      *)
(* mapping.                                                                 *)
LEMMA CopyTarget ==
    ASSUME Paced, RaceInv, Pacing, Copying
    PROVE  /\ \/ wat = ridx + InUse
              \/ wat = ridx + InUse + Size
              \/ wat + Size = ridx + InUse
           /\ wat + Rec <= 2 * Size /\ ridx + InUse + Rec <= 2 * Size
<1>1. widx = wat \/ widx + Size = wat
  BY DEF RaceInv, WriterShape, Copying
<1>2. wat + Rec <= 2 * Size
  BY DEF Pacing
<1>3. Calling
  BY DEF Calling
<1> QED
  BY <1>1, <1>2, <1>3, Bounds, SizeAssumption, StreamAssumption

(* No unit the reader may still look at is a target of the copy. *)
LEMMA TargetFree ==
    ASSUME Paced, RaceInv, Pacing, Copying,
           NEW j \in 0 .. (Rec - 1), NEW k \in 0 .. (InUse - 1)
    PROVE  Cell(wat + j) # Cell(ridx + k)
<1> USE SizeAssumption, StreamAssumption
<1>1. ridx \in Nat /\ InUse \in Nat /\ wat \in Nat /\ InUse + Rec <= InFlight
  BY Bounds DEF Calling
<1>2. InFlight + Rec <= Size
  BY DEF Paced
<1>3. wat + j < 2 * Size /\ ridx + k < 2 * Size /\ wat + j \in Nat /\ ridx + k \in Nat
  BY <1>1, CopyTarget
<1>4. /\ wat + j # ridx + k /\ wat + j # ridx + k + Size
      /\ ridx + k # wat + j + Size
  BY <1>1, <1>2, CopyTarget
<1> QED
  BY <1>3, <1>4, CellsApart

(* Once copied, the record continues the units in the ring. *)
LEMMA TargetNext ==
    ASSUME Paced, RaceInv, Pacing, Copying, NEW j \in 0 .. (Rec - 1)
    PROVE  Cell(wat + j) = Cell(ridx + (InUse + j))
<1> USE SizeAssumption, StreamAssumption
<1>1. ridx \in Nat /\ InUse \in Nat /\ wat \in Nat
  BY Bounds
<1>2. /\ wat + j < 2 * Size /\ ridx + (InUse + j) < 2 * Size
      /\ wat + j \in Nat /\ ridx + (InUse + j) \in Nat
  BY <1>1, CopyTarget
<1>3. \/ wat + j = ridx + (InUse + j) \/ wat + j = ridx + (InUse + j) + Size
      \/ ridx + (InUse + j) = wat + j + Size
  BY <1>1, CopyTarget
<1> QED
  BY <1>2, <1>3, CellsSame

-----------------------------------------------------------------------------
(* PacedInv: one lemma per action.                                          *)

(* The threads start paced, with nothing in the ring. *)
LEMMA PacedInit == ASSUME Paced, Init PROVE PacedInv
<1> USE SizeAssumption, StreamAssumption DEF Init
<1>1. RaceInv
  BY RaceInit
<1>2. StaleLoad
  BY DEF StaleLoad
<1>3. Pacing
  BY WholeZero DEF Pacing, InUse, Calling, Copying, Reading, HaveRead, PastFirstMapping
<1>4. InPlace
  BY DEF InPlace, InUse, Copying, Reading, HaveRead, PastFirstMapping
<1> QED
  BY <1>1, <1>2, <1>3, <1>4 DEF PacedInv

(* A write that starts leaves room for its record under InFlight. *)
LEMMA PacedWFirstLoad == ASSUME Paced, PacedInv, WFirstLoad PROVE PacedInv'
<1> USE SizeAssumption, StreamAssumption DEF PacedInv, WFirstLoad, readerVars
<1>1. RaceInv'
  BY RaceWFirstLoad
<1>2. StaleLoad'
  <2>1. widx <= 2 * Size /\ widx \in Nat
    BY Bounds DEF RaceInv, WriterShape
  <2>2. InUse \in 0 .. (InFlight - Rec)
    BY Bounds DEF InUse
  <2>3. ridx <= Size + Rec /\ (widx = ridx + InUse \/ widx + Size = ridx + InUse)
    BY Bounds
  <2> QED
    BY <2>1, <2>2, <2>3 DEF StaleLoad
<1>3. Pacing'
  BY DEF Pacing, InUse, Calling, Copying, Reading, HaveRead, PastFirstMapping
<1>4. InPlace'
  BY DEF InPlace, InUse, Copying, Reading, HaveRead, PastFirstMapping
<1> QED
  BY <1>1, <1>2, <1>3, <1>4

(* However stale the first load, the call sees room for the record or none. *)
LEMMA PacedWSecondLoad == ASSUME Paced, PacedInv, WSecondLoad PROVE PacedInv'
<1> USE SizeAssumption, StreamAssumption DEF PacedInv, WSecondLoad, readerVars
<1>1. RaceInv'
  BY RaceWSecondLoad
<1>2. InFlight + Rec <= Size /\ InUse + Rec <= InFlight
  BY Bounds DEF Paced, Calling
<1>3. SubW(Size, WriterSees) = 0 \/ SubW(Size, WriterSees) >= Rec
  <2>1. CASE wpc = "haveW"
    <3>1. widx = wtmp \/ widx + Size = wtmp
      BY <2>1 DEF StaleLoad
    <3>2. WriterSees = SubW(wtmp, ridx)
      BY <2>1 DEF WriterSees, ringbuffer_used
    <3> QED
      BY <3>1, <3>2, <1>2, Bounds DEF SubW
  <2>2. CASE wpc = "haveR"
    <3>1. PICK t \in 0 .. (InFlight - Rec) :
             wtmp <= Size + Rec /\ (widx = wtmp + t \/ widx + Size = wtmp + t)
      BY <2>2 DEF StaleLoad
    <3>2. WriterSees = SubW(widx, wtmp)
      BY <2>2 DEF WriterSees, ringbuffer_used
    <3> QED
      BY <3>1, <3>2, <1>2, Bounds DEF SubW
  <2> QED
    BY <2>1, <2>2
<1>4. wlen' = 0 \/ wlen' = Rec
  <2>1. SubW(Size, WriterSees) \in Nat
    BY DEF WriterSees, ringbuffer_used, SubW, RaceInv, TypeOK, Word
  <2> QED
    BY <2>1, <1>3 DEF min_size_t
<1>5. StaleLoad'
  BY DEF StaleLoad
<1>6. Pacing'
  BY <1>4 DEF Pacing, InUse, Calling, Copying, Reading, HaveRead, PastFirstMapping
<1>7. InPlace'
  BY DEF InPlace, InUse, Copying, Reading, HaveRead, PastFirstMapping
<1> QED
  BY <1>1, <1>5, <1>6, <1>7

(* The target of a paced copy ends inside the mapping. *)
LEMMA PacedWAddress == ASSUME Paced, PacedInv, WAddress PROVE PacedInv'
<1> USE SizeAssumption, StreamAssumption DEF PacedInv, WAddress, readerVars
<1>1. RaceInv'
  BY RaceWAddress
<1>2. StaleLoad'
  BY DEF StaleLoad
<1>3. widx + Rec <= 2 * Size /\ InUse + Rec <= InFlight
  <2>1. Calling
    BY DEF Calling
  <2>2. /\ ridx \in Nat /\ widx \in Nat /\ InUse \in Nat
        /\ rpc # "sub" => widx = ridx + InUse
        /\ rpc = "sub" => widx + Size = ridx + InUse
        /\ ridx + InUse + Rec <= 2 * Size /\ InUse + Rec <= InFlight
    BY <2>1, Bounds
  <2> QED
    BY <2>2
<1>4. Pacing'
  BY <1>3 DEF Pacing, InUse, Calling, Copying, Reading, HaveRead, PastFirstMapping
<1>5. wleft' = 0 .. (Rec - 1)
  BY DEF Pacing
<1>6. InPlace'
  BY <1>5 DEF InPlace, InUse, Copying, Reading, HaveRead, PastFirstMapping
<1> QED
  BY <1>1, <1>2, <1>4, <1>6

(* A unit copied in carries its label and overwrites nothing unread. *)
LEMMA PacedWCopy == ASSUME Paced, PacedInv, WCopy PROVE PacedInv'
<1> USE SizeAssumption, StreamAssumption DEF PacedInv, WCopy, readerVars
<1>0. PICK j \in wleft :
         /\ mem' = [mem EXCEPT ![Cell(wat + j)] = wbase + j]
         /\ wleft' = wleft \ {j}
         /\ wpc' = IF wleft = {j} THEN "add" ELSE "copy"
  OBVIOUS
<1>1. RaceInv'
  BY RaceWCopy
<1>2. StaleLoad'
  BY <1>0 DEF StaleLoad
<1>3. Pacing'
  BY <1>0 DEF Pacing, InUse, Calling, Copying, Reading, HaveRead, PastFirstMapping
<1>4. Copying /\ j \in 0 .. (Rec - 1) /\ wat \in Nat /\ ridx \in Nat /\ InUse \in Nat
  BY Bounds DEF Copying, RaceInv, TypeOK
<1>5. \A k \in 0 .. (InUse - 1) : mem'[Cell(ridx + k)] = mem[Cell(ridx + k)]
  <2> TAKE k \in 0 .. (InUse - 1)
  <2>1. Cell(wat + j) # Cell(ridx + k)
    BY <1>4, TargetFree
  <2>2. Cell(ridx + k) \in CellIds
    BY <1>4, CopyTarget DEF Cell, CellIds
  <2> QED
    BY <2>1, <2>2, <1>0 DEF RaceInv, TypeOK
<1>6. \A i \in 0 .. (Rec - 1) : i \in wleft' \/ mem'[Cell(wat + i)] = wrote + i
  <2> TAKE i \in 0 .. (Rec - 1)
  <2>1. wat + i < 2 * Size /\ wat + j < 2 * Size
    BY <1>4, CopyTarget
  <2>2. Cell(wat + i) \in CellIds
    BY <2>1, <1>4 DEF Cell, CellIds
  <2>3. CASE i = j
    BY <2>2, <2>3, <1>0 DEF RaceInv, TypeOK, InPlace
  <2>4. CASE i # j
    <3>1. wat + i # wat + j /\ wat + i # wat + j + Size /\ wat + j # wat + i + Size
      BY <2>4, <1>4
    <3>2. Cell(wat + i) # Cell(wat + j)
      BY <3>1, <2>1, <1>4, CellsApart
    <3>3. mem'[Cell(wat + i)] = mem[Cell(wat + i)]
      BY <3>2, <2>2, <1>0 DEF RaceInv, TypeOK
    <3> QED
      BY <3>3, <2>4, <1>0, <1>4 DEF InPlace
  <2> QED
    BY <2>3, <2>4
<1>7. InPlace'
  BY <1>0, <1>5, <1>6 DEF InPlace, InUse, Copying, Reading, HaveRead, PastFirstMapping
<1> QED
  BY <1>1, <1>2, <1>3, <1>7

(* The one step pacing rules out. *)
LEMMA PacedNoStray == ASSUME Paced, PacedInv PROVE ~WStray
<1> SUFFICES ASSUME WStray PROVE FALSE
  OBVIOUS
<1>1. PICK j \in wleft : ~Mapped(wat + j)
  BY DEF WStray
<1>2. Copying /\ j \in 0 .. (Rec - 1) /\ wat \in Nat
  BY Bounds DEF WStray, Copying, PacedInv, RaceInv, TypeOK
<1>3. wat + Rec <= 2 * Size
  BY <1>2 DEF PacedInv, Pacing
<1> QED
  BY <1>1, <1>2, <1>3, SizeAssumption, StreamAssumption DEF Mapped

(* The record copied in becomes the last one in the ring. *)
LEMMA PacedWAdd == ASSUME Paced, PacedInv, WAdd PROVE PacedInv'
<1> USE SizeAssumption, StreamAssumption DEF PacedInv, WAdd, readerVars
<1>1. RaceInv'
  BY RaceWAdd
<1>2. StaleLoad'
  BY DEF StaleLoad
<1>3. Copying /\ Calling /\ wlen = Rec /\ wleft = {}
  BY DEF Copying, Calling, Pacing, RaceInv, WriterShape
<1>4. /\ wrote \in Nat /\ took \in Nat /\ InUse \in Nat /\ InUse + Rec <= InFlight
      /\ InUse = wrote - took
  BY <1>3, Bounds DEF InUse
<1>5. wrote' = wrote + Rec /\ took' = took /\ InUse' = InUse + Rec
  BY <1>3, <1>4 DEF InUse
<1>6. Pacing'
  <2>1. Whole(InUse + Rec)
    BY <1>4, WholePlus DEF Pacing
  <2>2. wpc' \in {"idle", "done"}
    OBVIOUS
  <2> QED
    BY <2>1, <2>2, <1>4, <1>5 DEF Pacing, Calling, Copying, Reading, HaveRead, PastFirstMapping
<1>7. \A k \in 0 .. ((InUse + Rec) - 1) : mem[Cell(ridx + k)] = took + k
  <2> TAKE k \in 0 .. ((InUse + Rec) - 1)
  <2>1. CASE k < InUse
    <3>1. k \in 0 .. (InUse - 1)
      BY <2>1, <1>4
    <3> QED
      BY <3>1 DEF InPlace
  <2>2. CASE ~(k < InUse)
    <3>1. k - InUse \in 0 .. (Rec - 1) /\ k = InUse + (k - InUse)
      BY <2>2, <1>4
    <3>2. mem[Cell(wat + (k - InUse))] = wrote + (k - InUse)
      BY <3>1, <1>3 DEF InPlace
    <3>3. Cell(wat + (k - InUse)) = Cell(ridx + k)
      BY <3>1, <1>3, TargetNext
    <3>4. wrote + (k - InUse) = took + k
      BY <1>4
    <3> QED
      BY <3>2, <3>3, <3>4
  <2> QED
    BY <2>1, <2>2
<1>8. wbase' = wrote'
  BY <1>3, <1>5 DEF InPlace, RecordSent
<1>9. InPlace'
  BY <1>5, <1>7, <1>8 DEF InPlace, Copying, Reading, HaveRead, PastFirstMapping
<1> QED
  BY <1>1, <1>2, <1>6, <1>9

(* The ring holds whole records, so the reader takes a whole one. *)
LEMMA PacedRUsed == ASSUME Paced, PacedInv, RUsed PROVE PacedInv'
<1> USE SizeAssumption, StreamAssumption DEF PacedInv, RUsed, writerVars
<1>1. RaceInv'
  BY RaceRUsed
<1>2. StaleLoad'
  BY DEF StaleLoad
<1>3. ringbuffer_used(widx, ridx) = InUse /\ InUse \in Nat
  BY Bounds DEF ringbuffer_used, SubW
<1>4. InUse >= Rec
  BY <1>3, WholeMinus DEF Pacing
<1>5. rlen' = Rec /\ rleft' = 0 .. (Rec - 1)
  BY <1>3, <1>4 DEF min_size_t
<1>6. Pacing'
  BY <1>5 DEF Pacing, InUse, Calling, Copying, Reading, HaveRead, PastFirstMapping
<1>7. InPlace'
  BY <1>5 DEF InPlace, InUse, Copying, Reading, HaveRead, PastFirstMapping
<1> QED
  BY <1>1, <1>2, <1>6, <1>7

(* A unit copied out is the next one of the stream. *)
LEMMA PacedRCopy == ASSUME Paced, PacedInv, RCopy PROVE PacedInv'
<1> USE SizeAssumption, StreamAssumption DEF PacedInv, RCopy, writerVars
<1>0. PICK j \in rleft :
         /\ got' = [got EXCEPT ![j + 1] = mem[Cell(ridx + j)]]
         /\ rleft' = rleft \ {j}
         /\ rpc' = IF rleft = {j} THEN "inc" ELSE "copy"
  OBVIOUS
<1>1. RaceInv'
  BY RaceRCopy
<1>2. StaleLoad'
  BY DEF StaleLoad
<1>3. Pacing'
  BY <1>0 DEF Pacing, InUse, Calling, Copying, Reading, HaveRead, PastFirstMapping
<1>4. j \in 0 .. (Rec - 1) /\ rlen = Rec /\ Rec <= InUse /\ InUse \in Nat
  BY Bounds DEF RaceInv, TypeOK, ReaderShape, Pacing, Reading
<1>5. mem[Cell(ridx + j)] = took + j
  BY <1>4 DEF InPlace
<1>6. \A i \in 0 .. (Rec - 1) : i \in rleft' \/ got'[i + 1] = took + i
  <2> TAKE i \in 0 .. (Rec - 1)
  <2>1. i + 1 \in 1 .. Rec /\ got \in [1 .. Rec -> 0 .. Total]
    BY DEF RaceInv, TypeOK
  <2>2. CASE i = j
    BY <2>1, <2>2, <1>0, <1>5
  <2>3. CASE i # j
    <3>1. i + 1 # j + 1
      BY <2>3, <1>4
    <3>2. got'[i + 1] = got[i + 1]
      BY <3>1, <2>1, <1>0
    <3> QED
      BY <3>2, <2>3, <1>0 DEF InPlace, Reading
  <2> QED
    BY <2>2, <2>3
<1>7. InPlace'
  BY <1>0, <1>6 DEF InPlace, InUse, Copying, Reading, HaveRead, PastFirstMapping
<1> QED
  BY <1>1, <1>2, <1>3, <1>7

(* The record copied out is the one expected, and leaves the ring. *)
LEMMA PacedRInc == ASSUME Paced, PacedInv, RInc PROVE PacedInv'
<1> USE SizeAssumption, StreamAssumption DEF PacedInv, RInc, writerVars
<1>1. RaceInv'
  BY RaceRInc
<1>2. StaleLoad'
  BY DEF StaleLoad
<1>3. /\ rlen = Rec /\ Rec <= InUse /\ InUse \in Nat /\ ridx \in Nat /\ ridx <= Size
      /\ wrote \in Nat /\ took \in Nat /\ InUse = wrote - took /\ InUse <= InFlight
  BY Bounds DEF RaceInv, ReaderShape, Pacing, Reading, InUse
<1>4. ridx' = ridx + Rec /\ took' = took + Rec /\ InUse' = InUse - Rec
  BY <1>3 DEF AddW, InUse
<1>5. rpc' \in {"load", "check"}
  OBVIOUS
<1>6. Pacing'
  <2>1. Whole(InUse - Rec)
    BY <1>3, WholeMinus DEF Pacing
  <2>2. Calling => (InUse - Rec) + Rec <= InFlight
    BY <1>3 DEF Pacing
  <2>3. Copying => wat + Rec <= 2 * Size
    BY DEF Pacing
  <2>4. wpc = "addr" \/ Copying => wlen = Rec
    BY DEF Pacing
  <2>5. Calling => InUse + Rec <= InFlight
    BY DEF Pacing
  <2> QED
    BY <2>1, <2>3, <2>4, <2>5, <1>3, <1>4 DEF Pacing, Calling, Copying
<1>7. \A k \in 0 .. ((InUse - Rec) - 1) : mem[Cell((ridx + Rec) + k)] = (took + Rec) + k
  <2> TAKE k \in 0 .. ((InUse - Rec) - 1)
  <2>1. Rec + k \in 0 .. (InUse - 1)
    BY <1>3
  <2>2. mem[Cell(ridx + (Rec + k))] = took + (Rec + k)
    BY <2>1 DEF InPlace
  <2>3. ridx + (Rec + k) = (ridx + Rec) + k /\ took + (Rec + k) = (took + Rec) + k
    BY <1>3
  <2> QED
    BY <2>2, <2>3
<1>8. /\ expect = took /\ \A j \in 0 .. (Rec - 1) : got[j + 1] = took + j
  BY DEF InPlace, Reading
<1>9. InPlace'
  BY <1>4, <1>5, <1>7, <1>8 DEF InPlace, Copying, Reading, HaveRead, PastFirstMapping
<1> QED
  BY <1>1, <1>2, <1>6, <1>9

(* The load of the wrap loop changes a local only. *)
LEMMA PacedRLoad == ASSUME Paced, PacedInv, RLoad PROVE PacedInv'
<1> USE SizeAssumption, StreamAssumption DEF PacedInv, RLoad, writerVars
<1>1. RaceInv'
  BY RaceRLoad
<1>2. StaleLoad'
  BY DEF StaleLoad
<1>3. Pacing'
  BY DEF Pacing, InUse, Calling, Copying, Reading, HaveRead, PastFirstMapping
<1>4. InPlace'
  BY DEF InPlace, InUse, Copying, Reading, HaveRead, PastFirstMapping
<1> QED
  BY <1>1, <1>2, <1>3, <1>4

(* The swap makes a stale load of widx wrong by one Size at most. *)
LEMMA PacedRCas == ASSUME Paced, PacedInv, RCas PROVE PacedInv'
<1> USE SizeAssumption, StreamAssumption DEF PacedInv, RCas, writerVars
<1>1. RaceInv'
  BY RaceRCas
<1>2. StaleLoad'
  <2>1. CASE widx = rtmp
    <3>1. /\ widx \in Nat /\ ridx > Size /\ ridx \in Nat /\ InUse \in Nat
          /\ wtmp \in Nat /\ widx = ridx + InUse
      BY Bounds DEF RaceInv, ReaderShape, PastFirstMapping
    <3>2. widx' = widx - Size
      BY <2>1, <3>1 DEF SubW
    <3>3. wpc = "haveW" => wtmp <= 2 * Size /\ widx = wtmp
      BY <3>1 DEF StaleLoad
    <3>4. wpc = "haveR" => \E t \in 0 .. (InFlight - Rec) :
                               wtmp <= Size + Rec /\ widx = wtmp + t
      <4> SUFFICES ASSUME wpc = "haveR"
                   PROVE  \E t \in 0 .. (InFlight - Rec) : wtmp <= Size + Rec /\ widx = wtmp + t
        OBVIOUS
      <4>1. PICK t \in 0 .. (InFlight - Rec) :
               wtmp <= Size + Rec /\ (widx = wtmp + t \/ widx + Size = wtmp + t)
        BY DEF StaleLoad
      <4>2. widx = wtmp + t
        BY <4>1, <3>1 DEF Paced
      <4> QED
        BY <4>1, <4>2
    <3>5. widx' + Size = widx /\ wtmp' = wtmp /\ wpc' = wpc
      BY <3>1, <3>2
    <3> HIDE DEF RCas
    <3> QED
      BY <3>3, <3>4, <3>5 DEF StaleLoad
  <2>2. CASE widx # rtmp
    BY <2>2 DEF StaleLoad
  <2> QED
    BY <2>1, <2>2
<1>3. Pacing'
  BY DEF Pacing, InUse, Calling, Copying, Reading, HaveRead, PastFirstMapping
<1>4. InPlace'
  BY DEF InPlace, InUse, Copying, Reading, HaveRead, PastFirstMapping
<1> QED
  BY <1>1, <1>2, <1>3, <1>4

(* "ridx -= size" leaves every unit in the cell it was in. *)
LEMMA PacedRSub == ASSUME Paced, PacedInv, RSub PROVE PacedInv'
<1> USE SizeAssumption, StreamAssumption DEF PacedInv, RSub, writerVars
<1>1. RaceInv'
  BY RaceRSub
<1>2. StaleLoad'
  BY DEF StaleLoad
<1>3. Pacing'
  BY DEF Pacing, InUse, Calling, Copying, Reading, HaveRead, PastFirstMapping
<1>4. /\ ridx \in Nat /\ ridx > Size /\ ridx + InUse <= 2 * Size /\ InUse \in Nat
      /\ ridx' = ridx - Size
  <2>1. ridx \in Nat /\ ridx > Size /\ ridx + InUse <= 2 * Size /\ InUse \in Nat
    BY Bounds DEF RaceInv, ReaderShape, PastFirstMapping
  <2> QED
    BY <2>1 DEF SubW
<1>5. \A k \in 0 .. (InUse - 1) : mem[Cell((ridx - Size) + k)] = took + k
  <2> TAKE k \in 0 .. (InUse - 1)
  <2>1. Cell((ridx - Size) + k) = Cell(ridx + k)
    BY <1>4 DEF Cell
  <2> QED
    BY <2>1 DEF InPlace
<1>6. InPlace'
  BY <1>4, <1>5 DEF InPlace, InUse, Copying, Reading, HaveRead, PastFirstMapping
<1> QED
  BY <1>1, <1>2, <1>3, <1>6

(* thread_reader finds the record it expects and counts it. *)
LEMMA PacedRCheck == ASSUME Paced, PacedInv, RCheck PROVE PacedInv'
<1> USE SizeAssumption, StreamAssumption DEF PacedInv, RCheck, writerVars
<1>1. RaceInv'
  BY RaceRCheck
<1>2. StaleLoad'
  BY DEF StaleLoad
<1>3. rlen = Rec
  BY DEF Pacing, HaveRead
<1>4. Pacing'
  BY <1>3 DEF Pacing, InUse, Calling, Copying, Reading, HaveRead, PastFirstMapping
<1>5. InPlace'
  BY <1>3 DEF InPlace, InUse, Copying, Reading, HaveRead, PastFirstMapping
<1> QED
  BY <1>1, <1>2, <1>4, <1>5

(* A step of neither thread changes nothing. *)
LEMMA PacedStutter == ASSUME PacedInv, UNCHANGED vars PROVE PacedInv'
<1> USE DEF PacedInv, vars, writerVars, readerVars
<1>1. RaceInv'
  BY RaceStutter
<1>2. StaleLoad'
  BY DEF StaleLoad
<1>3. Pacing'
  BY DEF Pacing, InUse, Calling, Copying, Reading, HaveRead, PastFirstMapping
<1>4. InPlace'
  BY DEF InPlace, InUse, Copying, Reading, HaveRead, PastFirstMapping
<1> QED
  BY <1>1, <1>2, <1>3, <1>4

(* Every step of either thread keeps the paced invariant. *)
LEMMA PacedNext == ASSUME Paced, PacedInv, [Next]_vars PROVE PacedInv'
BY PacedWFirstLoad, PacedWSecondLoad, PacedWAddress, PacedWCopy, PacedNoStray, PacedWAdd,
   PacedRUsed, PacedRCopy, PacedRInc, PacedRLoad, PacedRCas, PacedRSub, PacedRCheck,
   PacedStutter
   DEF Next, Writer, Reader, Finished

(* With one record of slack the invariant of the paced ring holds, for      *)
(* every ring, record and stream length.                                    *)
THEOREM PacedInvHolds == ASSUME Paced PROVE Safe => []PacedInv
<1>1. Init => PacedInv
  BY PacedInit
<1>2. PacedInv /\ [Next]_vars => PacedInv'
  BY PacedNext
<1> QED
  BY <1>1, <1>2, PTL DEF Safe

(* Paced, the process never ends through the wild copy or the truncated     *)
(* read.                                                                    *)
THEOREM PacedNeverExits == ASSUME Paced PROVE Safe => [](NeverStray /\ NeverTruncated)
<1> DEFINE Runs == exit = "running"
<1>1. Init => Runs
  BY DEF Init
<1>2. PacedInv /\ Runs /\ [Next]_vars => Runs'
  <2> SUFFICES ASSUME PacedInv, Runs, [Next]_vars PROVE Runs'
    OBVIOUS
  <2>1. ~WStray
    BY PacedNoStray
  <2>2. ASSUME RCheck PROVE Runs'
    <3>1. rlen = Rec
      BY <2>2 DEF PacedInv, Pacing, HaveRead, RCheck
    <3> QED
      BY <3>1, <2>2 DEF RCheck
  <2> QED
    BY <2>1, <2>2 DEF Next, Writer, Reader, Finished, vars, WFirstLoad, WSecondLoad,
       WAddress, WCopy, WAdd, RUsed, RCopy, RInc, RLoad, RCas, RSub
<1>3. Runs => NeverStray /\ NeverTruncated
  BY DEF NeverStray, NeverTruncated
<1> HIDE DEF Runs
<1> QED
  BY <1>1, <1>2, <1>3, PacedInvHolds, PTL DEF Safe

(* Paced, thread_reader's "missing seqno" test never fires: every record    *)
(* arrives whole and in order.                                              *)
THEOREM PacedInOrder == ASSUME Paced PROVE Safe => []SeqnumInOrder
<1>1. PacedInv => SeqnumInOrder
  <2> SUFFICES ASSUME PacedInv, rpc = "check", NEW k \in 1 .. Rec
               PROVE  got[k] = expect + k - 1
    BY DEF SeqnumInOrder
  <2>1. k - 1 \in 0 .. (Rec - 1) /\ k = (k - 1) + 1
    BY StreamAssumption
  <2>2. expect \in Nat
    BY DEF PacedInv, RaceInv, TypeOK
  <2>3. got[(k - 1) + 1] = expect + (k - 1)
    BY <2>1 DEF PacedInv, InPlace, HaveRead
  <2> QED
    BY <2>1, <2>2, <2>3
<1> QED
  BY <1>1, PacedInvHolds, PTL

(* Paced, the two threads never copy the same unit at the same time. *)
THEOREM PacedCopiesDisjoint == ASSUME Paced PROVE Safe => []CopiesDisjoint
<1>1. PacedInv => CopiesDisjoint
  <2> SUFFICES ASSUME PacedInv, wpc = "copy", rpc = "copy",
                      NEW i \in wleft, NEW j \in rleft
               PROVE  Cell(wat + i) # Cell(ridx + j)
    BY DEF CopiesDisjoint
  <2>1. Copying /\ i \in 0 .. (Rec - 1)
    BY DEF Copying, PacedInv, RaceInv, TypeOK
  <2>2. j \in 0 .. (rlen - 1) /\ rlen <= InUse
    BY DEF PacedInv, RaceInv, ReaderShape
  <2>3. rlen \in Int /\ InUse \in Int
    BY DEF PacedInv, RaceInv, TypeOK, InUse
  <2>4. j \in 0 .. (InUse - 1)
    BY <2>2, <2>3
  <2> QED
    BY <2>1, <2>4, TargetFree DEF PacedInv
<1> QED
  BY <1>1, PacedInvHolds, PTL

-----------------------------------------------------------------------------
(* The paced ring implements ByteFifo.                                      *)

(* What the ring holds is the stretch of the stream from took to wrote. *)
LEMMA RingHolds ==
    ASSUME Paced, PacedInv
    PROVE  InRing = [k \in 1 .. InUse |-> took + (k - 1)]
<1>1. \A k \in 1 .. InUse : mem[Cell(ridx + (k - 1))] = took + (k - 1)
  <2> TAKE k \in 1 .. InUse
  <2>1. k - 1 \in 0 .. (InUse - 1)
    BY Bounds DEF PacedInv
  <2> QED
    BY <2>1 DEF PacedInv, InPlace
<1> QED
  BY <1>1 DEF InRing

(* The queue is as long as the units written and not read. *)
LEMMA InRingLength ==
    ASSUME Paced, PacedInv
    PROVE  Len(InRing) = InUse
<1>1. InUse \in Nat /\ took \in Nat
  BY Bounds DEF PacedInv
<1>2. InRing \in [1 .. InUse -> Nat]
  BY <1>1, RingHolds
<1> QED
  BY <1>1, <1>2, FunctionIsSeq

(* A step that moves neither count leaves the contents as they were. *)
LEMMA SameRing ==
    ASSUME Paced, PacedInv, PacedInv', UNCHANGED <<wrote, took>>
    PROVE  InRing' = InRing /\ LastPut' = LastPut
<1>1. InUse' = InUse
  BY DEF InUse
<1>2. InRing' = [k \in 1 .. InUse' |-> took' + (k - 1)]
  <2>1. \A k \in 1 .. InUse : (mem[Cell(ridx + (k - 1))])' = took + (k - 1)
    <3> TAKE k \in 1 .. InUse
    <3>1. k - 1 \in 0 .. (InUse - 1)
      BY Bounds DEF PacedInv
    <3> QED
      BY <3>1, <1>1 DEF PacedInv, InPlace
  <2> QED
    BY <2>1, <1>1 DEF InRing
<1>3. LastPut' = LastPut
  BY DEF LastPut
<1> QED
  BY <1>1, <1>2, <1>3, RingHolds

(* atomic_add is the step of ByteFifo that puts a record. *)
LEMMA AddPuts ==
    ASSUME Paced, PacedInv, PacedInv', WAdd
    PROVE  Fifo!Put
<1> USE SizeAssumption, StreamAssumption
<1>1. /\ wlen = Rec /\ wrote \in Nat /\ took \in Nat /\ InUse = wrote - took /\ InUse \in Nat
      /\ InUse + Rec <= Size
  BY Bounds DEF PacedInv, Pacing, Copying, Calling, WAdd, InUse, Paced
<1>2. wrote' = wrote + Rec /\ took' = took /\ rpc' = rpc /\ rlen' = rlen /\ got' = got
  BY <1>1 DEF WAdd, readerVars
<1>3. LastPut' = [k \in 1 .. Rec |-> wrote + (k - 1)]
  <2>1. wrote' # 0 /\ wrote' - Rec = wrote
    BY <1>1, <1>2
  <2> QED
    BY <2>1 DEF LastPut
<1>4. wrote + Rec <= Total
  <2>1. wbase = wrote /\ wbase < Total /\ Whole(Total - wbase)
    BY DEF PacedInv, InPlace, RaceInv, WriterShape, WAdd
  <2>2. Total - wrote \in Nat /\ Total - wrote > 0
    BY <2>1, <1>1
  <2> QED
    BY <2>1, <2>2, <1>1, WholeMinus
<1>5. LastPut' \in Seq(Label) /\ Len(LastPut') = Rec
  <2>1. \A k \in 1 .. Rec : wrote + (k - 1) \in Label
    BY <1>1, <1>4 DEF Label
  <2>2. LastPut' \in [1 .. Rec -> Label]
    BY <2>1, <1>3
  <2> QED
    BY <2>2, FunctionIsSeq
<1>6. InRing' = [k \in 1 .. (InUse + Rec) |-> took + (k - 1)]
  <2>1. InUse' = InUse + Rec
    BY <1>1, <1>2 DEF InUse
  <2>2. \A k \in 1 .. (InUse + Rec) : (mem[Cell(ridx + (k - 1))])' = took + (k - 1)
    <3> TAKE k \in 1 .. (InUse + Rec)
    <3>1. k - 1 \in 0 .. ((InUse + Rec) - 1)
      BY <1>1
    <3> QED
      BY <3>1, <2>1, <1>2 DEF PacedInv, InPlace
  <2> QED
    BY <2>1, <2>2 DEF InRing
<1>7. InRing' = Fifo!Append2(InRing, LastPut')
  <2>1. Fifo!Append2(InRing, LastPut') =
           [k \in 1 .. (InUse + Rec) |-> IF k <= InUse THEN InRing[k] ELSE (LastPut')[k - InUse]]
    BY <1>5, InRingLength DEF Fifo!Append2
  <2>2. \A k \in 1 .. (InUse + Rec) :
           (IF k <= InUse THEN InRing[k] ELSE (LastPut')[k - InUse]) = took + (k - 1)
    <3> TAKE k \in 1 .. (InUse + Rec)
    <3>1. CASE k <= InUse
      BY <3>1, <1>1, RingHolds
    <3>2. CASE ~(k <= InUse)
      <4>1. k - InUse \in 1 .. Rec /\ wrote + ((k - InUse) - 1) = took + (k - 1)
        BY <3>2, <1>1
      <4> QED
        BY <4>1, <3>2, <1>3
    <3> QED
      BY <3>1, <3>2
  <2> QED
    BY <2>1, <2>2, <1>6
<1>8. Delivered' = Delivered
  BY <1>2 DEF Delivered, PastFirstMapping
<1> QED
  BY <1>1, <1>5, <1>7, <1>8, InRingLength DEF Fifo!Put

(* "ridx += len" is the step of ByteFifo that takes a record. *)
LEMMA IncTakes ==
    ASSUME Paced, PacedInv, PacedInv', RInc
    PROVE  \E n \in 1 .. Len(InRing) : Fifo!Take(n)
<1> USE SizeAssumption, StreamAssumption
<1>1. /\ rlen = Rec /\ Rec <= InUse /\ InUse \in Nat /\ wrote \in Nat /\ took \in Nat
      /\ InUse = wrote - took
  BY Bounds DEF PacedInv, Pacing, Reading, RaceInv, ReaderShape, RInc, InUse
<1>2. /\ wrote' = wrote /\ took' = took + Rec /\ rlen' = Rec /\ got' = got
      /\ rpc' \in {"load", "check"}
  BY <1>1 DEF RInc, writerVars
<1>3. LastPut' = LastPut
  BY <1>2 DEF LastPut
<1>4. Delivered' = [k \in 1 .. Rec |-> got[k]]
  BY <1>2 DEF Delivered, PastFirstMapping
<1>5. Fifo!First(Rec, InRing) = [k \in 1 .. Rec |-> took + (k - 1)]
  <2>1. \A k \in 1 .. Rec : InRing[k] = took + (k - 1)
    BY <1>1, RingHolds
  <2> QED
    BY <2>1 DEF Fifo!First
<1>6. \A k \in 1 .. Rec : got[k] = took + (k - 1)
  <2> TAKE k \in 1 .. Rec
  <2>1. k - 1 \in 0 .. (Rec - 1) /\ (k - 1) + 1 = k
    OBVIOUS
  <2>2. got[(k - 1) + 1] = took + (k - 1)
    BY <2>1 DEF PacedInv, InPlace, Reading, RInc
  <2> QED
    BY <2>1, <2>2
<1>7. Delivered' = Fifo!First(Rec, InRing)
  BY <1>4, <1>5, <1>6
<1>8. InRing' = [k \in 1 .. (InUse - Rec) |-> (took + Rec) + (k - 1)]
  <2>1. InUse' = InUse - Rec
    BY <1>1, <1>2 DEF InUse
  <2>2. \A k \in 1 .. (InUse - Rec) : (mem[Cell(ridx + (k - 1))])' = (took + Rec) + (k - 1)
    <3> TAKE k \in 1 .. (InUse - Rec)
    <3>1. k - 1 \in 0 .. ((InUse - Rec) - 1)
      BY <1>1
    <3> QED
      BY <3>1, <2>1, <1>2 DEF PacedInv, InPlace
  <2> QED
    BY <2>1, <2>2 DEF InRing
<1>9. InRing' = Fifo!Rest(Rec, InRing)
  <2>1. \A k \in 1 .. (InUse - Rec) : InRing[k + Rec] = (took + Rec) + (k - 1)
    <3> TAKE k \in 1 .. (InUse - Rec)
    <3>1. k + Rec \in 1 .. InUse /\ took + ((k + Rec) - 1) = (took + Rec) + (k - 1)
      BY <1>1
    <3> QED
      BY <3>1, RingHolds
  <2> QED
    BY <2>1, <1>8, InRingLength DEF Fifo!Rest
<1>10. Fifo!Take(Rec)
  BY <1>3, <1>7, <1>9 DEF Fifo!Take
<1> QED
  BY <1>1, <1>10, InRingLength

(* Every step of either thread is a step of ByteFifo or none. *)
LEMMA PacedStepRefines ==
    ASSUME Paced, PacedInv, PacedInv', [Next]_vars
    PROVE  [Fifo!Next]_(Fifo!fifoVars)
<1>1. CASE WAdd
  BY <1>1, AddPuts DEF Fifo!Next
<1>2. CASE RInc
  BY <1>2, IncTakes DEF Fifo!Next
<1>3. CASE RCheck
  <2>1. wrote' = wrote /\ took' = took
    BY <1>3 DEF RCheck, writerVars
  <2>2. rlen = Rec
    BY <1>3 DEF PacedInv, Pacing, HaveRead, RCheck
  <2>3. Delivered' = <<>>
    BY <1>3, <2>2 DEF RCheck, Delivered, PastFirstMapping
  <2> QED
    BY <2>1, <2>3, SameRing DEF Fifo!Next, Fifo!Release
<1>4. ASSUME WFirstLoad \/ WSecondLoad \/ WAddress \/ WCopy \/ UNCHANGED vars
      PROVE  [Fifo!Next]_(Fifo!fifoVars)
  <2>1. UNCHANGED <<wrote, took, rpc, rlen, got>>
    BY <1>4 DEF WFirstLoad, WSecondLoad, WAddress, WCopy, vars, writerVars, readerVars
  <2>2. Delivered' = Delivered
    BY <2>1 DEF Delivered, PastFirstMapping
  <2> QED
    BY <2>1, <2>2, SameRing DEF Fifo!fifoVars
<1>5. ASSUME RUsed \/ RCopy
      PROVE  [Fifo!Next]_(Fifo!fifoVars)
  <2>1. UNCHANGED <<wrote, took>> /\ rpc \in {"idle", "copy"} /\ rpc' \in {"copy", "inc"}
    BY <1>5 DEF RUsed, RCopy, writerVars
  <2>2. Delivered' = Delivered
    BY <2>1 DEF Delivered, PastFirstMapping
  <2> QED
    BY <2>1, <2>2, SameRing DEF Fifo!fifoVars
<1>6. ASSUME RLoad \/ RCas \/ RSub
      PROVE  [Fifo!Next]_(Fifo!fifoVars)
  <2>1. /\ UNCHANGED <<wrote, took, rlen, got>>
        /\ rpc \in {"load", "cas", "sub"} /\ rpc' \in {"load", "cas", "sub", "check"}
    BY <1>6 DEF RLoad, RCas, RSub, writerVars
  <2>2. Delivered' = Delivered
    BY <2>1 DEF Delivered, PastFirstMapping
  <2> QED
    BY <2>1, <2>2, SameRing DEF Fifo!fifoVars
<1> QED
  BY <1>1, <1>2, <1>3, <1>4, <1>5, <1>6, PacedNoStray DEF Next, Writer, Reader, Finished

(* Paced, the lock-free ring is linearizable to the byte queue: a record    *)
(* enters at atomic_add and leaves at "ridx += len".                        *)
THEOREM PacedRingIsFifo == ASSUME Paced PROVE Safe => ImplementsByteFifo
<1>1. Init => Fifo!Init
  <2> SUFFICES ASSUME Init PROVE Fifo!Init
    OBVIOUS
  <2>1. InUse = 0 /\ InRing = <<>>
    BY DEF Init, InUse, InRing
  <2>2. LastPut = <<>> /\ Delivered = <<>>
    BY DEF Init, LastPut, Delivered, PastFirstMapping
  <2> QED
    BY <2>1, <2>2 DEF Fifo!Init
<1>2. PacedInv /\ PacedInv' /\ [Next]_vars => [Fifo!Next]_(Fifo!fifoVars)
  BY PacedStepRefines
<1> QED
  BY <1>1, <1>2, PacedInvHolds, PTL DEF Safe, ImplementsByteFifo, Fifo!Spec
=============================================================================
