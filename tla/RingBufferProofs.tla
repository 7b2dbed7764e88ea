--------------------------- MODULE RingBufferProofs ---------------------------
(***************************************************************************)
(* Proofs about RingBuffer for every Size, word size, byte set and largest  *)
(* amount: the index invariant and the refinement of ByteFifo.              *)
(***************************************************************************)
EXTENDS RingBuffer, SequenceTheorems, TLAPS

(* A function on 1..n is a sequence of length n. *)
LEMMA FunctionIsSeq ==
    ASSUME NEW S, NEW n \in Nat, NEW f \in [1 .. n -> S]
    PROVE  f \in Seq(S) /\ Len(f) = n
<1>1. f \in Seq(S)
  BY SeqDef
<1>2. DOMAIN f = 1 .. n
  OBVIOUS
<1>3. DOMAIN f = 1 .. Len(f) /\ Len(f) \in Nat
  BY <1>1, LenProperties
<1>4. Len(f) = n
  BY <1>2, <1>3
<1> QED
  BY <1>1, <1>4

(* The inductive invariant: every part the run checks, together. *)
Inv == TypeOK /\ IndexBounds /\ ShortCountMeansLimit

-----------------------------------------------------------------------------
(* With the indices in bounds no size_t subtraction wraps: used and free    *)
(* are what ringbuffer_used and "size - used" mean them to be.              *)
LEMMA UsedExact ==
    ASSUME TypeOK, IndexBounds
    PROVE  /\ Used = widx - ridx
           /\ Used \in 0 .. Size
           /\ SubW(Size, Used) = Size - Used
BY SizeAssumption DEF TypeOK, IndexBounds, Used, ringbuffer_used, SubW, Word

(* A caller's buffer is a sequence of its amount of bytes. *)
LEMMA BufferIsSeq ==
    ASSUME NEW src \in Buffers
    PROVE  /\ src \in Seq(Byte)
           /\ Len(src) \in Amounts
           /\ src \in [1 .. Len(src) -> Byte]
<1>1. PICK n \in Amounts : src \in [1 .. n -> Byte]
  BY DEF Buffers
<1>2. n \in Nat
  BY <1>1, CallAssumption DEF Amounts
<1> QED
  BY <1>1, <1>2, FunctionIsSeq

-----------------------------------------------------------------------------
(* ringbuffer_init leaves a state that satisfies the invariant. *)
LEMMA InitInv == Init => Inv
<1> SUFFICES ASSUME Init PROVE Inv
  OBVIOUS
<1> USE SizeAssumption, CallAssumption DEF Init
<1>1. TypeOK
  BY EmptySeq DEF TypeOK, Word, CellIds, Called, Ops
<1>2. IndexBounds
  BY DEF IndexBounds
<1>3. ShortCountMeansLimit
  BY DEF ShortCountMeansLimit, Called
<1> QED
  BY <1>1, <1>2, <1>3 DEF Inv

(* ringbuffer_write clips to the room left, so widx stays within Size. *)
LEMMA WriteInv ==
    ASSUME Inv, NEW src \in Buffers, ringbuffer_write(src)
    PROVE  Inv'
<1> DEFINE len == min_size_t(SubW(Size, Used), Len(src))
<1> USE SizeAssumption, CallAssumption
<1>0. /\ src \in [1 .. Len(src) -> Byte] /\ Len(src) \in 1 .. MaxAmount
  BY BufferIsSeq DEF Amounts
<1>1. /\ Used = widx - ridx /\ Used \in 0 .. Size
      /\ SubW(Size, Used) = Size - Used
  BY UsedExact DEF Inv
<1>2. /\ len \in 0 .. Size /\ len <= Len(src) /\ len <= Size - Used
      /\ len = Size - Used \/ len = Len(src)
      /\ len \in Nat
  BY <1>0, <1>1 DEF min_size_t
<1>3. widx' = widx + len /\ ridx' = ridx
  <2>1. CASE len > 0
    BY <2>1, <1>1, <1>2 DEF ringbuffer_write, AddW, Inv, TypeOK, IndexBounds, Word
  <2>2. CASE ~(len > 0)
    BY <2>2, <1>2 DEF ringbuffer_write, Inv, TypeOK, Word
  <2> QED
    BY <2>1, <2>2
<1>4. IndexBounds'
  BY <1>1, <1>2, <1>3 DEF IndexBounds, Inv, TypeOK, Word
<1>5. widx' \in Word /\ ridx' \in Word
  BY <1>1, <1>2, <1>3 DEF IndexBounds, Inv, TypeOK, Word
<1>6. mem' \in [CellIds -> Byte]
  <2>1. CASE len > 0
    <3>1. \A c \in CellIds : Offset(c, widx) \in 0 .. 2 * Size
      BY DEF Offset, Cell, CellIds, Inv, TypeOK, IndexBounds, Word
    <3>2. mem' = Stored(widx, src, len)
      BY <2>1 DEF ringbuffer_write
    <3> QED
      BY <3>1, <3>2, <1>0, <1>2 DEF Stored, Inv, TypeOK
  <2>2. CASE ~(len > 0)
    BY <2>2 DEF ringbuffer_write, Inv, TypeOK
  <2> QED
    BY <2>1, <2>2
<1>7. accepted' \in Seq(Byte) /\ dest' \in Seq(Byte)
  <2>1. CASE len > 0
    <3>1. accepted' = [k \in 1 .. len |-> src[k]] /\ dest' = dest
      BY <2>1 DEF ringbuffer_write
    <3>2. accepted' \in [1 .. len -> Byte]
      BY <3>1, <1>0, <1>2
    <3> QED
      BY <3>1, <3>2, <1>2, FunctionIsSeq DEF Inv, TypeOK
  <2>2. CASE ~(len > 0)
    BY <2>2 DEF ringbuffer_write, Inv, TypeOK
  <2> QED
    BY <2>1, <2>2
<1>8. call' = Called("write", Len(src), len)
  BY DEF ringbuffer_write
<1>9. TypeOK'
  BY <1>0, <1>2, <1>5, <1>6, <1>7, <1>8 DEF TypeOK, Called, Ops
<1>10. Used' = widx' - ridx'
  BY <1>4, <1>5 DEF Used, ringbuffer_used, SubW, IndexBounds, Word
<1>11. ShortCountMeansLimit'
  <2>1. call'.op = "write" /\ call'.amount = Len(src) /\ call'.ret = len
    BY <1>8 DEF Called
  <2>2. len < Len(src) => widx' - ridx' = Size
    BY <1>0, <1>1, <1>2, <1>3 DEF Inv, TypeOK, Word
  <2> HIDE DEF len
  <2> QED
    BY <2>1, <2>2, <1>10 DEF ShortCountMeansLimit
<1> QED
  BY <1>4, <1>9, <1>11 DEF Inv

(* What Fetched hands to the caller is a sequence of bytes. *)
LEMMA FetchedType ==
    ASSUME Inv, NEW len \in 0 .. Size, len <= widx - ridx
    PROVE  Fetched(ridx, len) \in [1 .. len -> Byte] /\ Fetched(ridx, len) \in Seq(Byte)
<1>1. \A k \in 1 .. len : Cell(ridx + k - 1) \in CellIds
  BY SizeAssumption DEF Cell, CellIds, Inv, TypeOK, IndexBounds, Word
<1>2. Fetched(ridx, len) \in [1 .. len -> Byte]
  BY <1>1 DEF Fetched, Inv, TypeOK
<1>3. len \in Nat
  BY SizeAssumption
<1> QED
  BY <1>2, <1>3, FunctionIsSeq

(* ringbuffer_read takes no more than is used; the wrap keeps ridx in the   *)
(* first mapping and the distance to widx.                                  *)
LEMMA ReadInv ==
    ASSUME Inv, NEW amount \in Amounts, ringbuffer_read(amount)
    PROVE  Inv'
<1> DEFINE len == min_size_t(Used, amount)
<1> USE SizeAssumption, CallAssumption
<1>0. amount \in 1 .. MaxAmount
  BY DEF Amounts
<1>1. Used = widx - ridx /\ Used \in 0 .. Size
  BY UsedExact DEF Inv
<1>2. /\ len \in 0 .. Size /\ len <= amount /\ len <= widx - ridx
      /\ len = widx - ridx \/ len = amount
      /\ len \in Nat
  BY <1>0, <1>1 DEF min_size_t
<1>3. /\ ridx \in Nat /\ widx \in Nat
      /\ ridx <= Size /\ ridx <= widx /\ widx <= ridx + Size
  BY DEF Inv, TypeOK, IndexBounds, Word
<1> HIDE DEF len
<1>4. /\ IndexBounds'
      /\ ridx' \in Word /\ widx' \in Word
      /\ Used' = (widx - ridx) - len
  <2>1. CASE Used > 0
    <3>1. Advanced(len)
      BY <2>1 DEF ringbuffer_read, len
    <3>2. AddW(ridx, len) = ridx + len
      BY <1>2, <1>3 DEF AddW
    <3>3. CASE ridx + len > Size
      <4>1. ridx' = (ridx + len) - Size /\ widx' = widx - Size
        BY <3>1, <3>2, <3>3, <1>2, <1>3 DEF Advanced, SubW
      <4> QED
        BY <4>1, <3>3, <1>2, <1>3 DEF IndexBounds, Used, ringbuffer_used, SubW, Word
    <3>4. CASE ~(ridx + len > Size)
      <4>1. ridx' = ridx + len /\ widx' = widx
        BY <3>1, <3>2, <3>4 DEF Advanced
      <4> QED
        BY <4>1, <3>4, <1>2, <1>3 DEF IndexBounds, Used, ringbuffer_used, SubW, Word
    <3> QED
      BY <3>3, <3>4
  <2>2. CASE ~(Used > 0)
    <3>1. ridx' = ridx /\ widx' = widx
      BY <2>2 DEF ringbuffer_read
    <3> QED
      BY <3>1, <2>2, <1>1, <1>2, <1>3 DEF IndexBounds, Used, ringbuffer_used, SubW, Word
  <2> QED
    BY <2>1, <2>2
<1>5. dest' \in Seq(Byte)
  <2>1. CASE Used > 0
    BY <2>1, <1>2, FetchedType DEF ringbuffer_read, len
  <2>2. CASE ~(Used > 0)
    BY <2>2 DEF ringbuffer_read, Inv, TypeOK
  <2> QED
    BY <2>1, <2>2
<1>6. call' = Called("read", amount, len) /\ UNCHANGED <<mem, accepted>>
  BY DEF ringbuffer_read, len
<1>7. TypeOK'
  BY <1>0, <1>2, <1>4, <1>5, <1>6 DEF TypeOK, Called, Ops, Inv
<1>8. ShortCountMeansLimit'
  <2>1. call'.op = "read" /\ call'.amount = amount /\ call'.ret = len
    BY <1>6 DEF Called
  <2>2. len < amount => Used' = 0
    BY <1>0, <1>2, <1>3, <1>4
  <2> QED
    BY <2>1, <2>2 DEF ShortCountMeansLimit
<1> QED
  BY <1>4, <1>7, <1>8 DEF Inv

(* ringbuffer_peek touches neither the indices nor the memory. *)
LEMMA PeekInv ==
    ASSUME Inv, NEW amount \in Amounts, ringbuffer_peek(amount)
    PROVE  Inv'
<1> DEFINE len == min_size_t(Used, amount)
<1> USE SizeAssumption, CallAssumption
<1>0. amount \in 1 .. MaxAmount
  BY DEF Amounts
<1>1. Used = widx - ridx /\ Used \in 0 .. Size
  BY UsedExact DEF Inv
<1>2. /\ len \in 0 .. Size /\ len <= amount /\ len <= widx - ridx
      /\ len = widx - ridx \/ len = amount
      /\ len \in Nat
  BY <1>0, <1>1 DEF min_size_t
<1>3. dest' \in Seq(Byte)
  <2>1. CASE Used > 0
    BY <2>1, <1>2, FetchedType DEF ringbuffer_peek
  <2>2. CASE ~(Used > 0)
    BY <2>2 DEF ringbuffer_peek, Inv, TypeOK
  <2> QED
    BY <2>1, <2>2
<1>4. call' = Called("peek", amount, len) /\ UNCHANGED <<mem, ridx, widx, accepted>>
  BY DEF ringbuffer_peek
<1>5. TypeOK' /\ IndexBounds'
  BY <1>0, <1>2, <1>3, <1>4 DEF TypeOK, IndexBounds, Called, Ops, Inv
<1>6. Used' = Used
  BY <1>4 DEF Used
<1>7. ShortCountMeansLimit'
  BY <1>0, <1>1, <1>2, <1>4, <1>6 DEF ShortCountMeansLimit, Called
<1> QED
  BY <1>5, <1>7 DEF Inv

(* ringbuffer_reset empties the buffer. *)
LEMMA ResetInv ==
    ASSUME Inv, ringbuffer_reset
    PROVE  Inv'
<1> USE SizeAssumption, CallAssumption DEF ringbuffer_reset
<1>1. TypeOK'
  BY EmptySeq DEF TypeOK, Inv, Called, Ops, Word
<1>2. IndexBounds' /\ ShortCountMeansLimit'
  BY DEF IndexBounds, ShortCountMeansLimit, Called
<1> QED
  BY <1>1, <1>2 DEF Inv

(* Every call keeps the invariant. *)
LEMMA NextInv == Inv /\ [Next]_vars => Inv'
<1> SUFFICES ASSUME Inv, [Next]_vars PROVE Inv'
  OBVIOUS
<1>1. CASE UNCHANGED vars
  BY <1>1 DEF vars, Inv, TypeOK, IndexBounds, ShortCountMeansLimit, Used
<1>2. ASSUME NEW src \in Buffers, ringbuffer_write(src) PROVE Inv'
  BY <1>2, WriteInv
<1>3. ASSUME NEW amount \in Amounts, ringbuffer_read(amount) PROVE Inv'
  BY <1>3, ReadInv
<1>4. ASSUME NEW amount \in Amounts, ringbuffer_peek(amount) PROVE Inv'
  BY <1>4, PeekInv
<1>5. CASE ringbuffer_reset
  BY <1>5, ResetInv
<1> QED
  BY <1>1, <1>2, <1>3, <1>4, <1>5 DEF Next

(* Every reachable state satisfies the invariant. *)
THEOREM InvHolds == Spec => []Inv
<1>1. Init => Inv
  BY InitInv
<1>2. Inv /\ [Next]_vars => Inv'
  BY NextInv
<1> QED
  BY <1>1, <1>2, PTL DEF Spec

(* No sequence of calls takes the indices out of size_t, the cells out of   *)
(* the one mapping, or the last call's results out of their types.          *)
THEOREM TypeOKHolds == Spec => []TypeOK
<1>1. Inv => TypeOK
  BY DEF Inv
<1> QED
  BY <1>1, InvHolds, PTL

(* The size_t indices of ringbuffer.c never wrap and every memcpy stays in  *)
(* the double mapping, whatever the sizes and amounts.                      *)
THEOREM IndexBoundsHold == Spec => []IndexBounds
<1>1. Inv => IndexBounds
  BY DEF Inv
<1> QED
  BY <1>1, InvHolds, PTL

(* A short count always means a full or an empty buffer. *)
THEOREM ShortCountsHold == Spec => []ShortCountMeansLimit
<1>1. Inv => ShortCountMeansLimit
  BY DEF Inv
<1> QED
  BY <1>1, InvHolds, PTL

-----------------------------------------------------------------------------
(* Walking forwards from index i, the offset of another index's cell. *)
LEMMA OffsetOfCell ==
    ASSUME NEW i \in Nat, NEW at \in Nat,
           i < 2 * Size, at < 2 * Size, i < at + Size, at <= i + Size
    PROVE  /\ Cell(i) \in CellIds
           /\ i >= at => Offset(Cell(i), at) = i - at
           /\ i < at => Offset(Cell(i), at) = (i + Size) - at \/ at = i + Size
BY SizeAssumption DEF Cell, Offset, CellIds

(* The contents are a sequence as long as the used part of the buffer. *)
LEMMA ContentsType ==
    ASSUME Inv
    PROVE  /\ Contents \in [1 .. (widx - ridx) -> Byte]
           /\ Contents \in Seq(Byte) /\ Len(Contents) = widx - ridx
           /\ widx - ridx \in 0 .. Size
<1>1. /\ ridx \in Nat /\ widx \in Nat /\ ridx <= Size
      /\ ridx <= widx /\ widx <= ridx + Size
  BY DEF Inv, TypeOK, IndexBounds, Word
<1>2. \A k \in 1 .. (widx - ridx) : Cell(ridx + k - 1) \in CellIds
  BY <1>1, SizeAssumption DEF Cell, CellIds
<1>3. Contents \in [1 .. (widx - ridx) -> Byte]
  BY <1>2 DEF Contents, Inv, TypeOK
<1>4. widx - ridx \in Nat /\ widx - ridx \in 0 .. Size
  BY <1>1, SizeAssumption
<1> QED
  BY <1>3, <1>4, FunctionIsSeq

(* An accepted write appends exactly the accepted bytes to the contents. *)
LEMMA WriteAppends ==
    ASSUME Inv, Inv', NEW src \in Buffers, ringbuffer_write(src)
    PROVE  Fifo!Put \/ UNCHANGED <<Contents, accepted, dest>>
<1> DEFINE len == min_size_t(SubW(Size, Used), Len(src))
<1> USE SizeAssumption, CallAssumption
<1>1. /\ ridx \in Nat /\ widx \in Nat /\ ridx <= Size
      /\ ridx <= widx /\ widx <= ridx + Size
  BY DEF Inv, TypeOK, IndexBounds, Word
<1>2. /\ src \in [1 .. Len(src) -> Byte] /\ Len(src) \in 1 .. MaxAmount
  BY BufferIsSeq DEF Amounts
<1>3. len \in Nat /\ len <= Len(src) /\ widx + len <= ridx + Size
  BY <1>1, <1>2, UsedExact DEF min_size_t, Inv
<1>4. CASE len > 0
  <2>1. /\ mem' = Stored(widx, src, len) /\ widx' = AddW(widx, len)
        /\ accepted' = [k \in 1 .. len |-> src[k]]
        /\ ridx' = ridx /\ dest' = dest
    BY <1>4 DEF ringbuffer_write
  <2> HIDE DEF len
  <2>2. widx' = widx + len
    BY <2>1, <1>1, <1>3 DEF AddW
  <2>3. accepted' \in Seq(Byte) /\ Len(accepted') = len
    <3>1. accepted' \in [1 .. len -> Byte]
      BY <2>1, <1>2, <1>3
    <3> QED
      BY <3>1, <1>3, FunctionIsSeq
  <2>4. ASSUME NEW k \in 1 .. (widx + len) - ridx
        PROVE  mem'[Cell(ridx + k - 1)] =
                  IF k <= widx - ridx THEN mem[Cell(ridx + k - 1)]
                                      ELSE src[k - (widx - ridx)]
    <3> DEFINE i == ridx + k - 1
    <3>1. i \in Nat /\ i < 2 * Size /\ widx < 2 * Size /\ i < widx + Size
          /\ widx + len <= i + Size
      BY <1>1, <1>3, <1>4
    <3>2. /\ Cell(i) \in CellIds
          /\ i >= widx => Offset(Cell(i), widx) = i - widx
          /\ i < widx => Offset(Cell(i), widx) = (i + Size) - widx
      BY <3>1, <1>1, <1>3, <1>4, OffsetOfCell
    <3>3. mem'[Cell(i)] = IF Offset(Cell(i), widx) < len
                            THEN src[Offset(Cell(i), widx) + 1] ELSE mem[Cell(i)]
      BY <2>1, <3>2 DEF Stored
    <3>4. CASE k <= widx - ridx
      <4>1. i < widx
        BY <3>4, <1>1
      <4>2. ~(Offset(Cell(i), widx) < len)
        BY <4>1, <3>1, <3>2, <1>1, <1>3
      <4> QED
        BY <4>2, <3>3, <3>4
    <3>5. CASE ~(k <= widx - ridx)
      <4>1. i >= widx /\ i - widx < len /\ (i - widx) + 1 = k - (widx - ridx)
        BY <3>5, <1>1, <1>3
      <4> QED
        BY <4>1, <3>2, <3>3, <3>5
    <3> QED
      BY <3>4, <3>5
  <2>5. Contents' = [k \in 1 .. ((widx + len) - ridx) |-> mem'[Cell(ridx + k - 1)]]
    BY <2>1, <2>2 DEF Contents
  <2>6. Fifo!Append2(Contents, accepted') =
            [k \in 1 .. ((widx - ridx) + len) |->
                IF k <= widx - ridx THEN mem[Cell(ridx + k - 1)] ELSE src[k - (widx - ridx)]]
    <3>1. Len(Contents) = widx - ridx
      BY ContentsType
    <3>2. \A k \in 1 .. ((widx - ridx) + len) :
            k <= widx - ridx => Contents[k] = mem[Cell(ridx + k - 1)]
      BY <1>1 DEF Contents
    <3>3. \A k \in 1 .. ((widx - ridx) + len) :
            ~(k <= widx - ridx) => accepted'[k - (widx - ridx)] = src[k - (widx - ridx)]
      <4> TAKE k \in 1 .. ((widx - ridx) + len)
      <4> HAVE ~(k <= widx - ridx)
      <4>1. k - (widx - ridx) \in 1 .. len
        BY <1>1, <1>3
      <4> QED
        BY <4>1, <2>1
    <3> QED
      BY <2>3, <3>1, <3>2, <3>3 DEF Fifo!Append2
  <2>7. (widx + len) - ridx = (widx - ridx) + len
    BY <1>1, <1>3
  <2>8. Contents' = Fifo!Append2(Contents, accepted')
    BY <2>4, <2>5, <2>6, <2>7
  <2>9. Len(Contents) + Len(accepted') <= Size /\ Len(accepted') > 0
    BY <2>3, <1>1, <1>3, <1>4, ContentsType
  <2> QED
    BY <2>1, <2>3, <2>8, <2>9 DEF Fifo!Put
<1>5. CASE ~(len > 0)
  BY <1>5 DEF ringbuffer_write, Contents
<1> QED
  BY <1>4, <1>5

(* What a read or a peek of len units copies is the head of the contents. *)
LEMMA FetchedIsHead ==
    ASSUME Inv, NEW len \in Nat, len <= widx - ridx
    PROVE  Fetched(ridx, len) = Fifo!First(len, Contents)
<1>1. \A k \in 1 .. len : Contents[k] = mem[Cell(ridx + k - 1)]
  BY DEF Contents, Inv, TypeOK, Word
<1> QED
  BY <1>1 DEF Fetched, Fifo!First

(* A read removes the head it copied, whether or not the indices wrap. *)
LEMMA ReadTakes ==
    ASSUME Inv, NEW amount \in Amounts, ringbuffer_read(amount)
    PROVE  \/ \E n \in 1 .. Len(Contents) : Fifo!Take(n)
           \/ UNCHANGED <<Contents, accepted, dest>>
<1> DEFINE len == min_size_t(Used, amount)
<1> USE SizeAssumption, CallAssumption
<1>1. /\ ridx \in Nat /\ widx \in Nat /\ ridx <= Size
      /\ ridx <= widx /\ widx <= ridx + Size
  BY DEF Inv, TypeOK, IndexBounds, Word
<1>2. amount \in 1 .. MaxAmount
  BY DEF Amounts
<1>3. Used = widx - ridx /\ len \in Nat /\ len <= widx - ridx
  BY <1>1, <1>2, UsedExact DEF min_size_t, Inv
<1>4. CASE Used > 0
  <2>0. len > 0
    BY <1>2, <1>3, <1>4 DEF min_size_t
  <2>1. /\ dest' = Fetched(ridx, len) /\ Advanced(len)
        /\ mem' = mem /\ accepted' = accepted
    BY <1>4 DEF ringbuffer_read
  <2> HIDE DEF len
  <2>2. dest' = Fifo!First(len, Contents)
    BY <2>1, <1>3, FetchedIsHead
  <2>3. Fifo!Rest(len, Contents) =
            [k \in 1 .. ((widx - ridx) - len) |-> mem[Cell(ridx + (k + len) - 1)]]
    <3>1. Len(Contents) = widx - ridx
      BY ContentsType
    <3>2. \A k \in 1 .. ((widx - ridx) - len) :
             Contents[k + len] = mem[Cell(ridx + (k + len) - 1)]
      BY <1>1, <1>3 DEF Contents
    <3> QED
      BY <3>1, <3>2 DEF Fifo!Rest
  <2>4. Contents' = Fifo!Rest(len, Contents)
    <3>1. AddW(ridx, len) = ridx + len
      BY <1>1, <1>3 DEF AddW
    <3>2. CASE ridx + len > Size
      <4>1. ridx' = (ridx + len) - Size /\ widx' = widx - Size
        BY <2>1, <3>1, <3>2, <1>1, <1>3 DEF Advanced, SubW
      <4>2. Contents' = [k \in 1 .. ((widx - Size) - ((ridx + len) - Size)) |->
                            mem[Cell(((ridx + len) - Size) + k - 1)]]
        BY <4>1, <2>1 DEF Contents
      <4>3. (widx - Size) - ((ridx + len) - Size) = (widx - ridx) - len
        BY <1>1, <1>3
      <4>4. \A k \in 1 .. ((widx - ridx) - len) :
               Cell(((ridx + len) - Size) + k - 1) = Cell(ridx + (k + len) - 1)
        BY <3>2, <1>1, <1>3 DEF Cell
      <4> QED
        BY <4>2, <4>3, <4>4, <2>3
    <3>3. CASE ~(ridx + len > Size)
      <4>1. ridx' = ridx + len /\ widx' = widx
        BY <2>1, <3>1, <3>3 DEF Advanced
      <4>2. Contents' = [k \in 1 .. (widx - (ridx + len)) |-> mem[Cell((ridx + len) + k - 1)]]
        BY <4>1, <2>1 DEF Contents
      <4>3. widx - (ridx + len) = (widx - ridx) - len
        BY <1>1, <1>3
      <4>4. \A k \in 1 .. ((widx - ridx) - len) : (ridx + len) + k - 1 = ridx + (k + len) - 1
        BY <1>1, <1>3
      <4> QED
        BY <4>2, <4>3, <4>4, <2>3
    <3> QED
      BY <3>2, <3>3
  <2>5. Fifo!Take(len)
    BY <2>1, <2>2, <2>4 DEF Fifo!Take
  <2>6. len \in 1 .. Len(Contents)
    BY <2>0, <1>1, <1>3, ContentsType
  <2> QED
    BY <2>5, <2>6
<1>5. CASE ~(Used > 0)
  BY <1>5 DEF ringbuffer_read, Contents
<1> QED
  BY <1>4, <1>5

(* A peek copies the head and removes nothing. *)
LEMMA PeekLooks ==
    ASSUME Inv, NEW amount \in Amounts, ringbuffer_peek(amount)
    PROVE  \/ \E n \in 1 .. Len(Contents) : Fifo!Look(n)
           \/ UNCHANGED <<Contents, accepted, dest>>
<1> DEFINE len == min_size_t(Used, amount)
<1> USE SizeAssumption, CallAssumption
<1>1. Used = widx - ridx /\ Used \in 0 .. Size
  BY UsedExact DEF Inv
<1>2. amount \in 1 .. MaxAmount
  BY DEF Amounts
<1>3. Contents' = Contents
  BY DEF ringbuffer_peek, Contents
<1>4. CASE Used > 0
  <2>1. len \in Nat /\ len > 0 /\ len <= widx - ridx
    BY <1>1, <1>2, <1>4 DEF min_size_t
  <2>2. dest' = Fetched(ridx, len) /\ accepted' = accepted
    BY <1>4 DEF ringbuffer_peek
  <2> HIDE DEF len
  <2>3. Fifo!Look(len)
    BY <2>1, <2>2, <1>3, FetchedIsHead DEF Fifo!Look
  <2>4. len \in 1 .. Len(Contents)
    BY <2>1, ContentsType
  <2> QED
    BY <2>3, <2>4
<1>5. CASE ~(Used > 0)
  BY <1>3, <1>5 DEF ringbuffer_peek
<1> QED
  BY <1>4, <1>5

(* ringbuffer_reset is the step of ByteFifo that empties the queue. *)
LEMMA ResetClears ==
    ASSUME ringbuffer_reset
    PROVE  Fifo!Clear
<1>1. ridx' = 0 /\ widx' = 0 /\ accepted' = <<>> /\ dest' = dest
  BY DEF ringbuffer_reset
<1>2. Contents' = <<>>
  BY <1>1 DEF Contents
<1> QED
  BY <1>1, <1>2 DEF Fifo!Clear

(* Every call is a step of ByteFifo, or leaves its variables alone. *)
LEMMA StepRefines ==
    ASSUME Inv, Inv', [Next]_vars
    PROVE  [Fifo!Next]_(Fifo!fifoVars)
<1>1. CASE UNCHANGED vars
  <2>1. Contents' = Contents
    BY <1>1 DEF vars, Contents
  <2> QED
    BY <2>1, <1>1 DEF vars, Fifo!fifoVars
<1>2. ASSUME NEW src \in Buffers, ringbuffer_write(src)
      PROVE  [Fifo!Next]_(Fifo!fifoVars)
  BY <1>2, WriteAppends DEF Fifo!Next, Fifo!fifoVars
<1>3. ASSUME NEW amount \in Amounts, ringbuffer_read(amount)
      PROVE  [Fifo!Next]_(Fifo!fifoVars)
  BY <1>3, ReadTakes DEF Fifo!Next, Fifo!fifoVars
<1>4. ASSUME NEW amount \in Amounts, ringbuffer_peek(amount)
      PROVE  [Fifo!Next]_(Fifo!fifoVars)
  BY <1>4, PeekLooks DEF Fifo!Next, Fifo!fifoVars
<1>5. CASE ringbuffer_reset
  BY <1>5, ResetClears DEF Fifo!Next
<1> QED
  BY <1>1, <1>2, <1>3, <1>4, <1>5 DEF Next

(* Used by one caller at a time, ringbuffer.c implements the byte queue:    *)
(* across every wrap, each accepted byte is handed over once and in order.  *)
THEOREM RingBufferIsFifo == Spec => ImplementsByteFifo
<1>1. Init => Fifo!Init
  BY DEF Init, Fifo!Init, Contents
<1>2. Inv /\ Inv' /\ [Next]_vars => [Fifo!Next]_(Fifo!fifoVars)
  BY StepRefines
<1> QED
  BY <1>1, <1>2, InvHolds, PTL DEF Spec, ImplementsByteFifo, Fifo!Spec
=============================================================================
