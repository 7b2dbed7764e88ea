------------------------------ MODULE RingBuffer ------------------------------
(***************************************************************************)
(* The ring buffer of ringbuffer.c under the discipline its header comment  *)
(* demands, "obtain exclusive access": every call runs alone.  One action   *)
(* per API function.  RingSpsc drops that discipline.                       *)
(***************************************************************************)
EXTENDS RingIndex, Sequences

CONSTANTS
    Byte,       \* values of a unit of memory; 0 is the fresh file's filling
    MaxAmount   \* largest amount a caller asks for

ASSUME CallAssumption ==
    /\ 0 \in Byte
    /\ MaxAmount \in Nat \ {0}
    /\ MaxAmount < WordSize

VARIABLES
    mem,        \* the shared memory file behind both mappings
    ridx, widx, \* rbuf->ridx, rbuf->widx
    dest,       \* what the last successful read or peek left in *dest
    accepted,   \* the bytes the last successful write took from *src
    call        \* the last call: operation, amount asked for, value returned

vars == <<mem, ridx, widx, dest, accepted, call>>

Ops == {"none", "write", "read", "peek", "reset"}
Amounts == 1 .. MaxAmount
Buffers == UNION {[1 .. n -> Byte] : n \in Amounts}

Called(op, amount, ret) == [op |-> op, amount |-> amount, ret |-> ret]

(* memcpy(&address[at], src, len) and memcpy(dest, &address[at], len). *)
Stored(at, src, len) ==
    [c \in CellIds |-> IF Offset(c, at) < len THEN src[Offset(c, at) + 1] ELSE mem[c]]
Fetched(at, len) == [k \in 1 .. len |-> mem[Cell(at + k - 1)]]

Used == ringbuffer_used(widx, ridx)

-----------------------------------------------------------------------------
(* ringbuffer_init succeeded: a fresh file reads as zeroes. *)
Init ==
    /\ mem = [c \in CellIds |-> 0]
    /\ ridx = 0 /\ widx = 0
    /\ dest = <<>>
    /\ accepted = <<>>
    /\ call = Called("none", 0, 0)

(* Mutant: the amount is not clipped to the room left. *)
Mutant_WriteUnclipped(src) ==
    /\ call' = Called("write", Len(src), Len(src))
    /\ mem' = Stored(widx, src, Len(src))
    /\ widx' = AddW(widx, Len(src))
    /\ accepted' = src
    /\ UNCHANGED <<ridx, dest>>

(* Mutant: one unit is always kept free, as rings with wrapping indices do. *)
Mutant_WriteKeepsOneFree(src) ==
    LET len == min_size_t(SubW(Size - 1, Used), Len(src))
    IN  /\ call' = Called("write", Len(src), len)
        /\ IF len > 0
             THEN /\ mem' = Stored(widx, src, len)
                  /\ widx' = AddW(widx, len)
                  /\ accepted' = [k \in 1 .. len |-> src[k]]
             ELSE UNCHANGED <<mem, widx, accepted>>
        /\ UNCHANGED <<ridx, dest>>

ringbuffer_write(src) ==
    LET len == min_size_t(SubW(Size, Used), Len(src))
    IN  /\ call' = Called("write", Len(src), len)
        /\ IF len > 0
             THEN /\ mem' = Stored(widx, src, len)
                  /\ widx' = AddW(widx, len)
                  /\ accepted' = [k \in 1 .. len |-> src[k]]
             ELSE UNCHANGED <<mem, widx, accepted>>
        /\ UNCHANGED <<ridx, dest>>

(* Mutant: the wrap is forgotten. *)
Mutant_NeverWraps(len) ==
    /\ ridx' = AddW(ridx, len)
    /\ UNCHANGED widx

(* Both indices move down together once ridx has passed the first mapping. *)
Advanced(len) ==
    LET next == AddW(ridx, len)
    IN  IF next > Size
          THEN ridx' = SubW(next, Size) /\ widx' = SubW(widx, Size)
          ELSE ridx' = next /\ UNCHANGED widx

(* Mutant: the index is advanced before the copy. *)
Mutant_ReadAfterAdvance(amount) ==
    LET len == min_size_t(Used, amount)
    IN  /\ call' = Called("read", amount, len)
        /\ IF Used > 0
             THEN Advanced(len) /\ dest' = Fetched(ridx', len)
             ELSE UNCHANGED <<dest, ridx, widx>>
        /\ UNCHANGED <<mem, accepted>>

ringbuffer_read(amount) ==
    LET len == min_size_t(Used, amount)
    IN  /\ call' = Called("read", amount, len)
        /\ IF Used > 0
             THEN dest' = Fetched(ridx, len) /\ Advanced(len)
             ELSE UNCHANGED <<dest, ridx, widx>>
        /\ UNCHANGED <<mem, accepted>>

ringbuffer_peek(amount) ==
    LET len == min_size_t(Used, amount)
    IN  /\ call' = Called("peek", amount, len)
        /\ dest' = IF Used > 0 THEN Fetched(ridx, len) ELSE dest
        /\ UNCHANGED <<mem, ridx, widx, accepted>>

ringbuffer_reset ==
    /\ ridx' = 0 /\ widx' = 0
    /\ call' = Called("reset", 0, 0)
    /\ accepted' = <<>>
    /\ UNCHANGED <<mem, dest>>

Next ==
    \/ \E src \in Buffers : ringbuffer_write(src)
    \/ \E amount \in Amounts : ringbuffer_read(amount)
    \/ \E amount \in Amounts : ringbuffer_peek(amount)
    \/ ringbuffer_reset

Spec == Init /\ [][Next]_vars

-----------------------------------------------------------------------------
(* Types of the state: ringbuffer__s, its file and the ghost variables. *)
TypeOK ==
    /\ mem \in [CellIds -> Byte]
    /\ ridx \in Word /\ widx \in Word
    /\ dest \in Seq(Byte) /\ accepted \in Seq(Byte)
    /\ call \in [op : Ops, amount : 0 .. MaxAmount, ret : 0 .. Size]

(* The indices stay where the code's arithmetic is meaningful: ridx inside  *)
(* the first mapping or at its end, widx never behind ridx and never more   *)
(* than size ahead.  Hence neither "widx - ridx" nor "size - used" wraps    *)
(* and every memcpy stays inside the two mappings.                          *)
IndexBounds ==
    /\ ridx <= Size
    /\ ridx <= widx
    /\ widx <= ridx + Size

(* A call that moves fewer bytes than asked for has hit the limit: a short  *)
(* ringbuffer_write leaves the buffer full, a short ringbuffer_read leaves  *)
(* it empty.  Callers retry on a short count, so a short count with room    *)
(* left (or data left) would spin or drop for nothing.                      *)
ShortCountMeansLimit ==
    call.ret < call.amount =>
        /\ call.op = "write" => Used = Size
        /\ call.op = "read" => Used = 0
        /\ call.op = "peek" => Used = call.ret

(* The API is a FIFO of bytes: what was accepted comes out once, in order,  *)
(* across every wrap of the double mapping.                                 *)
Contents == [k \in 1 .. (widx - ridx) |-> mem[Cell(ridx + k - 1)]]
Fifo == INSTANCE ByteFifo WITH
            queue <- Contents, in <- accepted, out <- dest, Capacity <- Size
ImplementsByteFifo == Fifo!Spec
=============================================================================
