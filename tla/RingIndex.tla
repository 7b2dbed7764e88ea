------------------------------ MODULE RingIndex ------------------------------
(***************************************************************************)
(* Index arithmetic of ringbuffer.c, shared by the sequential model         *)
(* (RingBuffer) and the two-thread model (RingSpsc).                        *)
(*                                                                          *)
(* The buffer's memory file is mapped twice, back to back, so address[i]    *)
(* and address[i + size] are one byte.  ridx and widx are size_t: their     *)
(* difference wraps, and the code relies on nothing to stop it.             *)
(***************************************************************************)
EXTENDS Naturals

CONSTANTS
    Size,       \* rbuf->size, in units (one unit = the grain of a memcpy)
    WordSize    \* number of values of a size_t

ASSUME SizeAssumption ==
    /\ Size \in Nat \ {0}
    /\ WordSize \in Nat
    /\ WordSize >= 4 * Size

Word == 0 .. WordSize - 1
CellIds == 0 .. Size - 1

(* size_t addition and subtraction. *)
AddW(a, b) == IF a + b < WordSize THEN a + b ELSE (a + b) - WordSize
SubW(a, b) == IF b <= a THEN a - b ELSE (a + WordSize) - b

min_size_t(a, b) == IF a < b THEN a ELSE b

(* Both mappings of the file: index i of address[] names this memory cell. *)
Mapped(i) == i < 2 * Size
Cell(i) == IF i < Size THEN i ELSE i - Size

(* How far cell c lies after index i, walking forwards round the file. *)
Offset(c, i) == IF c >= Cell(i) THEN c - Cell(i) ELSE (c + Size) - Cell(i)

ringbuffer_used(w, r) == SubW(w, r)
ringbuffer_avail(w, r) == SubW(Size, ringbuffer_used(w, r))
=============================================================================
