------------------------------- MODULE ByteFifo -------------------------------
(***************************************************************************)
(* What a ring buffer promises: a bounded first-in first-out byte queue.    *)
(*                                                                          *)
(*   queue  the bytes written and not yet read                              *)
(*   in     the bytes the last accepted write appended                      *)
(*   out    the bytes the last read or peek handed to its caller            *)
(*                                                                          *)
(* A write may accept fewer bytes than offered and a read may return fewer  *)
(* than asked for; an accepted byte is never lost, duplicated, reordered or *)
(* changed.                                                                 *)
(***************************************************************************)
EXTENDS Naturals, Sequences

CONSTANTS Byte, Capacity

VARIABLES queue, in, out

fifoVars == <<queue, in, out>>

First(n, s) == [k \in 1 .. n |-> s[k]]
Rest(n, s) == [k \in 1 .. (Len(s) - n) |-> s[k + n]]
Append2(s, t) == [k \in 1 .. (Len(s) + Len(t)) |->
                     IF k <= Len(s) THEN s[k] ELSE t[k - Len(s)]]

Init == queue = <<>> /\ in = <<>> /\ out = <<>>

(* Accept some bytes, as many as still fit at the most. *)
Put ==
    /\ in' \in Seq(Byte)
    /\ Len(in') > 0
    /\ Len(queue) + Len(in') <= Capacity
    /\ queue' = Append2(queue, in')
    /\ UNCHANGED out

(* Hand over and forget the oldest n bytes. *)
Take(n) ==
    /\ out' = First(n, queue)
    /\ queue' = Rest(n, queue)
    /\ UNCHANGED in

(* Hand over the oldest n bytes and keep them. *)
Look(n) ==
    /\ out' = First(n, queue)
    /\ UNCHANGED <<queue, in>>

(* The consumer is done with what it was handed: it forgets all of it. *)
Release ==
    /\ out' = <<>>
    /\ UNCHANGED <<queue, in>>

(* Throw away the contents; the one step that forgets the last write. *)
Clear ==
    /\ queue' = <<>>
    /\ in' = <<>>
    /\ UNCHANGED out

Next ==
    \/ Put
    \/ \E n \in 1 .. Len(queue) : Take(n) \/ Look(n)
    \/ Release
    \/ Clear

Spec == Init /\ [][Next]_fifoVars
=============================================================================
