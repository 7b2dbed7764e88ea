------------------------------- MODULE RingInit -------------------------------
(***************************************************************************)
(* ringbuffer_init and ringbuffer_destroy of ringbuffer.c, one action per   *)
(* system call of the good path.  Every call may fail, and the process may  *)
(* be killed between any two and started again: the kernel then closes      *)
(* descriptors and drops mappings, but a name in /dev/shm stays.  The       *)
(* clean-up after a failed call is part of its action, since nobody else    *)
(* can see a state in the middle of it.                                     *)
(*                                                                          *)
(* The kernel is external.  close releases the descriptor whatever it       *)
(* returns, and munmap of what mmap returned succeeds.                      *)
(***************************************************************************)
EXTENDS RingIndex, FiniteSets

CONSTANT MaxFiles       \* bound: calls of mkstemp that succeed

ASSUME FilesAssumption == MaxFiles \in Nat

VARIABLES
    pc,             \* the next system call of ringbuffer_init, or "idle"
    up,             \* ringbuffer_init returned 0, destroy not called since
    rc,             \* what ringbuffer_init returned: "none", "ok", "error"
    created,        \* files made so far; the last one is the current file
    fh,             \* the file fh is open on, or 0
    names,          \* files that still have a name in /dev/shm
    length, blank,  \* of the current file: its length, whether all zero
    at,             \* what each address of the double range is backed by
    ridx, widx,
    crashes, stuck  \* history: kills, and unlinks that failed

ringVars == <<ridx, widx>>
fileVars == <<created, names, length, blank>>
vars == <<pc, up, rc, fh, at, crashes, stuck, ringVars, fileVars>>

Range2 == 0 .. (2 * Size - 1)
Page(f, c) == <<f, c>>              \* unit c of file f
Nothing == Page(0, 0)
Reserved == Page(0, 1)              \* PROT_NONE, private and anonymous
Unmapped == [i \in Range2 |-> Nothing]

Init ==
    /\ pc = "idle" /\ up = FALSE /\ rc = "none"
    /\ created = 0 /\ fh = 0 /\ names = {}
    /\ length = 0 /\ blank = TRUE
    /\ at = Unmapped
    /\ ridx = 0 /\ widx = 0
    /\ crashes = 0 /\ stuck = 0

-----------------------------------------------------------------------------
(* mkstemp; on failure nothing was done. *)
Mkstemp ==
    /\ pc = "idle" /\ ~up
    /\ \/ /\ created < MaxFiles
          /\ created' = created + 1
          /\ fh' = created + 1
          /\ names' = names \cup {created + 1}
          /\ length' = 0 /\ blank' = TRUE
          /\ pc' = "unlink" /\ rc' = "none"
       \/ rc' = "error" /\ UNCHANGED <<pc, fh, fileVars>>
    /\ UNCHANGED <<up, at, ringVars, crashes, stuck>>

(* Mutant: the file keeps its name. *)
Mutant_UnlinkForgotten ==
    /\ pc = "unlink"
    /\ ridx' = 0 /\ widx' = 0
    /\ pc' = "ftruncate"
    /\ UNCHANGED <<up, rc, fh, fileVars, at, crashes, stuck>>

(* Mutant: the indices keep the values an earlier use left. *)
Mutant_UnlinkKeepsIndices ==
    /\ pc = "unlink"
    /\ \/ names' = names \ {fh} /\ UNCHANGED stuck
       \/ stuck' = stuck + 1 /\ UNCHANGED names
    /\ pc' = "ftruncate"
    /\ UNCHANGED <<up, rc, created, fh, length, blank, at, ringVars, crashes>>

(* unlink, its result ignored, and the fields set before the file is sized. *)
Unlink ==
    /\ pc = "unlink"
    /\ \/ names' = names \ {fh} /\ UNCHANGED stuck
       \/ stuck' = stuck + 1 /\ UNCHANGED names
    /\ ridx' = 0 /\ widx' = 0
    /\ pc' = "ftruncate"
    /\ UNCHANGED <<up, rc, created, fh, length, blank, at, crashes>>

(* The end of every error path: close, and an errno for the caller. *)
ReturnError ==
    /\ fh' = 0 /\ pc' = "idle" /\ rc' = "error"
    /\ UNCHANGED <<up, fileVars, ringVars, crashes, stuck>>

Proceed(next) ==
    /\ pc' = next
    /\ UNCHANGED <<up, rc, fh, created, names, blank, ringVars, crashes, stuck>>

Ftruncate ==
    /\ pc = "ftruncate"
    /\ \/ length' = Size /\ Proceed("reserve")
       \/ ReturnError
    /\ UNCHANGED at

(* The anonymous mapping that reserves twice the size. *)
Reserve ==
    /\ pc = "reserve"
    /\ \/ /\ at' = [i \in Range2 |-> Reserved]
          /\ Proceed("low") /\ UNCHANGED length
       \/ ReturnError /\ UNCHANGED at

(* The file over the first half; on failure munmap takes the whole range,   *)
(* with whatever a half-done MAP_FIXED left of it.                          *)
MapLow ==
    /\ pc = "low"
    /\ \/ /\ at' = [i \in Range2 |-> IF i < Size THEN Page(fh, i) ELSE at[i]]
          /\ Proceed("high") /\ UNCHANGED length
       \/ ReturnError /\ at' = Unmapped

(* close(fh) and "return 0". *)
ReturnOk ==
    /\ fh' = 0 /\ pc' = "idle" /\ rc' = "ok" /\ up' = TRUE
    /\ UNCHANGED <<fileVars, ringVars, crashes, stuck>>

(* Mutant: the second mapping goes on in the file where the first ended. *)
Mutant_MapHighGoesOn ==
    /\ pc = "high"
    /\ \/ /\ at' = [i \in Range2 |-> IF i < Size THEN at[i] ELSE Page(fh, i)]
          /\ ReturnOk
       \/ ReturnError /\ at' = Unmapped

(* Mutant: the error path forgets munmap. *)
Mutant_MapHighLeaks ==
    /\ pc = "high"
    /\ \/ /\ at' = [i \in Range2 |-> IF i < Size THEN at[i] ELSE Page(fh, i - Size)]
          /\ ReturnOk
       \/ ReturnError /\ UNCHANGED at

(* The file over the second half. *)
MapHigh ==
    /\ pc = "high"
    /\ \/ /\ at' = [i \in Range2 |-> IF i < Size THEN at[i] ELSE Page(fh, i - Size)]
          /\ ReturnOk
       \/ ReturnError /\ at' = Unmapped

ringbuffer_init == Mkstemp \/ Unlink \/ Ftruncate \/ Reserve \/ MapLow \/ MapHigh

ringbuffer_destroy ==
    /\ pc = "idle" /\ up
    /\ at' = Unmapped
    /\ up' = FALSE /\ rc' = "none"
    /\ UNCHANGED <<pc, fh, fileVars, ringVars, crashes, stuck>>

(* Calls of ringbuffer_write and ringbuffer_read between the two, by what   *)
(* RingBuffer says they can do to the indices.                              *)
Traffic ==
    /\ pc = "idle" /\ up
    /\ blank' = FALSE
    /\ ridx' \in 0 .. Size
    /\ widx' \in ridx' .. (ridx' + Size)
    /\ UNCHANGED <<pc, up, rc, created, fh, names, length, at, crashes, stuck>>

(* The process is killed, and started again. *)
Crash ==
    /\ pc # "idle" \/ up
    /\ crashes' = crashes + 1
    /\ pc' = "idle" /\ up' = FALSE /\ rc' = "none"
    /\ fh' = 0 /\ at' = Unmapped
    /\ UNCHANGED <<fileVars, ringVars, stuck>>

Next == ringbuffer_init \/ ringbuffer_destroy \/ Traffic \/ Crash

Spec == Init /\ [][Next]_vars

-----------------------------------------------------------------------------
Calls == {"idle", "unlink", "ftruncate", "reserve", "low", "high"}

(* Types of the process's resources, of the files and of the history. *)
TypeOK ==
    /\ pc \in Calls /\ up \in BOOLEAN /\ rc \in {"none", "ok", "error"}
    /\ created \in Nat /\ fh \in Nat /\ names \subseteq 1 .. created
    /\ length \in {0, Size} /\ blank \in BOOLEAN
    /\ ridx \in Nat /\ widx \in Nat
    /\ crashes \in Nat /\ stuck \in Nat

(* Whichever system call fails, ringbuffer_init returns 0 exactly when the  *)
(* ring is usable, and otherwise leaves no descriptor and no mapping.       *)
NoLeak ==
    pc = "idle" =>
        /\ fh = 0
        /\ up <=> rc = "ok"
        /\ ~up => at = Unmapped

(* A ring that ringbuffer_init returned is the one file mapped twice back   *)
(* to back, sized so that no access is beyond its end: address i is the     *)
(* memory RingBuffer and RingSpsc call Cell(i).                             *)
DoubleMapped ==
    up => /\ \A i \in Range2 : Mapped(i) /\ at[i] = Page(created, Cell(i))
          /\ \A i \in Range2 : Cell(i) < length

(* Every ring starts as RingBuffer!Init says, whatever an earlier use of    *)
(* the same structure left: zeroes, and both indices at 0.                  *)
FreshRing == [][~up /\ up' => blank' /\ ridx' = 0 /\ widx' = 0]_vars

(* Names left behind in /dev/shm are accounted for: one per kill and one    *)
(* per failed unlink at the most, besides the one being unlinked.           *)
OrphansAccounted ==
    Cardinality(names) <= (crashes + stuck) + (IF pc = "unlink" THEN 1 ELSE 0)

-----------------------------------------------------------------------------
(* The inductive invariant behind the properties above.                     *)

(* What has been mapped when each call is due. *)
MappedSoFar ==
    /\ pc \in {"unlink", "ftruncate", "reserve"} => at = Unmapped
    /\ pc = "low" => at = [i \in Range2 |-> Reserved]
    /\ pc = "high" =>
         at = [i \in Range2 |-> IF i < Size THEN Page(created, i) ELSE Reserved]
    /\ up => at = [i \in Range2 |-> Page(created, Cell(i))]

FileSoFar ==
    /\ pc # "idle" => ~up /\ fh = created /\ blank
    /\ pc \in {"reserve", "low", "high"} \/ up => length = Size
    /\ pc \notin {"idle", "unlink"} => ridx = 0 /\ widx = 0
    /\ pc = "unlink" => fh \in names

SetUpInv == TypeOK /\ NoLeak /\ MappedSoFar /\ FileSoFar /\ OrphansAccounted
=============================================================================
