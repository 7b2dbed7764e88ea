---------------------------- MODULE RingInitProofs ----------------------------
(***************************************************************************)
(* Proofs about RingInit for every ring size and any number of files, with  *)
(* system calls failing and the process being killed at every point.        *)
(***************************************************************************)
EXTENDS RingInit, FiniteSetTheorems, TLAPS

(* The names left in /dev/shm are finitely many. *)
LEMMA NamesFinite ==
    ASSUME TypeOK
    PROVE  IsFiniteSet(names) /\ Cardinality(names) \in Nat
<1>1. IsFiniteSet(1 .. created)
  BY FS_Interval DEF TypeOK
<1>2. IsFiniteSet(names)
  BY <1>1, FS_Subset DEF TypeOK
<1> QED
  BY <1>2, FS_CardinalityType

(* The program starts with nothing open, mapped or named. *)
LEMMA SetUpInit == Init => SetUpInv
<1> SUFFICES ASSUME Init PROVE SetUpInv
  OBVIOUS
<1>1. Cardinality(names) = 0
  BY FS_EmptySet DEF Init
<1>2. OrphansAccounted
  BY <1>1 DEF Init, OrphansAccounted
<1> QED
  BY <1>2, SizeAssumption DEF Init, SetUpInv, TypeOK, Calls, NoLeak, MappedSoFar, FileSoFar

(* mkstemp adds one name and opens the current file, or does nothing. *)
LEMMA MkstempKeeps == ASSUME SetUpInv, Mkstemp PROVE SetUpInv'
<1> USE SizeAssumption DEF SetUpInv
<1>1. CASE UNCHANGED <<pc, fh, fileVars>>
  <2>1. /\ rc' \in {rc, "error"} /\ pc = "idle" /\ ~up
        /\ UNCHANGED <<pc, up, created, fh, names, length, blank, at, ridx, widx, crashes, stuck>>
    BY <1>1 DEF Mkstemp, fileVars, ringVars
  <2>2. rc' = "error" \/ rc' = rc
    BY <2>1
  <2>3. rc' # "ok"
    BY <2>1, <2>2 DEF NoLeak
  <2>4. TypeOK' /\ NoLeak'
    BY <2>1, <2>2, <2>3 DEF TypeOK, NoLeak
  <2>5. MappedSoFar' /\ FileSoFar' /\ OrphansAccounted'
    BY <2>1 DEF MappedSoFar, FileSoFar, OrphansAccounted
  <2> QED
    BY <2>4, <2>5
<1>2. CASE ~UNCHANGED <<pc, fh, fileVars>>
  <2>1. /\ pc = "idle" /\ ~up /\ pc' = "unlink" /\ rc' = "none"
        /\ created' = created + 1 /\ fh' = created + 1
        /\ names' = names \cup {created + 1}
        /\ length' = 0 /\ blank' = TRUE
        /\ UNCHANGED <<up, at, ridx, widx, crashes, stuck>>
    BY <1>2 DEF Mkstemp, ringVars
  <2>2. TypeOK'
    BY <2>1 DEF TypeOK, Calls
  <2>3. NoLeak' /\ MappedSoFar' /\ FileSoFar'
    BY <2>1 DEF NoLeak, MappedSoFar, FileSoFar
  <2>4. created + 1 \notin names
    BY DEF TypeOK
  <2>5. Cardinality(names') = Cardinality(names) + 1
    BY <2>1, <2>4, NamesFinite, FS_AddElement
  <2>6. OrphansAccounted'
    BY <2>1, <2>5, NamesFinite DEF OrphansAccounted, TypeOK
  <2> QED
    BY <2>2, <2>3, <2>6
<1> QED
  BY <1>1, <1>2

(* unlink takes the name away, or counts as stuck. *)
LEMMA UnlinkKeeps == ASSUME SetUpInv, Unlink PROVE SetUpInv'
<1> USE SizeAssumption DEF SetUpInv
<1>1. /\ pc = "unlink" /\ pc' = "ftruncate" /\ ridx' = 0 /\ widx' = 0
      /\ UNCHANGED <<up, rc, created, fh, length, blank, at, crashes>>
      /\ \/ names' = names \ {fh} /\ stuck' = stuck
         \/ names' = names /\ stuck' = stuck + 1
  BY DEF Unlink
<1>2. TypeOK'
  <2>1. names' \subseteq names
    BY <1>1
  <2>2. names' \subseteq 1 .. created'
    BY <1>1, <2>1, Zenon DEF TypeOK
  <2>3. stuck' \in Nat
    BY <1>1 DEF TypeOK
  <2> QED
    BY <1>1, <2>2, <2>3 DEF TypeOK, Calls
<1>3. NoLeak' /\ MappedSoFar' /\ FileSoFar'
  BY <1>1 DEF NoLeak, MappedSoFar, FileSoFar
<1>4. CASE names' = names \ {fh} /\ stuck' = stuck
  <2>1. fh \in names
    BY <1>1 DEF FileSoFar
  <2>2. Cardinality(names') = Cardinality(names) - 1
    BY <1>4, <2>1, NamesFinite, FS_RemoveElement
  <2>3. OrphansAccounted'
    BY <1>1, <1>4, <2>2, NamesFinite DEF OrphansAccounted, TypeOK
  <2> QED
    BY <1>2, <1>3, <2>3
<1>5. CASE names' = names /\ stuck' = stuck + 1
  <2>1. OrphansAccounted'
    BY <1>1, <1>5, NamesFinite DEF OrphansAccounted, TypeOK
  <2> QED
    BY <1>2, <1>3, <2>1
<1> QED
  BY <1>1, <1>4, <1>5

(* A call that fails leaves no descriptor; its action says what it unmaps.  *)
LEMMA ErrorKeeps ==
    ASSUME SetUpInv, ReturnError, pc \notin {"idle", "unlink"}, at' = Unmapped
    PROVE  SetUpInv'
<1> USE SizeAssumption DEF SetUpInv
<1>1. /\ fh' = 0 /\ pc' = "idle" /\ rc' = "error" /\ ~up
      /\ UNCHANGED <<up, created, names, length, blank, ridx, widx, crashes, stuck>>
  BY DEF ReturnError, fileVars, ringVars, FileSoFar, TypeOK, Calls
<1>2. TypeOK'
  BY <1>1 DEF TypeOK, Calls
<1>3. NoLeak' /\ MappedSoFar' /\ FileSoFar'
  BY <1>1 DEF NoLeak, MappedSoFar, FileSoFar
<1>4. OrphansAccounted'
  BY <1>1 DEF OrphansAccounted
<1> QED
  BY <1>2, <1>3, <1>4

(* ftruncate gives the file its length. *)
LEMMA FtruncateKeeps == ASSUME SetUpInv, Ftruncate PROVE SetUpInv'
<1> USE SizeAssumption DEF SetUpInv
<1>0. pc = "ftruncate" /\ at' = Unmapped /\ at' = at
  BY DEF Ftruncate, MappedSoFar
<1>1. CASE ReturnError
  BY <1>0, <1>1, ErrorKeeps
<1>2. CASE length' = Size /\ Proceed("reserve")
  <2>1. /\ pc' = "reserve" /\ length' = Size
        /\ UNCHANGED <<up, rc, fh, created, names, blank, ridx, widx, crashes, stuck>>
    BY <1>2 DEF Proceed, ringVars
  <2>2. TypeOK'
    BY <2>1 DEF TypeOK, Calls
  <2>3. NoLeak' /\ MappedSoFar' /\ FileSoFar' /\ OrphansAccounted'
    BY <1>0, <2>1 DEF NoLeak, MappedSoFar, FileSoFar, OrphansAccounted
  <2> QED
    BY <2>2, <2>3
<1> QED
  BY <1>1, <1>2 DEF Ftruncate

(* The reservation covers the whole range. *)
LEMMA ReserveKeeps == ASSUME SetUpInv, Reserve PROVE SetUpInv'
<1> USE SizeAssumption DEF SetUpInv
<1>0. pc = "reserve" /\ at = Unmapped
  BY DEF Reserve, MappedSoFar
<1>1. CASE ReturnError /\ UNCHANGED at
  BY <1>0, <1>1, ErrorKeeps
<1>2. CASE at' = [i \in Range2 |-> Reserved] /\ Proceed("low") /\ UNCHANGED length
  <2>1. /\ pc' = "low" /\ at' = [i \in Range2 |-> Reserved]
        /\ UNCHANGED <<up, rc, fh, created, names, length, blank, ridx, widx, crashes, stuck>>
    BY <1>2 DEF Proceed, ringVars
  <2>2. TypeOK'
    BY <2>1 DEF TypeOK, Calls
  <2>3. NoLeak' /\ MappedSoFar' /\ FileSoFar' /\ OrphansAccounted'
    BY <1>0, <2>1 DEF NoLeak, MappedSoFar, FileSoFar, OrphansAccounted
  <2> QED
    BY <2>2, <2>3
<1> QED
  BY <1>1, <1>2 DEF Reserve

(* The file lies under the first half, the reservation under the second. *)
LEMMA MapLowKeeps == ASSUME SetUpInv, MapLow PROVE SetUpInv'
<1> USE SizeAssumption DEF SetUpInv
<1>0. pc = "low" /\ at = [i \in Range2 |-> Reserved] /\ fh = created /\ ~up
  BY DEF MapLow, MappedSoFar, FileSoFar
<1>1. CASE ReturnError /\ at' = Unmapped
  BY <1>0, <1>1, ErrorKeeps
<1>2. CASE /\ at' = [i \in Range2 |-> IF i < Size THEN Page(fh, i) ELSE at[i]]
           /\ Proceed("high") /\ UNCHANGED length
  <2>1. /\ pc' = "high"
        /\ UNCHANGED <<up, rc, fh, created, names, length, blank, ridx, widx, crashes, stuck>>
    BY <1>2 DEF Proceed, ringVars
  <2>2. at' = [i \in Range2 |-> IF i < Size THEN Page(created', i) ELSE Reserved]
    BY <1>0, <1>2, <2>1
  <2>3. TypeOK'
    BY <2>1 DEF TypeOK, Calls
  <2>4. MappedSoFar'
    BY <1>0, <2>1, <2>2 DEF MappedSoFar
  <2>5. NoLeak' /\ FileSoFar' /\ OrphansAccounted'
    BY <1>0, <2>1 DEF NoLeak, FileSoFar, OrphansAccounted
  <2> QED
    BY <2>3, <2>4, <2>5
<1> QED
  BY <1>1, <1>2 DEF MapLow

(* With the second half mapped, address i is Cell(i) of the file. *)
LEMMA MapHighKeeps == ASSUME SetUpInv, MapHigh PROVE SetUpInv'
<1> USE SizeAssumption DEF SetUpInv
<1>0. /\ pc = "high" /\ fh = created /\ ~up /\ length = Size
      /\ at = [i \in Range2 |-> IF i < Size THEN Page(created, i) ELSE Reserved]
  BY DEF MapHigh, MappedSoFar, FileSoFar
<1>1. CASE ReturnError /\ at' = Unmapped
  BY <1>0, <1>1, ErrorKeeps
<1>2. CASE /\ at' = [i \in Range2 |-> IF i < Size THEN at[i] ELSE Page(fh, i - Size)]
           /\ ReturnOk
  <2>1. /\ fh' = 0 /\ pc' = "idle" /\ rc' = "ok" /\ up' = TRUE
        /\ UNCHANGED <<created, names, length, blank, ridx, widx, crashes, stuck>>
    BY <1>2 DEF ReturnOk, fileVars, ringVars
  <2>2. at' = [i \in Range2 |-> Page(created', Cell(i))]
    BY <1>0, <1>2, <2>1 DEF Cell
  <2>3. TypeOK'
    BY <2>1 DEF TypeOK, Calls
  <2>4. MappedSoFar'
    BY <2>1, <2>2 DEF MappedSoFar
  <2>5. NoLeak' /\ FileSoFar' /\ OrphansAccounted'
    BY <1>0, <2>1 DEF NoLeak, FileSoFar, OrphansAccounted
  <2> QED
    BY <2>3, <2>4, <2>5
<1> QED
  BY <1>1, <1>2 DEF MapHigh

(* Destroying, using and killing leave no resource behind but names. *)
LEMMA OthersKeep ==
    ASSUME SetUpInv, ringbuffer_destroy \/ Traffic \/ Crash \/ UNCHANGED vars
    PROVE  SetUpInv'
<1> USE SizeAssumption DEF SetUpInv
<1>1. CASE ringbuffer_destroy
  <2>1. /\ pc = "idle" /\ at' = Unmapped /\ up' = FALSE /\ rc' = "none"
        /\ UNCHANGED <<pc, created, fh, names, length, blank, ridx, widx, crashes, stuck>>
    BY <1>1 DEF ringbuffer_destroy, fileVars, ringVars
  <2>2. TypeOK'
    BY <2>1 DEF TypeOK, Calls
  <2>3. NoLeak' /\ MappedSoFar' /\ FileSoFar' /\ OrphansAccounted'
    BY <2>1 DEF NoLeak, MappedSoFar, FileSoFar, OrphansAccounted
  <2> QED
    BY <2>2, <2>3
<1>2. CASE Traffic
  <2>1. /\ pc = "idle" /\ up /\ ridx' \in Nat /\ widx' \in Nat /\ blank' = FALSE
        /\ UNCHANGED <<pc, up, rc, created, fh, names, length, at, crashes, stuck>>
    BY <1>2 DEF Traffic
  <2>2. TypeOK'
    BY <2>1 DEF TypeOK
  <2>3. NoLeak' /\ MappedSoFar' /\ FileSoFar' /\ OrphansAccounted'
    BY <2>1 DEF NoLeak, MappedSoFar, FileSoFar, OrphansAccounted
  <2> QED
    BY <2>2, <2>3
<1>3. CASE Crash
  <2>1. /\ pc' = "idle" /\ at' = Unmapped /\ up' = FALSE /\ rc' = "none" /\ fh' = 0
        /\ crashes' = crashes + 1
        /\ UNCHANGED <<created, names, length, blank, ridx, widx, stuck>>
    BY <1>3 DEF Crash, fileVars, ringVars
  <2>2. TypeOK'
    <3>1. names' \subseteq 1 .. created'
      BY <2>1, Zenon DEF TypeOK
    <3>2. crashes' \in Nat
      BY <2>1 DEF TypeOK
    <3> QED
      BY <2>1, <3>1, <3>2 DEF TypeOK, Calls
  <2>3. NoLeak' /\ MappedSoFar' /\ FileSoFar'
    BY <2>1 DEF NoLeak, MappedSoFar, FileSoFar
  <2>4. OrphansAccounted'
    BY <2>1, NamesFinite DEF OrphansAccounted, TypeOK
  <2> QED
    BY <2>2, <2>3, <2>4
<1>4. CASE UNCHANGED vars
  <2>1. UNCHANGED <<pc, up, rc, created, fh, names, length, blank, at, ridx, widx, crashes, stuck>>
    BY <1>4 DEF vars, fileVars, ringVars
  <2> QED
    BY <2>1 DEF TypeOK, NoLeak, MappedSoFar, FileSoFar, OrphansAccounted
<1> QED
  BY <1>1, <1>2, <1>3, <1>4

(* The invariant holds whatever fails and whenever the process is killed. *)
THEOREM SetUpInvHolds == Spec => []SetUpInv
<1>1. SetUpInv /\ [Next]_vars => SetUpInv'
  BY MkstempKeeps, UnlinkKeeps, FtruncateKeeps, ReserveKeeps, MapLowKeeps, MapHighKeeps,
     OthersKeep DEF Next, ringbuffer_init
<1> QED
  BY <1>1, SetUpInit, PTL DEF Spec

(* ringbuffer_init returns 0 exactly for a usable ring, and leaks neither a *)
(* descriptor nor a mapping on any of its paths.                            *)
THEOREM NoLeakHolds == Spec => []NoLeak
<1>1. SetUpInv => NoLeak
  BY DEF SetUpInv
<1> QED
  BY <1>1, SetUpInvHolds, PTL

(* A ring that is up has the double mapping the ring models take for        *)
(* granted.                                                                 *)
THEOREM DoubleMappedHolds == Spec => []DoubleMapped
<1>1. SetUpInv => DoubleMapped
  <2> SUFFICES ASSUME SetUpInv, up PROVE DoubleMapped
    BY DEF DoubleMapped
  <2>1. at = [i \in Range2 |-> Page(created, Cell(i))] /\ length = Size
    BY DEF SetUpInv, MappedSoFar, FileSoFar
  <2>2. \A i \in Range2 : Mapped(i) /\ Cell(i) < Size
    BY SizeAssumption DEF Range2, Mapped, Cell
  <2> QED
    BY <2>1, <2>2 DEF DoubleMapped
<1> QED
  BY <1>1, SetUpInvHolds, PTL

(* The names left in /dev/shm number at most the kills and failed unlinks. *)
THEOREM OrphansAccountedHolds == Spec => []OrphansAccounted
<1>1. SetUpInv => OrphansAccounted
  BY DEF SetUpInv
<1> QED
  BY <1>1, SetUpInvHolds, PTL

(* Every ring starts zeroed with both indices at 0, also after a structure  *)
(* has been used and set up again.                                          *)
THEOREM FreshRingHolds == Spec => FreshRing
<1>1. SetUpInv /\ [Next]_vars => [~up /\ up' => blank' /\ ridx' = 0 /\ widx' = 0]_vars
  <2> SUFFICES ASSUME SetUpInv, Next, ~up, up' PROVE blank' /\ ridx' = 0 /\ widx' = 0
    OBVIOUS
  <2>1. MapHigh /\ UNCHANGED <<blank, ridx, widx>>
    BY DEF Next, ringbuffer_init, Mkstemp, Unlink, Ftruncate, Reserve, MapLow, MapHigh, ReturnOk,
           ReturnError, Proceed, ringbuffer_destroy, Traffic, Crash, fileVars, ringVars
  <2>2. blank /\ ridx = 0 /\ widx = 0
    BY <2>1 DEF MapHigh, SetUpInv, FileSoFar
  <2>3. blank' = blank
    BY <2>1
  <2> QED
    BY <2>1, <2>2, <2>3
<1> QED
  BY <1>1, SetUpInvHolds, PTL DEF Spec, FreshRing
=============================================================================
