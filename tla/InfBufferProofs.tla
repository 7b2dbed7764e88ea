--------------------------- MODULE InfBufferProofs ---------------------------
(***************************************************************************)
(* Theorems about InfBuffer, for any number of writers and readers.  The    *)
(* argument: slots are taken in ticket order (Tickets), so a writer's       *)
(* records lie in rising slots; a reader's tickets rise too (Readings), so  *)
(* what it loads rises for every writer; and a ticket is used once.         *)
(***************************************************************************)
EXTENDS InfBuffer, FiniteSetTheorems, TLAPS

(* A record is a pair of a writer and a seqno, counted from 1. *)
LEMMA ItemShape ==
    ASSUME NEW x \in Item
    PROVE  x[1] \in Writers /\ x[2] \in 1 .. PerWriter /\ x = <<x[1], x[2]>> /\ x # Null
BY InfAssumption DEF Item

(* The record a writer is about to add is a record. *)
LEMMA PayloadItem ==
    ASSUME TypeOK, NEW w \in Writers, seqno[w] < PerWriter
    PROVE  Payload(w) \in Item /\ Payload(w)[1] = w /\ Payload(w)[2] = seqno[w] + 1
BY InfAssumption DEF Payload, Item, TypeOK

(* The writers inside infbuffer_add are finitely many. *)
LEMMA BusyFinite == IsFiniteSet(Busy) /\ Cardinality(Busy) \in Nat
<1>1. Busy \subseteq Writers
  BY DEF Busy
<1> QED
  BY <1>1, FS_Subset, FS_CardinalityType, InfAssumption

(* The slots of two different tickets hold different records. *)
LEMMA HoldersDiffer ==
    ASSUME TypeOK, Tickets, NEW i \in Slot, NEW j \in Slot,
           i < tidx, j < tidx, holder[i] = holder[j]
    PROVE  i = j
<1>1. holder[i] \in Item
  BY InfAssumption DEF TypeOK, Tickets
<1>2. holder[i][2] \in Int
  BY <1>1, ItemShape, InfAssumption
<1>3. ~(i < j) /\ ~(j < i)
  BY <1>2 DEF Tickets
<1> QED
  BY <1>3, InfAssumption DEF Slot

(* infbuffer_add never runs past the slots infbuffer_init allocated: the    *)
(* records that took a ticket differ, and one of them is still to come.     *)
LEMMA TicketLeft ==
    ASSUME TypeOK, Tickets, NEW w \in Writers, wpc[w] = "ticket"
    PROVE  tidx < Items
<1> DEFINE T == 0 .. (tidx - 1)
           S == Item \ {Payload(w)}
           f == [i \in T |-> holder[i]]
<1>1. seqno[w] < PerWriter /\ Payload(w) \in Item
  BY PayloadItem DEF Tickets
<1>2. tidx \in Nat /\ tidx <= Items /\ Items \in Nat
  BY InfAssumption DEF TypeOK
<1>3. T \subseteq Slot /\ \A i \in T : i < tidx
  BY <1>2 DEF Slot
<1>4. ASSUME NEW i \in T PROVE holder[i] \in S
  <2>1. i \in Slot /\ i < tidx
    BY <1>3
  <2>2. holder[i] \in Item
    BY <2>1 DEF TypeOK, Tickets
  <2>3. holder[i][2] <= Issued[holder[i][1]]
    BY <2>1 DEF Tickets
  <2>4. Issued[w] = seqno[w] /\ seqno[w] \in Int
    BY DEF Issued, InCall, TypeOK
  <2>5. holder[i] # Payload(w)
    BY <2>3, <2>4, <1>1, PayloadItem
  <2> QED
    BY <2>2, <2>5
<1>5. \A i, j \in T : holder[i] = holder[j] => i = j
  BY <1>3, HoldersDiffer
<1>6. f \in Injection(T, S)
  BY <1>4, <1>5 DEF Injection, IsInjective
<1>7. IsFiniteSet(Item) /\ Cardinality(Item) = Cardinality(Writers) * PerWriter
  <2>1. IsFiniteSet(1 .. PerWriter) /\ Cardinality(1 .. PerWriter) = PerWriter
    BY FS_Interval, InfAssumption
  <2> QED
    BY <2>1, FS_Product, InfAssumption DEF Item
<1>8. IsFiniteSet(S) /\ Cardinality(S) = Cardinality(Item) - 1
  BY <1>1, <1>7, FS_RemoveElement
<1>9. Cardinality(T) <= Cardinality(S)
  BY <1>6, <1>8, FS_Injection
<1>10. Cardinality(T) = tidx
  BY <1>2, FS_Interval
<1>11. Cardinality(Writers) * PerWriter <= Items /\ Cardinality(Item) \in Nat
  BY <1>7, InfAssumption, FS_CardinalityType
<1> QED
  BY <1>2, <1>7, <1>8, <1>9, <1>10, <1>11

-----------------------------------------------------------------------------
(* The initial state of test_infbuffer satisfies the invariant. *)
LEMMA InfInit == Init => InfInv
<1> SUFFICES ASSUME Init PROVE InfInv
  OBVIOUS
<1>1. TypeOK
  <2>1. aborted \in BOOLEAN
    BY DEF Init
  <2>2. seqnos \in [Readers -> [Writers -> 0 .. PerWriter]]
    BY InfAssumption DEF Init
  <2>3. handed \subseteq (Readers \X Item)
    BY DEF Init
  <2> QED
    BY <2>1, <2>2, <2>3, InfAssumption DEF Init, TypeOK
<1>2. Tickets
  <2>1. Busy = {}
    BY DEF Init, Busy, InCall
  <2>2. Cardinality(Busy) = 0
    BY <2>1, FS_EmptySet
  <2> QED
    BY <2>2, InfAssumption DEF Init, Tickets, InCall, Slot
<1>3. Readings
  BY DEF Init, Readings
<1>4. SeqnoRises /\ HandedOnce
  BY DEF Init, SeqnoRises, HandedOnce
<1> QED
  BY <1>1, <1>2, <1>3, <1>4 DEF InfInv

(* A step that leaves the threads that read and the holders alone keeps     *)
(* what is said of the readers.                                             *)
LEMMA ReadersUntouched ==
    ASSUME Readings, SeqnoRises, HandedOnce, UNCHANGED readerVars, UNCHANGED ridx,
           \A k \in Slot : holder[k] # Null => holder'[k] = holder[k],
           TypeOK
    PROVE  Readings' /\ SeqnoRises' /\ HandedOnce'
<1>1. UNCHANGED <<rpc, rslot, seqnos, handed, aborted, ridx>>
  BY DEF readerVars
<1>2. SeqnoRises' /\ HandedOnce'
  BY <1>1 DEF SeqnoRises, HandedOnce
<1>3. \A k : Awaited(k)' <=> Awaited(k)
  BY <1>1 DEF Awaited
<1>4. ASSUME NEW h \in handed
      PROVE  \E k \in Slot : k < ridx /\ holder'[k] = h[2] /\ ~Awaited(k)
  <2>1. PICK k \in Slot : k < ridx /\ holder[k] = h[2] /\ ~Awaited(k)
    BY DEF Readings
  <2>2. h[2] \in Item
    BY DEF TypeOK
  <2> QED
    BY <2>1, <2>2, ItemShape
<1>5. ASSUME NEW r \in Readers, NEW w \in Writers
      PROVE  \/ seqnos[r][w] = 0
             \/ \E k \in Slot : /\ k < ridx
                                /\ rpc[r] = "wait" => k < rslot[r]
                                /\ holder'[k] = <<w, seqnos[r][w]>>
  <2>1. CASE seqnos[r][w] = 0
    BY <2>1
  <2>2. CASE seqnos[r][w] # 0
    <3>1. PICK k \in Slot : /\ k < ridx
                            /\ rpc[r] = "wait" => k < rslot[r]
                            /\ holder[k] = <<w, seqnos[r][w]>>
      BY <2>2 DEF Readings
    <3>2. seqnos[r][w] \in 1 .. PerWriter
      BY <2>2, InfAssumption DEF TypeOK
    <3>3. <<w, seqnos[r][w]>> \in Item
      BY <3>2 DEF Item
    <3> QED
      BY <3>1, <3>3, ItemShape
  <2> QED
    BY <2>1, <2>2
<1> QED
  BY <1>1, <1>2, <1>3, <1>4, <1>5 DEF Readings

-----------------------------------------------------------------------------
(* A writer takes a ticket: the new holder comes last in slot order and is  *)
(* the writer's highest record so far.                                      *)
LEMMA AddTicketKeeps ==
    ASSUME InfInv, NEW w \in Writers, AddTicket(w)
    PROVE  InfInv'
<1> USE DEF InfInv
<1>1. /\ wpc[w] = "ticket" /\ ~InCall(w)
      /\ wslot' = [wslot EXCEPT ![w] = tidx]
      /\ tidx' = tidx + 1
      /\ holder' = [holder EXCEPT ![tidx] = Payload(w)]
      /\ wpc' = [wpc EXCEPT ![w] = "store"]
      /\ UNCHANGED <<data, widx, ridx, seqno>> /\ UNCHANGED readerVars
  BY DEF AddTicket, InCall
<1>2. tidx < Items /\ tidx \in Slot /\ tidx \in Nat
  BY <1>1, TicketLeft, InfAssumption DEF TypeOK, Slot
<1>3. /\ seqno[w] < PerWriter /\ seqno[w] \in Nat
      /\ Payload(w) \in Item /\ Payload(w)[1] = w /\ Payload(w)[2] = seqno[w] + 1
      /\ Payload(w) # Null
  BY <1>1, PayloadItem, ItemShape, InfAssumption DEF Tickets, TypeOK
<1>4. TypeOK'
  <2>1. UNCHANGED <<rpc, rslot, seqnos, handed, aborted>>
    BY <1>1 DEF readerVars
  <2>2. tidx' \in 0 .. Items
    BY <1>1, <1>2, InfAssumption
  <2>3. holder' \in [Slot -> Item \cup {Null}]
    BY <1>1, <1>3 DEF TypeOK
  <2>4. wpc' \in [Writers -> {"ticket", "store", "publish", "done"}] /\ wslot' \in [Writers -> Nat]
    BY <1>1, <1>2 DEF TypeOK
  <2> QED
    BY <1>1, <2>1, <2>2, <2>3, <2>4 DEF TypeOK
<1>5. \A i \in Slot : holder'[i] = IF i = tidx THEN Payload(w) ELSE holder[i]
  BY <1>1 DEF TypeOK
<1>6. holder[tidx] = Null
  BY <1>2 DEF Tickets
<1>7. \A v \in Writers : v # w => wpc'[v] = wpc[v] /\ wslot'[v] = wslot[v] /\ Issued'[v] = Issued[v]
  BY <1>1 DEF TypeOK, Issued, InCall
<1>8. wpc'[w] = "store" /\ wslot'[w] = tidx /\ Issued[w] = seqno[w] /\ Issued'[w] = seqno[w] + 1
  BY <1>1 DEF TypeOK, Issued, InCall
<1>9. \A i \in Slot : i < tidx => /\ holder[i] \in Item /\ holder[i][1] \in Writers
                                  /\ holder[i][2] \in Nat /\ holder[i][2] <= Issued[holder[i][1]]
  BY ItemShape, InfAssumption DEF TypeOK, Tickets
<1>10. Slot \subseteq Nat
  BY DEF Slot
<1>11. \A v \in Writers : wpc'[v] # "done" => seqno'[v] < PerWriter
  BY <1>1, <1>3, <1>7 DEF Tickets
<1>12. ASSUME NEW v \in Writers, InCall(v)'
       PROVE  wslot'[v] < tidx' /\ holder'[wslot'[v]] = Payload(v)'
  <2>1. CASE v = w
    BY <2>1, <1>1, <1>2, <1>5, <1>8 DEF Payload
  <2>2. CASE v # w
    <3>1. InCall(v) /\ wslot'[v] = wslot[v]
      BY <2>2, <1>7, <1>12 DEF InCall
    <3>2. wslot[v] < tidx /\ holder[wslot[v]] = Payload(v) /\ wslot[v] \in Nat
      BY <3>1 DEF Tickets, TypeOK
    <3>3. wslot[v] \in Slot
      BY <3>2, <1>2, InfAssumption DEF Slot
    <3> QED
      BY <3>1, <3>2, <3>3, <1>1, <1>2, <1>5 DEF Payload
  <2> QED
    BY <2>1, <2>2
<1>13. \A i \in Slot : i < tidx' <=> holder'[i] # Null
  BY <1>1, <1>2, <1>3, <1>5, <1>10 DEF Tickets
<1>14. ASSUME NEW i \in Slot, i < tidx' PROVE holder'[i][2] <= Issued'[holder'[i][1]]
  <2>1. CASE i = tidx
    BY <2>1, <1>3, <1>5, <1>8
  <2>2. CASE i # tidx
    <3>1. i < tidx /\ holder'[i] = holder[i]
      BY <2>2, <1>1, <1>2, <1>5, <1>10, <1>14
    <3>2. CASE holder[i][1] = w
      BY <3>1, <3>2, <1>3, <1>8, <1>9
    <3>3. CASE holder[i][1] # w
      BY <3>1, <3>3, <1>7, <1>9
    <3> QED
      BY <3>2, <3>3
  <2> QED
    BY <2>1, <2>2
<1>15. ASSUME NEW i \in Slot, NEW j \in Slot,
              i < j, j < tidx', holder'[i][1] = holder'[j][1]
       PROVE  holder'[i][2] < holder'[j][2]
  <2>1. i < tidx /\ holder'[i] = holder[i]
    BY <1>1, <1>2, <1>5, <1>10, <1>15
  <2>2. CASE j = tidx
    <3>1. holder'[j] = Payload(w) /\ holder[i][1] = w
      BY <2>1, <2>2, <1>3, <1>5, <1>15
    <3>2. holder[i][2] <= seqno[w]
      BY <3>1, <2>1, <1>8, <1>9
    <3> QED
      BY <3>1, <3>2, <2>1, <1>3, <1>9
  <2>3. CASE j # tidx
    <3>1. j < tidx /\ holder'[j] = holder[j]
      BY <2>3, <1>1, <1>2, <1>5, <1>10, <1>15
    <3> QED
      BY <3>1, <2>1, <1>15 DEF Tickets
  <2> QED
    BY <2>2, <2>3
<1>16. \A i \in Slot : data'[i] \in {Null, holder'[i]}
  BY <1>1, <1>5, <1>6 DEF Tickets
<1>17. Tickets'
  <2>1. Busy' = Busy \cup {w} /\ w \notin Busy
    BY <1>1, <1>7, <1>8 DEF Busy, InCall
  <2>2. IsFiniteSet(Busy) /\ Cardinality(Busy) \in Nat
    BY BusyFinite
  <2>3. Cardinality(Busy') = Cardinality(Busy) + 1
    BY <2>1, <2>2, FS_AddElement
  <2>4. widx' + Cardinality(Busy') = tidx'
    BY <2>2, <2>3, <1>1 DEF Tickets, TypeOK
  <2> QED
    BY <2>4, <1>11, <1>12, <1>13, <1>14, <1>15, <1>16 DEF Tickets
<1>18. Readings' /\ SeqnoRises' /\ HandedOnce'
  <2>1. \A k \in Slot : holder[k] # Null => holder'[k] = holder[k]
    BY <1>5, <1>6
  <2>2. UNCHANGED ridx /\ UNCHANGED readerVars
    BY <1>1
  <2> QED
    BY <2>1, <2>2, ReadersUntouched
<1> QED
  BY <1>4, <1>17, <1>18

(* A writer fills its slot with the record that took it. *)
LEMMA AddStoreKeeps ==
    ASSUME InfInv, NEW w \in Writers, AddStore(w)
    PROVE  InfInv'
<1> USE DEF InfInv
<1>1. /\ wpc[w] = "store" /\ InCall(w)
      /\ data' = [data EXCEPT ![wslot[w]] = Payload(w)]
      /\ wpc' = [wpc EXCEPT ![w] = "publish"]
      /\ UNCHANGED <<tidx, widx, ridx, wslot, seqno, holder>> /\ UNCHANGED readerVars
  BY DEF AddStore, InCall
<1>2. /\ wslot[w] < tidx /\ wslot[w] \in Slot /\ holder[wslot[w]] = Payload(w)
      /\ seqno[w] < PerWriter /\ Payload(w) \in Item
  <2>1. wslot[w] < tidx /\ holder[wslot[w]] = Payload(w) /\ seqno[w] < PerWriter
    BY <1>1 DEF Tickets
  <2>2. wslot[w] \in Slot
    BY <2>1, InfAssumption DEF TypeOK, Slot
  <2> QED
    BY <2>1, <2>2, PayloadItem
<1>3. TypeOK'
  <2>1. UNCHANGED <<rpc, rslot, seqnos, handed, aborted>>
    BY <1>1 DEF readerVars
  <2>2. data' \in [Slot -> Item \cup {Null}]
    BY <1>1, <1>2 DEF TypeOK
  <2>3. wpc' \in [Writers -> {"ticket", "store", "publish", "done"}]
    BY <1>1 DEF TypeOK
  <2> QED
    BY <1>1, <2>1, <2>2, <2>3 DEF TypeOK
<1>4. \A v \in Writers : InCall(v)' <=> InCall(v)
  BY <1>1 DEF InCall, TypeOK
<1>5. Issued' = Issued /\ Busy' = Busy
  BY <1>1, <1>4 DEF Issued, Busy
<1>6. \A i \in Slot : data'[i] \in {Null, holder[i]}
  BY <1>1, <1>2 DEF Tickets, TypeOK
<1>7. \A v \in Writers : Payload(v)' = Payload(v)
  BY <1>1 DEF Payload
<1>8. \A v \in Writers : wpc'[v] # "done" => seqno[v] < PerWriter
  BY <1>1, <1>2 DEF Tickets, TypeOK
<1>9. Tickets'
  BY <1>1, <1>4, <1>5, <1>6, <1>7, <1>8 DEF Tickets
<1>10. Readings' /\ SeqnoRises' /\ HandedOnce'
  BY <1>1, ReadersUntouched
<1> QED
  BY <1>3, <1>9, <1>10

(* A writer publishes and goes on to its next record, or returns. *)
LEMMA AddPublishKeeps ==
    ASSUME InfInv, NEW w \in Writers, AddPublish(w)
    PROVE  InfInv'
<1> USE DEF InfInv
<1>1. /\ wpc[w] = "publish" /\ InCall(w)
      /\ widx' = widx + 1
      /\ seqno' = [seqno EXCEPT ![w] = seqno[w] + 1]
      /\ wpc' = [wpc EXCEPT ![w] = IF seqno[w] + 1 < PerWriter THEN "ticket" ELSE "done"]
      /\ UNCHANGED <<data, tidx, ridx, wslot, holder>> /\ UNCHANGED readerVars
  BY DEF AddPublish, InCall
<1>2. seqno[w] < PerWriter /\ seqno[w] \in Nat
  BY <1>1, InfAssumption DEF Tickets, TypeOK
<1>3. TypeOK'
  <2>1. UNCHANGED <<rpc, rslot, seqnos, handed, aborted>>
    BY <1>1 DEF readerVars
  <2>2. seqno' \in [Writers -> 0 .. PerWriter] /\ widx' \in Nat
    BY <1>1, <1>2, InfAssumption DEF TypeOK
  <2>3. wpc' \in [Writers -> {"ticket", "store", "publish", "done"}]
    BY <1>1 DEF TypeOK
  <2> QED
    BY <1>1, <2>1, <2>2, <2>3 DEF TypeOK
<1>4. /\ ~InCall(w)' /\ seqno'[w] = seqno[w] + 1
      /\ wpc'[w] # "done" => seqno[w] + 1 < PerWriter
  BY <1>1 DEF InCall, TypeOK
<1>5. \A v \in Writers : v # w => /\ wpc'[v] = wpc[v] /\ seqno'[v] = seqno[v]
                                  /\ InCall(v)' <=> InCall(v)
                                  /\ Payload(v)' = Payload(v)
  BY <1>1 DEF InCall, TypeOK, Payload
<1>6. Issued' = Issued
  BY <1>1, <1>4, <1>5 DEF Issued
<1>7. widx' + Cardinality(Busy') = tidx'
  <2>1. Busy' = Busy \ {w} /\ w \in Busy
    BY <1>1, <1>4, <1>5 DEF Busy
  <2>2. IsFiniteSet(Busy) /\ Cardinality(Busy) \in Nat
    BY BusyFinite
  <2>3. Cardinality(Busy') = Cardinality(Busy) - 1
    BY <2>1, <2>2, FS_RemoveElement
  <2> QED
    BY <2>2, <2>3, <1>1 DEF Tickets, TypeOK
<1>8. \A v \in Writers : InCall(v)' => wslot'[v] < tidx' /\ holder'[wslot'[v]] = Payload(v)'
  BY <1>1, <1>4, <1>5 DEF Tickets
<1>9. \A v \in Writers : wpc'[v] # "done" => seqno'[v] < PerWriter
  BY <1>4, <1>5 DEF Tickets
<1>10. Tickets'
  BY <1>1, <1>6, <1>7, <1>8, <1>9 DEF Tickets
<1>11. Readings' /\ SeqnoRises' /\ HandedOnce'
  BY <1>1, ReadersUntouched
<1> QED
  BY <1>3, <1>10, <1>11

(* Steps of the readers leave what is said of the writers alone. *)
LEMMA WritersUntouched ==
    ASSUME Tickets, UNCHANGED <<data, tidx, widx>>, UNCHANGED writerVars
    PROVE  Tickets'
<1>1. UNCHANGED <<data, tidx, widx, wpc, wslot, seqno, holder>>
  BY DEF writerVars
<1>2. \A v \in Writers : (InCall(v)' <=> InCall(v)) /\ Payload(v)' = Payload(v)
  BY <1>1 DEF InCall, Payload
<1>3. Issued' = Issued /\ Busy' = Busy
  BY <1>1, <1>2 DEF Issued, Busy
<1> QED
  BY <1>1, <1>2, <1>3 DEF Tickets

(* A reader takes a ticket above every slot drawn so far. *)
LEMMA RemTicketKeeps ==
    ASSUME InfInv, NEW r \in Readers, RemTicket(r)
    PROVE  InfInv'
<1> USE DEF InfInv
<1>1. /\ rpc[r] = "ticket"
      /\ rslot' = [rslot EXCEPT ![r] = ridx]
      /\ ridx' = ridx + 1
      /\ rpc' = [rpc EXCEPT ![r] = "wait"]
      /\ UNCHANGED <<data, tidx, widx>> /\ UNCHANGED writerVars
      /\ UNCHANGED <<seqnos, handed, aborted>>
  BY DEF RemTicket
<1>2. Tickets' /\ UNCHANGED holder
  BY <1>1, WritersUntouched DEF writerVars
<1>3. ridx \in Nat /\ Slot \subseteq Nat /\ \A q \in Readers : rslot[q] \in Nat
  BY DEF TypeOK, Slot
<1>4. TypeOK'
  <2>1. UNCHANGED <<wpc, wslot, seqno, holder>>
    BY <1>1 DEF writerVars
  <2>2. rslot' \in [Readers -> Nat] /\ ridx' \in Nat /\ rpc' \in [Readers -> {"ticket", "wait", "done"}]
    BY <1>1, <1>3 DEF TypeOK
  <2> QED
    BY <1>1, <2>1, <2>2 DEF TypeOK
<1>5. rpc'[r] = "wait" /\ rslot'[r] = ridx
  BY <1>1 DEF TypeOK
<1>6. \A q \in Readers : q # r => rpc'[q] = rpc[q] /\ rslot'[q] = rslot[q]
  BY <1>1 DEF TypeOK
<1>7. \A q \in Readers : rpc'[q] = "wait" => rslot'[q] < ridx'
  BY <1>1, <1>3, <1>5, <1>6 DEF Readings
<1>8. \A p, q \in Readers :
         rpc'[p] = "wait" /\ rpc'[q] = "wait" /\ rslot'[p] = rslot'[q] => p = q
  <2>1. \A q \in Readers : q # r /\ rpc'[q] = "wait" => rslot'[q] < ridx /\ rslot'[q] \in Nat
    BY <1>3, <1>6 DEF Readings
  <2>2. \A q \in Readers : q # r /\ rpc'[q] = "wait" => rslot'[q] # ridx
    BY <2>1, <1>3
  <2> QED
    BY <2>2, <1>5, <1>6 DEF Readings
<1>9. \A k \in Slot : k < ridx /\ ~Awaited(k) => ~Awaited(k)'
  <2> SUFFICES ASSUME NEW k \in Slot, k < ridx, ~Awaited(k), NEW q \in Readers,
                      rpc'[q] = "wait", rslot'[q] = k
               PROVE  FALSE
    BY DEF Awaited
  <2>1. q # r
    BY <1>3, <1>5
  <2> QED
    BY <2>1, <1>6 DEF Awaited
<1>10. \A h \in handed : \E k \in Slot : k < ridx' /\ holder'[k] = h[2] /\ ~Awaited(k)'
  <2> SUFFICES ASSUME NEW h \in handed
               PROVE  \E k \in Slot : k < ridx' /\ holder'[k] = h[2] /\ ~Awaited(k)'
    OBVIOUS
  <2>1. PICK k \in Slot : k < ridx /\ holder[k] = h[2] /\ ~Awaited(k)
    BY DEF Readings
  <2>2. k < ridx'
    BY <2>1, <1>1, <1>3
  <2> QED
    BY <2>1, <2>2, <1>2, <1>9
<1>11. ASSUME NEW q \in Readers, NEW w \in Writers
       PROVE  \/ seqnos[q][w] = 0
              \/ \E k \in Slot : /\ k < ridx'
                                 /\ rpc'[q] = "wait" => k < rslot'[q]
                                 /\ holder'[k] = <<w, seqnos[q][w]>>
  <2>1. CASE seqnos[q][w] = 0
    BY <2>1
  <2>2. CASE seqnos[q][w] # 0
    <3>1. PICK k \in Slot : /\ k < ridx
                            /\ rpc[q] = "wait" => k < rslot[q]
                            /\ holder[k] = <<w, seqnos[q][w]>>
      BY <2>2 DEF Readings
    <3>2. k < ridx'
      BY <3>1, <1>1, <1>3
    <3>3. rpc'[q] = "wait" => k < rslot'[q]
      BY <3>1, <1>5, <1>6
    <3> QED
      BY <3>1, <3>2, <3>3, <1>2
  <2> QED
    BY <2>1, <2>2
<1>12. Readings'
  BY <1>1, <1>7, <1>8, <1>10, <1>11 DEF Readings
<1>13. SeqnoRises' /\ HandedOnce'
  BY <1>1 DEF SeqnoRises, HandedOnce
<1> QED
  BY <1>2, <1>4, <1>12, <1>13

(* A slot below widx was allocated and taken. *)
LEMMA PublishedIsTaken ==
    ASSUME TypeOK, Tickets, NEW k \in Nat, k < widx
    PROVE  k \in Slot /\ k < tidx
<1>1. Cardinality(Busy) \in Nat
  BY BusyFinite
<1>2. widx <= tidx
  BY <1>1 DEF Tickets, TypeOK
<1> QED
  BY <1>2, InfAssumption DEF TypeOK, Slot

(* A reader loads its slot: the record there is higher than any it has had  *)
(* from that writer, and nobody else was handed it.                         *)
LEMMA RemLoadKeeps ==
    ASSUME InfInv, NEW r \in Readers, RemLoad(r)
    PROVE  InfInv'
<1> USE DEF InfInv
<1> DEFINE s == rslot[r]
           item == data[s]
           id == item[1]
           seq == item[2]
<1>1. /\ rpc[r] = "wait" /\ s < widx /\ s \in Nat
      /\ UNCHANGED bufVars /\ UNCHANGED writerVars /\ UNCHANGED rslot
  BY DEF RemLoad, TypeOK
<1>2. s \in Slot /\ s < tidx /\ s < ridx
  BY <1>1, PublishedIsTaken DEF Readings
<1>3. Tickets' /\ UNCHANGED <<data, tidx, widx, ridx, holder, wpc, wslot, seqno>>
  BY <1>1, WritersUntouched DEF bufVars, writerVars
<1>4. ASSUME rpc'[r] # "wait", \A q \in Readers : q # r => rpc'[q] = rpc[q]
      PROVE  /\ \A q \in Readers : rpc'[q] = "wait" => q # r /\ rpc[q] = "wait"
             /\ \A k \in Slot : Awaited(k)' <=> Awaited(k) /\ k # s
  <2>1. \A q \in Readers : rpc'[q] = "wait" => q # r /\ rpc[q] = "wait"
    BY <1>4
  <2>2. \A q \in Readers : q # r /\ rpc[q] = "wait" => rslot[q] # s
    BY <1>1 DEF Readings
  <2> QED
    BY <2>1, <2>2, <1>1, <1>4 DEF Awaited
<1>5. CASE item = Null
  <2>1. rpc' = [rpc EXCEPT ![r] = "done"] /\ UNCHANGED <<seqnos, handed, aborted>>
    BY <1>5 DEF RemLoad
  <2>2. TypeOK'
    <3>1. rpc' \in [Readers -> {"ticket", "wait", "done"}]
      BY <2>1 DEF TypeOK
    <3> QED
      BY <3>1, <2>1, <1>1, <1>3 DEF TypeOK
  <2>3. /\ \A q \in Readers : rpc'[q] = "wait" => q # r /\ rpc[q] = "wait"
        /\ \A k \in Slot : Awaited(k)' <=> Awaited(k) /\ k # s
    BY <2>1, <1>4 DEF TypeOK
  <2>4. Readings'
    BY <2>1, <2>3, <1>1, <1>3 DEF Readings
  <2>5. SeqnoRises' /\ HandedOnce'
    BY <2>1 DEF SeqnoRises, HandedOnce
  <2> QED
    BY <2>2, <2>4, <2>5, <1>3
<1>6. CASE item # Null
  <2>1. /\ item = holder[s] /\ item \in Item
        /\ id \in Writers /\ seq \in 1 .. PerWriter /\ seq \in Nat /\ item = <<id, seq>>
    <3>1. item = holder[s]
      BY <1>2, <1>6 DEF Tickets
    <3>2. item \in Item
      BY <1>2, <1>6 DEF TypeOK
    <3> QED
      BY <3>1, <3>2, ItemShape, InfAssumption
  <2>2. seqnos[r][id] \in Nat
    BY <2>1, InfAssumption DEF TypeOK
  <2>3. seq > seqnos[r][id]
    <3>1. CASE seqnos[r][id] = 0
      BY <3>1, <2>1
    <3>2. CASE seqnos[r][id] # 0
      <4>1. PICK k \in Slot : k < s /\ holder[k] = <<id, seqnos[r][id]>>
        BY <3>2, <2>1, <1>1 DEF Readings
      <4>2. holder[k][1] = holder[s][1]
        BY <4>1, <2>1
      <4>3. holder[k][2] < holder[s][2]
        BY <4>1, <4>2, <1>2 DEF Tickets
      <4> QED
        BY <4>1, <4>3, <2>1, <2>2
    <3> QED
      BY <3>1, <3>2
  <2>4. handed' = handed \cup {<<r, item>>} /\ Check(r, item)
    BY <1>6 DEF RemLoad
  <2>5. /\ seqnos' = [seqnos EXCEPT ![r][id] = seq]
        /\ rpc' = [rpc EXCEPT ![r] = IF KeepsReading(seq) THEN "ticket" ELSE "done"]
        /\ aborted' = aborted
    BY <2>3, <2>4 DEF Check
  <2> HIDE DEF s, item, id, seq
  <2>6. TypeOK'
    <3>1. rpc' \in [Readers -> {"ticket", "wait", "done"}]
      BY <2>5 DEF TypeOK
    <3>2. seqnos' \in [Readers -> [Writers -> 0 .. PerWriter]]
      BY <2>1, <2>5, InfAssumption DEF TypeOK
    <3>3. handed' \subseteq (Readers \X Item)
      <4>1. <<r, item>> \in Readers \X Item
        BY <2>1
      <4>2. handed \subseteq (Readers \X Item)
        BY DEF TypeOK
      <4> QED
        BY <4>1, <4>2, <2>4
    <3> QED
      BY <3>1, <3>2, <3>3, <2>5, <1>1, <1>3 DEF TypeOK
  <2>7. rpc'[r] # "wait" /\ \A q \in Readers : q # r => rpc'[q] = rpc[q]
    BY <2>5 DEF TypeOK
  <2>8. /\ \A q \in Readers : rpc'[q] = "wait" => q # r /\ rpc[q] = "wait"
        /\ \A k \in Slot : Awaited(k)' <=> Awaited(k) /\ k # s
    BY <2>7, <1>4
  <2>9. ASSUME NEW h \in handed'
        PROVE  \E k \in Slot : k < ridx' /\ holder'[k] = h[2] /\ ~Awaited(k)'
    <3>1. CASE h \in handed
      BY <3>1, <2>8, <1>3 DEF Readings
    <3>2. CASE h = <<r, item>>
      BY <3>2, <2>1, <2>8, <1>2, <1>3
    <3> QED
      BY <3>1, <3>2, <2>4
  <2>10. ASSUME NEW q \in Readers, NEW w \in Writers
         PROVE  \/ seqnos'[q][w] = 0
                \/ \E k \in Slot : /\ k < ridx'
                                   /\ rpc'[q] = "wait" => k < rslot'[q]
                                   /\ holder'[k] = <<w, seqnos'[q][w]>>
    <3>1. CASE q = r /\ w = id
      <4>1. seqnos'[q][w] = seq
        BY <3>1, <2>5 DEF TypeOK
      <4> QED
        BY <4>1, <3>1, <2>1, <2>7, <1>2, <1>3
    <3>2. CASE ~(q = r /\ w = id)
      <4>1. seqnos'[q][w] = seqnos[q][w]
        BY <3>2, <2>5 DEF TypeOK
      <4>2. \/ seqnos[q][w] = 0
            \/ \E k \in Slot : /\ k < ridx
                               /\ rpc[q] = "wait" => k < rslot[q]
                               /\ holder[k] = <<w, seqnos[q][w]>>
        BY DEF Readings
      <4>3. rpc'[q] = "wait" => rpc[q] = "wait"
        BY <2>8
      <4> QED
        BY <4>1, <4>2, <4>3, <1>1, <1>3
    <3> QED
      BY <3>1, <3>2
  <2>11. Readings'
    <3>1. \A q \in Readers : rpc'[q] = "wait" => rslot'[q] < ridx'
      BY <2>8, <1>1, <1>3 DEF Readings
    <3>2. \A p, q \in Readers :
             rpc'[p] = "wait" /\ rpc'[q] = "wait" /\ rslot'[p] = rslot'[q] => p = q
      BY <2>8, <1>1 DEF Readings
    <3> QED
      BY <3>1, <3>2, <2>9, <2>10 DEF Readings
  <2>12. \A q \in Readers : <<q, item>> \notin handed
    <3> SUFFICES ASSUME NEW q \in Readers, <<q, item>> \in handed PROVE FALSE
      OBVIOUS
    <3>1. PICK k \in Slot : holder[k] = item /\ ~Awaited(k)
      BY DEF Readings
    <3>2. k < tidx
      BY <3>1, <2>1, ItemShape DEF Tickets
    <3>3. k = s
      BY <3>1, <3>2, <2>1, <1>2, HoldersDiffer
    <3> QED
      BY <3>1, <3>3, <1>1 DEF Awaited, s
  <2>13. HandedOnce'
    BY <2>4, <2>12 DEF HandedOnce
  <2>14. SeqnoRises'
    BY <2>5 DEF SeqnoRises
  <2> QED
    BY <2>6, <2>11, <2>13, <2>14, <1>3
<1> QED
  BY <1>5, <1>6

-----------------------------------------------------------------------------
(* Every step keeps the invariant. *)
LEMMA InfNext == InfInv /\ [Next]_vars => InfInv'
<1> SUFFICES ASSUME InfInv, [Next]_vars PROVE InfInv'
  OBVIOUS
<1>1. ASSUME NEW w \in Writers, infbuffer_add(w) PROVE InfInv'
  BY <1>1, AddTicketKeeps, AddStoreKeeps, AddPublishKeeps DEF infbuffer_add
<1>2. ASSUME NEW r \in Readers, infbuffer_rem(r) PROVE InfInv'
  BY <1>2, RemTicketKeeps, RemLoadKeeps DEF infbuffer_rem
<1>3. CASE UNCHANGED vars
  <2>1. UNCHANGED <<data, tidx, widx, ridx>> /\ UNCHANGED writerVars /\ UNCHANGED readerVars
    BY <1>3 DEF vars, bufVars
  <2>2. TypeOK'
    BY <2>1 DEF InfInv, TypeOK, writerVars, readerVars
  <2>3. Tickets'
    BY <2>1, WritersUntouched DEF InfInv
  <2>4. Readings' /\ SeqnoRises' /\ HandedOnce'
    BY <2>1, ReadersUntouched DEF InfInv, writerVars
  <2> QED
    BY <2>2, <2>3, <2>4 DEF InfInv
<1> QED
  BY <1>1, <1>2, <1>3 DEF Next, Finished

(* infbuffer.c's tickets, slots and readings agree at all times, for any    *)
(* number of writers, readers and records.                                  *)
THEOREM InfInvHolds == Safe => []InfInv
<1> QED
  BY InfInit, InfNext, PTL DEF Safe

(* thread_reader's assert on rising seqnos never fails. *)
THEOREM SeqnoRisesHolds == Safe => []SeqnoRises
<1>1. InfInv => SeqnoRises
  BY DEF InfInv
<1> QED
  BY <1>1, InfInvHolds, PTL

(* No record is handed to two readers, so none is freed twice. *)
THEOREM HandedOnceHolds == Safe => []HandedOnce
<1>1. InfInv => HandedOnce
  BY DEF InfInv
<1> QED
  BY <1>1, InfInvHolds, PTL

-----------------------------------------------------------------------------
(* With one writer, published means filled: each step of infbuffer_add      *)
(* keeps widx the length of the filled part.                                *)
LEMMA FilledKept ==
    ASSUME NEW w \in Writers, Writers = {w}, SoloInv, [Next]_vars
    PROVE  Filled'
<1> USE DEF SoloInv, InfInv
<1>1. /\ widx = seqno[w] /\ tidx = Issued[w] /\ Slot \subseteq Nat
      /\ InCall(w) => wslot[w] = seqno[w]
      /\ \A i \in Slot : i < seqno[w] => data[i] # Null
      /\ \A i \in Slot : i = seqno[w] /\ wpc[w] = "publish" => data[i] # Null
  BY DEF Filled, Slot
<1>2. seqno[w] \in Nat /\ wpc[w] \in {"ticket", "store", "publish", "done"}
  BY InfAssumption DEF TypeOK
<1> SUFFICES /\ widx' = seqno'[w]
             /\ InCall(w)' => wslot'[w] = seqno'[w]
             /\ tidx' = Issued'[w]
             /\ \A i \in Slot : i < seqno'[w] => data'[i] # Null
             /\ \A i \in Slot : i = seqno'[w] /\ wpc'[w] = "publish" => data'[i] # Null
  BY DEF Filled
<1>3. CASE AddTicket(w)
  <2>1. /\ wpc[w] = "ticket" /\ wpc'[w] = "store" /\ wslot'[w] = tidx /\ tidx' = tidx + 1
        /\ UNCHANGED <<data, widx, seqno>>
    BY <1>3 DEF AddTicket, TypeOK
  <2>2. Issued[w] = seqno[w] /\ Issued'[w] = seqno[w] + 1
    BY <2>1 DEF Issued, InCall
  <2> QED
    BY <2>1, <2>2, <1>1
<1>4. CASE AddStore(w)
  <2>1. /\ wpc[w] = "store" /\ wpc'[w] = "publish" /\ InCall(w)
        /\ data' = [data EXCEPT ![wslot[w]] = Payload(w)]
        /\ UNCHANGED <<tidx, widx, wslot, seqno>>
    BY <1>4 DEF AddStore, TypeOK, InCall
  <2>2. Payload(w) # Null
    BY <2>1, PayloadItem, ItemShape DEF Tickets
  <2>3. \A i \in Slot : data'[i] = IF i = wslot[w] THEN Payload(w) ELSE data[i]
    BY <2>1 DEF TypeOK
  <2>4. Issued'[w] = Issued[w]
    BY <2>1 DEF Issued, InCall
  <2> QED
    BY <2>1, <2>2, <2>3, <2>4, <1>1
<1>5. CASE AddPublish(w)
  <2>1. /\ wpc[w] = "publish" /\ wpc'[w] \in {"ticket", "done"}
        /\ widx' = widx + 1 /\ seqno'[w] = seqno[w] + 1
        /\ UNCHANGED <<data, tidx, wslot>>
    BY <1>5 DEF AddPublish, TypeOK
  <2>2. Issued'[w] = seqno[w] + 1 /\ Issued[w] = seqno[w] + 1 /\ ~InCall(w)'
    BY <2>1 DEF Issued, InCall
  <2>3. \A i \in Slot : i < seqno[w] + 1 => i < seqno[w] \/ i = seqno[w]
    BY <1>1, <1>2
  <2> QED
    BY <2>1, <2>2, <2>3, <1>1
<1>6. CASE UNCHANGED <<data, tidx, widx, wpc, wslot, seqno>>
  <2>1. Issued'[w] = Issued[w] /\ (InCall(w)' <=> InCall(w))
    BY <1>6 DEF Issued, InCall
  <2> QED
    BY <2>1, <1>1, <1>6
<1>7. ASSUME NEW r \in Readers, infbuffer_rem(r)
      PROVE  UNCHANGED <<data, tidx, widx, wpc, wslot, seqno>>
  BY <1>7 DEF infbuffer_rem, RemTicket, RemLoad, bufVars, writerVars
<1>8. CASE UNCHANGED vars
  BY <1>8, <1>6 DEF vars, bufVars, writerVars
<1> QED
  BY <1>3, <1>4, <1>5, <1>6, <1>7, <1>8 DEF Next, Finished, infbuffer_add

(* With one writer, a ticket that is used up has handed its record over. *)
LEMMA ServedKept ==
    ASSUME NEW w \in Writers, Writers = {w}, SoloInv, [Next]_vars
    PROVE  Served'
<1> USE DEF SoloInv, InfInv
<1> SUFFICES ASSUME NEW i \in Slot, i < ridx', ~Awaited(i)'
             PROVE  \E r \in Readers : <<r, data'[i]>> \in handed'
  BY DEF Served
<1>1. i \in Nat /\ ridx \in Nat
  BY DEF Slot, TypeOK
<1>2. CASE /\ UNCHANGED <<ridx, rpc, rslot, handed>>
           /\ \A r \in Readers : <<r, data[i]>> \in handed => data'[i] = data[i]
  <2>1. ~Awaited(i)
    BY <1>2 DEF Awaited
  <2> QED
    BY <2>1, <1>2 DEF Served
<1>3. CASE AddTicket(w) \/ AddPublish(w) \/ UNCHANGED vars
  BY <1>2, <1>3 DEF AddTicket, AddPublish, vars, bufVars, readerVars
<1>4. CASE AddStore(w)
  <2>1. /\ InCall(w) /\ UNCHANGED <<ridx, rpc, rslot, handed>>
        /\ data' = [data EXCEPT ![wslot[w]] = Payload(w)]
    BY <1>4 DEF AddStore, readerVars, InCall
  <2>2. data'[i] = IF i = wslot[w] THEN Payload(w) ELSE data[i]
    BY <2>1 DEF TypeOK
  <2>3. ASSUME NEW r \in Readers, <<r, data[i]>> \in handed PROVE data'[i] = data[i]
    <3>1. data[i] \in Item
      BY <2>3 DEF TypeOK
    <3>2. data[i] = holder[i]
      BY <3>1, ItemShape DEF Tickets
    <3>3. holder[wslot[w]] = Payload(w)
      BY <2>1 DEF Tickets
    <3> QED
      BY <3>2, <3>3, <2>2
  <2> QED
    BY <2>1, <2>3, <1>2
<1>5. ASSUME NEW r \in Readers, RemTicket(r)
      PROVE  \E q \in Readers : <<q, data'[i]>> \in handed'
  <2>1. /\ rpc[r] = "ticket" /\ rpc'[r] = "wait" /\ rslot'[r] = ridx /\ ridx' = ridx + 1
        /\ \A q \in Readers : q # r => rpc'[q] = rpc[q] /\ rslot'[q] = rslot[q]
        /\ UNCHANGED <<data, handed>>
    BY <1>5 DEF RemTicket, TypeOK
  <2>2. i # ridx
    BY <2>1 DEF Awaited
  <2>3. i < ridx
    BY <2>1, <2>2, <1>1
  <2>4. ~Awaited(i)
    BY <2>1 DEF Awaited
  <2> QED
    BY <2>1, <2>3, <2>4 DEF Served
<1>6. ASSUME NEW r \in Readers, RemLoad(r)
      PROVE  \E q \in Readers : <<q, data'[i]>> \in handed'
  <2>1. /\ rpc[r] = "wait" /\ rslot[r] < widx /\ rslot[r] \in Nat
        /\ UNCHANGED <<data, ridx, rslot>>
    BY <1>6 DEF RemLoad, TypeOK, bufVars
  <2>2. rslot[r] \in Slot /\ data[rslot[r]] # Null
    BY <2>1, PublishedIsTaken DEF Filled
  <2>3. handed' = handed \cup {<<r, data[rslot[r]]>>} /\ Check(r, data[rslot[r]])
    BY <1>6, <2>2 DEF RemLoad
  <2>4. \A q \in Readers : q # r => rpc'[q] = rpc[q]
    BY <2>3 DEF Check, TypeOK
  <2>5. CASE i = rslot[r]
    BY <2>5, <2>1, <2>3
  <2>6. CASE i # rslot[r]
    <3>1. ~Awaited(i)
      BY <2>1, <2>4, <2>6 DEF Awaited
    <3> QED
      BY <3>1, <2>1, <2>3 DEF Served
  <2> QED
    BY <2>5, <2>6
<1> QED
  BY <1>3, <1>4, <1>5, <1>6 DEF Next, Finished, infbuffer_add, infbuffer_rem

LEMMA OneWriterSound ==
    ASSUME NEW w \in Writers, Writers = {w}
    PROVE  Safe => [](NeverNull /\ NothingSkipped)
<1>1. Init => SoloInv
  <2> SUFFICES ASSUME Init PROVE SoloInv
    OBVIOUS
  <2>1. Filled
    BY DEF Init, Filled, Issued, InCall, Slot
  <2>2. Served
    BY DEF Init, Served, Slot
  <2> QED
    BY <2>1, <2>2, InfInit DEF SoloInv
<1>2. SoloInv /\ [Next]_vars => SoloInv'
  BY FilledKept, ServedKept, InfNext DEF SoloInv
<1>3. SoloInv => NeverNull /\ NothingSkipped
  <2> SUFFICES ASSUME SoloInv PROVE NeverNull /\ NothingSkipped
    OBVIOUS
  <2>1. ASSUME NEW r \in Readers, rpc[r] = "wait", rslot[r] < widx
        PROVE  data[rslot[r]] # Null
    <3>1. rslot[r] \in Slot
      BY <2>1, PublishedIsTaken DEF SoloInv, InfInv, TypeOK
    <3> QED
      BY <3>1, <2>1 DEF SoloInv, Filled
  <2>2. NothingSkipped
    BY DEF SoloInv, Served, NothingSkipped
  <2> QED
    BY <2>1, <2>2 DEF NeverNull
<1> QED
  BY <1>1, <1>2, <1>3, PTL DEF Safe

(* With one writer infbuffer_rem never returns NULL, however many readers   *)
(* there are: publishing by count is then publishing in order.              *)
THEOREM OneWriterNeverNull ==
    ASSUME NEW w \in Writers, Writers = {w}
    PROVE  Safe => []NeverNull
BY OneWriterSound, PTL

(* With one writer no record is lost: when it is done, every record below   *)
(* the readers' tickets was handed to a reader or is still awaited by one.  *)
THEOREM OneWriterLosesNothing ==
    ASSUME NEW w \in Writers, Writers = {w}
    PROVE  Safe => []NothingSkipped
BY OneWriterSound, PTL
=============================================================================
