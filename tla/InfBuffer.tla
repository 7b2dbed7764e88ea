------------------------------ MODULE InfBuffer ------------------------------
(***************************************************************************)
(* The "infinite" buffer of infbuffer.c, an append-only array of pointers   *)
(* shared by any number of writers and readers, driven by the threads of    *)
(* test_infbuffer.c.  infbuffer_add takes a ticket, stores and publishes;   *)
(* infbuffer_rem takes a ticket, spins until enough was published and       *)
(* loads.  Each of these is one step: FETCH_THEN_ADD is a locked xadd, the  *)
(* rest are single loads and stores.                                        *)
(***************************************************************************)
EXTENDS Naturals, FiniteSets

CONSTANTS
    Writers, Readers,
    Items,          \* slots infbuffer_init allocates
    PerWriter,      \* items / writers: records each writer adds
    Null

Item == Writers \X (1 .. PerWriter)     \* a payload: its id and seqno
Slot == 0 .. Items - 1

ASSUME InfAssumption ==
    /\ IsFiniteSet(Writers)
    /\ Items \in Nat
    /\ PerWriter \in Nat \ {0}
    /\ Cardinality(Writers) * PerWriter <= Items
    /\ Null \notin Item

VARIABLES
    data, tidx, widx, ridx,     \* infbuffer__s
    wpc, wslot, seqno,          \* thread_writer: place, idx, loop counter
    rpc, rslot, seqnos,         \* thread_reader: place, idx, info->seqnos
    holder,                     \* history: which item took each slot
    handed,                     \* history: <<reader, item>> loaded
    aborted                     \* an assert of thread_reader failed

bufVars == <<data, tidx, widx, ridx>>
writerVars == <<wpc, wslot, seqno, holder>>
readerVars == <<rpc, rslot, seqnos, handed, aborted>>
vars == <<bufVars, writerVars, readerVars>>

(* infbuffer_init and main: calloc leaves every slot and seqno zero. *)
Init ==
    /\ data = [i \in Slot |-> Null]
    /\ tidx = 0 /\ widx = 0 /\ ridx = 0
    /\ wpc = [w \in Writers |-> "ticket"]
    /\ wslot = [w \in Writers |-> 0]
    /\ seqno = [w \in Writers |-> 0]
    /\ rpc = [r \in Readers |-> "ticket"]
    /\ rslot = [r \in Readers |-> 0]
    /\ seqnos = [r \in Readers |-> [w \in Writers |-> 0]]
    /\ holder = [i \in Slot |-> Null]
    /\ handed = {}
    /\ aborted = FALSE

-----------------------------------------------------------------------------
Payload(w) == <<w, seqno[w] + 1>>

(* Mutant: the ticket is the counter's new value, not its old one. *)
Mutant_AddThenFetch(w) ==
    /\ ~aborted /\ wpc[w] = "ticket"
    /\ wslot' = [wslot EXCEPT ![w] = tidx + 1]
    /\ tidx' = tidx + 1
    /\ holder' = [holder EXCEPT ![tidx] = Payload(w)]
    /\ wpc' = [wpc EXCEPT ![w] = "store"]
    /\ UNCHANGED <<data, widx, ridx, seqno, readerVars>>

AddTicket(w) ==
    /\ ~aborted /\ wpc[w] = "ticket"
    /\ wslot' = [wslot EXCEPT ![w] = tidx]
    /\ tidx' = tidx + 1
    /\ holder' = [holder EXCEPT ![tidx] = Payload(w)]
    /\ wpc' = [wpc EXCEPT ![w] = "store"]
    /\ UNCHANGED <<data, widx, ridx, seqno, readerVars>>

AddStore(w) ==
    /\ ~aborted /\ wpc[w] = "store"
    /\ data' = [data EXCEPT ![wslot[w]] = Payload(w)]
    /\ wpc' = [wpc EXCEPT ![w] = "publish"]
    /\ UNCHANGED <<tidx, widx, ridx, wslot, seqno, holder, readerVars>>

(* Mutant: the loop runs once too often. *)
(* Mutant: "widx++" without the lock prefix; two at once count as one. *)
Mutant_AddPublishNotAtomic(w) ==
    /\ ~aborted /\ wpc[w] = "publish"
    /\ \/ widx' = widx + 1
       \/ (\E v \in Writers \ {w} : wpc[v] = "publish") /\ widx' = widx
    /\ seqno' = [seqno EXCEPT ![w] = @ + 1]
    /\ wpc' = [wpc EXCEPT ![w] = IF seqno[w] + 1 < PerWriter THEN "ticket" ELSE "done"]
    /\ UNCHANGED <<data, tidx, ridx, wslot, holder, readerVars>>

(* FETCH_THEN_ADD(&buf->widx, 1), and thread_writer's loop. *)
AddPublish(w) ==
    /\ ~aborted /\ wpc[w] = "publish"
    /\ widx' = widx + 1
    /\ seqno' = [seqno EXCEPT ![w] = @ + 1]
    /\ wpc' = [wpc EXCEPT ![w] = IF seqno[w] + 1 < PerWriter THEN "ticket" ELSE "done"]
    /\ UNCHANGED <<data, tidx, ridx, wslot, holder, readerVars>>

infbuffer_add(w) == AddTicket(w) \/ AddStore(w) \/ AddPublish(w)

-----------------------------------------------------------------------------
(* Mutant: the increment is a load and a store, so an update can be lost. *)
Mutant_RemTicketNotAtomic(r) ==
    /\ ~aborted /\ rpc[r] = "ticket"
    /\ rslot' = [rslot EXCEPT ![r] = ridx]
    /\ ridx' \in {ridx, ridx + 1}
    /\ rpc' = [rpc EXCEPT ![r] = "wait"]
    /\ UNCHANGED <<data, tidx, widx, writerVars, seqnos, handed, aborted>>

RemTicket(r) ==
    /\ ~aborted /\ rpc[r] = "ticket"
    /\ rslot' = [rslot EXCEPT ![r] = ridx]
    /\ ridx' = ridx + 1
    /\ rpc' = [rpc EXCEPT ![r] = "wait"]
    /\ UNCHANGED <<data, tidx, widx, writerVars, seqnos, handed, aborted>>

(* Mutant: readers stop at the very last record only. *)
Mutant_KeepsReadingToLast(seq) == seq < PerWriter

(* "do ... while (seq < info->maxseq)", maxseq being one below PerWriter. *)
KeepsReading(seq) == seq < PerWriter - 1

(* Mutant: one highest seqno per reader instead of one per writer. *)
Mutant_CheckShared(r, item) ==
    LET seq == item[2]
    IN  IF \A id \in Writers : seq > seqnos[r][id]
          THEN /\ seqnos' = [seqnos EXCEPT ![r][item[1]] = seq]
               /\ rpc' = [rpc EXCEPT ![r] = IF KeepsReading(seq) THEN "ticket" ELSE "done"]
               /\ UNCHANGED aborted
          ELSE /\ aborted' = TRUE
               /\ UNCHANGED <<seqnos, rpc>>

(* thread_reader on a pointer from the buffer: the asserts, the new highest *)
(* seqno of that writer, the loop condition.                                *)
Check(r, item) ==
    LET id == item[1]  seq == item[2]
    IN  IF seq > seqnos[r][id]
          THEN /\ seqnos' = [seqnos EXCEPT ![r][id] = seq]
               /\ rpc' = [rpc EXCEPT ![r] = IF KeepsReading(seq) THEN "ticket" ELSE "done"]
               /\ UNCHANGED aborted
          ELSE /\ aborted' = TRUE
               /\ UNCHANGED <<seqnos, rpc>>

(* Mutant: the spin ends one record early. *)
Mutant_RemLoadEarly(r) ==
    /\ ~aborted /\ rpc[r] = "wait"
    /\ rslot[r] <= widx /\ rslot[r] \in Slot
    /\ IF data[rslot[r]] = Null
         THEN /\ rpc' = [rpc EXCEPT ![r] = "done"]
              /\ UNCHANGED <<seqnos, handed, aborted>>
         ELSE /\ handed' = handed \cup {<<r, data[rslot[r]]>>}
              /\ Check(r, data[rslot[r]])
    /\ UNCHANGED <<bufVars, writerVars, rslot>>

(* The spin "idx >= buf->widx" is over: load; a NULL ends the thread. *)
RemLoad(r) ==
    /\ ~aborted /\ rpc[r] = "wait"
    /\ rslot[r] < widx
    /\ IF data[rslot[r]] = Null
         THEN /\ rpc' = [rpc EXCEPT ![r] = "done"]
              /\ UNCHANGED <<seqnos, handed, aborted>>
         ELSE /\ handed' = handed \cup {<<r, data[rslot[r]]>>}
              /\ Check(r, data[rslot[r]])
    /\ UNCHANGED <<bufVars, writerVars, rslot>>

infbuffer_rem(r) == RemTicket(r) \/ RemLoad(r)

-----------------------------------------------------------------------------
Joined == (\A w \in Writers : wpc[w] = "done") /\ (\A r \in Readers : rpc[r] = "done")
Finished == (Joined \/ aborted) /\ UNCHANGED vars

Next ==
    \/ \E w \in Writers : infbuffer_add(w)
    \/ \E r \in Readers : infbuffer_rem(r)
    \/ Finished

Safe == Init /\ [][Next]_vars

(* Every thread stays runnable: readers spin with sched_yield. *)
Spec ==
    /\ Safe
    /\ \A w \in Writers : WF_vars(infbuffer_add(w))
    /\ \A r \in Readers : WF_vars(infbuffer_rem(r))

-----------------------------------------------------------------------------
(* Types of the buffer, of both kinds of thread and of the history. *)
TypeOK ==
    /\ data \in [Slot -> Item \cup {Null}]
    /\ tidx \in 0 .. Items /\ widx \in Nat /\ ridx \in Nat
    /\ wpc \in [Writers -> {"ticket", "store", "publish", "done"}]
    /\ wslot \in [Writers -> Nat]
    /\ seqno \in [Writers -> 0 .. PerWriter]
    /\ rpc \in [Readers -> {"ticket", "wait", "done"}]
    /\ rslot \in [Readers -> Nat]
    /\ seqnos \in [Readers -> [Writers -> 0 .. PerWriter]]
    /\ holder \in [Slot -> Item \cup {Null}]
    /\ handed \subseteq (Readers \X Item)
    /\ aborted \in BOOLEAN

(* thread_reader's assert(load->seqno > info->seqnos[load->id]) never       *)
(* fails: each reader sees each writer's records in rising order, holes     *)
(* and other readers notwithstanding.                                       *)
SeqnoRises == ~aborted

(* No record is given to two readers. *)
HandedOnce ==
    \A r, q \in Readers : \A i \in Item :
        <<r, i>> \in handed /\ <<q, i>> \in handed => r = q

(* A reader that has published data waiting for it never loads NULL: the    *)
(* assert(load != NULL) of thread_reader.                                   *)
NeverNull ==
    \A r \in Readers : rpc[r] = "wait" /\ rslot[r] < widx => data[rslot[r]] # Null

(* Some reader holds the ticket of slot i and has not loaded it yet. *)
Awaited(i) == \E r \in Readers : rpc[r] = "wait" /\ rslot[r] = i

(* Nothing published is lost: once every writer is done, the record in a    *)
(* slot whose ticket was drawn and used has been handed to a reader.        *)
NothingSkipped ==
    (\A w \in Writers : wpc[w] = "done") =>
        \A i \in Slot : i < ridx /\ ~Awaited(i) /\ data[i] # Null =>
            \E r \in Readers : <<r, data[i]>> \in handed

(* All threads return, so main's pthread_join calls do. *)
EveryoneReturns == <>Joined

-----------------------------------------------------------------------------
(* The inductive invariants behind the properties above.                    *)

InCall(w) == wpc[w] \in {"store", "publish"}
Busy == {w \in Writers : InCall(w)}
Issued == [w \in Writers |-> IF InCall(w) THEN seqno[w] + 1 ELSE seqno[w]]

(* Slots are taken without gaps, each by one record, and a writer's records *)
(* take rising slots; a filled slot holds the record that took it.          *)
Tickets ==
    /\ \A w \in Writers : wpc[w] # "done" => seqno[w] < PerWriter
    /\ \A w \in Writers : InCall(w) => wslot[w] < tidx /\ holder[wslot[w]] = Payload(w)
    /\ widx + Cardinality(Busy) = tidx
    /\ \A i \in Slot : i < tidx <=> holder[i] # Null
    /\ \A i \in Slot : i < tidx => holder[i][2] <= Issued[holder[i][1]]
    /\ \A i, j \in Slot :
          i < j /\ j < tidx /\ holder[i][1] = holder[j][1] => holder[i][2] < holder[j][2]
    /\ \A i \in Slot : data[i] \in {Null, holder[i]}

(* No ticket is held twice; what a reader was handed came from a slot whose *)
(* ticket is used up; its highest seqno per writer came from a lower slot   *)
(* than the one it waits for.                                               *)
Readings ==
    /\ \A r \in Readers : rpc[r] = "wait" => rslot[r] < ridx
    /\ \A r, q \in Readers : rpc[r] = "wait" /\ rpc[q] = "wait" /\ rslot[r] = rslot[q] => r = q
    /\ \A h \in handed : \E k \in Slot : k < ridx /\ holder[k] = h[2] /\ ~Awaited(k)
    /\ \A r \in Readers, w \in Writers :
          \/ seqnos[r][w] = 0
          \/ \E k \in Slot :
                /\ k < ridx
                /\ rpc[r] = "wait" => k < rslot[r]
                /\ holder[k] = <<w, seqnos[r][w]>>

(* Any number of writers and readers. *)
InfInv == TypeOK /\ Tickets /\ Readings /\ SeqnoRises /\ HandedOnce

(* One writer: widx is the length of the filled part, and a slot whose      *)
(* ticket is used up has been handed over.                                  *)
Filled ==
    \A w \in Writers :
        /\ widx = seqno[w]
        /\ InCall(w) => wslot[w] = seqno[w]
        /\ tidx = Issued[w]
        /\ \A i \in Slot : i < seqno[w] => data[i] # Null
        /\ \A i \in Slot : i = seqno[w] /\ wpc[w] = "publish" => data[i] # Null

Served ==
    \A i \in Slot : i < ridx /\ ~Awaited(i) => \E r \in Readers : <<r, data[i]>> \in handed

SoloInv == InfInv /\ Filled /\ Served
=============================================================================
