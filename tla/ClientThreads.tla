--------------------------- MODULE ClientThreads ---------------------------
(***************************************************************************)
(* client_thread.c: main starts pairs of a writer and a reader thread.     *)
(* Each round of its loop makes a new queue and stores it for all pairs,   *)
(* while threads started earlier look the queue up again on every call.    *)
(* The queue (ring_createQueue, ring_enqueue, ring_dequeue) is external: a *)
(* bounded FIFO whose calls are atomic.  It carries pointers into the one  *)
(* shared array test_data_struct.                                          *)
(***************************************************************************)
EXTENDS Integers, Sequences, FiniteSets

CONSTANTS
    NumPairs,   \* num_threads: 2 in the code
    Items,      \* the index of the final record: 256 in the code
    Capacity    \* the queue's capacity: 64 in the code

VARIABLES
    mpc,        \* what main does next: <<step, pair>>
    ringbuf,    \* the queue every tinfo entry points to; 0 before the first
    queues,     \* the queues made, by the order of their making
    data,       \* test_data_struct
    wpc, wi, wq,   \* each writer: its step, its i, the queue it looked up
    rpc, rq,       \* each reader: its step and the queue it looked up
    last,       \* history: the last index each reader took from its first queue
    blank       \* history: a reader met a record not yet filled in

vars == <<mpc, ringbuf, queues, data, wpc, wi, wq, rpc, rq, last, blank>>
wvars == <<wpc, wi, wq>>
rvars == <<rpc, rq, last, blank>>

Pairs == 1 .. NumPairs
Indices == 0 .. Items
Empty == [seqnum |-> 0, flags |-> 0]
Filled(i) == [seqnum |-> i, flags |-> IF i = Items THEN 1 ELSE 0]

Init ==
    /\ mpc = <<"setup", 1>> /\ ringbuf = 0
    /\ queues = [q \in Pairs |-> <<>>] /\ data = [i \in Indices |-> Empty]
    /\ wpc = [p \in Pairs |-> "none"] /\ wi = [p \in Pairs |-> 0] /\ wq = [p \in Pairs |-> 0]
    /\ rpc = [p \in Pairs |-> "none"] /\ rq = [p \in Pairs |-> 0]
    /\ last = [p \in Pairs |-> -1] /\ blank = FALSE

Exited == mpc[1] \in {"failed", "exit"}
Fail == mpc' = <<"failed", 0>>

----------------------------------------------------------------------------
(* main *)

\* Options and thread attributes; every failure ends in exit.
MainSetup ==
    /\ mpc[1] = "setup"
    /\ Fail \/ mpc' = <<"queue", 1>>
    /\ UNCHANGED <<ringbuf, queues, data, wvars, rvars>>

CreateQueue ==
    /\ mpc[1] = "queue"
    /\ ringbuf' = mpc[2] /\ mpc' = <<"writer", mpc[2]>>
    /\ UNCHANGED <<queues, data, wvars, rvars>>

CreateWriter == LET p == mpc[2] IN
    /\ mpc[1] = "writer"
    /\ \/ Fail /\ UNCHANGED wpc
       \/ mpc' = <<"reader", p>> /\ wpc' = [wpc EXCEPT ![p] = "store"]
    /\ UNCHANGED <<ringbuf, queues, data, wi, wq, rvars>>

\* thread_id is overwritten, so main will join the readers only.
CreateReader == LET p == mpc[2] IN
    /\ mpc[1] = "reader"
    /\ \/ Fail /\ UNCHANGED rpc
       \/ /\ mpc' = IF p = NumPairs THEN <<"destroy", 0>> ELSE <<"queue", p + 1>>
          /\ rpc' = [rpc EXCEPT ![p] = "load"]
    /\ UNCHANGED <<ringbuf, queues, data, wvars, rq, last, blank>>

\* The thread attributes are destroyed before the first join.
DestroyAttr ==
    /\ mpc[1] = "destroy"
    /\ Fail \/ mpc' = <<"join", 1>>
    /\ UNCHANGED <<ringbuf, queues, data, wvars, rvars>>

\* The last join is followed by exit, which ends every thread.
Join == LET p == mpc[2] IN
    /\ mpc[1] = "join" /\ rpc[p] = "done"
    /\ mpc' = IF p = NumPairs THEN <<"exit", 0>> ELSE <<"join", p + 1>>
    /\ UNCHANGED <<ringbuf, queues, data, wvars, rvars>>

\* pthread_join fails instead of waiting: nothing makes it.
JoinFails ==
    /\ mpc[1] = "join" /\ Fail
    /\ UNCHANGED <<ringbuf, queues, data, wvars, rvars>>

Main == MainSetup \/ CreateQueue \/ CreateWriter \/ CreateReader \/ DestroyAttr \/ Join

----------------------------------------------------------------------------
(* thread_writer *)

Mutant_WStoreFlagsOnly(p) ==
    /\ wpc[p] = "store" /\ ~Exited
    /\ data' = [data EXCEPT ![wi[p]].flags = Filled(wi[p]).flags]
    /\ wpc' = [wpc EXCEPT ![p] = "load"]
    /\ UNCHANGED <<mpc, ringbuf, queues, wi, wq, rvars>>

\* Fill in record i.
WStore(p) ==
    /\ wpc[p] = "store" /\ ~Exited
    /\ data' = [data EXCEPT ![wi[p]] = Filled(wi[p])]
    /\ wpc' = [wpc EXCEPT ![p] = "load"]
    /\ UNCHANGED <<mpc, ringbuf, queues, wi, wq, rvars>>

\* Look up tinfo->ringbuf for the next call.
WLoad(p) ==
    /\ wpc[p] = "load" /\ ~Exited
    /\ wq' = [wq EXCEPT ![p] = ringbuf] /\ wpc' = [wpc EXCEPT ![p] = "enqueue"]
    /\ UNCHANGED <<mpc, ringbuf, queues, data, wi, rvars>>

Mutant_WEnqueueGivesUp(p) == LET q == wq[p] IN
    /\ wpc[p] = "enqueue" /\ ~Exited
    /\ queues' = IF Len(queues[q]) < Capacity THEN [queues EXCEPT ![q] = Append(@, wi[p])] ELSE queues
    /\ IF wi[p] < Items
       THEN wi' = [wi EXCEPT ![p] = @ + 1] /\ wpc' = [wpc EXCEPT ![p] = "store"]
       ELSE wi' = wi /\ wpc' = [wpc EXCEPT ![p] = "done"]
    /\ UNCHANGED <<mpc, ringbuf, data, wq, rvars>>

\* A record that finds the queue full is dropped, only the final one is retried.
WEnqueue(p) ==
    LET q == wq[p]
        room == Len(queues[q]) < Capacity
    IN
    /\ wpc[p] = "enqueue" /\ ~Exited
    /\ queues' = IF room THEN [queues EXCEPT ![q] = Append(@, wi[p])] ELSE queues
    /\ IF wi[p] < Items
       THEN wi' = [wi EXCEPT ![p] = @ + 1] /\ wpc' = [wpc EXCEPT ![p] = "store"]
       ELSE wi' = wi /\ wpc' = [wpc EXCEPT ![p] = IF room THEN "done" ELSE "load"]
    /\ UNCHANGED <<mpc, ringbuf, data, wq, rvars>>

Writer(p) == WStore(p) \/ WLoad(p) \/ WEnqueue(p)

(* thread_reader *)

RLoad(p) ==
    /\ rpc[p] = "load" /\ ~Exited
    /\ rq' = [rq EXCEPT ![p] = ringbuf] /\ rpc' = [rpc EXCEPT ![p] = "dequeue"]
    /\ UNCHANGED <<mpc, ringbuf, queues, data, wvars, last, blank>>

\* An empty queue is tried again; a record with flags 1 ends the reader.
RDequeue(p) == LET q == rq[p] IN
    /\ rpc[p] = "dequeue" /\ ~Exited
    /\ IF queues[q] = <<>>
       THEN rpc' = [rpc EXCEPT ![p] = "load"] /\ UNCHANGED <<queues, last, blank>>
       ELSE LET i == Head(queues[q]) IN
            /\ queues' = [queues EXCEPT ![q] = Tail(@)]
            /\ rpc' = [rpc EXCEPT ![p] = IF data[i].flags = 1 THEN "done" ELSE "load"]
            /\ last' = IF q = 1 /\ p = 1 THEN [last EXCEPT ![p] = i] ELSE last
            /\ blank' = (blank \/ data[i] # Filled(i))
    /\ UNCHANGED <<mpc, ringbuf, data, wvars, rq>>

Reader(p) == RLoad(p) \/ RDequeue(p)

Next == Main \/ JoinFails \/ \E p \in Pairs : Writer(p) \/ Reader(p)

\* Every thread keeps running: each waits by pthread_yield and retry.  No call has
\* to fail for it.
Fairness == WF_vars(Main) /\ \A p \in Pairs : WF_vars(Writer(p)) /\ WF_vars(Reader(p))

Safe == Init /\ [][Next]_vars

Spec == Safe /\ Fairness

----------------------------------------------------------------------------
Done(pcs) == {p \in Pairs : pcs[p] = "done"}
FinalsQueued == {e \in Pairs \X (1 .. Capacity) :
    e[2] <= Len(queues[e[1]]) /\ queues[e[1]][e[2]] = Items}

\* Although both writers fill the same array while readers look at it through
\* pointers, no reader ever meets a record that is not filled in.
NoBlankRecord == ~blank

\* Final records are neither lost nor made up: each finished writer has put one
\* into some queue, each finished reader has taken one out.
FinalsAccounted ==
    Cardinality(FinalsQueued) + Cardinality(Done(rpc)) = Cardinality(Done(wpc))

\* The first queue has one writer for good, so its reader gets rising sequence
\* numbers from it, with gaps where records were dropped.
Rises == last'[1] # last[1] => last'[1] > last[1]
FirstQueueRises == [][Rises]_vars

\* What the shared array and the replaced queue may never break, in one.
ClientSound == [](NoBlankRecord /\ FinalsAccounted) /\ FirstQueueRises

\* A full queue or a change of queue never stops a writer: it returns, unless
\* exit ends it first.
WritersFinish == \A p \in Pairs : wpc[p] = "store" ~> (wpc[p] = "done" \/ Exited)

\* main joins every reader and exits: each pair's reader gets a final record.  A
\* call that fails ends the program sooner.
MainExits == <>Exited
============================================================================
