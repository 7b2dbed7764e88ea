--------------------------- MODULE ServerExample ---------------------------
(***************************************************************************)
(* server_example.c: one UDP socket per port, a select loop with a timeout *)
(* that reads one datagram from each ready socket per round.  The kernel   *)
(* queues datagrams, drops them when the queue is full, and may discard a  *)
(* damaged one between select and recvfrom, which then blocks.             *)
(***************************************************************************)
EXTENDS Integers, Sequences, FiniteSets

CONSTANTS max_servers,  \* sockets; 2 in the code
          MaxQueue,     \* datagrams the kernel queues per socket
          MaxSent,      \* bound: datagrams sent
          Damaged       \* whether datagrams may be damaged

VARIABLES
    pc, i,
    server_handle,      \* the descriptor of each socket, 0 before it is made
    max_server_handle,
    read_handles,       \* the set given to select and what it left in it
    queue,              \* per socket, the datagrams that wait
    received,           \* per socket, the datagrams printed
    sent, lost

vars == <<pc, i, server_handle, max_server_handle, read_handles, queue, received, sent, lost>>
network == <<queue, sent, lost>>
sockets == <<server_handle, max_server_handle>>

Servers == 0 .. max_servers - 1
Free == 3 .. 3 + max_servers
Elements(q) == {q[n] : n \in DOMAIN q}

Init ==
    /\ pc = "create" /\ i = 0 /\ server_handle = [k \in Servers |-> 0]
    /\ max_server_handle = 0 /\ read_handles = {}
    /\ queue = [k \in Servers |-> <<>>] /\ received = [k \in Servers |-> <<>>]
    /\ sent = 0 /\ lost = {}

Mutant_CreateFirstIsMax ==
    /\ pc = "create" /\ i < max_servers
    /\ \E fd \in Free \ {server_handle[k] : k \in Servers} :
          /\ server_handle' = [server_handle EXCEPT ![i] = fd]
          /\ max_server_handle' = IF i = 0 THEN fd ELSE max_server_handle
    /\ pc' = IF i + 1 = max_servers THEN "select" ELSE "create"
    /\ i' = (i + 1) % max_servers /\ UNCHANGED <<read_handles, received, network>>

\* One round of the first loop: socket, SO_REUSEADDR, bind.
Create ==
    /\ pc = "create" /\ i < max_servers
    /\ \E fd \in Free \ {server_handle[k] : k \in Servers} :
          /\ server_handle' = [server_handle EXCEPT ![i] = fd]
          /\ max_server_handle' = IF fd > max_server_handle THEN fd ELSE max_server_handle
    /\ pc' = IF i + 1 = max_servers THEN "select" ELSE "create"
    /\ i' = (i + 1) % max_servers /\ UNCHANGED <<read_handles, received, network>>

\* Any of the three calls fails: main returns, and what waits is dropped.
CreateFails ==
    /\ pc = "create" /\ pc' = "exited"
    /\ lost' = lost \cup UNION {Elements(queue[k]) : k \in Servers}
    /\ queue' = [k \in Servers |-> <<>>]
    /\ UNCHANGED <<i, sockets, read_handles, received, sent>>

Watched == {k \in Servers : server_handle[k] <= max_server_handle}
Ready == {k \in Watched : queue[k] # <<>>}

\* The set is built anew; select waits for a socket to be ready.
Select ==
    /\ pc = "select" /\ Ready # {}
    /\ read_handles' = {server_handle[k] : k \in Ready} /\ pc' = "serve" /\ i' = 0
    /\ UNCHANGED <<sockets, received, network>>

\* The timeout, and an error, go round the loop; after an error the sets are
\* what they were.
Timeout ==
    /\ pc = "select" /\ Ready = {} /\ read_handles' = {} /\ UNCHANGED <<pc, i, sockets, received, network>>

Mutant_SelectErrorServes ==
    /\ pc = "select" /\ read_handles' = {server_handle[k] : k \in Servers}
    /\ pc' = "serve" /\ i' = 0 /\ UNCHANGED <<sockets, received, network>>

SelectError ==
    /\ pc = "select" /\ read_handles' = {server_handle[k] : k \in Servers}
    /\ UNCHANGED <<pc, i, sockets, received, network>>

\* A datagram is read from a ready socket; the next socket.
Recvfrom ==
    /\ pc = "serve" /\ i < max_servers /\ server_handle[i] \in read_handles /\ queue[i] # <<>>
    /\ received' = [received EXCEPT ![i] = Append(@, Head(queue[i]))]
    /\ queue' = [queue EXCEPT ![i] = Tail(@)] /\ i' = i + 1
    /\ UNCHANGED <<pc, sockets, read_handles, sent, lost>>

NotReady ==
    /\ pc = "serve" /\ i < max_servers /\ server_handle[i] \notin read_handles
    /\ i' = i + 1 /\ UNCHANGED <<pc, sockets, read_handles, received, network>>

\* recvfrom fails: the other sockets wait for the next round.
RecvfromError ==
    /\ pc = "serve" /\ i < max_servers /\ server_handle[i] \in read_handles
    /\ pc' = "select" /\ UNCHANGED <<i, sockets, read_handles, received, network>>

Round ==
    /\ pc = "serve" /\ i = max_servers
    /\ pc' = "select" /\ UNCHANGED <<i, sockets, read_handles, received, network>>

----------------------------------------------------------------------------
(* The network *)

Send(k) ==
    /\ pc # "exited" /\ server_handle[k] # 0 /\ sent < MaxSent /\ sent' = sent + 1
    /\ IF Len(queue[k]) < MaxQueue
       THEN queue' = [queue EXCEPT ![k] = Append(@, sent')] /\ UNCHANGED lost
       ELSE lost' = lost \cup {sent'} /\ UNCHANGED queue
    /\ UNCHANGED <<pc, i, sockets, read_handles, received>>

Discard(k) ==
    /\ Damaged /\ queue[k] # <<>>
    /\ queue' = [queue EXCEPT ![k] = Tail(@)] /\ lost' = lost \cup {Head(queue[k])}
    /\ UNCHANGED <<pc, i, sockets, read_handles, received, sent>>

Next == \/ Create \/ Select \/ Recvfrom \/ NotReady \/ Round \/ CreateFails \/ Timeout \/ SelectError \/ RecvfromError
        \/ \E k \in Servers : Send(k) \/ Discard(k)

Safe == Init /\ [][Next]_vars

\* The server keeps running and its calls do not fail for ever: select is not
\* interrupted, and recvfrom on a socket not refused, every time.
Spec == Safe /\ WF_vars(Create) /\ WF_vars(NotReady) /\ WF_vars(Round)
        /\ SF_vars(Select) /\ \A k \in Servers : SF_vars(i = k /\ Recvfrom)

----------------------------------------------------------------------------
\* Whatever select fails with, times out on or reports, the server never waits in
\* a recvfrom with nothing to read: the sockets it reads were found ready in this
\* very round.
NeverBlocks == pc = "serve" =>
    \A k \in Servers : k >= i /\ server_handle[k] \in read_handles => queue[k] # <<>>

\* No datagram is printed twice, or for the wrong socket, or out of order, and
\* every one not printed waits or was dropped by the kernel.
DatagramsAccounted ==
    /\ \A k \in Servers : \A m, n \in DOMAIN received[k] : m < n => received[k][m] < received[k][n]
    /\ \A j, k \in Servers : j # k => Elements(received[j]) \cap Elements(received[k]) = {}
    /\ 1 .. sent = lost \cup UNION {Elements(queue[k]) \cup Elements(received[k]) : k \in Servers}

\* What the server promises, in one.
ServerSound == (~Damaged => NeverBlocks) /\ DatagramsAccounted

\* A queued datagram is printed in the end, whichever socket it waits on: a busy
\* socket does not keep the other from being read.
EveryoneServed == \A n \in 1 .. MaxSent :
    (\E k \in Servers : n \in Elements(queue[k])) ~> \/ pc = "exited" \/ \E k \in Servers : n \in Elements(received[k])
============================================================================
