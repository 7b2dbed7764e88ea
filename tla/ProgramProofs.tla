--------------------------- MODULE ProgramProofs ---------------------------
(***************************************************************************)
(* What the programs with threads, timers or a select loop promise, for    *)
(* every value of their constants.  They share no state; each is an        *)
(* instance on variables of its own, as in Programs.                       *)
(***************************************************************************)
EXTENDS Integers, Sequences, FiniteSets, SequenceTheorems, FunctionTheorems,
        FiniteSetTheorems, TLAPS

CONSTANTS
    NumPairs, Items, Capacity,                              \* ClientThreads
    Initialised, Durations, Ratio, Step, Patience,          \* TimerLoop
    Rounds, Reported, MaxBehind,
    max_servers, MaxQueue, MaxSent, Damaged                 \* ServerExample

VARIABLES
    mpc, ringbuf, queues, data, wpc, wi, wq, rpc, rq,       \* ClientThreads
    last, blank,
    tpc, fd, due, period, pending, highfd, origfds,         \* TimerLoop
    currfds, test, rc, waited, reports, age,
    spc, i, server_handle, max_server_handle,               \* ServerExample
    read_handles, queue, received, sent, lost

C == INSTANCE ClientThreads
TL == INSTANCE TimerLoop WITH pc <- tpc
S == INSTANCE ServerExample WITH pc <- spc

----------------------------------------------------------------------------
(* Sequences of numbers *)

Rising(q) == \A m, n \in DOMAIN q : m < n => q[m] < q[n]

LEMMA AppendFacts ==
    ASSUME NEW T, NEW q \in Seq(T), NEW x \in T
    PROVE  /\ Append(q, x) \in Seq(T) /\ Append(q, x) # <<>>
           /\ DOMAIN Append(q, x) = DOMAIN q \cup {Len(q) + 1}
           /\ \A n \in DOMAIN q : n <= Len(q) /\ Append(q, x)[n] = q[n]
           /\ Append(q, x)[Len(q) + 1] = x
  BY AppendProperties, LenProperties

LEMMA TailFacts ==
    ASSUME NEW T, NEW q \in Seq(T), q # <<>>
    PROVE  /\ Tail(q) \in Seq(T) /\ Head(q) = q[1] /\ 1 \in DOMAIN q /\ q[1] \in T
           /\ Len(Tail(q)) = Len(q) - 1
           /\ \A n \in DOMAIN Tail(q) : n + 1 \in DOMAIN q /\ Tail(q)[n] = q[n + 1]
           /\ \A n \in DOMAIN q : n # 1 => n - 1 \in DOMAIN Tail(q) /\ Tail(q)[n - 1] = q[n]
<1>1. Tail(q) \in Seq(T) /\ Len(Tail(q)) = Len(q) - 1 /\ Head(q) = q[1] /\ Head(q) \in T
  BY HeadTailProperties
<1>2. Len(q) \in Nat /\ Len(q) # 0 /\ DOMAIN q = 1 .. Len(q) /\ DOMAIN Tail(q) = 1 .. Len(Tail(q))
  BY <1>1, LenProperties, EmptySeq
<1>3. \A n \in 1 .. Len(Tail(q)) : Tail(q)[n] = q[n + 1]
  BY HeadTailProperties
<1> QED
  BY <1>1, <1>2, <1>3

LEMMA RisingAppend ==
    ASSUME NEW q \in Seq(Int), NEW x \in Int, Rising(q), \A n \in DOMAIN q : q[n] < x
    PROVE  Rising(Append(q, x))
<1> DEFINE a == Append(q, x)
<1>1. /\ DOMAIN a = DOMAIN q \cup {Len(q) + 1} /\ DOMAIN q = 1 .. Len(q) /\ Len(q) \in Nat
      /\ \A n \in DOMAIN q : a[n] = q[n]
      /\ a[Len(q) + 1] = x
  BY AppendFacts, LenProperties
<1> HIDE DEF a
<1> SUFFICES ASSUME NEW m \in DOMAIN a, NEW n \in DOMAIN a, m < n PROVE a[m] < a[n]
  BY DEF Rising, a
<1>2. a[m] < a[n]
  <2>1. m \in DOMAIN q
    BY <1>1
  <2>2. CASE n \in DOMAIN q
    BY <1>1, <2>1, <2>2 DEF Rising
  <2>3. CASE n = Len(q) + 1
    BY <1>1, <2>1, <2>3
  <2> QED
    BY <1>1, <2>2, <2>3
<1> QED
  BY <1>2

LEMMA RisingTail ==
    ASSUME NEW q \in Seq(Int), q # <<>>, Rising(q)
    PROVE  Rising(Tail(q)) /\ \A n \in DOMAIN Tail(q) : q[1] < Tail(q)[n]
<1> DEFINE t == Tail(q)
<1>1. /\ DOMAIN q = 1 .. Len(q) /\ DOMAIN t = 1 .. Len(t) /\ Len(q) \in Nat /\ Len(t) \in Nat
      /\ 1 \in DOMAIN q /\ \A n \in DOMAIN t : n + 1 \in DOMAIN q /\ t[n] = q[n + 1]
  BY TailFacts, LenProperties
<1> HIDE DEF t
<1>2. ASSUME NEW m \in DOMAIN t, NEW n \in DOMAIN t, m < n PROVE t[m] < t[n]
  <2>1. m + 1 \in DOMAIN q /\ n + 1 \in DOMAIN q /\ m + 1 < n + 1 /\ t[m] = q[m + 1] /\ t[n] = q[n + 1]
    BY <1>1, <1>2
  <2> QED
    BY <2>1 DEF Rising
<1>3. ASSUME NEW n \in DOMAIN t PROVE q[1] < t[n]
  <2>1. n + 1 \in DOMAIN q /\ 1 < n + 1 /\ t[n] = q[n + 1]
    BY <1>1
  <2> QED
    BY <1>1, <2>1 DEF Rising
<1>4. Rising(t)
  BY <1>2 DEF Rising
<1> QED
  BY <1>3, <1>4 DEF t

----------------------------------------------------------------------------
(* The example server *)

LEMMA ElementsAppend ==
    ASSUME NEW q \in Seq(Int), NEW x \in Int
    PROVE  S!Elements(Append(q, x)) = S!Elements(q) \cup {x}
  BY AppendFacts DEF S!Elements

LEMMA ElementsTail ==
    ASSUME NEW q \in Seq(Int), q # <<>>
    PROVE  S!Elements(q) = S!Elements(Tail(q)) \cup {Head(q)}
<1>1. ASSUME NEW e \in S!Elements(q) PROVE e \in S!Elements(Tail(q)) \cup {Head(q)}
  <2>1. PICK n \in DOMAIN q : e = q[n]
    BY DEF S!Elements
  <2>2. CASE n = 1
    BY <2>1, <2>2, TailFacts
  <2>3. CASE n # 1
    <3>1. n - 1 \in DOMAIN Tail(q) /\ Tail(q)[n - 1] = e
      BY <2>1, <2>3, TailFacts
    <3> QED
      BY <3>1 DEF S!Elements
  <2> QED
    BY <2>2, <2>3
<1>2. ASSUME NEW e \in S!Elements(Tail(q)) PROVE e \in S!Elements(q)
  <2>1. PICK n \in DOMAIN Tail(q) : e = Tail(q)[n]
    BY DEF S!Elements
  <2>2. n + 1 \in DOMAIN q /\ q[n + 1] = e
    BY <2>1, TailFacts
  <2> QED
    BY <2>2 DEF S!Elements
<1>3. Head(q) \in S!Elements(q)
  BY TailFacts DEF S!Elements
<1> QED
  BY <1>1, <1>2, <1>3

\* The datagrams of one socket: those printed came before those that wait.
InOrder(k) ==
    /\ Rising(received[k]) /\ Rising(queue[k])
    /\ \A m \in DOMAIN received[k], n \in DOMAIN queue[k] : received[k][m] < queue[k][n]
    /\ \A m \in DOMAIN received[k] : received[k][m] <= sent
    /\ \A n \in DOMAIN queue[k] : queue[k][n] <= sent

Held(k) == S!Elements(queue[k]) \cup S!Elements(received[k])

Datagrams ==
    /\ sent \in Nat
    /\ queue \in [S!Servers -> Seq(Int)] /\ received \in [S!Servers -> Seq(Int)]
    /\ \A k \in S!Servers : InOrder(k)
    /\ \A j, k \in S!Servers : j # k => Held(j) \cap Held(k) = {}
    /\ 1 .. sent = lost \cup UNION {Held(k) : k \in S!Servers}

LEMMA DatagramsInit == ASSUME S!Init PROVE Datagrams
<1>1. \A k \in S!Servers : queue[k] = <<>> /\ received[k] = <<>>
  BY DEF S!Init
<1>2. \A k \in S!Servers : InOrder(k) /\ Held(k) = {}
  BY <1>1 DEF InOrder, Rising, Held, S!Elements
<1>3. 1 .. sent = {} /\ lost = {}
  BY DEF S!Init
<1>4. UNION {Held(k) : k \in S!Servers} = {}
  BY <1>2
<1> QED
  BY <1>2, <1>3, <1>4 DEF S!Init, Datagrams

LEMMA DatagramsSame ==
    ASSUME Datagrams, UNCHANGED <<queue, received, sent, lost>>
    PROVE  Datagrams'
  BY DEF Datagrams, InOrder, Held

(* A step that changes only what waits for, and what was read from, one     *)
(* socket leaves the others in order.                                       *)
LEMMA DatagramsOne ==
    ASSUME Datagrams, NEW k \in S!Servers, InOrder(k)', sent' \in Nat, sent <= sent',
           queue' \in [S!Servers -> Seq(Int)], received' \in [S!Servers -> Seq(Int)],
           \A j \in S!Servers \ {k} : queue'[j] = queue[j] /\ received'[j] = received[j],
           1 .. sent' \ 1 .. sent \subseteq lost' \cup Held(k)',
           lost' \cup Held(k)' \subseteq (1 .. sent' \ 1 .. sent) \cup lost \cup Held(k),
           lost \cup Held(k) \subseteq lost' \cup Held(k)',
           Held(k)' \subseteq (1 .. sent' \ 1 .. sent) \cup Held(k)
    PROVE  Datagrams'
<1>1. ASSUME NEW j \in S!Servers \ {k} PROVE InOrder(j)' /\ Held(j)' = Held(j)
  <2>1. queue'[j] = queue[j] /\ received'[j] = received[j] /\ InOrder(j)
        /\ queue[j] \in Seq(Int) /\ received[j] \in Seq(Int) /\ sent \in Nat
    BY DEF Datagrams
  <2>2. Held(j)' = Held(j)
    BY <2>1 DEF Held
  <2>3. \A m \in DOMAIN received[j] : received[j][m] \in Int
    BY <2>1
  <2>4. \A n \in DOMAIN queue[j] : queue[j][n] \in Int
    BY <2>1
  <2>5. InOrder(j)'
    BY <2>1, <2>3, <2>4 DEF InOrder, Rising
  <2> QED
    BY <2>2, <2>5
<1>2. 1 .. sent' = lost' \cup UNION {Held(j)' : j \in S!Servers}
  <2>1. 1 .. sent = lost \cup UNION {Held(j) : j \in S!Servers} /\ 1 .. sent \subseteq 1 .. sent'
    BY DEF Datagrams
  <2>2. ASSUME NEW n \in 1 .. sent' PROVE n \in lost' \cup UNION {Held(j)' : j \in S!Servers}
    BY <1>1, <2>1
  <2>3. ASSUME NEW j \in S!Servers PROVE Held(j)' \subseteq 1 .. sent'
    BY <1>1, <2>1
  <2>4. lost' \subseteq 1 .. sent'
    BY <2>1
  <2> QED
    BY <2>2, <2>3, <2>4
<1>3. ASSUME NEW j \in S!Servers, NEW l \in S!Servers, j # l PROVE Held(j)' \cap Held(l)' = {}
  <2>1. ASSUME NEW m \in S!Servers \ {k} PROVE Held(m)' \cap Held(k)' = {}
    <3>1. Held(m) \subseteq 1 .. sent /\ Held(m) \cap Held(k) = {}
      BY DEF Datagrams
    <3> QED
      BY <1>1, <3>1
  <2>2. CASE j = k
    BY <1>3, <2>1, <2>2
  <2>3. CASE l = k
    BY <1>3, <2>1, <2>3
  <2>4. CASE j # k /\ l # k
    BY <1>1, <1>3, <2>4 DEF Datagrams
  <2> QED
    BY <2>2, <2>3, <2>4
<1> QED
  BY <1>1, <1>2, <1>3 DEF Datagrams

(* recvfrom moves the oldest datagram that waits to those printed. *)
LEMMA DatagramsRecvfrom ==
    ASSUME Datagrams, i \in S!Servers, S!Recvfrom PROVE Datagrams'
<1> DEFINE q == queue[i]
           r == received[i]
<1>1. /\ q \in Seq(Int) /\ r \in Seq(Int) /\ q # <<>> /\ sent \in Nat /\ InOrder(i)
      /\ UNCHANGED <<sent, lost>>
  BY DEF Datagrams, S!Recvfrom
<1>2. /\ Head(q) = q[1] /\ q[1] \in Int /\ 1 \in DOMAIN q /\ Tail(q) \in Seq(Int)
      /\ \A n \in DOMAIN Tail(q) : n + 1 \in DOMAIN q /\ Tail(q)[n] = q[n + 1]
  BY <1>1, TailFacts
<1>3. /\ queue' = [queue EXCEPT ![i] = Tail(q)] /\ received' = [received EXCEPT ![i] = Append(r, q[1])]
  BY <1>2 DEF S!Recvfrom
<1>4. /\ Append(r, q[1]) \in Seq(Int)
      /\ DOMAIN Append(r, q[1]) = DOMAIN r \cup {Len(r) + 1}
      /\ \A n \in DOMAIN r : Append(r, q[1])[n] = r[n]
      /\ Append(r, q[1])[Len(r) + 1] = q[1]
  BY <1>1, <1>2, AppendFacts
<1>5. /\ queue' \in [S!Servers -> Seq(Int)] /\ received' \in [S!Servers -> Seq(Int)]
      /\ \A j \in S!Servers \ {i} : queue'[j] = queue[j] /\ received'[j] = received[j]
      /\ queue'[i] = Tail(q) /\ received'[i] = Append(r, q[1])
  BY <1>2, <1>3, <1>4 DEF Datagrams
<1> DEFINE q2 == queue'[i]
           r2 == received'[i]
<1>6. Rising(r2) /\ Rising(q2)
  BY <1>1, <1>2, <1>5, RisingAppend, RisingTail DEF InOrder
<1>7. \A m \in DOMAIN r2, n \in DOMAIN q2 : r2[m] < q2[n]
  <2> SUFFICES ASSUME NEW m \in DOMAIN r2, NEW n \in DOMAIN q2 PROVE r2[m] < q2[n]
    OBVIOUS
  <2>1. CASE m \in DOMAIN r
    <3>1. r2[m] = r[m]
      BY <1>4, <1>5, <2>1
    <3>2. n + 1 \in DOMAIN q /\ q2[n] = q[n + 1]
      BY <1>2, <1>5
    <3>3. \A k \in DOMAIN q : r[m] < q[k]
      BY <1>1, <2>1 DEF InOrder
    <3> QED
      BY <3>1, <3>2, <3>3
  <2>2. CASE m = Len(r) + 1
    <3>1. r2[m] = q[1]
      BY <1>4, <1>5, <2>2
    <3>2. q[1] < Tail(q)[n]
      BY <1>1, <1>5, RisingTail DEF InOrder
    <3> QED
      BY <1>5, <3>1, <3>2
  <2> QED
    BY <1>4, <1>5, <2>1, <2>2
<1>8. (\A m \in DOMAIN r2 : r2[m] <= sent) /\ (\A n \in DOMAIN q2 : q2[n] <= sent)
  BY <1>1, <1>2, <1>4, <1>5 DEF InOrder
<1>9. S!Elements(q2) \cup S!Elements(r2) = S!Elements(q) \cup S!Elements(r)
  BY <1>1, <1>2, <1>5, ElementsAppend, ElementsTail
<1>10. PICK k \in S!Servers : k = i
  OBVIOUS
<1>11. InOrder(k)' /\ Held(k)' = Held(k)
  BY <1>1, <1>6, <1>7, <1>8, <1>9, <1>10 DEF InOrder, Held
<1>12. /\ sent' \in Nat /\ sent <= sent'
       /\ 1 .. sent' \ 1 .. sent \subseteq lost' \cup Held(k)'
       /\ lost' \cup Held(k)' \subseteq (1 .. sent' \ 1 .. sent) \cup lost \cup Held(k)
       /\ lost \cup Held(k) \subseteq lost' \cup Held(k)'
       /\ Held(k)' \subseteq (1 .. sent' \ 1 .. sent) \cup Held(k)
  BY <1>1, <1>11
<1> QED
  BY <1>5, <1>10, <1>11, <1>12, DatagramsOne

(* The next datagram arrives at a socket, or is dropped. *)
LEMMA DatagramsSend ==
    ASSUME Datagrams, NEW k \in S!Servers, S!Send(k) PROVE Datagrams'
<1> DEFINE q == queue[k]
<1>1. /\ q \in Seq(Int) /\ received[k] \in Seq(Int) /\ sent \in Nat /\ InOrder(k)
      /\ sent' = sent + 1 /\ UNCHANGED received
  BY DEF Datagrams, S!Send
<1>2. 1 .. sent' \ 1 .. sent = {sent'}
  BY <1>1
<1>3. CASE queue' = [queue EXCEPT ![k] = Append(q, sent')] /\ lost' = lost
  <2>1. /\ Append(q, sent') \in Seq(Int)
        /\ DOMAIN Append(q, sent') = DOMAIN q \cup {Len(q) + 1}
        /\ \A n \in DOMAIN q : Append(q, sent')[n] = q[n] /\ q[n] \in Int
        /\ Append(q, sent')[Len(q) + 1] = sent'
    BY <1>1, AppendFacts
  <2>2. /\ queue' \in [S!Servers -> Seq(Int)] /\ received' \in [S!Servers -> Seq(Int)]
        /\ \A j \in S!Servers \ {k} : queue'[j] = queue[j] /\ received'[j] = received[j]
        /\ queue'[k] = Append(q, sent') /\ received'[k] = received[k]
    BY <1>1, <1>3, <2>1 DEF Datagrams
  <2>3. \A n \in DOMAIN q : q[n] < sent'
    BY <1>1, <2>1 DEF InOrder
  <2>4. \A m \in DOMAIN received[k] : received[k][m] \in Int /\ received[k][m] < sent'
    <3>1. \A m \in DOMAIN received[k] : received[k][m] \in Int /\ received[k][m] <= sent
      BY <1>1 DEF InOrder
    <3> QED
      BY <1>1, <3>1
  <2>5. Rising(queue'[k])
    BY <1>1, <2>2, <2>3, RisingAppend DEF InOrder
  <2>6. \A m \in DOMAIN received[k], n \in DOMAIN queue'[k] : received[k][m] < queue'[k][n]
    BY <1>1, <2>1, <2>2, <2>4 DEF InOrder
  <2>7. \A n \in DOMAIN queue'[k] : queue'[k][n] <= sent'
    BY <1>1, <2>1, <2>2, <2>3
  <2>8. InOrder(k)'
    <3>1. Rising(received'[k]) /\ \A m \in DOMAIN received[k] : received[k][m] <= sent'
      BY <1>1, <2>2, <2>4 DEF InOrder
    <3> QED
      BY <2>2, <2>5, <2>6, <2>7, <3>1 DEF InOrder
  <2>9. Held(k)' = Held(k) \cup {sent'}
    BY <1>1, <2>2, ElementsAppend DEF Held
  <2>10. /\ sent' \in Nat /\ sent <= sent'
         /\ 1 .. sent' \ 1 .. sent \subseteq lost' \cup Held(k)'
         /\ lost' \cup Held(k)' \subseteq (1 .. sent' \ 1 .. sent) \cup lost \cup Held(k)
         /\ lost \cup Held(k) \subseteq lost' \cup Held(k)'
         /\ Held(k)' \subseteq (1 .. sent' \ 1 .. sent) \cup Held(k)
    BY <1>1, <1>2, <1>3, <2>9
  <2> QED
    BY <2>2, <2>8, <2>10, DatagramsOne
<1>4. CASE queue' = queue /\ lost' = lost \cup {sent'}
  <2>1. \A m \in DOMAIN received[k] : received[k][m] \in Int /\ received[k][m] <= sent
    BY <1>1 DEF InOrder
  <2>2. \A n \in DOMAIN q : q[n] \in Int /\ q[n] <= sent
    BY <1>1 DEF InOrder
  <2>3. InOrder(k)' /\ Held(k)' = Held(k)
    BY <1>1, <1>4, <2>1, <2>2 DEF InOrder, Held
  <2>4. queue' \in [S!Servers -> Seq(Int)] /\ received' \in [S!Servers -> Seq(Int)]
    BY <1>1, <1>4 DEF Datagrams
  <2>5. /\ sent' \in Nat /\ sent <= sent'
        /\ 1 .. sent' \ 1 .. sent \subseteq lost' \cup Held(k)'
        /\ lost' \cup Held(k)' \subseteq (1 .. sent' \ 1 .. sent) \cup lost \cup Held(k)
        /\ lost \cup Held(k) \subseteq lost' \cup Held(k)'
        /\ Held(k)' \subseteq (1 .. sent' \ 1 .. sent) \cup Held(k)
    BY <1>1, <1>2, <1>4, <2>3
  <2>6. \A j \in S!Servers \ {k} : queue'[j] = queue[j] /\ received'[j] = received[j]
    BY <1>1, <1>4
  <2> QED
    BY <2>3, <2>4, <2>5, <2>6, DatagramsOne
<1> QED
  BY <1>1, <1>3, <1>4 DEF S!Send

(* A damaged datagram is dropped from the head of a queue. *)
LEMMA DatagramsDiscard ==
    ASSUME Datagrams, NEW k \in S!Servers, S!Discard(k) PROVE Datagrams'
<1> DEFINE q == queue[k]
<1>1. /\ q \in Seq(Int) /\ q # <<>> /\ sent \in Nat /\ InOrder(k)
      /\ UNCHANGED <<sent, received>> /\ lost' = lost \cup {Head(q)}
      /\ queue' = [queue EXCEPT ![k] = Tail(q)]
  BY DEF Datagrams, S!Discard
<1>2. /\ Tail(q) \in Seq(Int)
      /\ \A n \in DOMAIN Tail(q) : n + 1 \in DOMAIN q /\ Tail(q)[n] = q[n + 1]
  BY <1>1, TailFacts
<1>3. /\ queue' \in [S!Servers -> Seq(Int)] /\ received' \in [S!Servers -> Seq(Int)]
      /\ \A j \in S!Servers \ {k} : queue'[j] = queue[j] /\ received'[j] = received[j]
      /\ queue'[k] = Tail(q) /\ received'[k] = received[k]
  BY <1>1, <1>2 DEF Datagrams
<1>4. InOrder(k)'
  <2>1. Rising(queue'[k])
    BY <1>1, <1>3, RisingTail DEF InOrder
  <2>2. \A m \in DOMAIN received[k], n \in DOMAIN queue'[k] : received[k][m] < queue'[k][n]
    BY <1>1, <1>2, <1>3 DEF InOrder
  <2>3. \A n \in DOMAIN queue'[k] : queue'[k][n] <= sent
    BY <1>1, <1>2, <1>3 DEF InOrder
  <2> QED
    BY <1>1, <1>3, <2>1, <2>2, <2>3 DEF InOrder
<1>5. lost' \cup Held(k)' = lost \cup Held(k) /\ Held(k)' \subseteq Held(k)
  BY <1>1, <1>3, ElementsTail DEF Held
<1>6. /\ sent' \in Nat /\ sent <= sent'
      /\ 1 .. sent' \ 1 .. sent \subseteq lost' \cup Held(k)'
      /\ lost' \cup Held(k)' \subseteq (1 .. sent' \ 1 .. sent) \cup lost \cup Held(k)
      /\ lost \cup Held(k) \subseteq lost' \cup Held(k)'
      /\ Held(k)' \subseteq (1 .. sent' \ 1 .. sent) \cup Held(k)
  BY <1>1, <1>5
<1> QED
  BY <1>3, <1>4, <1>6, DatagramsOne

(* When the server gives up, what waits is dropped. *)
LEMMA DatagramsDropped ==
    ASSUME Datagrams, S!CreateFails PROVE Datagrams'
<1>1. /\ queue' = [k \in S!Servers |-> <<>>] /\ UNCHANGED <<received, sent>>
      /\ lost' = lost \cup UNION {S!Elements(queue[k]) : k \in S!Servers}
  BY DEF S!CreateFails
<1>2. ASSUME NEW k \in S!Servers
      PROVE  InOrder(k)' /\ Held(k)' = S!Elements(received[k])
  BY <1>1 DEF Datagrams, InOrder, Rising, Held, S!Elements
<1>3. \A k \in S!Servers : Held(k) = S!Elements(queue[k]) \cup S!Elements(received[k])
  BY DEF Held
<1>4. lost' \cup UNION {Held(k)' : k \in S!Servers} = lost \cup UNION {Held(k) : k \in S!Servers}
  BY <1>1, <1>2, <1>3
<1>5. queue' \in [S!Servers -> Seq(Int)]
  BY <1>1
<1>6. ASSUME NEW j \in S!Servers, NEW k \in S!Servers, j # k PROVE Held(j)' \cap Held(k)' = {}
  BY <1>2, <1>3, <1>6 DEF Datagrams
<1> QED
  BY <1>1, <1>2, <1>4, <1>5, <1>6 DEF Datagrams

\* The sockets have descriptors of their own, and the loops stay in range.
Handles ==
    /\ spc \in {"create", "select", "serve", "exited"}
    /\ server_handle \in [S!Servers -> Nat]
    /\ \A j, k \in S!Servers :
          server_handle[j] = server_handle[k] /\ server_handle[j] # 0 => j = k
    /\ spc = "create" => i \in Nat /\ \A k \in S!Servers : k < i => server_handle[k] # 0
    /\ spc \in {"select", "serve"} => \A k \in S!Servers : server_handle[k] # 0
    /\ spc = "serve" => i \in 0 .. max_servers

ServerInv == Datagrams /\ Handles /\ (~Damaged => S!NeverBlocks)

LEMMA ServerInit == ASSUME max_servers \in Nat, S!Init PROVE ServerInv
<1>1. Handles
  BY DEF S!Init, Handles
<1>2. S!NeverBlocks
  BY DEF S!Init, S!NeverBlocks
<1> QED
  BY <1>1, <1>2, DatagramsInit DEF ServerInv

LEMMA ServerCreate ==
    ASSUME max_servers \in Nat, ServerInv, S!Create \/ S!CreateFails PROVE ServerInv'
<1>1. CASE S!Create
  <2>1. /\ i \in Nat /\ i \in S!Servers /\ i < max_servers /\ spc = "create"
        /\ server_handle \in [S!Servers -> Nat]
    BY <1>1 DEF ServerInv, Handles, S!Create, S!Servers
  <2>2. PICK f \in S!Free \ {server_handle[k] : k \in S!Servers} :
           server_handle' = [server_handle EXCEPT ![i] = f]
    BY <1>1 DEF S!Create
  <2>3. f \in Nat /\ f # 0 /\ \A k \in S!Servers : server_handle[k] # f
    BY <2>2 DEF S!Free
  <2>4. /\ server_handle' \in [S!Servers -> Nat]
        /\ \A k \in S!Servers : server_handle'[k] = IF k = i THEN f ELSE server_handle[k]
    BY <2>1, <2>2, <2>3
  <2>5. \A j, k \in S!Servers :
           server_handle'[j] = server_handle'[k] /\ server_handle'[j] # 0 => j = k
    BY <2>3, <2>4 DEF ServerInv, Handles
  <2>6. \A k \in S!Servers : k < i + 1 => server_handle'[k] # 0
    BY <2>1, <2>3, <2>4 DEF ServerInv, Handles, S!Servers
  <2>7. CASE i + 1 = max_servers
    <3>1. spc' = "select"
      BY <1>1, <2>7 DEF S!Create
    <3>2. \A k \in S!Servers : server_handle'[k] # 0
      BY <2>6, <2>7 DEF S!Servers
    <3> QED
      BY <1>1, <2>4, <2>5, <3>1, <3>2, DatagramsSame
      DEF ServerInv, Handles, S!NeverBlocks, S!Create, S!network
  <2>8. CASE i + 1 # max_servers
    <3>1. spc' = "create" /\ i' = (i + 1) % max_servers
      BY <1>1, <2>8 DEF S!Create
    <3>2. (i + 1) % max_servers = i + 1
      BY <2>1, <2>8
    <3> QED
      BY <1>1, <2>1, <2>4, <2>5, <2>6, <3>1, <3>2, DatagramsSame
      DEF ServerInv, Handles, S!NeverBlocks, S!Create, S!network
  <2> QED
    BY <2>7, <2>8
<1>2. CASE S!CreateFails
  BY <1>2, DatagramsDropped DEF ServerInv, Handles, S!NeverBlocks, S!CreateFails, S!sockets
<1> QED
  BY <1>1, <1>2

(* What select left in the set was ready, and belongs to one socket only. *)
LEMMA ServerSelect ==
    ASSUME max_servers \in Nat, ServerInv, S!Select \/ S!Timeout \/ S!SelectError
    PROVE  ServerInv'
<1>1. Datagrams' /\ UNCHANGED <<server_handle, queue>> /\ spc = "select"
  BY DatagramsSame DEF ServerInv, S!Select, S!Timeout, S!SelectError, S!network, S!sockets
<1>2. CASE S!Select
  <2>1. /\ spc' = "serve" /\ i' = 0
        /\ read_handles' = {server_handle[k] : k \in S!Ready}
    BY <1>2 DEF S!Select
  <2>2. ASSUME NEW k \in S!Servers, server_handle[k] \in read_handles' PROVE queue[k] # <<>>
    <3>1. PICK j \in S!Ready : server_handle[k] = server_handle[j]
      BY <2>1, <2>2
    <3>2. j \in S!Servers /\ queue[j] # <<>>
      BY <3>1 DEF S!Ready, S!Watched
    <3>3. j = k
      BY <1>1, <3>1, <3>2 DEF ServerInv, Handles
    <3> QED
      BY <3>2, <3>3
  <2>3. Handles'
    BY <1>1, <2>1 DEF ServerInv, Handles
  <2> QED
    BY <1>1, <2>1, <2>2, <2>3 DEF ServerInv, S!NeverBlocks
<1>3. CASE S!Timeout \/ S!SelectError
  BY <1>1, <1>3 DEF ServerInv, Handles, S!NeverBlocks, S!Timeout, S!SelectError
<1> QED
  BY <1>2, <1>3

LEMMA ServerServe ==
    ASSUME max_servers \in Nat, ServerInv,
           S!Recvfrom \/ S!NotReady \/ S!RecvfromError \/ S!Round
    PROVE  ServerInv'
<1>1. /\ UNCHANGED <<server_handle, read_handles>> /\ spc = "serve" /\ i \in 0 .. max_servers
  BY DEF ServerInv, Handles, S!Recvfrom, S!NotReady, S!RecvfromError, S!Round, S!sockets
<1>2. CASE S!Recvfrom
  <2>1. i \in S!Servers /\ i' = i + 1 /\ spc' = spc
    BY <1>1, <1>2 DEF S!Recvfrom, S!Servers
  <2>2. Datagrams'
    BY <1>2, <2>1, DatagramsRecvfrom DEF ServerInv
  <2>3. Handles'
    BY <1>1, <2>1 DEF ServerInv, Handles, S!Servers
  <2>4. ASSUME NEW k \in S!Servers, k >= i' PROVE queue'[k] = queue[k]
    BY <1>2, <2>1, <2>4 DEF S!Recvfrom, S!Servers, ServerInv, Datagrams
  <2>5. ~Damaged => S!NeverBlocks'
    BY <1>1, <2>1, <2>4 DEF ServerInv, S!NeverBlocks, S!Servers
  <2> QED
    BY <2>2, <2>3, <2>5 DEF ServerInv
<1>3. CASE S!NotReady
  <2>1. i \in S!Servers /\ i' = i + 1 /\ spc' = spc /\ UNCHANGED queue
    BY <1>1, <1>3 DEF S!NotReady, S!Servers, S!network
  <2>2. Datagrams'
    BY <1>3, DatagramsSame DEF ServerInv, S!NotReady, S!network
  <2>3. Handles'
    BY <1>1, <2>1 DEF ServerInv, Handles, S!Servers
  <2>4. ~Damaged => S!NeverBlocks'
    BY <1>1, <2>1 DEF ServerInv, S!NeverBlocks, S!Servers
  <2> QED
    BY <2>2, <2>3, <2>4 DEF ServerInv
<1>4. CASE S!RecvfromError \/ S!Round
  <2>1. Datagrams' /\ spc' = "select"
    BY <1>4, DatagramsSame DEF ServerInv, S!RecvfromError, S!Round, S!network
  <2> QED
    BY <1>1, <2>1 DEF ServerInv, Handles, S!NeverBlocks
<1> QED
  BY <1>2, <1>3, <1>4

LEMMA ServerNetwork ==
    ASSUME max_servers \in Nat, ServerInv, NEW k \in S!Servers, S!Send(k) \/ S!Discard(k)
    PROVE  ServerInv'
<1>1. /\ UNCHANGED <<spc, i, server_handle, read_handles>>
      /\ queue \in [S!Servers -> Seq(Int)] /\ sent \in Nat
  BY DEF ServerInv, Datagrams, S!Send, S!Discard, S!sockets
<1>2. Datagrams'
  BY DatagramsSend, DatagramsDiscard DEF ServerInv
<1>3. Handles'
  BY <1>1 DEF ServerInv, Handles
<1>4. ASSUME ~Damaged PROVE S!NeverBlocks'
  <2>1. S!Send(k) /\ sent' = sent + 1
    BY <1>4 DEF S!Discard, S!Send
  <2>2. Append(queue[k], sent') # <<>>
    BY <1>1, <2>1, AppendFacts
  <2>3. ASSUME NEW j \in S!Servers, queue[j] # <<>> PROVE queue'[j] # <<>>
    BY <1>1, <2>1, <2>2, <2>3 DEF S!Send
  <2> QED
    BY <1>1, <1>4, <2>3 DEF ServerInv, S!NeverBlocks
<1> QED
  BY <1>2, <1>3, <1>4 DEF ServerInv

LEMMA ServerNext ==
    ASSUME max_servers \in Nat, ServerInv, [S!Next]_(S!vars) PROVE ServerInv'
<1>1. CASE UNCHANGED S!vars
  BY <1>1, DatagramsSame DEF S!vars, ServerInv, Handles, S!NeverBlocks
<1> QED
  BY <1>1, ServerCreate, ServerSelect, ServerServe, ServerNetwork DEF S!Next

LEMMA ServerImplies == ASSUME ServerInv PROVE S!ServerSound
<1>1. \A k \in S!Servers : Held(k) = S!Elements(queue[k]) \cup S!Elements(received[k])
  BY DEF Held
<1>2. S!DatagramsAccounted
  BY <1>1 DEF ServerInv, Datagrams, InOrder, Rising, S!DatagramsAccounted
<1> QED
  BY <1>2 DEF ServerInv, S!ServerSound

(* For any number of sockets, any length of queue and any traffic: each     *)
(* datagram is printed at most once and in order, and otherwise waits or    *)
(* was dropped; and unless the kernel discards damaged ones, the server     *)
(* never waits in recvfrom.                                                 *)
THEOREM ServerSoundHolds ==
    ASSUME max_servers \in Nat
    PROVE  S!Safe => []S!ServerSound
  BY ServerInit, ServerNext, ServerImplies, PTL DEF S!Safe

----------------------------------------------------------------------------
(* TimerLoop *)

Positive ==
    /\ Ratio \in Nat /\ Ratio >= 2 /\ Step \in Nat /\ Step >= 1 /\ Durations \subseteq Nat
    /\ MaxBehind \in Nat /\ MaxBehind >= 1 /\ Rounds \in Nat /\ Reported \in Nat /\ Patience \in Nat
    /\ Initialised => Rounds >= 2 /\ Patience >= Step * Ratio

\* The timers the thread has still to look at in this round.
ToRead == IF tpc = "read100" THEN {1, 2, 3}
          ELSE IF tpc = "read10" THEN {1, 2}
          ELSE IF tpc = "read1" THEN {1} ELSE {}

Created == tpc \notin {"create", "aborted", "undefined"}

\* What pselect looks at, whatever descriptors the kernel handed out.
Watching ==
    /\ origfds = {fd[t] : t \in TL!Timers} /\ highfd \in Int
    /\ \A t \in TL!Timers : fd[t] < highfd <=> t \in TL!Heard
    /\ tpc = "select" => currfds = origfds

\* Whatever the intervals hold: three descriptors, and something to read in each
\* timer pselect reported that was not read yet.
TimerBase ==
    /\ fd \in [TL!Timers -> Int]
    /\ Created => \A t, u \in TL!Timers : t # u => fd[t] # fd[u]
    /\ due \in [TL!Timers -> Nat] /\ period \in [TL!Timers -> Nat]
    /\ pending \in [TL!Timers -> Nat] /\ reports \in [TL!Timers -> Nat]
    /\ age \in [TL!Timers -> Nat] /\ test \in Nat /\ waited \in Nat
    /\ \A t \in ToRead : fd[t] \in currfds => pending[t] > 0
    /\ TL!InLoop => Watching

LEMMA TimersAre == TL!Timers = {1, 2, 3}
  BY DEF TL!Timers, TL!ms1, TL!ms10, TL!ms100

LEMMA HeardAre == /\ TL!Heard = IF TL!Misordered THEN {2, 3} ELSE {1, 2, 3}
                  /\ TL!Misordered <=> fd[2] < fd[3] /\ fd[3] < fd[1]
  BY TimersAre DEF TL!Heard, TL!Misordered, TL!ms1, TL!ms10, TL!ms100

LEMMA HeardSame == ASSUME fd' = fd PROVE TL!Heard' = TL!Heard /\ (TL!Misordered' <=> TL!Misordered)
  BY DEF TL!Heard, TL!Misordered, TL!Timers, TL!ms1, TL!ms10, TL!ms100

LEMMA WatchingSame ==
    ASSUME UNCHANGED <<fd, origfds, highfd>>, Watching, tpc' = "select" => currfds' = origfds
    PROVE  Watching'
<1>1. TL!Timers' = TL!Timers
  BY DEF TL!Timers, TL!ms1, TL!ms10, TL!ms100
<1> QED
  BY <1>1, HeardSame DEF Watching

LEMMA IntervalType == ASSUME Positive, NEW t \in TL!Timers
                      PROVE  /\ TL!Interval(t) \in Nat /\ TL!Interval(t) >= 1
                             /\ TL!Periods(t) \in Nat /\ TL!Interval(t) = Step * TL!Periods(t)
                             /\ TL!Interval(1) = Step /\ TL!Interval(2) = Step * Ratio
                             /\ TL!Interval(t)' = TL!Interval(t)
<1> USE DEF TL!Interval, TL!Periods, TL!ms1, TL!ms10
<1>1. TL!Periods(t) \in Nat /\ TL!Periods(t) >= 1
  <2>1. Ratio * Ratio \in Nat /\ Ratio * Ratio >= Ratio
    BY DEF Positive
  <2> QED
    BY <2>1 DEF Positive
<1> DEFINE p == TL!Periods(t)
<1>2. p \in Nat /\ p >= 1
  BY <1>1
<1> HIDE DEF p
<1>3. Step * p \in Nat /\ Step * p >= 1
  BY <1>2 DEF Positive
<1>4. TL!Interval(1) = Step /\ TL!Interval(2) = Step * Ratio
  BY DEF Positive
<1> QED
  BY <1>1, <1>3, <1>4 DEF p

LEMMA TimerBaseInit == ASSUME Positive, TL!Init PROVE TimerBase
  BY DEF TL!Init, TimerBase, Created, TL!Zero, ToRead, TL!InLoop

LEMMA TimerBaseSettime ==
    ASSUME Positive, TimerBase, TL!Settime1 \/ TL!Settime10 \/ TL!Settime100 PROVE TimerBase'
<1> USE TimersAre
<1>1. PICK t \in TL!Timers, ahead \in {"settime10", "settime100", "setup"} :
         tpc \in {"settime1", "settime10", "settime100"} /\ TL!Settime(t, ahead)
  BY DEF TL!Settime1, TL!Settime10, TL!Settime100, TL!ms1, TL!ms10, TL!ms100
<1>2. PICK a \in TL!Armings(t) : /\ due' = [due EXCEPT ![t] = a.due]
                                 /\ period' = [period EXCEPT ![t] = a.period]
  BY <1>1 DEF TL!Settime
<1>3. a.due \in Nat /\ a.period \in Nat
  <2>1. CASE t = 1 \/ Initialised
    <3>1. a = [due |-> 1, period |-> TL!Interval(t)]
      BY <2>1 DEF TL!Armings, TL!ms1
    <3> QED
      BY <3>1, IntervalType
  <2>2. CASE ~(t = 1 \/ Initialised)
    <3>1. a \in [due : Durations, period : Durations \cup {0}] \/ a = [due |-> 0, period |-> 0]
      BY <2>2 DEF TL!Armings, TL!ms1
    <3>2. Durations \subseteq Nat
      BY DEF Positive
    <3>3. CASE a \in [due : Durations, period : Durations \cup {0}]
      <4>1. PICK d \in Durations, q \in Durations \cup {0} : a.due = d /\ a.period = q
        BY <3>3
      <4>2. d \in Nat /\ q \in Nat
        BY <3>2
      <4> QED
        BY <4>1, <4>2
    <3>4. CASE a = [due |-> 0, period |-> 0]
      <4>1. a.due = 0 /\ a.period = 0
        BY <3>4
      <4> QED
        BY <4>1
    <3> QED
      BY <3>1, <3>3, <3>4
  <2> QED
    BY <2>1, <2>2
<1>4. due' \in [TL!Timers -> Nat] /\ period' \in [TL!Timers -> Nat]
  BY <1>2, <1>3 DEF TimerBase
<1>5. /\ tpc' = ahead /\ UNCHANGED <<fd, pending, reports, age, test, waited>>
  BY <1>1 DEF TL!Settime
<1> QED
  BY <1>1, <1>4, <1>5 DEF TimerBase, Created, ToRead, TL!InLoop

LEMMA TimerBaseSetup == ASSUME Positive, TimerBase, TL!Setup PROVE TimerBase'
<1> USE TimersAre
<1>1. /\ UNCHANGED <<fd, due, period, pending, reports, age, test, waited>>
      /\ tpc = "setup" /\ tpc' = "select"
      /\ origfds' = {fd[t] : t \in TL!Timers} /\ currfds' = origfds'
      /\ highfd' = 1 + (IF fd[3] > fd[2] THEN fd[3] ELSE IF fd[2] > fd[1] THEN fd[2] ELSE fd[1])
  BY DEF TL!Setup, TL!kernel, TL!ms1, TL!ms10, TL!ms100
<1>2. fd[1] \in Int /\ fd[2] \in Int /\ fd[3] \in Int /\ fd[1] # fd[2] /\ fd[1] # fd[3] /\ fd[2] # fd[3]
  BY <1>1 DEF TimerBase, Created
<1>3. \A t \in {1, 2, 3} : fd[t] < highfd' <=> t \in TL!Heard
  BY <1>1, <1>2, HeardAre
<1>4. TL!Timers' = TL!Timers
  BY DEF TL!Timers, TL!ms1, TL!ms10, TL!ms100
<1>5. Watching'
  <2>1. TL!Heard' = TL!Heard /\ fd' = fd
    BY <1>1, HeardSame
  <2>2. origfds' = {fd'[t] : t \in TL!Timers'}
    BY <1>1, <1>4
  <2>3. highfd' \in Int
    BY <1>1, <1>2
  <2>4. \A t \in TL!Timers' : fd'[t] < highfd' <=> t \in TL!Heard'
    BY <1>3, <1>4, <2>1
  <2> QED
    BY <1>1, <2>2, <2>3, <2>4 DEF Watching
<1> QED
  BY <1>1, <1>5 DEF TimerBase, Created, ToRead

LEMMA TimerBaseNext == ASSUME Positive, TimerBase, [TL!Next]_(TL!vars) PROVE TimerBase'
<1> USE TimersAre
<1>1. CASE UNCHANGED TL!vars
  <2>1. UNCHANGED <<fd, tpc, origfds, highfd, currfds, due, period, pending, reports, age, test, waited>>
    BY <1>1 DEF TL!vars
  <2>2. TL!InLoop' => Watching'
    BY <2>1, WatchingSame DEF TimerBase, TL!InLoop, Watching
  <2> QED
    BY <2>1, <2>2 DEF TimerBase, Created, ToRead
<1>2. CASE TL!Create
  <2>1. /\ UNCHANGED <<due, period, pending, reports, age, test, waited>>
        /\ fd' \in [TL!Timers -> Int]
        /\ tpc' \in {"aborted", "settime1", "undefined"}
    BY <1>2 DEF TL!Create, TL!kernel, TimerBase
  <2>2. ToRead' = {} /\ ~TL!InLoop'
    BY <2>1 DEF ToRead, TL!InLoop
  <2>3. Created' => \A t, u \in TL!Timers : t # u => fd'[t] # fd'[u]
    <3> SUFFICES ASSUME Created' PROVE \A t, u \in TL!Timers : t # u => fd'[t] # fd'[u]
      OBVIOUS
    <3>1. PICK ok \in SUBSET TL!Timers, to \in [TL!Timers -> 3 .. 5] :
             /\ \A t, u \in ok : t < u => to[t] # to[u]
             /\ fd' = [t \in TL!Timers |-> IF t \in ok THEN to[t] ELSE -1]
             /\ tpc' = IF ok = {} THEN "aborted" ELSE IF ok = TL!Timers THEN "settime1" ELSE "undefined"
      BY <1>2 DEF TL!Create
    <3>2. ok = TL!Timers
      BY <3>1 DEF Created
    <3>3. ASSUME NEW t \in TL!Timers, NEW u \in TL!Timers, t # u PROVE to[t] # to[u]
      BY <3>1, <3>2, <3>3
    <3> QED
      BY <3>1, <3>2, <3>3
  <2> QED
    BY <2>1, <2>2, <2>3 DEF TimerBase
<1>3. CASE TL!Exhausted \/ TL!Watchdog \/ TL!SelectFails \/ TL!After
  <2>1. UNCHANGED <<fd, due, period, pending, reports, age, waited>> /\ test' \in {test, test + 1}
    BY <1>3 DEF TL!Exhausted, TL!Watchdog, TL!SelectFails, TL!After, TL!kernel
  <2>2. /\ tpc \in {"select", "after"}
        /\ tpc' \in {"after", "watchdog fired", "error in select", "done"}
    BY <1>3 DEF TL!Exhausted, TL!Watchdog, TL!SelectFails, TL!After
  <2>3. ToRead' = {} /\ Created /\ ~TL!InLoop'
    BY <2>2 DEF ToRead, Created, TL!InLoop
  <2> QED
    BY <2>1, <2>3 DEF TimerBase
<1>4. CASE TL!Again
  <2>1. /\ UNCHANGED <<fd, due, period, pending, reports, age, waited, test, highfd, origfds>>
        /\ currfds' = origfds /\ tpc = "again" /\ tpc' = "select"
    BY <1>4 DEF TL!Again, TL!kernel
  <2>2. Watching'
    BY <2>1, WatchingSame DEF TimerBase, TL!InLoop
  <2> QED
    BY <2>1, <2>2 DEF TimerBase, Created, ToRead
<1>5. CASE TL!Pselect
  <2>1. /\ UNCHANGED <<fd, due, period, pending, reports, age, highfd, origfds>>
        /\ test' \in Nat /\ waited' \in Nat /\ Created /\ TL!InLoop /\ tpc' = "read100"
        /\ currfds' = {fd[t] : t \in TL!Ready}
    BY <1>5 DEF TL!Pselect, TL!kernel, TimerBase, Created, TL!InLoop
  <2>2. ASSUME NEW t \in TL!Timers, fd[t] \in currfds' PROVE pending[t] > 0
    <3>1. PICK u \in TL!Ready : fd[t] = fd[u]
      BY <2>1, <2>2
    <3>2. u \in TL!Timers /\ pending[u] > 0
      BY DEF TL!Ready, TL!Watched
    <3> QED
      BY <2>1, <3>1, <3>2 DEF TimerBase
  <2>3. ToRead' \subseteq TL!Timers
    BY DEF ToRead
  <2>4. Watching'
    BY <2>1, WatchingSame DEF TimerBase
  <2> QED
    BY <2>1, <2>2, <2>3, <2>4 DEF TimerBase
<1>6. ASSUME NEW t \in TL!Timers, NEW ahead \in {"read10", "read1", "again"}, TL!READ_OVER(t, ahead),
             Created, TL!InLoop, ToRead' = ToRead \ {t}
      PROVE  TimerBase'
  <2>1. /\ UNCHANGED <<fd, due, period, test, currfds, age, waited, highfd, origfds>> /\ tpc' = ahead
        /\ pending' \in [TL!Timers -> Nat] /\ reports' \in [TL!Timers -> Nat]
        /\ \A u \in TL!Timers : u # t => pending'[u] = pending[u]
    BY <1>6 DEF TL!READ_OVER, TL!Take, TL!sets, TimerBase
  <2>2. ToRead \subseteq TL!Timers
    BY DEF ToRead
  <2>3. Watching'
    BY <1>6, <2>1, WatchingSame DEF TimerBase
  <2> QED
    BY <1>6, <2>1, <2>2, <2>3 DEF TimerBase
<1>7. CASE TL!Read100
  BY <1>6, <1>7 DEF TL!Read100, TL!ms100, ToRead, Created, TL!InLoop, TL!READ_OVER, TL!Take
<1>8. CASE TL!Read10
  BY <1>6, <1>8 DEF TL!Read10, TL!ms10, ToRead, Created, TL!InLoop, TL!READ_OVER, TL!Take
<1>9. CASE TL!Read1
  BY <1>6, <1>9 DEF TL!Read1, TL!ms1, ToRead, Created, TL!InLoop, TL!READ_OVER, TL!Take
<1>10. CASE TL!Tick
  <2>1. /\ UNCHANGED <<tpc, fd, period, test, currfds, reports, highfd, origfds>>
        /\ pending' \in [TL!Timers -> Nat] /\ due' \in [TL!Timers -> Nat]
        /\ age' \in [TL!Timers -> Nat] /\ waited' \in Nat
        /\ \A u \in TL!Timers : pending'[u] >= pending[u]
    BY <1>10 DEF TL!Tick, TL!sets, TimerBase, Positive
  <2>2. ToRead \subseteq TL!Timers /\ ToRead' = ToRead /\ Created' = Created /\ TL!InLoop' = TL!InLoop
    BY <2>1 DEF ToRead, Created, TL!InLoop
  <2>3. TL!InLoop => Watching'
    BY <2>1, WatchingSame DEF TimerBase, Watching
  <2> QED
    BY <2>1, <2>2, <2>3 DEF TimerBase
<1> QED
  BY <1>1, <1>2, TimerBaseSettime, TimerBaseSetup, <1>3, <1>4, <1>5, <1>7, <1>8, <1>9, <1>10
     DEF TL!Next, TL!Thread

LEMMA WatchedAre == ASSUME TimerBase, tpc = "select" PROVE TL!Watched = TL!Heard
<1> USE TimersAre
<1>1. Watching /\ TL!Heard \subseteq TL!Timers
  BY HeardAre DEF TimerBase, TL!InLoop
<1> QED
  BY <1>1 DEF Watching, TL!Watched

LEMMA TimerNeverBlocks == ASSUME TimerBase PROVE TL!NeverBlocksInRead
  BY TimersAre DEF TimerBase, ToRead, TL!NeverBlocksInRead, TL!ms1, TL!ms10, TL!ms100

(* With the intervals filled in.  Timer t has expired Expired(t) times, and *)
(* it expires again in due[t] instants: so its count times its interval is  *)
(* the time of its next expiration, on a clock that started when it was     *)
(* armed.  The timers are armed one after the other, so their clocks differ *)
(* by however long the thread took between the calls.                       *)

Expired(t) == reports[t] + pending[t]

\* The timers whose timerfd_settime is still to come.
Unarmed == IF tpc \in {"create", "aborted", "undefined", "settime1"} THEN {1, 2, 3}
           ELSE IF tpc = "settime10" THEN {2, 3}
           ELSE IF tpc = "settime100" THEN {3} ELSE {}

OnTime(t) ==
    /\ period[t] = TL!Interval(t)
    /\ due[t] \in 1 .. TL!Interval(t)
    /\ Expired(t) * TL!Interval(t) = age[t] + due[t] - 1
    /\ pending[t] <= MaxBehind

Idle(t) == due[t] = 0 /\ pending[t] = 0 /\ reports[t] = 0 /\ age[t] = 0

Clocks ==
    /\ \A t \in Unarmed : Idle(t)
    /\ \A t \in TL!Heard \ Unarmed : OnTime(t)
    /\ \A t, u \in TL!Heard : t < u => age[u] <= age[t]
    /\ \A t \in TL!Timers \ TL!Heard : reports[t] = 0

Awaiting(t) == t \in ToRead /\ fd[t] \in currfds

InRead == tpc \in {"read100", "read10", "read1"}
Returned == (tpc = "after" /\ rc # -1) \/ tpc = "done"

\* How far the rounds have come.  As long as ms100 has not expired, a round reads
\* all there is; it expires by the second round, so from then on each is reported.
Progress ==
    /\ tpc \in {"create", "settime1", "settime10", "settime100", "setup"} => test = 0
    /\ InRead \/ tpc = "again" => test >= 1
    /\ InRead => \A t \in TL!Timers : fd[t] \in currfds => t \in TL!Heard
    /\ TL!InLoop /\ test >= 1 /\ age[3] = 0
       => \A t \in TL!Heard : pending[t] = 0 \/ Awaiting(t)
    /\ (TL!InLoop /\ test >= 2) \/ Returned
       => \A t \in TL!Heard : reports[t] > 0 \/ Awaiting(t)
    /\ tpc = "after" /\ rc = 0 => test > Rounds

\* pselect is not kept waiting for longer than ms10 takes to expire.
Prompt ==
    /\ tpc \in {"create", "settime1", "settime10", "settime100", "setup", "again"} \/ InRead
       => waited = 0
    /\ tpc = "select" /\ pending[2] = 0 => waited + due[2] <= TL!Interval(2)

Timely == Clocks /\ Progress /\ Prompt

LEMMA TimelyInit == ASSUME TL!Init PROVE Timely
<1> USE TimersAre
<1>1. /\ tpc = "create" /\ waited = 0 /\ test = 0 /\ Unarmed = {1, 2, 3}
      /\ \A t \in TL!Timers : Idle(t)
  BY DEF TL!Init, Unarmed, Idle, TL!Zero
<1> QED
  BY <1>1, HeardAre DEF Timely, Clocks, Progress, Prompt, InRead, Returned, TL!InLoop, Idle

LEMMA TimelyCreate ==
    ASSUME TimerBase, Timely, TL!Create PROVE Timely'
<1> USE TimersAre
<1>1. /\ UNCHANGED <<due, pending, reports, age, test, waited>>
      /\ tpc = "create" /\ tpc' \in {"aborted", "settime1", "undefined"}
  BY DEF TL!Create, TL!kernel
<1>2. Unarmed = {1, 2, 3} /\ Unarmed' = {1, 2, 3}
  BY <1>1 DEF Unarmed
<1>3. \A t \in {1, 2, 3} : Idle(t)'
  BY <1>1, <1>2 DEF Timely, Clocks, Idle
<1>4. TL!Heard' \subseteq {1, 2, 3} /\ TL!Timers' = {1, 2, 3}
  BY DEF TL!Heard, TL!Timers, TL!ms1, TL!ms10, TL!ms100
<1>5. Clocks'
  BY <1>2, <1>3, <1>4 DEF Clocks, Idle
<1> QED
  BY <1>1, <1>5 DEF Timely, Progress, Prompt, InRead, Returned, TL!InLoop

LEMMA TimelySettime ==
    ASSUME Positive, Initialised, TimerBase, Timely, TL!Settime1 \/ TL!Settime10 \/ TL!Settime100
    PROVE  Timely'
<1> USE TimersAre
<1>1. PICK t \in TL!Timers, ahead \in {"settime10", "settime100", "setup"} :
         /\ TL!Settime(t, ahead) /\ t \in Unarmed /\ Unarmed' = Unarmed \ {t}
         /\ tpc \in {"settime1", "settime10", "settime100"}
  <2>1. CASE TL!Settime1
    <3>1. TL!Settime(1, "settime10") /\ tpc = "settime1" /\ tpc' = "settime10"
      BY <2>1 DEF TL!Settime1, TL!ms1, TL!Settime
    <3> QED
      BY <3>1 DEF Unarmed
  <2>2. CASE TL!Settime10
    <3>1. TL!Settime(2, "settime100") /\ tpc = "settime10" /\ tpc' = "settime100"
      BY <2>2 DEF TL!Settime10, TL!ms10, TL!Settime
    <3> QED
      BY <3>1 DEF Unarmed
  <2>3. CASE TL!Settime100
    <3>1. TL!Settime(3, "setup") /\ tpc = "settime100" /\ tpc' = "setup"
      BY <2>3 DEF TL!Settime100, TL!ms100, TL!Settime
    <3> QED
      BY <3>1 DEF Unarmed
  <2> QED
    BY <2>1, <2>2, <2>3
<1>2. /\ tpc' = ahead /\ UNCHANGED <<fd, pending, reports, age, test, waited>>
      /\ due' = [due EXCEPT ![t] = 1] /\ period' = [period EXCEPT ![t] = TL!Interval(t)]
  <2>1. PICK a \in TL!Armings(t) : /\ due' = [due EXCEPT ![t] = a.due]
                                   /\ period' = [period EXCEPT ![t] = a.period]
    BY <1>1 DEF TL!Settime
  <2>2. a = [due |-> 1, period |-> TL!Interval(t)]
    BY DEF TL!Armings
  <2>3. a.due = 1 /\ a.period = TL!Interval(t)
    BY <2>2
  <2> QED
    BY <1>1, <2>1, <2>3 DEF TL!Settime
<1>3. TL!Heard' = TL!Heard /\ TL!Timers' = TL!Timers /\ TL!Heard \subseteq TL!Timers
  BY <1>2, HeardSame, HeardAre DEF TL!Timers, TL!ms1, TL!ms10, TL!ms100
<1>4. ASSUME NEW u \in Unarmed' PROVE Idle(u)'
  <2>1. u \in Unarmed /\ u # t /\ u \in TL!Timers
    BY <1>1 DEF Unarmed
  <2> QED
    BY <1>2, <2>1 DEF Timely, Clocks, Idle, TimerBase
<1>5. ASSUME NEW u \in TL!Heard \ Unarmed' PROVE OnTime(u)'
  <2>1. TL!Interval(u) \in Nat /\ TL!Interval(u) >= 1 /\ TL!Interval(u)' = TL!Interval(u) /\ u \in TL!Timers
    BY <1>3, IntervalType
  <2>2. CASE u = t
    <3>1. pending[u] = 0 /\ reports[u] = 0 /\ age[u] = 0
      BY <1>1, <2>2 DEF Timely, Clocks, Idle
    <3>2. Expired(u)' = 0 /\ age'[u] = 0 /\ pending'[u] = 0 /\ due'[u] = 1 /\ period'[u] = TL!Interval(u)
      BY <1>2, <2>1, <2>2, <3>1 DEF Expired, TimerBase
    <3>3. 0 * TL!Interval(u) = 0
      BY <2>1
    <3> QED
      BY <2>1, <3>2, <3>3 DEF OnTime, Positive
  <2>3. CASE u # t
    <3>1. OnTime(u)
      BY <1>1, <2>3 DEF Timely, Clocks
    <3>2. UNCHANGED <<due[u], period[u], Expired(u), pending[u], age[u]>>
      BY <1>2, <2>1, <2>3 DEF TimerBase, Expired
    <3> QED
      BY <2>1, <3>1, <3>2 DEF OnTime
  <2> QED
    BY <2>2, <2>3
<1>6. Clocks'
  BY <1>2, <1>3, <1>4, <1>5 DEF Timely, Clocks
<1> QED
  BY <1>1, <1>2, <1>6 DEF Timely, Progress, Prompt, InRead, Returned, TL!InLoop

\* A step that only moves the thread on leaves the clocks as they were.
LEMMA ClocksSame ==
    ASSUME Positive, Clocks, UNCHANGED <<fd, due, period, pending, reports, age>>, Unarmed' = Unarmed
    PROVE  Clocks'
<1> USE TimersAre
<1>1. TL!Heard' = TL!Heard /\ TL!Timers' = TL!Timers /\ TL!Heard \subseteq TL!Timers
  BY HeardSame, HeardAre DEF TL!Timers, TL!ms1, TL!ms10, TL!ms100
<1>2. \A t \in TL!Timers : (OnTime(t)' <=> OnTime(t)) /\ (Idle(t)' <=> Idle(t))
  BY IntervalType DEF OnTime, Idle, Expired
<1>3. Unarmed \subseteq TL!Timers
  BY DEF Unarmed
<1> QED
  BY <1>1, <1>2, <1>3 DEF Clocks

LEMMA Products ==
    ASSUME NEW a \in Nat, NEW b \in Nat
    PROVE  a * b \in Nat /\ (a = 0 => a * b = 0) /\ (a > 0 => a * b >= b)
  OBVIOUS

LEMMA MoreProducts ==
    ASSUME NEW a \in Nat, NEW b \in Nat, NEW c \in Nat
    PROVE  (a + b) * c = a * c + b * c /\ (a <= b => a * c <= b * c)
  OBVIOUS

\* Once ms100 has expired, so has every timer that is watched.
LEMMA AllExpired ==
    ASSUME Positive, TimerBase, Clocks, TL!InLoop, age[3] > 0, NEW t \in TL!Heard
    PROVE  Expired(t) > 0
<1> USE TimersAre
<1> DEFINE I == TL!Interval(t)
<1>1. t \in TL!Timers /\ 3 \in TL!Heard /\ Unarmed = {}
  BY HeardAre DEF TL!InLoop, Unarmed
<1>2. OnTime(t) /\ age[t] > 0
  BY <1>1 DEF Clocks, TimerBase
<1>3. I \in Nat /\ Expired(t) \in Nat /\ age[t] \in Nat /\ due[t] \in Nat
  BY <1>1, IntervalType DEF Expired, TimerBase
<1>4. Expired(t) = 0 => Expired(t) * I = 0
  BY <1>3, Products
<1>5. Expired(t) * I = age[t] + due[t] - 1 /\ due[t] >= 1
  BY <1>2, <1>3 DEF OnTime
<1> HIDE DEF I
<1> QED
  BY <1>2, <1>3, <1>4, <1>5

LEMMA TimelyStep ==
    ASSUME Positive, Initialised, TimerBase, Timely,
           TL!Setup \/ TL!Exhausted \/ TL!SelectFails \/ TL!Again \/ TL!After
    PROVE  Timely'
<1> USE TimersAre
<1>1. UNCHANGED <<fd, due, period, pending, reports, age, waited>>
  BY DEF TL!Setup, TL!Exhausted, TL!SelectFails, TL!Again, TL!After, TL!kernel
<1>2. /\ tpc \in {"setup", "select", "again", "after"}
      /\ tpc' \in {"select", "after", "watchdog fired", "error in select", "done"}
  BY DEF TL!Setup, TL!Exhausted, TL!SelectFails, TL!Again, TL!After
<1>3. Clocks'
  <2>1. Unarmed = {} /\ Unarmed' = {}
    BY <1>2 DEF Unarmed
  <2> QED
    BY <1>1, <2>1, ClocksSame DEF Timely
<1>4. TL!Heard' = TL!Heard /\ TL!Timers' = TL!Timers /\ TL!Heard \subseteq TL!Timers /\ 2 \in TL!Heard
  BY <1>1, HeardSame, HeardAre DEF TL!Timers, TL!ms1, TL!ms10, TL!ms100
<1>5. ToRead = {} /\ ToRead' = {} /\ ~InRead /\ ~InRead'
  BY <1>2 DEF ToRead, InRead
<1>6. \A t : ~Awaiting(t) /\ ~Awaiting(t)'
  BY <1>5 DEF Awaiting
<1>7. CASE TL!Setup
  <2>1. tpc = "setup" /\ tpc' = "select" /\ test' = 0 /\ waited' = 0
    BY <1>1, <1>7 DEF TL!Setup, Timely, Progress, Prompt
  <2>2. due'[2] \in Nat /\ due'[2] <= TL!Interval(2) /\ TL!Interval(2)' = TL!Interval(2)
    <3>1. OnTime(2)
      BY <1>4, <2>1 DEF Timely, Clocks, Unarmed
    <3> QED
      BY <1>1, <3>1, IntervalType DEF OnTime, TimerBase
  <2> QED
    BY <1>3, <1>5, <2>1, <2>2 DEF Timely, Progress, Prompt, Returned
<1>8. CASE TL!Exhausted
  <2>1. tpc = "select" /\ tpc' = "after" /\ test >= Rounds /\ test' = test + 1 /\ TL!InLoop /\ ~TL!InLoop'
    BY <1>8 DEF TL!Exhausted, TL!InLoop
  <2>2. test >= 2 /\ test' > Rounds
    BY <2>1 DEF TimerBase, Positive
  <2>3. \A t \in TL!Heard : reports'[t] > 0
    BY <1>1, <1>6, <2>1, <2>2 DEF Timely, Progress
  <2> QED
    BY <1>3, <1>4, <1>5, <2>1, <2>2, <2>3 DEF Timely, Progress, Prompt, Returned
<1>9. CASE TL!SelectFails
  <2>1. tpc' = "after" /\ rc' = -1 /\ ~TL!InLoop'
    BY <1>9 DEF TL!SelectFails, TL!InLoop
  <2> QED
    BY <1>3, <1>5, <2>1 DEF Timely, Progress, Prompt, Returned
<1>10. CASE TL!Again
  <2>1. tpc = "again" /\ tpc' = "select" /\ UNCHANGED test /\ waited = 0 /\ TL!InLoop
    BY <1>10 DEF TL!Again, TL!InLoop, Timely, Prompt
  <2>2. due'[2] \in Nat /\ due'[2] <= TL!Interval(2) /\ TL!Interval(2)' = TL!Interval(2)
    <3>1. OnTime(2)
      BY <1>4, <2>1 DEF Timely, Clocks, Unarmed
    <3> QED
      BY <1>1, <3>1, IntervalType DEF OnTime, TimerBase
  <2>3. Progress'
    BY <1>1, <1>4, <1>5, <1>6, <2>1 DEF Timely, Progress, Returned
  <2> QED
    BY <1>1, <1>3, <1>5, <2>1, <2>2, <2>3 DEF Timely, Prompt
<1>11. CASE TL!After
  <2>1. /\ tpc = "after" /\ tpc' \in {"watchdog fired", "error in select", "done"}
        /\ (tpc' = "done" => rc # -1) /\ ~TL!InLoop'
    BY <1>11 DEF TL!After, TL!InLoop
  <2>2. Returned' => Returned
    BY <2>1 DEF Returned
  <2> QED
    BY <1>1, <1>3, <1>4, <1>5, <1>6, <2>1, <2>2 DEF Timely, Progress, Prompt
<1> QED
  BY <1>7, <1>8, <1>9, <1>10, <1>11

LEMMA TimelySelect ==
    ASSUME Positive, Initialised, TimerBase, Timely, TL!Pselect \/ TL!Watchdog PROVE Timely'
<1> USE TimersAre
<1>1. /\ tpc = "select" /\ UNCHANGED <<fd, due, period, pending, reports, age, highfd, origfds>>
      /\ TL!InLoop /\ ToRead = {} /\ Unarmed = {}
  BY DEF TL!Pselect, TL!Watchdog, TL!kernel, TL!InLoop, ToRead, Unarmed
<1>2. TL!Watched = TL!Heard
  BY <1>1, WatchedAre
<1>3. TL!Heard' = TL!Heard /\ TL!Timers' = TL!Timers /\ TL!Heard \subseteq TL!Timers
      /\ 2 \in TL!Heard /\ 3 \in TL!Heard
  BY <1>1, HeardSame, HeardAre DEF TL!Timers, TL!ms1, TL!ms10, TL!ms100
<1>4. TL!Ready = {t \in TL!Heard : pending[t] > 0}
  BY <1>2 DEF TL!Ready
<1>5. TL!Pselect
  <2> SUFFICES ASSUME TL!Watchdog PROVE FALSE
    OBVIOUS
  <2>1. pending[2] = 0 /\ waited >= Patience
    BY <1>3, <1>4 DEF TL!Watchdog, TimerBase
  <2>2. waited + due[2] <= TL!Interval(2) /\ due[2] >= 1
    BY <1>1, <1>3, <2>1, IntervalType DEF Timely, Prompt, Clocks, OnTime
  <2>3. TL!Interval(2) \in Nat /\ Patience >= TL!Interval(2) /\ Patience \in Nat
    <3>1. TL!Interval(2) = Step * Ratio /\ TL!Interval(2) \in Nat
      BY IntervalType
    <3> QED
      BY <3>1 DEF Positive
  <2>4. due[2] \in Nat /\ waited \in Nat
    BY DEF TimerBase
  <2> QED
    BY <2>1, <2>2, <2>3, <2>4
<1>6. /\ TL!Ready # {} /\ currfds' = {fd[t] : t \in TL!Ready} /\ tpc' = "read100"
      /\ test' = test + 1 /\ waited' = 0 /\ ToRead' = {1, 2, 3} /\ Unarmed' = {} /\ InRead'
  BY <1>5 DEF TL!Pselect, ToRead, Unarmed, InRead
<1>7. Clocks'
  BY <1>1, <1>6, ClocksSame DEF Timely
<1>8. ASSUME NEW t \in TL!Timers PROVE Awaiting(t)' <=> t \in TL!Ready
  <2>1. \A u \in TL!Ready : u \in TL!Timers
    BY <1>3, <1>4
  <2>2. \A u \in TL!Timers : u # t => fd[u] # fd[t]
    BY <1>1 DEF TimerBase, Created
  <2>3. Awaiting(t)' <=> fd[t] \in currfds'
    BY <1>1, <1>6 DEF Awaiting
  <2> QED
    BY <1>6, <2>1, <2>2, <2>3
<1>9. ASSUME NEW t \in TL!Heard PROVE pending'[t] = 0 \/ Awaiting(t)'
  BY <1>1, <1>3, <1>4, <1>8 DEF TimerBase
<1>10. ASSUME test' >= 2, NEW t \in TL!Heard PROVE reports'[t] > 0 \/ Awaiting(t)'
  <2>1. age[3] > 0
    <3> SUFFICES ASSUME age[3] = 0 PROVE FALSE
      BY DEF TimerBase
    <3>1. test >= 1
      BY <1>6, <1>10 DEF TimerBase
    <3>2. \A u \in TL!Heard : pending[u] = 0
      BY <1>1, <3>1 DEF Timely, Progress, Awaiting
    <3> QED
      BY <1>4, <1>6, <3>2
  <2>2. reports[t] + pending[t] > 0
    BY <1>1, <2>1, AllExpired DEF Timely, Expired
  <2> QED
    BY <1>1, <1>3, <1>9, <2>2 DEF TimerBase
<1>11. \A t \in TL!Timers : fd'[t] \in currfds' => t \in TL!Heard
  <2>1. \A t \in TL!Timers : fd'[t] \in currfds' => Awaiting(t)'
    BY <1>6 DEF Awaiting
  <2> QED
    BY <1>4, <1>8, <2>1
<1>12. test' >= 1
  BY <1>6 DEF TimerBase
<1>13. Progress'
  BY <1>3, <1>6, <1>9, <1>10, <1>11, <1>12 DEF Progress, Returned
<1> QED
  BY <1>6, <1>7, <1>13 DEF Timely, Prompt

\* READ_OVER moves a timer's count from waiting to reported, or leaves it.
LEMMA ReadMoves ==
    ASSUME TimerBase, NEW t \in TL!Timers, NEW ahead, TL!READ_OVER(t, ahead)
    PROVE  /\ UNCHANGED <<fd, due, period, age, highfd, origfds, currfds, test, rc, waited>>
           /\ tpc' = ahead
           /\ \A u \in TL!Timers : /\ Expired(u)' = Expired(u)
                                   /\ pending'[u] <= pending[u] /\ reports'[u] >= reports[u]
                                   /\ u # t => reports'[u] = reports[u] /\ pending'[u] = pending[u]
           /\ fd[t] \in currfds => reports'[t] = Expired(t) /\ Expired(t) > 0 /\ pending'[t] = 0
           /\ fd[t] \notin currfds => reports'[t] = reports[t] /\ pending'[t] = pending[t]
           /\ pending' \in [TL!Timers -> Nat] /\ reports' \in [TL!Timers -> Nat]
  BY DEF TL!READ_OVER, TL!Take, TL!sets, Expired, TimerBase

LEMMA TimelyRead ==
    ASSUME Positive, Initialised, TimerBase, Timely, TL!Read100 \/ TL!Read10 \/ TL!Read1 PROVE Timely'
<1> USE TimersAre
<1>1. PICK t \in TL!Timers, ahead \in {"read10", "read1", "again"} :
         TL!READ_OVER(t, ahead) /\ ToRead' = ToRead \ {t} /\ t \in ToRead
  <2>1. CASE TL!Read100
    <3>1. TL!READ_OVER(3, "read10") /\ tpc = "read100" /\ tpc' = "read10"
      BY <2>1 DEF TL!Read100, TL!ms100, TL!READ_OVER, TL!Take
    <3> QED
      BY <3>1 DEF ToRead
  <2>2. CASE TL!Read10
    <3>1. TL!READ_OVER(2, "read1") /\ tpc = "read10" /\ tpc' = "read1"
      BY <2>2 DEF TL!Read10, TL!ms10, TL!READ_OVER, TL!Take
    <3> QED
      BY <3>1 DEF ToRead
  <2>3. CASE TL!Read1
    <3>1. TL!READ_OVER(1, "again") /\ tpc = "read1" /\ tpc' = "again"
      BY <2>3 DEF TL!Read1, TL!ms1, TL!READ_OVER, TL!Take
    <3> QED
      BY <3>1 DEF ToRead
  <2> QED
    BY <2>1, <2>2, <2>3
<1>2. InRead /\ TL!InLoop /\ Unarmed = {}
  BY DEF TL!Read100, TL!Read10, TL!Read1, InRead, TL!InLoop, Unarmed
<1>3. /\ UNCHANGED <<fd, due, period, age, highfd, origfds, currfds, test, rc, waited>>
      /\ tpc' = ahead
      /\ \A u \in TL!Timers : /\ Expired(u)' = Expired(u)
                              /\ pending'[u] <= pending[u] /\ reports'[u] >= reports[u]
                              /\ u # t => reports'[u] = reports[u] /\ pending'[u] = pending[u]
      /\ fd[t] \in currfds => reports'[t] = Expired(t) /\ Expired(t) > 0 /\ pending'[t] = 0
      /\ fd[t] \notin currfds => reports'[t] = reports[t] /\ pending'[t] = pending[t]
      /\ pending' \in [TL!Timers -> Nat] /\ reports' \in [TL!Timers -> Nat]
  BY <1>1, ReadMoves
<1>4. TL!Heard' = TL!Heard /\ TL!Timers' = TL!Timers /\ TL!Heard \subseteq TL!Timers
  BY <1>3, HeardSame, HeardAre DEF TL!Timers, TL!ms1, TL!ms10, TL!ms100
<1>5. Unarmed' = {} /\ TL!InLoop' /\ ~Returned'
  BY <1>3 DEF Unarmed, TL!InLoop, Returned
<1>6. \A u \in TL!Timers : fd[u] \in currfds => u \in TL!Heard
  BY <1>2 DEF Timely, Progress
<1>7. Clocks'
  <2>1. ASSUME NEW u \in TL!Heard PROVE OnTime(u)'
    <3>1. OnTime(u) /\ u \in TL!Timers
      BY <1>2, <1>4 DEF Timely, Clocks
    <3>2. pending'[u] <= MaxBehind
      BY <1>3, <3>1 DEF OnTime, TimerBase, Positive
    <3> QED
      BY <1>3, <3>1, <3>2, IntervalType DEF OnTime
  <2>2. \A u \in TL!Timers \ TL!Heard : reports'[u] = 0
    BY <1>3, <1>6 DEF Timely, Clocks
  <2> QED
    BY <1>3, <1>4, <1>5, <2>1, <2>2 DEF Timely, Clocks
<1>8. ASSUME NEW u \in TL!Heard
      PROVE  /\ pending[u] = 0 \/ Awaiting(u) => pending'[u] = 0 \/ Awaiting(u)'
             /\ reports[u] > 0 \/ Awaiting(u) => reports'[u] > 0 \/ Awaiting(u)'
  <2>1. u \in TL!Timers
    BY <1>4
  <2>2. CASE u = t
    BY <1>1, <1>3, <2>2 DEF Awaiting, TimerBase
  <2>3. CASE u # t
    BY <1>1, <1>3, <2>1, <2>3 DEF Awaiting
  <2> QED
    BY <2>2, <2>3
<1>9. Progress'
  BY <1>2, <1>3, <1>4, <1>5, <1>6, <1>8 DEF Timely, Progress
<1>10. Prompt'
  BY <1>2, <1>3 DEF Timely, Prompt
<1> QED
  BY <1>7, <1>9, <1>10 DEF Timely

LEMMA OnTimeTick ==
    ASSUME Positive, Initialised, TimerBase, Clocks, TL!Tick, NEW t \in TL!Heard \ Unarmed
    PROVE  OnTime(t)' /\ age'[t] = age[t] + 1 /\ Unarmed' = Unarmed
<1> USE TimersAre
<1> DEFINE I == TL!Interval(t)
<1>1. t \in TL!Timers /\ I \in Nat /\ I >= 1 /\ I' = I
  BY IntervalType, HeardAre
<1>2. /\ UNCHANGED <<period, reports, tpc>>
      /\ pending' = [u \in TL!Timers |->
            IF due[u] = 1 /\ pending[u] < MaxBehind THEN pending[u] + 1 ELSE pending[u]]
      /\ due' = [u \in TL!Timers |-> IF due[u] = 0 THEN 0
                                     ELSE IF due[u] = 1 THEN period[u] ELSE due[u] - 1]
      /\ age' = [u \in TL!Timers |-> IF due[u] > 0 THEN age[u] + 1 ELSE age[u]]
  BY DEF TL!Tick
<1>3. /\ reports[t] \in Nat /\ pending[t] \in Nat /\ due[t] \in Nat /\ age[t] \in Nat
      /\ MaxBehind \in Nat /\ Expired(t) \in Nat
  BY <1>1 DEF TimerBase, Positive, Expired
<1>4. /\ period[t] = I /\ due[t] \in 1 .. I /\ Expired(t) * I = age[t] + due[t] - 1
      /\ pending[t] <= MaxBehind
  BY DEF Clocks, OnTime
<1>5. age'[t] = age[t] + 1
  BY <1>1, <1>2, <1>4
<1>6. due[t] = 1 => pending[t] < MaxBehind
  <2>1. t \notin TL!Unheard
    BY <1>1 DEF TL!Unheard, TimerBase, Watching
  <2> QED
    BY <1>1, <2>1 DEF TL!Tick
<1>7. /\ due'[t] \in 1 .. I /\ pending'[t] <= MaxBehind
      /\ Expired(t)' * I = age'[t] + due'[t] - 1
  <2>1. CASE due[t] = 1
    <3>1. pending'[t] = pending[t] + 1 /\ due'[t] = I /\ pending[t] < MaxBehind
      BY <1>1, <1>2, <1>4, <1>6, <2>1
    <3>2. Expired(t)' = Expired(t) + 1
      BY <1>2, <1>3, <3>1 DEF Expired
    <3>3. (Expired(t) + 1) * I = Expired(t) * I + I
      BY <1>1, <1>3
    <3> HIDE DEF I
    <3> QED
      BY <1>1, <1>3, <1>4, <1>5, <2>1, <3>1, <3>2, <3>3
  <2>2. CASE due[t] # 1
    <3>1. pending'[t] = pending[t] /\ due'[t] = due[t] - 1
      BY <1>1, <1>2, <1>3, <1>4, <2>2
    <3>2. Expired(t)' = Expired(t)
      BY <1>2, <3>1 DEF Expired
    <3> HIDE DEF I
    <3> QED
      BY <1>1, <1>3, <1>4, <1>5, <2>2, <3>1, <3>2
  <2> QED
    BY <2>1, <2>2
<1>8. period'[t] = I
  BY <1>2, <1>4
<1>9. Unarmed' = Unarmed
  BY <1>2 DEF Unarmed
<1> HIDE DEF I
<1> QED
  BY <1>1, <1>5, <1>7, <1>8, <1>9 DEF OnTime, I

LEMMA ClocksTick ==
    ASSUME Positive, Initialised, TimerBase, Timely, TL!Tick PROVE Clocks'
<1> USE TimersAre
<1>1. /\ UNCHANGED <<tpc, fd, reports>>
      /\ pending' = [u \in TL!Timers |->
            IF due[u] = 1 /\ pending[u] < MaxBehind THEN pending[u] + 1 ELSE pending[u]]
      /\ due' = [u \in TL!Timers |-> IF due[u] = 0 THEN 0
                                     ELSE IF due[u] = 1 THEN period[u] ELSE due[u] - 1]
      /\ age' = [u \in TL!Timers |-> IF due[u] > 0 THEN age[u] + 1 ELSE age[u]]
  BY DEF TL!Tick
<1>2. TL!Heard' = TL!Heard /\ TL!Timers' = TL!Timers /\ TL!Heard \subseteq TL!Timers /\ Unarmed' = Unarmed
      /\ Unarmed \subseteq TL!Timers
  BY <1>1, HeardSame, HeardAre DEF TL!Timers, TL!ms1, TL!ms10, TL!ms100, Unarmed
<1>3. ASSUME NEW t \in Unarmed PROVE Idle(t)' /\ age'[t] = 0
  <2>1. t \in TL!Timers /\ Idle(t)
    BY <1>2 DEF Timely, Clocks
  <2> QED
    BY <1>1, <2>1 DEF Idle
<1>4. \A t \in TL!Heard \ Unarmed : OnTime(t)' /\ age'[t] = age[t] + 1
  BY OnTimeTick DEF Timely
<1>5. ASSUME NEW t \in TL!Heard, NEW u \in TL!Heard, t < u PROVE age'[u] <= age'[t]
  <2>1. t \in TL!Timers /\ u \in TL!Timers /\ age[t] \in Nat /\ age[u] \in Nat /\ age[u] <= age[t]
    BY <1>2, <1>5 DEF TimerBase, Timely, Clocks
  <2>2. t \in Unarmed => u \in Unarmed
    BY <1>5, <2>1 DEF Unarmed
  <2>3. CASE u \in Unarmed
    <3>1. age'[u] = 0
      BY <1>3, <2>3
    <3>2. age'[t] \in Nat
      BY <1>1, <2>1
    <3> QED
      BY <3>1, <3>2
  <2>4. CASE u \notin Unarmed
    BY <1>4, <2>1, <2>2, <2>4
  <2> QED
    BY <2>3, <2>4
<1> QED
  BY <1>1, <1>2, <1>3, <1>4, <1>5 DEF Timely, Clocks

LEMMA TimelyTick ==
    ASSUME Positive, Initialised, TimerBase, Timely, TL!Tick PROVE Timely'
<1> USE TimersAre
<1>1. /\ UNCHANGED <<tpc, fd, currfds, test, rc, reports>>
      /\ pending' = [u \in TL!Timers |->
            IF due[u] = 1 /\ pending[u] < MaxBehind THEN pending[u] + 1 ELSE pending[u]]
      /\ due' = [u \in TL!Timers |-> IF due[u] = 0 THEN 0
                                     ELSE IF due[u] = 1 THEN period[u] ELSE due[u] - 1]
      /\ waited' = IF tpc = "select" /\ waited < Patience THEN waited + 1 ELSE waited
  BY DEF TL!Tick, TL!sets
<1>2. /\ InRead' = InRead /\ TL!InLoop' = TL!InLoop /\ Returned' = Returned
      /\ \A t \in TL!Timers : Awaiting(t)' = Awaiting(t)
      /\ TL!Heard' = TL!Heard /\ TL!Timers' = TL!Timers /\ TL!Heard \subseteq TL!Timers
      /\ 2 \in TL!Heard /\ 3 \in TL!Heard
  BY <1>1, HeardSame, HeardAre
     DEF InRead, TL!InLoop, Returned, Awaiting, ToRead, TL!Timers, TL!ms1, TL!ms10, TL!ms100
<1>3. TL!InLoop => age'[3] # 0
  <2> SUFFICES ASSUME TL!InLoop PROVE age'[3] # 0
    OBVIOUS
  <2>1. 3 \in TL!Heard \ Unarmed
    BY <1>2 DEF TL!InLoop, Unarmed
  <2>2. age'[3] = age[3] + 1 /\ age[3] \in Nat
    BY <2>1, OnTimeTick DEF Timely, TimerBase
  <2> QED
    BY <2>2
<1>4. Progress'
  BY <1>1, <1>2, <1>3 DEF Timely, Progress
<1>5. Prompt'
  <2>1. ASSUME tpc = "select", pending'[2] = 0 PROVE waited' + due'[2] <= TL!Interval(2)
    <3>1. OnTime(2) /\ pending[2] \in Nat /\ due[2] \in Nat /\ waited \in Nat
      BY <1>2, <2>1 DEF Timely, Clocks, Unarmed, TimerBase
    <3>2. due[2] >= 1 /\ 2 \in TL!Timers
      BY <3>1, IntervalType DEF OnTime
    <3>3. 2 \notin TL!Unheard
      BY <1>2, <3>2 DEF TL!Unheard, TimerBase, Watching
    <3>4. due[2] # 1
      <4> SUFFICES ASSUME due[2] = 1 PROVE FALSE
        OBVIOUS
      <4>1. pending[2] < MaxBehind
        BY <3>2, <3>3 DEF TL!Tick
      <4> QED
        BY <1>1, <2>1, <3>1, <3>2, <4>1
    <3>5. pending[2] = 0 /\ due'[2] = due[2] - 1
      BY <1>1, <2>1, <3>1, <3>2, <3>4
    <3>6. waited + due[2] <= TL!Interval(2) /\ TL!Interval(2) \in Nat
      BY <2>1, <3>5, IntervalType DEF Timely, Prompt
    <3>7. waited' <= waited + 1 /\ waited' \in Nat
      BY <1>1, <3>1
    <3> QED
      BY <3>1, <3>5, <3>6, <3>7
  <2>2. TL!Interval(2)' = TL!Interval(2)
    BY IntervalType
  <2>3. tpc # "select" => waited' = waited
    BY <1>1
  <2> QED
    BY <1>1, <1>2, <2>1, <2>2, <2>3 DEF Timely, Prompt, InRead
<1> QED
  BY <1>4, <1>5, ClocksTick DEF Timely

LEMMA DivUnique ==
    ASSUME NEW a \in Nat, NEW b \in Nat, b > 0, NEW q \in Nat, q * b <= a, a < q * b + b
    PROVE  a \div b = q
<1> DEFINE d == a \div b
<1>1. d \in Int /\ d * b <= a /\ a < d * b + b
  OBVIOUS
<1> HIDE DEF d
<1>2. ASSUME d < q PROVE FALSE
  <2>1. (d + 1) * b <= q * b /\ (d + 1) * b = d * b + b
    BY <1>1, <1>2
  <2> QED
    BY <1>1, <2>1
<1>3. ASSUME d > q PROVE FALSE
  <2>1. (q + 1) * b <= d * b /\ (q + 1) * b = q * b + b
    BY <1>1, <1>3
  <2> QED
    BY <1>1, <2>1
<1> QED
  BY <1>1, <1>2, <1>3 DEF d

\* The count of a timer that is watched is the number of its periods begun.
LEMMA CountIs ==
    ASSUME Positive, TimerBase, Clocks, NEW t \in TL!Heard
    PROVE  Expired(t) = (age[t] + TL!Interval(t) - 1) \div TL!Interval(t)
<1> USE TimersAre
<1> DEFINE I == TL!Interval(t)
           a == age[t] + I - 1
<1>1. t \in TL!Timers /\ I \in Nat /\ I >= 1 /\ age[t] \in Nat /\ due[t] \in Nat /\ Expired(t) \in Nat
  BY HeardAre, IntervalType DEF TimerBase, Expired
<1>2. a \in Nat /\ I > 0
  BY <1>1
<1>3. Expired(t) * I <= a /\ a < Expired(t) * I + I
  <2>1. CASE t \in Unarmed
    <3>1. Expired(t) = 0 /\ age[t] = 0
      BY <2>1 DEF Clocks, Idle, Expired
    <3>2. Expired(t) * I = 0
      BY <1>1, <3>1, Products
    <3> HIDE DEF I
    <3> QED
      BY <1>1, <3>1, <3>2
  <2>2. CASE t \notin Unarmed
    <3>1. Expired(t) * I = age[t] + due[t] - 1 /\ due[t] >= 1 /\ due[t] <= I
      BY <1>1, <2>2 DEF Clocks, OnTime
    <3> HIDE DEF I
    <3> QED
      BY <1>1, <3>1
  <2> QED
    BY <2>1, <2>2
<1> HIDE DEF I, a
<1>4. a \div I = Expired(t)
  BY <1>1, <1>2, <1>3, DivUnique
<1> QED
  BY <1>4 DEF I, a

LEMMA Scale ==
    ASSUME NEW m \in Nat, NEW n \in Nat, NEW s \in Nat, s >= 1, NEW p \in Nat,
           m * (s * p) < n * s
    PROVE  m * p < n
<1> DEFINE q == m * p
<1>1. q \in Nat /\ m * (s * p) = q * s
  OBVIOUS
<1> HIDE DEF q
<1>2. q * s < n * s
  BY <1>1
<1>3. n <= q => n * s <= q * s
  BY <1>1
<1> QED
  BY <1>1, <1>2, <1>3 DEF q

\* ms1 was armed first and is the fastest: no timer is ahead of its share of it.
LEMMA NeverAhead ==
    ASSUME Positive, TimerBase, Clocks, ~TL!Misordered, NEW t \in TL!Timers
    PROVE  (Expired(t) - 1) * TL!Periods(t) < Expired(1)
<1> USE TimersAre
<1> DEFINE I == TL!Interval(t)
           p == TL!Periods(t)
<1>1. /\ I \in Nat /\ I >= 1 /\ p \in Nat /\ p >= 1 /\ I = Step * p /\ TL!Interval(1) = Step
      /\ Step \in Nat /\ Step >= 1
  BY IntervalType DEF Positive
<1>2. Expired(t) \in Nat /\ Expired(1) \in Nat /\ age[t] \in Nat /\ age[1] \in Nat
      /\ due[t] \in Nat /\ due[1] \in Nat
  BY DEF Expired, TimerBase
<1>3. t \in TL!Heard /\ 1 \in TL!Heard
  BY HeardAre
<1>4. CASE Expired(t) = 0
  <2>1. Expired(t) - 1 = -1
    BY <1>4
  <2> HIDE DEF p
  <2>2. (-1) * p < 0
    BY <1>1
  <2>3. (Expired(t) - 1) * p < 0
    BY <2>1, <2>2
  <2> DEFINE m == (Expired(t) - 1) * p
  <2>4. m \in Int /\ m < 0
    BY <1>1, <1>2, <2>3
  <2> HIDE DEF m
  <2>5. m < Expired(1)
    BY <1>2, <2>4
  <2> QED
    BY <2>5 DEF m, p
<1>5. CASE Expired(t) > 0
  <2>1. t \notin Unarmed /\ 1 \notin Unarmed
    <3>1. t \notin Unarmed
      BY <1>5 DEF Clocks, Idle, Expired
    <3> QED
      BY <3>1 DEF Unarmed
  <2>2. Expired(t) * I = age[t] + due[t] - 1 /\ due[t] <= I /\ due[t] >= 1
    BY <1>1, <1>3, <2>1 DEF Clocks, OnTime
  <2>3. Expired(1) * Step = age[1] + due[1] - 1 /\ due[1] >= 1
    BY <1>1, <1>3, <2>1 DEF Clocks, OnTime
  <2>4. age[t] <= age[1]
    BY <1>2, <1>3 DEF Clocks
  <2> DEFINE m == Expired(t) - 1
  <2>5. m \in Nat /\ Expired(t) * I = m * I + I
    BY <1>1, <1>2, <1>5
  <2> HIDE DEF I, p, m
  <2>6. m * I \in Nat /\ Expired(1) * Step \in Nat
    BY <1>1, <1>2, <2>5
  <2>7. m * I < Expired(1) * Step
    BY <1>1, <1>2, <2>2, <2>3, <2>4, <2>5, <2>6
  <2>8. m * (Step * p) < Expired(1) * Step
    BY <1>1, <2>7
  <2>9. m * p < Expired(1)
    BY <1>1, <1>2, <2>5, <2>8, Scale
  <2> QED
    BY <2>9 DEF m, p
<1> QED
  BY <1>2, <1>4, <1>5

LEMMA TimelySound == ASSUME Positive, Initialised, TimerBase, Timely
                     PROVE  TL!CountsAgree /\ TL!NoFalseWatchdog /\ TL!EachTimerReported
<1> USE TimersAre
<1>1. TL!CountsAgree
  <2>1. \A t \in TL!Heard : t \in TL!Timers
    BY HeardAre
  <2>2. \A t \in TL!Timers : [u \in TL!Timers |-> reports[u] + pending[u]][t] = Expired(t)
    BY DEF Expired
  <2>3. \A t \in TL!Heard : Expired(t) = (age[t] + TL!Interval(t) - 1) \div TL!Interval(t)
    BY CountIs DEF Timely
  <2>4. ~TL!Misordered => \A t \in TL!Timers : (Expired(t) - 1) * TL!Periods(t) < Expired(1)
    BY NeverAhead DEF Timely
  <2> HIDE TimersAre
  <2> QED
    BY <2>1, <2>2, <2>3, <2>4, TimersAre DEF TL!CountsAgree, TL!ms1
<1>2. ASSUME tpc = "done", NEW t \in TL!Timers PROVE reports[t] > 0 <=> t \in TL!Heard
  BY <1>2 DEF Timely, Progress, Clocks, Returned, Awaiting, ToRead
<1> QED
  BY <1>1, <1>2 DEF Timely, Progress, TL!NoFalseWatchdog, TL!EachTimerReported

TimerInv == TimerBase /\ (Initialised => Timely)

LEMMA TimerInit == ASSUME Positive, TL!Init PROVE TimerInv
  BY TimerBaseInit, TimelyInit DEF TimerInv

LEMMA TimerNext == ASSUME Positive, TimerInv, [TL!Next]_(TL!vars) PROVE TimerInv'
<1> USE DEF TimerInv
<1>1. TimerBase'
  BY TimerBaseNext
<1>2. ASSUME Initialised PROVE Timely'
  <2>1. CASE UNCHANGED TL!vars
    <3>1. UNCHANGED <<tpc, fd, due, period, pending, reports, age, currfds, test, rc, waited>>
      BY <2>1 DEF TL!vars
    <3>2. Clocks'
      BY <1>2, <3>1, ClocksSame DEF Timely, Unarmed
    <3>3. TL!Heard' = TL!Heard /\ TL!Timers' = TL!Timers /\ TL!Interval(2)' = TL!Interval(2)
      BY <3>1, HeardSame, IntervalType, TimersAre DEF TL!Timers, TL!ms1, TL!ms10, TL!ms100
    <3>4. Progress' /\ Prompt'
      BY <1>2, <3>1, <3>3 DEF Timely, Progress, Prompt, InRead, Returned, TL!InLoop, Awaiting, ToRead
    <3> QED
      BY <3>2, <3>4 DEF Timely
  <2> QED
    BY <1>2, <2>1, TimelyCreate, TimelySettime, TimelyStep, TimelySelect, TimelyRead, TimelyTick
       DEF TL!Next, TL!Thread
<1> QED
  BY <1>1, <1>2

LEMMA TimerImplies == ASSUME Positive, TimerInv PROVE TL!TimersSound
<1>1. TL!AllWatched
  BY WatchedAre DEF TimerInv, TL!AllWatched
<1>2. Initialised => TL!CountsAgree /\ TL!NoFalseWatchdog /\ TL!EachTimerReported
  BY TimelySound DEF TimerInv
<1> QED
  BY <1>1, <1>2, TimerNeverBlocks
     DEF TimerInv, TL!TimersSound, TL!CountsAgree, TL!NoFalseWatchdog, TL!EachTimerReported

(* For any periods, any number of rounds and any bound on the backlog, and  *)
(* whatever descriptors the kernel hands out: every round watches the three *)
(* timers, or all but ms1 in the one order highfd is wrong for, and the     *)
(* thread never blocks in read.  With the intervals filled in, a watchdog   *)
(* longer than the period of ms10 and two rounds at least, no expiration of *)
(* a watched timer goes unreported however far apart the timers were armed, *)
(* no watchdog is false, and a full run has heard of each.                  *)
THEOREM TimersSoundHolds ==
    ASSUME Ratio \in Nat, Ratio >= 2, Step \in Nat, Step >= 1, Durations \subseteq Nat,
           MaxBehind \in Nat, MaxBehind >= 1, Rounds \in Nat, Reported \in Nat, Patience \in Nat,
           Initialised => Rounds >= 2 /\ Patience >= Step * Ratio
    PROVE  TL!Safe => []TL!TimersSound
<1>1. Positive
  BY DEF Positive
<1> QED
  BY <1>1, TimerInit, TimerNext, TimerImplies, PTL DEF TL!Safe

----------------------------------------------------------------------------
(* ClientThreads *)

SomeClients == NumPairs \in Nat /\ NumPairs >= 1 /\ Items \in Nat /\ Capacity \in Nat

\* main: the queue it stored last, and which threads it has started.
MainOK ==
    /\ mpc \in {<<"setup", 1>>, <<"destroy", 0>>, <<"failed", 0>>, <<"exit", 0>>}
               \cup ({"queue", "writer", "reader", "join"} \X C!Pairs)
    /\ ringbuf \in 0 .. NumPairs
    /\ mpc[1] = "setup" => ringbuf = 0
    /\ mpc[1] = "queue" => ringbuf = mpc[2] - 1
    /\ mpc[1] \in {"writer", "reader"} => ringbuf = mpc[2]
    /\ \A p \in C!Pairs : /\ wpc[p] # "none" => p <= ringbuf /\ (mpc[1] = "writer" => p < mpc[2])
                          /\ rpc[p] # "none" => p <= ringbuf /\ (mpc[1] \in {"writer", "reader"} => p < mpc[2])

\* The threads: a writer holds no queue made before its own pair's.
ThreadsOK ==
    /\ wpc \in [C!Pairs -> {"none", "store", "load", "enqueue", "done"}]
    /\ rpc \in [C!Pairs -> {"none", "load", "dequeue", "done"}]
    /\ wi \in [C!Pairs -> C!Indices]
    /\ wq \in [C!Pairs -> Int] /\ rq \in [C!Pairs -> Int] /\ last \in [C!Pairs -> Int]
    /\ \A p \in C!Pairs : /\ wpc[p] = "enqueue" => wq[p] \in C!Pairs /\ wq[p] >= p
                          /\ rpc[p] = "dequeue" => rq[p] \in C!Pairs

Records == {C!Empty} \cup {C!Filled(k) : k \in C!Indices}

\* Every record a queue points to, or a writer is about to enqueue, is filled in.
DataOK ==
    /\ data \in [C!Indices -> Records]
    /\ queues \in [C!Pairs -> Seq(C!Indices)]
    /\ \A q \in C!Pairs : Len(queues[q]) <= Capacity
    /\ \A q \in C!Pairs : \A n \in DOMAIN queues[q] : data[queues[q][n]] = C!Filled(queues[q][n])
    /\ \A p \in C!Pairs : wpc[p] \in {"load", "enqueue"} => data[wi[p]] = C!Filled(wi[p])
    /\ blank = FALSE

\* The first queue: rising, above what was taken, below what writer 1 writes next.
OrderOK ==
    /\ Rising(queues[1])
    /\ \A n \in DOMAIN queues[1] : last[1] < queues[1][n]
    /\ wpc[1] # "done" => last[1] < wi[1] /\ \A n \in DOMAIN queues[1] : queues[1][n] < wi[1]

ClientInv == MainOK /\ ThreadsOK /\ DataOK /\ OrderOK /\ C!FinalsAccounted

LEMMA PairsAre == ASSUME SomeClients PROVE C!Pairs = 1 .. NumPairs /\ 1 \in C!Pairs /\ IsFiniteSet(C!Pairs)
  BY FS_Interval DEF C!Pairs, SomeClients

LEMMA FirstIntegers ==
    ASSUME SomeClients, ThreadsOK
    PROVE  last[1] \in Int /\ wi[1] \in Int
<1>1. 1 \in C!Pairs
  BY PairsAre
<1>2. last[1] \in Int
  BY <1>1 DEF ThreadsOK
<1>3. wi[1] \in 0 .. Items /\ Items \in Nat
  BY <1>1 DEF ThreadsOK, C!Indices, SomeClients
<1> QED
  BY <1>2, <1>3

LEMMA FinalsFinite ==
    ASSUME SomeClients
    PROVE  IsFiniteSet(C!FinalsQueued) /\ Cardinality(C!FinalsQueued) \in Nat
<1>1. IsFiniteSet(C!Pairs) /\ IsFiniteSet(1 .. Capacity)
  BY PairsAre, FS_Interval DEF SomeClients
<1>2. IsFiniteSet(C!Pairs \X (1 .. Capacity))
  BY <1>1, FS_Product
<1>3. C!FinalsQueued \in SUBSET (C!Pairs \X (1 .. Capacity))
  BY DEF C!FinalsQueued
<1> QED
  BY <1>2, <1>3, FS_Subset, FS_CardinalityType

LEMMA DoneFinite ==
    ASSUME SomeClients, NEW pcs PROVE IsFiniteSet(C!Done(pcs)) /\ Cardinality(C!Done(pcs)) \in Nat
<1>1. C!Done(pcs) \in SUBSET C!Pairs
  BY DEF C!Done
<1> QED
  BY <1>1, PairsAre, FS_Subset, FS_CardinalityType

LEMMA OneMoreDone ==
    ASSUME SomeClients, NEW old, NEW new, NEW p \in C!Pairs, old[p] # "done",
           \A r \in C!Pairs : r # p => new[r] = old[r]
    PROVE  Cardinality(C!Done(new)) = Cardinality(C!Done(old)) + (IF new[p] = "done" THEN 1 ELSE 0)
<1>1. IsFiniteSet(C!Done(old)) /\ Cardinality(C!Done(old)) \in Nat /\ p \notin C!Done(old)
  BY DoneFinite DEF C!Done
<1>2. CASE new[p] = "done"
  <2>1. C!Done(new) = C!Done(old) \cup {p}
    BY <1>2 DEF C!Done
  <2> QED
    BY <1>1, <1>2, <2>1, FS_AddElement
<1>3. CASE new[p] # "done"
  <2>1. C!Done(new) = C!Done(old)
    BY <1>3 DEF C!Done
  <2> QED
    BY <1>1, <1>3, <2>1
<1> QED
  BY <1>2, <1>3

\* The sums of FinalsAccounted, in the terms of this module.
LEMMA FinalsBalance ==
    /\ C!FinalsAccounted
       <=> Cardinality(C!FinalsQueued) + Cardinality(C!Done(rpc)) = Cardinality(C!Done(wpc))
    /\ C!FinalsAccounted'
       <=> Cardinality(C!FinalsQueued') + Cardinality(C!Done(rpc')) = Cardinality(C!Done(wpc'))
<1>1. \A X : C!Cardinality(X) = Cardinality(X)
  BY DEF C!Cardinality, Cardinality
<1> QED
  BY <1>1 DEF C!FinalsAccounted

LEMMA ClientInit == ASSUME SomeClients, C!Init PROVE ClientInv
<1> USE PairsAre
<1>1. MainOK
  <2>1. mpc = <<"setup", 1>> /\ mpc[1] = "setup" /\ ringbuf = 0
    BY DEF C!Init
  <2>2. 0 \in 0 .. NumPairs
    BY DEF SomeClients
  <2>3. \A p \in C!Pairs : wpc[p] = "none" /\ rpc[p] = "none"
    BY DEF C!Init
  <2> QED
    BY <2>1, <2>2, <2>3 DEF MainOK
<1>2. ThreadsOK
  BY DEF ThreadsOK, C!Init, C!Indices, SomeClients
<1>3. \A q \in C!Pairs : queues[q] = <<>> /\ DOMAIN queues[q] = {} /\ Len(queues[q]) = 0
  BY DEF C!Init
<1>4. DataOK
  <2>1. queues \in [C!Pairs -> Seq(C!Indices)]
    BY DEF C!Init
  <2>2. data \in [C!Indices -> Records]
    BY DEF C!Init, Records
  <2> QED
    BY <1>3, <2>1, <2>2 DEF DataOK, C!Init, SomeClients
<1>5. OrderOK
  BY <1>3 DEF OrderOK, C!Init, Rising
<1>6. C!FinalsAccounted
  <2>1. C!FinalsQueued = {}
    BY <1>3 DEF C!FinalsQueued
  <2>2. C!Done(rpc) = {} /\ C!Done(wpc) = {}
    BY DEF C!Done, C!Init
  <2> QED
    BY <2>1, <2>2, FS_EmptySet, FinalsBalance
<1> QED
  BY <1>1, <1>2, <1>4, <1>5, <1>6 DEF ClientInv

LEMMA IndexSeqs ==
    ASSUME SomeClients, NEW s \in Seq(C!Indices)
    PROVE  s \in Seq(Int) /\ \A n \in DOMAIN s : s[n] \in C!Indices /\ s[n] \in Int
<1>1. C!Indices \subseteq Int
  BY DEF C!Indices, SomeClients
<1>2. Len(s) \in Nat /\ DOMAIN s = 1 .. Len(s) /\ s \in [1 .. Len(s) -> C!Indices]
  BY LenProperties
<1>3. s \in [1 .. Len(s) -> Int]
  BY <1>1, <1>2
<1> QED
  BY <1>1, <1>2, <1>3, SeqDef

\* Where main is: <<step, pair>> while it starts or joins threads.
LEMMA MainAt ==
    ASSUME MainOK, mpc[1] \in {"queue", "writer", "reader", "join"}
    PROVE  mpc[2] \in C!Pairs
<1>1. mpc \in {"queue", "writer", "reader", "join"} \X C!Pairs
  BY DEF MainOK
<1> QED
  BY <1>1

LEMMA MainOKNext ==
    ASSUME SomeClients, MainOK, ThreadsOK, C!Main \/ C!JoinFails
    PROVE  MainOK'
<1> USE PairsAre
<1> DEFINE m == mpc[2]
<1>1. NumPairs \in Nat /\ NumPairs >= 1 /\ ringbuf \in 0 .. NumPairs
  BY DEF SomeClients, MainOK
<1>2. ASSUME mpc' = <<"failed", 0>>, UNCHANGED ringbuf, wpc' = wpc, rpc' = rpc PROVE MainOK'
  <2>1. mpc'[1] = "failed"
    BY <1>2
  <2> QED
    BY <1>2, <2>1 DEF MainOK
<1>3. CASE C!MainSetup
  <2>1. UNCHANGED <<ringbuf, wpc, rpc>> /\ ringbuf = 0
    BY <1>3 DEF C!MainSetup, C!wvars, C!rvars, MainOK
  <2>2. CASE mpc' = <<"queue", 1>>
    <3>1. mpc'[1] = "queue" /\ mpc'[2] = 1 /\ mpc' \in {"queue", "writer", "reader", "join"} \X C!Pairs
      BY <2>2
    <3> QED
      BY <2>1, <3>1 DEF MainOK
  <2> QED
    BY <1>2, <1>3, <2>1, <2>2 DEF C!MainSetup, C!Fail
<1>4. CASE C!CreateQueue
  <2>1. UNCHANGED <<wpc, rpc>> /\ ringbuf' = m /\ mpc' = <<"writer", m>> /\ mpc[1] = "queue"
    BY <1>4 DEF C!CreateQueue, C!wvars, C!rvars
  <2>2. m \in C!Pairs /\ ringbuf = m - 1
    BY <2>1, MainAt DEF MainOK
  <2>3. mpc'[1] = "writer" /\ mpc'[2] = m /\ mpc' \in {"queue", "writer", "reader", "join"} \X C!Pairs
    BY <2>1, <2>2
  <2>4. \A p \in C!Pairs : (wpc[p] # "none" \/ rpc[p] # "none") => p < m
    BY <1>1, <2>2 DEF MainOK
  <2> HIDE DEF m
  <2> QED
    BY <1>1, <2>1, <2>2, <2>3, <2>4 DEF MainOK
<1>5. CASE C!CreateWriter
  <2>1. mpc[1] = "writer" /\ UNCHANGED <<ringbuf, rpc>>
    BY <1>5 DEF C!CreateWriter, C!rvars
  <2>2. m \in C!Pairs /\ ringbuf = m
    BY <2>1, MainAt DEF MainOK
  <2>3. CASE mpc' = <<"reader", m>> /\ wpc' = [wpc EXCEPT ![m] = "store"]
    <3>1. mpc'[1] = "reader" /\ mpc'[2] = m /\ mpc' \in {"queue", "writer", "reader", "join"} \X C!Pairs
      BY <2>2, <2>3
    <3>2. \A p \in C!Pairs : wpc'[p] # "none" => p <= m
      BY <1>1, <2>1, <2>2, <2>3 DEF MainOK, ThreadsOK
    <3>3. \A p \in C!Pairs : rpc[p] # "none" => p < m
      BY <2>1, <2>2 DEF MainOK
    <3> HIDE DEF m
    <3> QED
      BY <1>1, <2>1, <2>2, <3>1, <3>2, <3>3 DEF MainOK
  <2> QED
    BY <1>2, <1>5, <2>1, <2>3 DEF C!CreateWriter, C!Fail
<1>6. CASE C!CreateReader
  <2>1. mpc[1] = "reader" /\ UNCHANGED <<ringbuf, wpc>>
    BY <1>6 DEF C!CreateReader, C!wvars
  <2>2. m \in C!Pairs /\ ringbuf = m
    BY <2>1, MainAt DEF MainOK
  <2>3. CASE mpc' = (IF m = NumPairs THEN <<"destroy", 0>> ELSE <<"queue", m + 1>>)
             /\ rpc' = [rpc EXCEPT ![m] = "load"]
    <3>1. /\ mpc' \in {<<"destroy", 0>>} \cup ({"queue", "writer", "reader", "join"} \X C!Pairs)
          /\ mpc'[1] \in {"destroy", "queue"} /\ (mpc'[1] = "queue" => mpc'[2] = m + 1)
      BY <1>1, <2>2, <2>3
    <3>2. \A p \in C!Pairs : (wpc[p] # "none" \/ rpc'[p] # "none") => p <= m
      BY <1>1, <2>1, <2>2, <2>3 DEF MainOK, ThreadsOK
    <3> HIDE DEF m
    <3> QED
      BY <1>1, <2>1, <2>2, <3>1, <3>2 DEF MainOK
  <2> QED
    BY <1>2, <1>6, <2>1, <2>3 DEF C!CreateReader, C!Fail
<1>7. CASE C!Join
  <2>1. mpc[1] = "join" /\ UNCHANGED <<ringbuf, wpc, rpc>>
        /\ mpc' = (IF m = NumPairs THEN <<"exit", 0>> ELSE <<"join", m + 1>>)
    BY <1>7 DEF C!Join, C!wvars, C!rvars
  <2>2. m \in C!Pairs
    BY <2>1, MainAt
  <2>3. /\ mpc' \in {<<"exit", 0>>} \cup ({"queue", "writer", "reader", "join"} \X C!Pairs)
        /\ mpc'[1] \in {"exit", "join"}
    BY <1>1, <2>1, <2>2
  <2> HIDE DEF m
  <2> QED
    BY <2>1, <2>3 DEF MainOK
<1>8. CASE C!DestroyAttr \/ C!JoinFails
  <2>1. UNCHANGED <<ringbuf, wpc, rpc>> /\ (mpc' = <<"failed", 0>> \/ mpc' = <<"join", 1>>)
    BY <1>8 DEF C!DestroyAttr, C!JoinFails, C!Fail, C!wvars, C!rvars
  <2>2. CASE mpc' = <<"join", 1>>
    <3>1. mpc'[1] = "join" /\ mpc' \in {"queue", "writer", "reader", "join"} \X C!Pairs
      BY <2>2
    <3> QED
      BY <2>1, <3>1 DEF MainOK
  <2> QED
    BY <1>2, <2>1, <2>2
<1> QED
  BY <1>3, <1>4, <1>5, <1>6, <1>7, <1>8 DEF C!Main

LEMMA ClientMain ==
    ASSUME SomeClients, ClientInv, C!Main \/ C!JoinFails
    PROVE  ClientInv' /\ UNCHANGED last
<1> USE PairsAre
<1> DEFINE m == mpc[2]
<1>1. MainOK'
  BY MainOKNext DEF ClientInv
<1>2. UNCHANGED <<queues, data, wi, wq, rq, last, blank>>
  BY DEF C!Main, C!MainSetup, C!CreateQueue, C!CreateWriter, C!CreateReader, C!DestroyAttr, C!Join,
      C!JoinFails, C!wvars, C!rvars
<1>3. /\ \/ wpc' = wpc
         \/ mpc[1] = "writer" /\ m \in C!Pairs /\ wpc' = [wpc EXCEPT ![m] = "store"]
      /\ \/ rpc' = rpc
         \/ mpc[1] = "reader" /\ m \in C!Pairs /\ rpc' = [rpc EXCEPT ![m] = "load"]
  BY MainAt DEF C!Main, C!MainSetup, C!CreateQueue, C!CreateWriter, C!CreateReader, C!DestroyAttr, C!Join,
      C!JoinFails, C!wvars, C!rvars, ClientInv
<1>4. /\ mpc[1] = "writer" /\ m \in C!Pairs => wpc[m] = "none"
      /\ mpc[1] = "reader" /\ m \in C!Pairs => rpc[m] = "none"
  <2>1. m \in C!Pairs => ~(m < m)
    OBVIOUS
  <2> QED
    BY <2>1 DEF ClientInv, MainOK
<1> HIDE DEF m
<1>5. /\ wpc' \in [C!Pairs -> {"none", "store", "load", "enqueue", "done"}]
      /\ \A p \in C!Pairs : wpc'[p] = wpc[p] \/ (wpc[p] = "none" /\ wpc'[p] = "store")
  <2>1. wpc \in [C!Pairs -> {"none", "store", "load", "enqueue", "done"}]
    BY DEF ClientInv, ThreadsOK
  <2> QED
    BY <1>3, <1>4, <2>1
<1>6. /\ rpc' \in [C!Pairs -> {"none", "load", "dequeue", "done"}]
      /\ \A p \in C!Pairs : rpc'[p] = rpc[p] \/ (rpc[p] = "none" /\ rpc'[p] = "load")
  <2>1. rpc \in [C!Pairs -> {"none", "load", "dequeue", "done"}]
    BY DEF ClientInv, ThreadsOK
  <2> QED
    BY <1>3, <1>4, <2>1
<1>7. ThreadsOK'
  BY <1>2, <1>5, <1>6 DEF ClientInv, ThreadsOK
<1>8. DataOK'
  <2>1. \A p \in C!Pairs : wpc'[p] \in {"load", "enqueue"} => wpc'[p] = wpc[p]
    BY <1>5
  <2> QED
    BY <1>2, <2>1 DEF ClientInv, DataOK
<1>9. OrderOK'
  BY <1>2, <1>5 DEF ClientInv, OrderOK
<1>10. C!FinalsAccounted'
  <2>1. C!FinalsQueued' = C!FinalsQueued
    BY <1>2 DEF C!FinalsQueued
  <2>2. C!Done(wpc') = C!Done(wpc)
    BY <1>5 DEF C!Done
  <2>3. C!Done(rpc') = C!Done(rpc)
    BY <1>6 DEF C!Done
  <2> QED
    BY <2>1, <2>2, <2>3, FinalsBalance DEF ClientInv
<1> QED
  BY <1>1, <1>2, <1>7, <1>8, <1>9, <1>10 DEF ClientInv

\* A step of a thread that main has started leaves main as it is.
LEMMA MainOKThreads ==
    ASSUME MainOK, UNCHANGED <<mpc, ringbuf>>,
           \A p \in C!Pairs : /\ wpc'[p] # "none" => wpc[p] # "none"
                              /\ rpc'[p] # "none" => rpc[p] # "none"
    PROVE  MainOK'
  BY DEF MainOK

LEMMA ClientWStore ==
    ASSUME SomeClients, ClientInv, NEW p \in C!Pairs, C!WStore(p)
    PROVE  ClientInv' /\ UNCHANGED last
<1> USE PairsAre
<1>1. /\ UNCHANGED <<mpc, ringbuf, queues, wi, wq, rpc, rq, last, blank>>
      /\ wpc[p] = "store" /\ wpc' = [wpc EXCEPT ![p] = "load"]
      /\ data' = [data EXCEPT ![wi[p]] = C!Filled(wi[p])]
  BY DEF C!WStore, C!rvars
<1>2. ThreadsOK /\ DataOK
  BY DEF ClientInv
<1>3. MainOK'
  BY <1>1, MainOKThreads DEF ClientInv, ThreadsOK
<1>4. ThreadsOK'
  BY <1>1, <1>2 DEF ThreadsOK
<1>5. DataOK'
  <2>1. wi[p] \in C!Indices /\ wi \in [C!Pairs -> C!Indices] /\ C!Filled(wi[p]) \in Records
    BY <1>2 DEF ThreadsOK, Records
  <2>2. data \in [C!Indices -> Records] /\ queues \in [C!Pairs -> Seq(C!Indices)]
    BY <1>2 DEF DataOK
  <2>3. data' \in [C!Indices -> Records] /\ data'[wi[p]] = C!Filled(wi[p])
    BY <1>1, <2>1, <2>2
  <2>4. \A k \in C!Indices : data[k] = C!Filled(k) => data'[k] = C!Filled(k)
    BY <1>1, <2>1, <2>2
  <2>5. \A q \in C!Pairs : \A n \in DOMAIN queues[q] : queues[q][n] \in C!Indices
    BY <2>2, ElementOfSeq, LenProperties
  <2>6. \A r \in C!Pairs : wpc'[r] \in {"load", "enqueue"} => data'[wi[r]] = C!Filled(wi[r])
    BY <1>1, <1>2, <2>1, <2>3, <2>4 DEF DataOK, ThreadsOK
  <2> QED
    BY <1>1, <1>2, <2>3, <2>4, <2>5, <2>6 DEF DataOK
<1>6. OrderOK'
  BY <1>1, <1>2 DEF ClientInv, OrderOK, ThreadsOK
<1>7. C!FinalsAccounted'
  <2>1. C!FinalsQueued' = C!FinalsQueued
    BY <1>1 DEF C!FinalsQueued
  <2>2. C!Done(wpc') = C!Done(wpc)
    BY <1>1, <1>2 DEF C!Done, ThreadsOK
  <2> QED
    BY <1>1, <2>1, <2>2, FinalsBalance DEF ClientInv
<1> QED
  BY <1>1, <1>3, <1>4, <1>5, <1>6, <1>7 DEF ClientInv

LEMMA ClientLoad ==
    ASSUME SomeClients, ClientInv, NEW p \in C!Pairs, C!WLoad(p) \/ C!RLoad(p)
    PROVE  ClientInv' /\ UNCHANGED last
<1> USE PairsAre
<1>1. /\ UNCHANGED <<mpc, ringbuf, queues, data, wi, last, blank>>
      /\ \/ /\ wpc[p] = "load" /\ wpc' = [wpc EXCEPT ![p] = "enqueue"]
            /\ wq' = [wq EXCEPT ![p] = ringbuf] /\ UNCHANGED <<rpc, rq>>
         \/ /\ rpc[p] = "load" /\ rpc' = [rpc EXCEPT ![p] = "dequeue"]
            /\ rq' = [rq EXCEPT ![p] = ringbuf] /\ UNCHANGED <<wpc, wq>>
  BY DEF C!WLoad, C!RLoad, C!wvars, C!rvars
<1>2. ThreadsOK /\ DataOK /\ MainOK
  BY DEF ClientInv
<1>3. MainOK'
  BY <1>1, <1>2, MainOKThreads DEF ThreadsOK
<1>4. ringbuf \in C!Pairs /\ ringbuf >= p /\ ringbuf \in Int
  BY <1>1, <1>2 DEF MainOK, SomeClients
<1>5. /\ ThreadsOK'
      /\ \A r \in C!Pairs : wpc'[r] \in {"load", "enqueue"} => wpc[r] \in {"load", "enqueue"}
      /\ \A r \in C!Pairs : (wpc'[r] = "done" <=> wpc[r] = "done") /\ (rpc'[r] = "done" <=> rpc[r] = "done")
  <2>1. CASE /\ wpc[p] = "load" /\ wpc' = [wpc EXCEPT ![p] = "enqueue"]
             /\ wq' = [wq EXCEPT ![p] = ringbuf] /\ UNCHANGED <<rpc, rq>>
    <3>1. \A r \in C!Pairs : wpc'[r] = IF r = p THEN "enqueue" ELSE wpc[r]
      BY <1>2, <2>1 DEF ThreadsOK
    <3>2. \A r \in C!Pairs : wq'[r] = IF r = p THEN ringbuf ELSE wq[r]
      BY <1>2, <2>1 DEF ThreadsOK
    <3>3. /\ wpc' \in [C!Pairs -> {"none", "store", "load", "enqueue", "done"}]
          /\ wq' \in [C!Pairs -> Int]
      BY <1>2, <1>4, <2>1 DEF ThreadsOK
    <3> QED
      BY <1>1, <1>2, <1>4, <2>1, <3>1, <3>2, <3>3 DEF ThreadsOK
  <2>2. CASE /\ rpc[p] = "load" /\ rpc' = [rpc EXCEPT ![p] = "dequeue"]
             /\ rq' = [rq EXCEPT ![p] = ringbuf] /\ UNCHANGED <<wpc, wq>>
    <3>1. \A r \in C!Pairs : rpc'[r] = IF r = p THEN "dequeue" ELSE rpc[r]
      BY <1>2, <2>2 DEF ThreadsOK
    <3>2. \A r \in C!Pairs : rq'[r] = IF r = p THEN ringbuf ELSE rq[r]
      BY <1>2, <2>2 DEF ThreadsOK
    <3>3. /\ rpc' \in [C!Pairs -> {"none", "load", "dequeue", "done"}]
          /\ rq' \in [C!Pairs -> Int]
      BY <1>2, <1>4, <2>2 DEF ThreadsOK
    <3> QED
      BY <1>1, <1>2, <1>4, <2>2, <3>1, <3>2, <3>3 DEF ThreadsOK
  <2> QED
    BY <1>1, <2>1, <2>2
<1>6. /\ \A r \in C!Pairs : wpc'[r] \in {"load", "enqueue"} => wpc[r] \in {"load", "enqueue"}
      /\ \A r \in C!Pairs : (wpc'[r] = "done" <=> wpc[r] = "done") /\ (rpc'[r] = "done" <=> rpc[r] = "done")
  BY <1>5
<1>7. DataOK'
  BY <1>1, <1>2, <1>6 DEF DataOK
<1>8. OrderOK'
  BY <1>1, <1>6 DEF ClientInv, OrderOK
<1>9. C!FinalsAccounted'
  <2>1. C!FinalsQueued' = C!FinalsQueued
    BY <1>1 DEF C!FinalsQueued
  <2>2. C!Done(wpc') = C!Done(wpc) /\ C!Done(rpc') = C!Done(rpc)
    BY <1>6 DEF C!Done
  <2> QED
    BY <2>1, <2>2, FinalsBalance DEF ClientInv
<1> QED
  BY <1>1, <1>3, <1>5, <1>7, <1>8, <1>9 DEF ClientInv

\* Where the final records wait.
LEMMA FinalsAt ==
    ASSUME NEW e
    PROVE  e \in C!FinalsQueued <=>
              \E r \in C!Pairs, n \in 1 .. Capacity :
                  e = <<r, n>> /\ n <= Len(queues[r]) /\ queues[r][n] = Items
  BY DEF C!FinalsQueued

LEMMA FinalsAtNext ==
    ASSUME NEW e
    PROVE  e \in C!FinalsQueued' <=>
              \E r \in C!Pairs, n \in 1 .. Capacity :
                  e = <<r, n>> /\ n <= Len(queues'[r]) /\ queues'[r][n] = Items
  BY DEF C!FinalsQueued, C!Pairs

LEMMA FinalsFiniteNext ==
    ASSUME SomeClients
    PROVE  IsFiniteSet(C!FinalsQueued') /\ Cardinality(C!FinalsQueued') \in Nat
<1>1. IsFiniteSet(C!Pairs) /\ IsFiniteSet(1 .. Capacity)
  BY PairsAre, FS_Interval DEF SomeClients
<1>2. IsFiniteSet(C!Pairs \X (1 .. Capacity))
  BY <1>1, FS_Product
<1>3. C!FinalsQueued' \in SUBSET (C!Pairs \X (1 .. Capacity))
  BY FinalsAtNext
<1> QED
  BY <1>2, <1>3, FS_Subset, FS_CardinalityType

LEMMA FinalsAppend ==
    ASSUME SomeClients, DataOK, NEW q \in C!Pairs, NEW w \in C!Indices, Len(queues[q]) < Capacity,
           queues' = [queues EXCEPT ![q] = Append(@, w)]
    PROVE  Cardinality(C!FinalsQueued') = Cardinality(C!FinalsQueued) + (IF w = Items THEN 1 ELSE 0)
<1> USE PairsAre
<1> DEFINE s == queues[q]
           e == <<q, Len(s) + 1>>
<1>1. queues \in [C!Pairs -> Seq(C!Indices)] /\ s \in Seq(C!Indices) /\ Capacity \in Nat
  BY DEF DataOK, SomeClients
<1>2. Len(s) \in Nat /\ DOMAIN s = 1 .. Len(s)
  BY <1>1, LenProperties
<1>3. /\ Len(Append(s, w)) = Len(s) + 1 /\ Append(s, w)[Len(s) + 1] = w
      /\ \A n \in 1 .. Len(s) : Append(s, w)[n] = s[n]
  BY <1>1, AppendProperties
<1>4. \A r \in C!Pairs : queues'[r] = IF r = q THEN Append(s, w) ELSE queues[r]
  BY <1>1
<1>5. IsFiniteSet(C!FinalsQueued) /\ Cardinality(C!FinalsQueued) \in Nat /\ e \notin C!FinalsQueued
  BY <1>2, FinalsFinite, FinalsAt
<1> HIDE DEF s
<1>6. ASSUME NEW r \in C!Pairs, NEW n \in 1 .. Capacity
      PROVE  <<r, n>> \in C!FinalsQueued' <=>
                <<r, n>> \in C!FinalsQueued \/ (<<r, n>> = e /\ w = Items)
  <2>1. <<r, n>> \in C!FinalsQueued' <=> n <= Len(queues'[r]) /\ queues'[r][n] = Items
    BY FinalsAtNext
  <2>2. <<r, n>> \in C!FinalsQueued <=> n <= Len(queues[r]) /\ queues[r][n] = Items
    BY FinalsAt
  <2>3. CASE r # q
    BY <1>4, <2>1, <2>2, <2>3
  <2>4. CASE r = q
    <3>1. queues[r] = s /\ queues'[r] = Append(s, w)
      BY <1>4, <2>4 DEF s
    <3>2. CASE n = Len(s) + 1
      BY <1>2, <1>3, <2>1, <2>2, <2>4, <3>1, <3>2
    <3>3. CASE n # Len(s) + 1
      <4>1. <<r, n>> # e
        BY <3>3
      <4>2. n \in 1 .. Len(s) <=> n <= Len(s) + 1
        BY <1>2, <3>3
      <4>3. n \in 1 .. Len(s) <=> n <= Len(s)
        BY <1>2
      <4> QED
        BY <1>3, <2>1, <2>2, <3>1, <4>1, <4>2, <4>3
    <3> QED
      BY <3>2, <3>3
  <2> QED
    BY <2>3, <2>4
<1>7. e \in C!Pairs \X (1 .. Capacity)
  BY <1>1, <1>2 DEF s
<1> HIDE DEF e
<1>8. C!FinalsQueued \subseteq C!Pairs \X (1 .. Capacity) /\ C!FinalsQueued' \subseteq C!Pairs \X (1 .. Capacity)
  BY FinalsAt, FinalsAtNext
<1>9. CASE w = Items
  <2>1. C!FinalsQueued' = C!FinalsQueued \cup {e}
    BY <1>6, <1>7, <1>8, <1>9
  <2> QED
    BY <1>5, <1>9, <2>1, FS_AddElement
<1>10. CASE w # Items
  <2>1. \A x \in C!Pairs \X (1 .. Capacity) : x \in C!FinalsQueued' <=> x \in C!FinalsQueued
    BY <1>6, <1>10
  <2>2. C!FinalsQueued' = C!FinalsQueued
    BY <1>8, <2>1
  <2> QED
    BY <1>5, <1>10, <2>2
<1> QED
  BY <1>9, <1>10

LEMMA FinalsTail ==
    ASSUME SomeClients, DataOK, NEW q \in C!Pairs, queues[q] # <<>>,
           queues' = [queues EXCEPT ![q] = Tail(@)]
    PROVE  Cardinality(C!FinalsQueued)
              = Cardinality(C!FinalsQueued') + (IF Head(queues[q]) = Items THEN 1 ELSE 0)
<1> USE PairsAre
<1> DEFINE s == queues[q]
           F == C!FinalsQueued
           G == F \ {<<q, 1>>}
           H == C!FinalsQueued'
           g == [e \in G |-> IF e[1] = q THEN <<q, e[2] - 1>> ELSE e]
<1>1. queues \in [C!Pairs -> Seq(C!Indices)] /\ s \in Seq(C!Indices) /\ Capacity \in Nat /\ Len(s) <= Capacity
  BY DEF DataOK, SomeClients
<1>2. Len(s) \in Nat /\ Len(s) >= 1
  BY <1>1, LenProperties, EmptySeq
<1>3. /\ Head(s) = s[1] /\ Len(Tail(s)) = Len(s) - 1
      /\ \A n \in 1 .. Len(s) - 1 : Tail(s)[n] = s[n + 1]
  <2>1. Len(Tail(s)) = Len(s) - 1 /\ \A n \in 1 .. Len(Tail(s)) : Tail(s)[n] = s[n + 1]
    BY <1>1, HeadTailProperties
  <2> QED
    BY <1>1, <2>1, HeadTailProperties
<1>4. \A r \in C!Pairs : queues'[r] = IF r = q THEN Tail(s) ELSE queues[r]
  BY <1>1
<1>5. IsFiniteSet(F) /\ Cardinality(F) \in Nat /\ IsFiniteSet(H) /\ Cardinality(H) \in Nat
  BY FinalsFinite, FinalsFiniteNext
<1>6. <<q, 1>> \in F <=> Head(s) = Items
  <2>1. <<q, 1>> \in F <=> 1 <= Len(queues[q]) /\ queues[q][1] = Items /\ 1 <= Capacity
    BY FinalsAt
  <2> QED
    BY <1>1, <1>2, <1>3, <2>1
<1>7. IsFiniteSet(G) /\ Cardinality(F) = Cardinality(G) + (IF Head(s) = Items THEN 1 ELSE 0)
  <2>1. IsFiniteSet(G) /\ Cardinality(G) = IF <<q, 1>> \in F THEN Cardinality(F) - 1 ELSE Cardinality(F)
    BY <1>5, FS_RemoveElement
  <2> QED
    BY <1>5, <1>6, <2>1
<1>8. ASSUME NEW r \in C!Pairs, r # q, NEW n \in 1 .. Capacity
      PROVE  <<r, n>> \in G <=> <<r, n>> \in H
  <2>1. <<r, n>> \in F <=> n <= Len(queues[r]) /\ queues[r][n] = Items
    BY FinalsAt
  <2>2. <<r, n>> \in H <=> n <= Len(queues'[r]) /\ queues'[r][n] = Items
    BY FinalsAtNext
  <2>3. queues'[r] = queues[r] /\ <<r, n>> # <<q, 1>>
    BY <1>4, <1>8
  <2> QED
    BY <2>1, <2>2, <2>3
<1>9. ASSUME NEW n \in 1 .. Capacity
      PROVE  /\ <<q, n>> \in G => n - 1 \in 1 .. Capacity /\ <<q, n - 1>> \in H
             /\ <<q, n>> \in H => n + 1 \in 1 .. Capacity /\ <<q, n + 1>> \in G
  <2>1. ASSUME NEW k \in 1 .. Capacity
        PROVE  /\ <<q, k>> \in F <=> k <= Len(s) /\ s[k] = Items
               /\ <<q, k>> \in H <=> k <= Len(s) - 1 /\ Tail(s)[k] = Items
    <3>1. <<q, k>> \in F <=> k <= Len(queues[q]) /\ queues[q][k] = Items
      BY FinalsAt
    <3>2. <<q, k>> \in H <=> k <= Len(queues'[q]) /\ queues'[q][k] = Items
      BY FinalsAtNext
    <3> QED
      BY <1>3, <1>4, <3>1, <3>2
  <2>2. ASSUME <<q, n>> \in G PROVE n - 1 \in 1 .. Capacity /\ <<q, n - 1>> \in H
    <3>1. n # 1 /\ n <= Len(s) /\ s[n] = Items
      BY <2>1, <2>2
    <3>2. n - 1 \in 1 .. Capacity /\ n - 1 \in 1 .. Len(s) - 1 /\ (n - 1) + 1 = n /\ n - 1 <= Len(s) - 1
      BY <1>1, <1>2, <3>1
    <3>3. Tail(s)[n - 1] = Items
      BY <1>3, <3>1, <3>2
    <3> QED
      BY <2>1, <3>2, <3>3
  <2>3. ASSUME <<q, n>> \in H PROVE n + 1 \in 1 .. Capacity /\ <<q, n + 1>> \in G
    <3>1. n <= Len(s) - 1 /\ Tail(s)[n] = Items
      BY <2>1, <2>3
    <3>2. n + 1 \in 1 .. Capacity /\ n \in 1 .. Len(s) - 1 /\ n + 1 <= Len(s) /\ n + 1 # 1
      BY <1>1, <1>2, <3>1
    <3>3. s[n + 1] = Items
      BY <1>3, <3>1, <3>2
    <3>4. <<q, n + 1>> \in F /\ <<q, n + 1>> # <<q, 1>>
      BY <2>1, <3>2, <3>3
    <3> QED
      BY <3>2, <3>4
  <2> QED
    BY <2>2, <2>3
<1>10. G \subseteq C!Pairs \X (1 .. Capacity) /\ H \subseteq C!Pairs \X (1 .. Capacity)
  BY FinalsAt, FinalsAtNext
<1> HIDE DEF s, F, G, H
<1>11. g \in [G -> H]
  <2> SUFFICES ASSUME NEW e \in G PROVE (IF e[1] = q THEN <<q, e[2] - 1>> ELSE e) \in H
    OBVIOUS
  <2>1. PICK r \in C!Pairs, n \in 1 .. Capacity : e = <<r, n>>
    BY <1>10
  <2> QED
    BY <1>8, <1>9, <2>1
<1>12. ASSUME NEW a \in G, NEW b \in G, g[a] = g[b] PROVE a = b
  <2>1. PICK r \in C!Pairs, n \in 1 .. Capacity : a = <<r, n>>
    BY <1>10
  <2>2. PICK t \in C!Pairs, k \in 1 .. Capacity : b = <<t, k>>
    BY <1>10
  <2>3. g[a] = (IF r = q THEN <<q, n - 1>> ELSE <<r, n>>) /\ g[b] = (IF t = q THEN <<q, k - 1>> ELSE <<t, k>>)
    BY <2>1, <2>2
  <2>4. g[a][1] = r /\ g[b][1] = t /\ g[a][2] = (IF r = q THEN n - 1 ELSE n) /\ g[b][2] = (IF t = q THEN k - 1 ELSE k)
    BY <2>3
  <2>5. r = t /\ n = k
    BY <1>1, <1>12, <2>4
  <2> QED
    BY <2>1, <2>2, <2>5
<1>13. ASSUME NEW h \in H PROVE \E e \in G : g[e] = h
  <2>1. PICK r \in C!Pairs, n \in 1 .. Capacity : h = <<r, n>>
    BY <1>10
  <2>2. CASE r = q
    <3>0. <<q, n>> \in H
      BY <2>1, <2>2
    <3>1. <<q, n + 1>> \in G
      BY <1>9, <3>0
    <3>2. (n + 1) - 1 = n
      BY <1>1
    <3>3. g[<<q, n + 1>>] = <<q, n>>
      BY <3>1, <3>2
    <3> QED
      BY <2>1, <2>2, <3>1, <3>3
  <2>3. CASE r # q
    <3>1. <<r, n>> \in G
      BY <1>8, <2>1, <2>3
    <3> QED
      BY <2>1, <2>3, <3>1
  <2> QED
    BY <2>2, <2>3
<1> HIDE DEF g
<1>14. g \in Bijection(G, H)
  BY <1>11, <1>12, <1>13, Fun_IsBij
<1>15. Cardinality(H) = Cardinality(G)
  BY <1>7, <1>14, Fun_ExistsBij, FS_Bijection
<1> QED
  BY <1>7, <1>15 DEF F, H, s

LEMMA ClientWEnqueue ==
    ASSUME SomeClients, ClientInv, NEW p \in C!Pairs, C!WEnqueue(p)
    PROVE  ClientInv' /\ UNCHANGED last
<1> USE PairsAre
<1> DEFINE q == wq[p]
           w == wi[p]
           room == Len(queues[q]) < Capacity
           next == IF w < Items THEN "store" ELSE IF room THEN "done" ELSE "load"
<1>1. /\ UNCHANGED <<mpc, ringbuf, data, wq, rpc, rq, last, blank>>
      /\ wpc[p] = "enqueue" /\ wpc' = [wpc EXCEPT ![p] = next]
      /\ queues' = IF room THEN [queues EXCEPT ![q] = Append(@, w)] ELSE queues
      /\ wi' = IF w < Items THEN [wi EXCEPT ![p] = @ + 1] ELSE wi
  BY DEF C!WEnqueue, C!rvars
<1>2. ThreadsOK /\ DataOK /\ OrderOK /\ MainOK
  BY DEF ClientInv
<1>3. q \in C!Pairs /\ q >= p /\ w \in C!Indices /\ w \in Int /\ w <= Items /\ Items \in Nat
  BY <1>1, <1>2 DEF ThreadsOK, C!Indices, SomeClients
<1>4. /\ wpc' \in [C!Pairs -> {"none", "store", "load", "enqueue", "done"}]
      /\ \A r \in C!Pairs : wpc'[r] = IF r = p THEN next ELSE wpc[r]
  BY <1>1, <1>2 DEF ThreadsOK
<1>5. /\ wi' \in [C!Pairs -> C!Indices]
      /\ \A r \in C!Pairs : wi'[r] = IF r = p /\ w < Items THEN w + 1 ELSE wi[r]
  BY <1>1, <1>2, <1>3 DEF ThreadsOK, C!Indices
<1>6. /\ queues' \in [C!Pairs -> Seq(C!Indices)]
      /\ \A r \in C!Pairs : queues'[r] = IF r = q /\ room THEN Append(queues[q], w) ELSE queues[r]
  <2>1. queues \in [C!Pairs -> Seq(C!Indices)]
    BY <1>2 DEF DataOK
  <2>2. Append(queues[q], w) \in Seq(C!Indices)
    BY <1>3, <2>1, AppendFacts
  <2> QED
    BY <1>1, <1>3, <2>1, <2>2
<1>7. /\ queues[q] \in Seq(C!Indices) /\ Len(queues[q]) \in Nat /\ DOMAIN queues[q] = 1 .. Len(queues[q])
      /\ Len(Append(queues[q], w)) = Len(queues[q]) + 1
      /\ DOMAIN Append(queues[q], w) = DOMAIN queues[q] \cup {Len(queues[q]) + 1}
      /\ \A n \in DOMAIN queues[q] : Append(queues[q], w)[n] = queues[q][n]
      /\ Append(queues[q], w)[Len(queues[q]) + 1] = w
  <2>1. queues[q] \in Seq(C!Indices)
    BY <1>2, <1>3 DEF DataOK
  <2> QED
    BY <1>3, <2>1, AppendFacts, AppendProperties, LenProperties
<1>8. MainOK'
  BY <1>1, <1>2, <1>4, MainOKThreads
<1>9. ThreadsOK'
  BY <1>1, <1>2, <1>4, <1>5 DEF ThreadsOK
<1> HIDE DEF q, w
<1>10. DataOK'
  <2>1. data[w] = C!Filled(w)
    BY <1>1, <1>2 DEF DataOK, w
  <2>2. \A r \in C!Pairs : Len(queues'[r]) <= Capacity
    BY <1>2, <1>6, <1>7 DEF DataOK, SomeClients
  <2>3. \A r \in C!Pairs : \A n \in DOMAIN queues'[r] : data[queues'[r][n]] = C!Filled(queues'[r][n])
    <3> SUFFICES ASSUME NEW r \in C!Pairs, NEW n \in DOMAIN queues'[r]
                 PROVE  data[queues'[r][n]] = C!Filled(queues'[r][n])
      OBVIOUS
    <3>1. CASE r = q /\ room
      BY <1>2, <1>6, <1>7, <2>1, <3>1 DEF DataOK
    <3>2. CASE ~(r = q /\ room)
      BY <1>2, <1>6, <3>2 DEF DataOK
    <3> QED
      BY <3>1, <3>2
  <2>4. \A r \in C!Pairs : wpc'[r] \in {"load", "enqueue"} => data[wi'[r]] = C!Filled(wi'[r])
    <3> SUFFICES ASSUME NEW r \in C!Pairs, wpc'[r] \in {"load", "enqueue"}
                 PROVE  data[wi'[r]] = C!Filled(wi'[r])
      OBVIOUS
    <3>1. CASE r = p
      <4>1. ~(w < Items)
        BY <1>4, <3>1
      <4> QED
        BY <1>5, <2>1, <3>1, <4>1 DEF w
    <3>2. CASE r # p
      BY <1>2, <1>4, <1>5, <3>2 DEF DataOK
    <3> QED
      BY <3>1, <3>2
  <2> QED
    BY <1>1, <1>2, <1>6, <2>2, <2>3, <2>4 DEF DataOK
<1>11. OrderOK'
  <2>1. last[1] \in Int /\ wi[1] \in Int /\ queues[1] \in Seq(Int) /\ \A n \in DOMAIN queues[1] : queues[1][n] \in Int
    <3>1. last[1] \in Int /\ wi[1] \in Int
      BY <1>2, FirstIntegers
    <3>2. queues[1] \in Seq(C!Indices)
      BY <1>2 DEF DataOK
    <3> QED
      BY <3>1, <3>2, IndexSeqs
  <2>2. CASE p # 1
    <3>1. q # 1
      BY <1>3, <2>2
    <3> QED
      BY <1>1, <1>2, <1>4, <1>5, <1>6, <2>2, <3>1 DEF OrderOK
  <2>3. CASE p = 1
    <3>1. /\ w = wi[1] /\ last[1] < w /\ \A n \in DOMAIN queues[1] : queues[1][n] < w
          /\ Rising(queues[1]) /\ \A n \in DOMAIN queues[1] : last[1] < queues[1][n]
      BY <1>1, <1>2, <2>3 DEF OrderOK, w
    <3>2. CASE queues'[1] = queues[1]
      BY <1>1, <1>4, <1>5, <2>1, <2>3, <3>1, <3>2 DEF OrderOK
    <3>3. CASE queues'[1] # queues[1]
      <4>1. q = 1 /\ room /\ queues'[1] = Append(queues[1], w)
        BY <1>6, <3>3
      <4>2. Rising(queues'[1])
        BY <1>3, <2>1, <3>1, <4>1, RisingAppend
      <4>3. \A n \in DOMAIN queues'[1] : last[1] < queues'[1][n] /\ queues'[1][n] <= w
        BY <1>3, <1>7, <2>1, <3>1, <4>1
      <4>4. \A n \in DOMAIN queues'[1] : queues'[1][n] \in Int
        BY <1>3, <1>7, <2>1, <4>1
      <4>5. wpc'[1] # "done" => wi'[1] = w + 1
        BY <1>4, <1>5, <2>3, <4>1
      <4>6. wpc'[1] # "done" => last[1] < wi'[1] /\ \A n \in DOMAIN queues'[1] : queues'[1][n] < wi'[1]
        BY <1>3, <2>1, <3>1, <4>3, <4>4, <4>5
      <4> QED
        BY <1>1, <4>2, <4>3, <4>6 DEF OrderOK
    <3> QED
      BY <3>2, <3>3
  <2> QED
    BY <2>2, <2>3
<1>12. C!FinalsAccounted'
  <2>1. Cardinality(C!Done(wpc')) = Cardinality(C!Done(wpc)) + (IF next = "done" THEN 1 ELSE 0)
    <3>1. wpc[p] # "done" /\ \A r \in C!Pairs : r # p => wpc'[r] = wpc[r]
      BY <1>1, <1>4
    <3>2. wpc'[p] = next
      BY <1>4
    <3> HIDE DEF next
    <3> QED
      BY <3>1, <3>2, OneMoreDone
  <2>2. next = "done" <=> room /\ w = Items
    BY <1>3
  <2>3. Cardinality(C!FinalsQueued') = Cardinality(C!FinalsQueued) + (IF next = "done" THEN 1 ELSE 0)
    <3>1. CASE room
      <4>1. Cardinality(C!FinalsQueued') = Cardinality(C!FinalsQueued) + (IF w = Items THEN 1 ELSE 0)
        BY <1>1, <1>2, <1>3, <3>1, FinalsAppend
      <4> QED
        BY <2>2, <3>1, <4>1
    <3>2. CASE ~room
      <4>1. C!FinalsQueued' = C!FinalsQueued
        BY <1>1, <3>2 DEF C!FinalsQueued
      <4> QED
        BY <2>2, <3>2, <4>1, FinalsFinite
    <3> QED
      BY <3>1, <3>2
  <2>4. /\ Cardinality(C!Done(wpc)) \in Nat /\ Cardinality(C!Done(rpc)) \in Nat
        /\ Cardinality(C!FinalsQueued) \in Nat /\ C!Done(rpc') = C!Done(rpc)
    BY <1>1, DoneFinite, FinalsFinite
  <2> HIDE DEF next
  <2> QED
    BY <2>1, <2>3, <2>4, FinalsBalance DEF ClientInv
<1> QED
  BY <1>1, <1>8, <1>9, <1>10, <1>11, <1>12 DEF ClientInv

LEMMA ClientRDequeue ==
    ASSUME SomeClients, ClientInv, NEW p \in C!Pairs, C!RDequeue(p)
    PROVE  ClientInv' /\ C!Rises
<1> USE PairsAre
<1> DEFINE q == rq[p]
           h == Head(queues[q])
<1>1. UNCHANGED <<mpc, ringbuf, data, wpc, wi, wq, rq>> /\ rpc[p] = "dequeue"
  BY DEF C!RDequeue, C!wvars
<1>2. ThreadsOK /\ DataOK /\ OrderOK /\ MainOK
  BY DEF ClientInv
<1>3. q \in C!Pairs /\ queues[q] \in Seq(C!Indices)
  BY <1>1, <1>2 DEF ThreadsOK, DataOK
<1>4. CASE queues[q] = <<>>
  <2>1. rpc' = [rpc EXCEPT ![p] = "load"] /\ UNCHANGED <<queues, last, blank>>
    BY <1>4 DEF C!RDequeue
  <2>2. /\ rpc' \in [C!Pairs -> {"none", "load", "dequeue", "done"}]
        /\ \A r \in C!Pairs : rpc'[r] = IF r = p THEN "load" ELSE rpc[r]
    BY <1>2, <2>1 DEF ThreadsOK
  <2>3. MainOK'
    BY <1>1, <1>2, <2>2, MainOKThreads
  <2>4. ThreadsOK' /\ DataOK' /\ OrderOK'
    BY <1>1, <1>2, <2>1, <2>2 DEF ThreadsOK, DataOK, OrderOK
  <2>5. C!FinalsQueued' = C!FinalsQueued
    BY <2>1 DEF C!FinalsQueued
  <2>6. C!Done(rpc') = C!Done(rpc)
    BY <1>1, <2>2 DEF C!Done
  <2>7. C!FinalsAccounted'
    BY <1>1, <2>5, <2>6, FinalsBalance DEF ClientInv
  <2> QED
    BY <2>1, <2>3, <2>4, <2>7 DEF ClientInv, C!Rises
<1>5. CASE queues[q] # <<>>
  <2>1. /\ queues' = [queues EXCEPT ![q] = Tail(@)]
        /\ rpc' = [rpc EXCEPT ![p] = IF data[h].flags = 1 THEN "done" ELSE "load"]
        /\ last' = IF q = 1 /\ p = 1 THEN [last EXCEPT ![p] = h] ELSE last
        /\ blank' = (blank \/ data[h] # C!Filled(h))
    BY <1>5 DEF C!RDequeue
  <2>2. /\ Tail(queues[q]) \in Seq(C!Indices) /\ h = queues[q][1] /\ 1 \in DOMAIN queues[q] /\ h \in C!Indices
        /\ Len(Tail(queues[q])) = Len(queues[q]) - 1 /\ Len(queues[q]) \in Nat
        /\ \A n \in DOMAIN Tail(queues[q]) : n + 1 \in DOMAIN queues[q] /\ Tail(queues[q])[n] = queues[q][n + 1]
    BY <1>3, <1>5, TailFacts, LenProperties
  <2>3. h \in Int /\ data[h] = C!Filled(h) /\ (data[h].flags = 1 <=> h = Items)
    <3>1. data[h] = C!Filled(h)
      BY <1>2, <1>3, <2>2 DEF DataOK
    <3>2. h \in Int
      BY <2>2 DEF C!Indices, SomeClients
    <3> HIDE DEF h
    <3> QED
      BY <3>1, <3>2 DEF C!Filled
  <2>4. /\ queues' \in [C!Pairs -> Seq(C!Indices)]
        /\ \A r \in C!Pairs : queues'[r] = IF r = q THEN Tail(queues[q]) ELSE queues[r]
    BY <1>2, <1>3, <2>1, <2>2 DEF DataOK
  <2>5. /\ rpc' \in [C!Pairs -> {"none", "load", "dequeue", "done"}]
        /\ \A r \in C!Pairs : rpc'[r] = IF r = p THEN (IF h = Items THEN "done" ELSE "load") ELSE rpc[r]
    BY <1>2, <2>1, <2>3 DEF ThreadsOK
  <2>6. /\ last' \in [C!Pairs -> Int]
        /\ last'[1] = IF q = 1 /\ p = 1 THEN h ELSE last[1]
    BY <1>2, <2>1, <2>3 DEF ThreadsOK
  <2>7. MainOK'
    BY <1>1, <1>2, <2>5, MainOKThreads
  <2> HIDE DEF h
  <2>8. ThreadsOK'
    BY <1>1, <1>2, <2>5, <2>6 DEF ThreadsOK
  <2>9. DataOK'
    <3>1. \A r \in C!Pairs : Len(queues'[r]) <= Capacity
      BY <1>2, <1>3, <2>2, <2>4 DEF DataOK, SomeClients
    <3>2. \A r \in C!Pairs : \A n \in DOMAIN queues'[r] : data[queues'[r][n]] = C!Filled(queues'[r][n])
      <4> SUFFICES ASSUME NEW r \in C!Pairs, NEW n \in DOMAIN queues'[r]
                   PROVE  data[queues'[r][n]] = C!Filled(queues'[r][n])
        OBVIOUS
      <4>1. CASE r = q
        <5>1. queues'[r] = Tail(queues[q])
          BY <2>4, <4>1
        <5>2. n + 1 \in DOMAIN queues[q] /\ queues'[r][n] = queues[q][n + 1]
          BY <2>2, <5>1
        <5>3. data[queues[q][n + 1]] = C!Filled(queues[q][n + 1])
          BY <1>2, <1>3, <5>2 DEF DataOK
        <5> QED
          BY <5>2, <5>3
      <4>2. CASE r # q
        BY <1>2, <2>4, <4>2 DEF DataOK
      <4> QED
        BY <4>1, <4>2
    <3>3. blank' = FALSE
      BY <1>2, <2>1, <2>3 DEF DataOK
    <3> QED
      BY <1>1, <1>2, <2>4, <3>1, <3>2, <3>3 DEF DataOK
  <2>10. OrderOK' /\ C!Rises
    <3>1. /\ last[1] \in Int /\ wi[1] \in Int /\ queues[1] \in Seq(Int)
          /\ \A n \in DOMAIN queues[1] : queues[1][n] \in Int
      <4>1. queues[1] \in Seq(C!Indices)
        BY <1>2 DEF DataOK
      <4>2. last[1] \in Int /\ wi[1] \in Int
        BY <1>2, FirstIntegers
      <4> QED
        BY <4>1, <4>2, IndexSeqs
    <3>2. CASE q # 1
      <4>1. queues'[1] = queues[1] /\ last'[1] = last[1]
        BY <2>4, <2>6, <3>2
      <4> QED
        BY <1>1, <1>2, <4>1 DEF OrderOK, C!Rises
    <3>3. CASE q = 1
      <4>1. queues'[1] = Tail(queues[1]) /\ queues[1] # <<>>
        BY <1>5, <2>4, <3>3
      <4>2. Rising(queues'[1]) /\ \A n \in DOMAIN queues'[1] : n + 1 \in DOMAIN queues[1] /\ queues'[1][n] = queues[1][n + 1]
        BY <1>2, <2>2, <3>1, <3>3, <4>1, RisingTail DEF OrderOK
      <4>3. h = queues[1][1] /\ 1 \in DOMAIN queues[1] /\ last[1] < h
        BY <1>2, <2>2, <3>3 DEF OrderOK
      <4>4. \A n \in DOMAIN queues'[1] : h < queues'[1][n] /\ last[1] < queues'[1][n]
        <5> SUFFICES ASSUME NEW n \in DOMAIN queues'[1] PROVE h < queues'[1][n] /\ last[1] < queues'[1][n]
          OBVIOUS
        <5>1. n \in Nat /\ n >= 1
          BY <2>2, <3>3, <4>1, LenProperties
        <5>2. 1 < n + 1 /\ n + 1 \in DOMAIN queues[1]
          BY <4>2, <5>1
        <5>3. queues[1][1] < queues[1][n + 1] /\ last[1] < queues[1][n + 1]
          BY <1>2, <4>3, <5>2 DEF OrderOK, Rising
        <5> QED
          BY <4>2, <4>3, <5>3
      <4>5. last'[1] = h \/ last'[1] = last[1]
        BY <2>6
      <4>6. wpc'[1] # "done" => last'[1] < wi'[1] /\ \A n \in DOMAIN queues'[1] : queues'[1][n] < wi'[1]
        BY <1>1, <1>2, <4>2, <4>3, <4>5 DEF OrderOK
      <4>7. C!Rises
        BY <2>3, <3>1, <4>3, <4>5 DEF C!Rises
      <4> QED
        BY <4>2, <4>4, <4>5, <4>6, <4>7 DEF OrderOK
    <3> QED
      BY <3>2, <3>3
  <2>11. C!FinalsAccounted'
    <3>1. Cardinality(C!FinalsQueued) = Cardinality(C!FinalsQueued') + (IF h = Items THEN 1 ELSE 0)
      BY <1>2, <1>3, <1>5, <2>1, FinalsTail DEF h
    <3>2. rpc[p] # "done" /\ (\A r \in C!Pairs : r # p => rpc'[r] = rpc[r]) /\ (rpc'[p] = "done" <=> h = Items)
      BY <1>1, <2>5
    <3>3. Cardinality(C!Done(rpc')) = Cardinality(C!Done(rpc)) + (IF rpc'[p] = "done" THEN 1 ELSE 0)
      BY <3>2, OneMoreDone
    <3>4. /\ Cardinality(C!Done(wpc)) \in Nat /\ Cardinality(C!Done(rpc)) \in Nat
          /\ Cardinality(C!FinalsQueued') \in Nat /\ C!Done(wpc') = C!Done(wpc)
      BY <1>1, DoneFinite, FinalsFiniteNext
    <3> QED
      BY <3>1, <3>2, <3>3, <3>4, FinalsBalance DEF ClientInv
  <2> QED
    BY <2>7, <2>8, <2>9, <2>10, <2>11 DEF ClientInv
<1> QED
  BY <1>4, <1>5

LEMMA ClientNext ==
    ASSUME SomeClients, ClientInv, [C!Next]_(C!vars)
    PROVE  ClientInv' /\ [C!Rises]_(C!vars)
<1>1. CASE UNCHANGED C!vars
  <2>1. MainOK' /\ ThreadsOK' /\ DataOK' /\ OrderOK'
    BY <1>1 DEF C!vars, ClientInv, MainOK, ThreadsOK, DataOK, OrderOK
  <2>2. C!FinalsQueued' = C!FinalsQueued /\ rpc' = rpc /\ wpc' = wpc
    BY <1>1 DEF C!vars, C!FinalsQueued
  <2>3. C!FinalsAccounted'
    BY <2>2, FinalsBalance DEF ClientInv
  <2> QED
    BY <1>1, <2>1, <2>3 DEF ClientInv
<1>2. CASE UNCHANGED last /\ ClientInv'
  BY <1>2 DEF C!Rises
<1> QED
  BY <1>1, <1>2, ClientMain, ClientWStore, ClientLoad, ClientWEnqueue, ClientRDequeue
     DEF C!Next, C!Writer, C!Reader

LEMMA ClientImplies == ASSUME ClientInv PROVE C!NoBlankRecord /\ C!FinalsAccounted
  BY DEF ClientInv, DataOK, C!NoBlankRecord

(* For any number of pairs, of records and any capacity of the queues:      *)
(* although writers share one array and main replaces the queue under       *)
(* running threads, no reader meets a record not filled in, final records   *)
(* are neither lost nor made up, and the first reader's numbers from the    *)
(* first queue rise.                                                        *)
THEOREM ClientSoundHolds ==
    ASSUME NumPairs \in Nat, NumPairs >= 1, Items \in Nat, Capacity \in Nat
    PROVE  C!Safe => C!ClientSound
<1>1. SomeClients
  BY DEF SomeClients
<1> QED
  BY <1>1, ClientInit, ClientNext, ClientImplies, PTL DEF C!Safe, C!ClientSound, C!FirstQueueRises
=============================================================================
