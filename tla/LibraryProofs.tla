--------------------------- MODULE LibraryProofs ---------------------------
(***************************************************************************)
(* What the libraries promise, for every value of their constants: the     *)
(* socket helpers, the loggers, the timeval arithmetic, the address        *)
(* parser, numbers, prefixes, and text and back.                           *)
(***************************************************************************)
EXTENDS Libraries, FiniteSets, SequenceTheorems, WellFoundedInduction, TLAPS

----------------------------------------------------------------------------
(* Sequences and naturals *)

(* A function on 1..n is a sequence of length n. *)
LEMMA FunctionIsSeq ==
    ASSUME NEW S, NEW n \in Nat, NEW f \in [1 .. n -> S]
    PROVE  f \in Seq(S) /\ Len(f) = n
<1>1. f \in Seq(S)
  BY SeqDef
<1>2. DOMAIN f = 1 .. n
  OBVIOUS
<1>3. DOMAIN f = 1 .. Len(f) /\ Len(f) \in Nat
  BY <1>1, LenProperties
<1>4. Len(f) = n
  BY <1>2, <1>3
<1> QED
  BY <1>1, <1>4

(* A set of naturals that is not empty has a least element. *)
LEMMA LeastNatural ==
    ASSUME NEW T, T \subseteq Nat, T # {}
    PROVE  \E x \in T : \A v \in T : x <= v
<1> DEFINE R == OpToRel(<, Nat)
<1>1. IsWellFoundedOn(R, Nat)
  BY NatLessThanWellFounded
<1>2. R = {p \in Nat \X Nat : p[1] < p[2]}
  BY DEF OpToRel
<1> HIDE DEF R
<1>3. PICK x \in T : \A v \in T : ~ (<<v, x>> \in R)
  BY <1>1, WFMin
<1>4. ASSUME NEW v \in T PROVE x <= v
  <2>1. x \in Nat /\ v \in Nat
    OBVIOUS
  <2>2. v < x => <<v, x>> \in R
    BY <1>2, <2>1
  <2> QED
    BY <1>3, <2>1, <2>2
<1> QED
  BY <1>4

(* The pieces of a sequence, by their elements. *)
LEMMA PieceOf ==
    ASSUME NEW X, NEW t \in Seq(X), NEW a \in Nat, NEW b \in Nat, 1 <= a, a <= b + 1, b <= Len(t)
    PROVE  /\ SubSeq(t, a, b) \in Seq(X) /\ Len(SubSeq(t, a, b)) = b + 1 - a
           /\ \A k \in 1 .. b + 1 - a : SubSeq(t, a, b)[k] = t[a - 1 + k]
<1>0. Len(t) \in Nat
  BY LenProperties
<1>1. \A k \in a .. b : t[k] \in X
  BY <1>0, ElementOfSeq
<1>2. /\ SubSeq(t, a, b) \in Seq(X)
      /\ Len(SubSeq(t, a, b)) = IF a <= b THEN b - a + 1 ELSE 0
      /\ \A k \in 1 .. b - a + 1 : SubSeq(t, a, b)[k] = t[a + k - 1]
  BY <1>1, SubSeqProperties
<1>3. \A k \in 1 .. b + 1 - a : k \in 1 .. b - a + 1 /\ a + k - 1 = a - 1 + k
  OBVIOUS
<1>4. Len(SubSeq(t, a, b)) = b + 1 - a
  BY <1>2
<1> QED
  BY <1>2, <1>3, <1>4

PieceByElements(w, t, a, b) ==
    w = SubSeq(t, a, b) <=> Len(w) = b + 1 - a /\ \A k \in 1 .. b + 1 - a : w[k] = t[a - 1 + k]

LEMMA IsPiece ==
    ASSUME NEW X, NEW t \in Seq(X), NEW a \in Nat, NEW b \in Nat, 1 <= a, a <= b + 1, b <= Len(t),
           NEW w \in Seq(X)
    PROVE  PieceByElements(w, t, a, b)
<1>1. PICK r \in Seq(X) : r = SubSeq(t, a, b)
  BY PieceOf
<1>2. Len(r) = b + 1 - a /\ \A k \in 1 .. b + 1 - a : r[k] = t[a - 1 + k]
  BY <1>1, PieceOf
<1>3. ASSUME Len(w) = b + 1 - a, \A k \in 1 .. b + 1 - a : w[k] = t[a - 1 + k]
      PROVE  w = r
  BY <1>2, <1>3, SeqEqual
<1> QED
  BY <1>1, <1>2, <1>3 DEF PieceByElements

(* The elements of three sequences put together. *)
Join(u, m, p) == u \o m \o p

LEMMA JoinLen ==
    ASSUME NEW X, NEW a \in Seq(X), NEW m \in Seq(X), NEW p \in Seq(X)
    PROVE  Join(a, m, p) \in Seq(X) /\ Len(Join(a, m, p)) = Len(a) + Len(m) + Len(p)
  BY DEF Join

LEMMA JoinFirst ==
    ASSUME NEW X, NEW a \in Seq(X), NEW m \in Seq(X), NEW p \in Seq(X)
    PROVE  \A k \in 1 .. Len(a) : Join(a, m, p)[k] = a[k]
  BY DEF Join

LEMMA JoinMid ==
    ASSUME NEW X, NEW a \in Seq(X), NEW m \in Seq(X), NEW p \in Seq(X)
    PROVE  \A k \in 1 .. Len(m) : Join(a, m, p)[Len(a) + k] = m[k]
  BY DEF Join

(* Three sequences make up another when they have its elements. *)
JoinedByElements(u, m, p, t) ==
    Join(u, m, p) = t <=>
        /\ Len(t) = Len(u) + Len(m) + Len(p)
        /\ \A k \in 1 .. Len(u) : t[k] = u[k]
        /\ \A k \in 1 .. Len(m) : t[Len(u) + k] = m[k]
        /\ \A k \in 1 .. Len(p) : t[Len(u) + Len(m) + k] = p[k]

LEMMA JoinIs ==
    ASSUME NEW X, NEW u \in Seq(X), NEW m \in Seq(X), NEW p \in Seq(X), NEW t \in Seq(X)
    PROVE  JoinedByElements(u, m, p, t)
<1>0. \A k \in 1 .. Len(p) : Join(u, m, p)[Len(u) + Len(m) + k] = p[k]
  BY DEF Join
<1>1. PICK v \in Seq(X) : v = Join(u, m, p)
  BY JoinLen
<1>2. Len(v) = Len(u) + Len(m) + Len(p)
  BY <1>1, JoinLen
<1>3. \A k \in 1 .. Len(u) : v[k] = u[k]
  BY <1>1, JoinFirst
<1>4. \A k \in 1 .. Len(m) : v[Len(u) + k] = m[k]
  BY <1>1, JoinMid
<1>5. \A k \in 1 .. Len(p) : v[Len(u) + Len(m) + k] = p[k]
  BY <1>0, <1>1, Zenon
<1>6. PICK lu \in Nat, lm \in Nat, lp \in Nat : lu = Len(u) /\ lm = Len(m) /\ lp = Len(p)
  BY LenProperties
<1>7. ASSUME NEW k \in 1 .. lu + lm + lp, Len(t) = lu + lm + lp,
             \A j \in 1 .. lu : t[j] = u[j], \A j \in 1 .. lm : t[lu + j] = m[j],
             \A j \in 1 .. lp : t[lu + lm + j] = p[j]
      PROVE  v[k] = t[k]
  <2>1. CASE k \in 1 .. lu
    BY <1>3, <1>6, <1>7, <2>1
  <2>2. CASE k - lu \in 1 .. lm
    <3>1. PICK j \in 1 .. lm : k = lu + j
      BY <2>2
    <3>2. v[lu + j] = m[j] /\ t[lu + j] = m[j]
      BY <1>4, <1>6, <1>7
    <3> QED
      BY <3>1, <3>2
  <2>3. CASE k - (lu + lm) \in 1 .. lp
    <3>1. PICK j \in 1 .. lp : k = lu + lm + j
      BY <2>3
    <3>2. v[lu + lm + j] = p[j] /\ t[lu + lm + j] = p[j]
      BY <1>5, <1>6, <1>7
    <3> QED
      BY <3>1, <3>2
  <2>4. k \in 1 .. lu \/ k - lu \in 1 .. lm \/ k - (lu + lm) \in 1 .. lp
    OBVIOUS
  <2> QED
    BY <2>1, <2>2, <2>3, <2>4
<1>8. ASSUME Len(t) = lu + lm + lp,
             \A j \in 1 .. lu : t[j] = u[j], \A j \in 1 .. lm : t[lu + j] = m[j],
             \A j \in 1 .. lp : t[lu + lm + j] = p[j]
      PROVE  v = t
  <2>1. \A k \in 1 .. lu + lm + lp : v[k] = t[k]
    BY <1>7, <1>8
  <2>2. Len(v) = lu + lm + lp
    BY <1>2, <1>6
  <2> QED
    BY <1>8, <2>1, <2>2, SeqEqual
<1>9. v = t => /\ Len(t) = Len(u) + Len(m) + Len(p)
               /\ \A k \in 1 .. Len(u) : t[k] = u[k]
               /\ \A k \in 1 .. Len(m) : t[Len(u) + k] = m[k]
               /\ \A k \in 1 .. Len(p) : t[Len(u) + Len(m) + k] = p[k]
  BY <1>2, <1>3, <1>4, <1>5, Zenon
<1> QED
  BY <1>1, <1>6, <1>8, <1>9 DEF JoinedByElements

(* Two cuts of a sequence, each at an x with no x after it, are the same cut. *)
CutAt(x, t, p, n, la, lp) ==
    /\ n = la + 1 + lp /\ t[la + 1] = x
    /\ \A k \in 1 .. lp : t[la + 1 + k] = p[k]
    /\ \A k \in 1 .. lp : p[k] # x

LastAt(x, t, n, c) == c \in 1 .. n /\ t[c] = x /\ \A j \in c + 1 .. n : t[j] # x

LEMMA CutIsUnique ==
    ASSUME NEW x, NEW t, NEW p, NEW n \in Nat, NEW la \in Nat, NEW lp \in Nat, NEW c,
           CutAt(x, t, p, n, la, lp), LastAt(x, t, n, c)
    PROVE  la = c - 1 /\ lp = n - c
<1> USE DEF CutAt, LastAt
<1>1. la + 1 <= c
  OBVIOUS
<1>2. ASSUME la + 1 < c PROVE FALSE
  <2>1. PICK k \in 1 .. lp : la + 1 + k = c
    <3>1. c - (la + 1) \in 1 .. lp /\ la + 1 + (c - (la + 1)) = c
      BY <1>2
    <3> QED
      BY <3>1
  <2>2. t[la + 1 + k] = p[k] /\ p[k] # x
    OBVIOUS
  <2> QED
    BY <2>1, <2>2
<1> QED
  BY <1>1, <1>2

(* What follows position c of a sequence. *)
TailByElements(p, t, n, c) ==
    p = SubSeq(t, c + 1, n) <=> Len(p) = n - c /\ \A k \in 1 .. n - c : p[k] = t[c + k]

LEMMA TailIs ==
    ASSUME NEW X, NEW t \in Seq(X), NEW p \in Seq(X), NEW n \in Nat, n = Len(t), NEW c \in 0 .. n
    PROVE  TailByElements(p, t, n, c)
<1>1. PICK g \in Nat : g = c + 1
  OBVIOUS
<1>2. 1 <= g /\ g <= n + 1 /\ n <= Len(t) /\ n + 1 - g = n - c /\ g - 1 = c
  BY <1>1
<1>3. PieceByElements(p, t, g, n)
  BY <1>2, IsPiece
<1> QED
  BY <1>1, <1>2, <1>3 DEF PieceByElements, TailByElements

(* A sequence with z appended and written over the element at c. *)
LEMMA CutBuffer ==
    ASSUME NEW X, NEW z \in X, NEW t \in Seq(X), NEW n \in Nat, n = Len(t), NEW c \in 1 .. n
    PROVE  LET buf == [Append(t, z) EXCEPT ![c] = z]
           IN  /\ buf \in Seq(X) /\ Len(buf) = n + 1 /\ buf[c] = z /\ buf[n + 1] = z
               /\ \A k \in 1 .. n : k # c => buf[k] = t[k]
<1> DEFINE w == Append(t, z)
<1>1. w \in Seq(X) /\ Len(w) = n + 1 /\ w[n + 1] = z /\ \A k \in 1 .. n : w[k] = t[k]
  BY AppendProperties
<1> HIDE DEF w
<1> DEFINE buf == [w EXCEPT ![c] = z]
<1>2. c \in 1 .. Len(w)
  BY <1>1
<1>3. buf \in Seq(X) /\ Len(buf) = Len(w) /\ \A k \in 1 .. Len(w) : buf[k] = IF k = c THEN z ELSE w[k]
  BY <1>1, <1>2, ExceptSeq
<1>4. n + 1 \in 1 .. Len(w) /\ \A k \in 1 .. n : k \in 1 .. Len(w)
  BY <1>1
<1> HIDE DEF buf
<1>5. /\ buf \in Seq(X) /\ Len(buf) = n + 1 /\ buf[c] = z /\ buf[n + 1] = z
      /\ \A k \in 1 .. n : k # c => buf[k] = t[k]
  BY <1>1, <1>2, <1>3, <1>4
<1> QED
  BY <1>5 DEF buf, w

(* Short sequences. *)
IsOne(m, x) == m = <<x>> /\ Len(m) = 1 /\ m[1] = x
IsTwo(m, x, v) == m = <<x, v>> /\ Len(m) = 2 /\ m[1] = x /\ m[2] = v
IsCons(u, x, w) ==
    u = <<x>> \o w /\ Len(u) = Len(w) + 1 /\ u[1] = x /\ \A k \in 1 .. Len(w) : u[k + 1] = w[k]

LEMMA OneExists ==
    ASSUME NEW X, NEW x \in X
    PROVE  \E m \in Seq(X) : IsOne(m, x)
<1>1. <<x>> \in Seq(X) /\ Len(<<x>>) = 1 /\ <<x>>[1] = x
  OBVIOUS
<1> QED
  BY <1>1 DEF IsOne

LEMMA TwoExists ==
    ASSUME NEW X, NEW x \in X, NEW v \in X
    PROVE  \E m \in Seq(X) : IsTwo(m, x, v)
<1>1. <<x, v>> \in Seq(X) /\ Len(<<x, v>>) = 2 /\ <<x, v>>[1] = x /\ <<x, v>>[2] = v
  OBVIOUS
<1> QED
  BY <1>1 DEF IsTwo

LEMMA ConsExists ==
    ASSUME NEW X, NEW x \in X, NEW w \in Seq(X)
    PROVE  \E u \in Seq(X) : IsCons(u, x, w)
<1>1. PICK o \in Seq(X) : IsOne(o, x)
  BY OneExists
<1>2. /\ o \o w \in Seq(X) /\ Len(o \o w) = Len(o) + Len(w)
      /\ \A k \in 1 .. Len(o) + Len(w) : (o \o w)[k] = IF k <= Len(o) THEN o[k] ELSE w[k - Len(o)]
  BY ConcatProperties
<1>3. PICK l \in Nat : l = Len(w)
  BY LenProperties
<1>4. PICK u \in Seq(X) : u = o \o w
  BY <1>2
<1>5. Len(o) = 1 /\ o[1] = x /\ o = <<x>>
  BY <1>1 DEF IsOne
<1>6. Len(u) = 1 + l /\ \A k \in 1 .. 1 + l : u[k] = IF k <= 1 THEN o[k] ELSE w[k - 1]
  BY <1>2, <1>3, <1>4, <1>5
<1>7. ASSUME NEW k \in 1 .. l PROVE u[k + 1] = w[k]
  <2>1. k + 1 \in 1 .. 1 + l /\ ~(k + 1 <= 1) /\ k + 1 - 1 = k
    OBVIOUS
  <2> QED
    BY <1>6, <2>1
<1>8. u[1] = x
  BY <1>5, <1>6
<1>9. u = <<x>> \o w
  BY <1>4, <1>5
<1>10. Len(u) = Len(w) + 1 /\ \A k \in 1 .. Len(w) : u[k + 1] = w[k]
  BY <1>3, <1>6, <1>7
<1>11. IsCons(u, x, w)
  BY <1>8, <1>9, <1>10, Zenon DEF IsCons
<1> QED
  BY <1>11

----------------------------------------------------------------------------
(* A behaviour is a behaviour of the part chosen at the start. *)

LEMMA PartInit ==
    ASSUME Init
    PROVE  /\ unit = "time" => Time!Init
           /\ unit = "numbers" => Num!Init
           /\ unit = "small" => Small!Init
           /\ unit = "ip6" => Ip6!Init
           /\ unit = "text" => Text!Init
           /\ unit = "logger" => Log!Init
           /\ unit = "netlib" => Net!Init
           /\ unit = "addresses" => Addr!Init
  BY DEF Init

LEMMA PartNext ==
    ASSUME [Next]_vars
    PROVE  /\ unit' = unit
           /\ unit = "time" => [Time!Next]_(Time!vars)
           /\ unit = "numbers" => [Num!Next]_(Num!vars)
           /\ unit = "small" => [Small!Next]_(Small!vars)
           /\ unit = "ip6" => [Ip6!Next]_(Ip6!vars)
           /\ unit = "text" => [Text!Next]_(Text!vars)
           /\ unit = "logger" => [Log!Next]_(Log!vars)
           /\ unit = "netlib" => [Net!Next]_(Net!vars)
           /\ unit = "addresses" => [Addr!Next]_(Addr!vars)
  BY DEF Next, vars, times, numbers, prefixes, texts, logger, sockets, addrtest,
     Time!vars, Num!vars, Small!vars, Ip6!vars, Text!vars, Log!vars, Net!vars, Addr!vars

----------------------------------------------------------------------------
(* The socket helpers *)

Steps == {"socket", "reuse", "attach"}

\* The descriptors: what is open and not handed out is the socket of the address
\* that is being tried, and the caller never knows that one.
Descriptors ==
    /\ handed \subseteq Net!Fds
    /\ npc \in {"idle", "socket"} => open = handed
    /\ npc \in {"reuse", "attach", "found"} => s \in Net!Fds \ handed /\ open = handed \cup {s}
    /\ npc = "close" => s \notin handed /\ open \ {s} = handed

\* The errors: before the address rp is tried, rp - 1 have failed, and ret holds
\* the error of the last of them.
Errors ==
    /\ rp \in Nat /\ addresses \in Nat /\ failed \in Seq(Steps)
    /\ npc = "idle" /\ nret \notin {0, Net!NL_NOHOST} =>
          Len(failed) = addresses /\ addresses > 0 /\ nret = Net!ErrorOf(failed[addresses])
    /\ npc = "socket" =>
          /\ rp \in 1 .. addresses + 1 /\ Len(failed) = rp - 1 /\ addresses > 0
          /\ rp > 1 => nret = Net!ErrorOf(failed[rp - 1])
    /\ npc \in {"reuse", "attach"} =>
          rp \in 1 .. addresses /\ Len(failed) = rp - 1 /\ nret = Net!NL_NOCONNECT
    /\ npc = "close" =>
          rp \in 1 .. addresses /\ Len(failed) = rp /\ nret = Net!ErrorOf(failed[rp])
    /\ npc = "found" => nret = 0

\* The buffer: what was asked for last, if it is still up to date, is a descriptor
\* the caller has.
Buffer ==
    /\ peer \in [Net!Fds -> Nat]
    /\ asked # 0 => asked \in handed /\ ip = peer[asked]

NetInv ==
    /\ npc \in {"idle", "socket", "reuse", "attach", "close", "found"}
    /\ Descriptors /\ Errors /\ Buffer

(* The error of the step that failed is the one ret was given. *)
LEMMA AppendedError ==
    ASSUME NEW step \in Steps, failed \in Seq(Steps)
    PROVE  LET f == Append(failed, step)
           IN  f \in Seq(Steps) /\ Len(f) = Len(failed) + 1 /\ f[Len(failed) + 1] = step
  BY AppendProperties

LEMMA NetInit == ASSUME MaxFds \in Nat, Net!Init PROVE NetInv
  BY DEF Net!Init, NetInv, Descriptors, Errors, Buffer, Net!Fds, Steps

LEMMA NetLookup ==
    ASSUME MaxFds \in Nat, MaxAddresses \in Nat, NetInv, Net!Lookup PROVE NetInv'
<1> USE DEF NetInv, Net!Lookup, Net!kernel, Net!outside
<1>1. Descriptors'
  BY DEF Descriptors, Net!Fds
<1>2. Errors'
  BY DEF Errors
<1>3. Buffer'
  BY DEF Buffer, Net!Fds
<1> QED
  BY <1>1, <1>2, <1>3

LEMMA NetSocket ==
    ASSUME MaxFds \in Nat, NetInv, Net!socket PROVE NetInv'
<1> USE DEF NetInv, Net!socket, Net!call, Net!outside, Net!Fails, Net!Goes
<1>1. Descriptors'
  BY DEF Descriptors, Net!Fds
<1>2. Errors'
  BY AppendedError DEF Errors, Net!ErrorOf, Steps
<1>3. Buffer'
  BY DEF Buffer, Net!Fds
<1> QED
  BY <1>1, <1>2, <1>3

LEMMA NetSetsockopt ==
    ASSUME MaxFds \in Nat, NetInv, Net!setsockopt PROVE NetInv'
<1> USE DEF NetInv, Net!setsockopt, Net!call, Net!outside, Net!kernel, Net!Fails, Net!Goes
<1>1. Descriptors'
  BY DEF Descriptors, Net!Fds
<1>2. Errors'
  BY AppendedError DEF Errors, Net!ErrorOf, Steps
<1>3. Buffer'
  BY DEF Buffer, Net!Fds
<1> QED
  BY <1>1, <1>2, <1>3

LEMMA NetAttach ==
    ASSUME MaxFds \in Nat, NetInv, Net!Attach PROVE NetInv'
<1> USE DEF NetInv, Net!Attach, Net!call, Net!outside, Net!Fails, Net!Goes
<1>1. Descriptors'
  BY DEF Descriptors, Net!Fds
<1>2. Errors'
  BY AppendedError DEF Errors, Net!ErrorOf, Steps
<1>3. Buffer'
  <2>1. /\ s \in Net!Fds /\ s \notin handed /\ handed \subseteq Net!Fds /\ rp \in Nat
        /\ UNCHANGED <<handed, ip, asked>> /\ peer \in [Net!Fds -> Nat]
    BY DEF Descriptors, Errors, Buffer
  <2>2. \/ peer' = [peer EXCEPT ![s] = IF type = "stream" THEN rp ELSE 0]
        \/ peer' = peer
    OBVIOUS
  <2>3. peer' \in [Net!Fds -> Nat] /\ \A f \in handed : peer'[f] = peer[f]
    BY <2>1, <2>2
  <2> QED
    BY <2>1, <2>3 DEF Buffer
<1> QED
  BY <1>1, <1>2, <1>3

LEMMA NetClose ==
    ASSUME MaxFds \in Nat, NetInv, Net!close PROVE NetInv'
<1> USE DEF NetInv, Net!close, Net!call, Net!outside
<1>1. Descriptors'
  BY DEF Descriptors, Net!Fds
<1>2. Errors'
  BY DEF Errors
<1>3. Buffer'
  BY DEF Buffer, Net!Fds
<1> QED
  BY <1>1, <1>2, <1>3

(* The end of a call: with every address tried, or with one found. *)
LEMMA NetReturns ==
    ASSUME MaxFds \in Nat, NetInv, Net!GiveUp \/ Net!Found PROVE NetInv'
<1> USE DEF NetInv, Net!GiveUp, Net!Found, Net!call, Net!outside, Net!kernel
<1>1. Descriptors'
  BY DEF Descriptors, Net!Fds
<1>2. Errors'
  BY DEF Errors, Net!NL_NOHOST
<1>3. Buffer'
  BY DEF Buffer, Net!Fds
<1> QED
  BY <1>1, <1>2, <1>3

(* What the caller and the peers do with the descriptors handed out. *)
LEMMA NetOutside ==
    ASSUME MaxFds \in Nat, NetInv, NEW f \in Net!Fds,
           Net!netlib_sock2ip(f) \/ Net!Disconnect(f) \/ Net!CallerCloses(f)
    PROVE  NetInv'
<1> USE DEF NetInv, Net!Outdated, Net!call, Net!kernel, Net!unknown
<1>1. CASE Net!netlib_sock2ip(f)
  <2>1. Descriptors' /\ Errors'
    BY <1>1 DEF Descriptors, Errors, Net!netlib_sock2ip
  <2>2. Buffer'
    BY <1>1 DEF Buffer, Net!netlib_sock2ip
  <2> QED
    BY <1>1, <2>1, <2>2 DEF Net!netlib_sock2ip
<1>2. CASE Net!Disconnect(f)
  <2>1. Descriptors' /\ Errors'
    BY <1>2 DEF Descriptors, Errors, Net!Disconnect
  <2>2. Buffer'
    BY <1>2 DEF Buffer, Descriptors, Net!Disconnect
  <2> QED
    BY <1>2, <2>1, <2>2 DEF Net!Disconnect
<1>3. CASE Net!CallerCloses(f)
  <2>1. Descriptors' /\ Errors'
    BY <1>3 DEF Descriptors, Errors, Net!CallerCloses
  <2>2. Buffer'
    BY <1>3 DEF Buffer, Descriptors, Net!CallerCloses
  <2> QED
    BY <1>3, <2>1, <2>2 DEF Net!CallerCloses
<1> QED
  BY <1>1, <1>2, <1>3

(* However many addresses a name has and whichever steps fail, no call of   *)
(* netlib_connectsock leaves a descriptor behind, its error is that of the  *)
(* last address, and netlib_sock2ip shows the peer of the socket asked for. *)
THEOREM NetlibSoundHolds ==
    ASSUME MaxFds \in Nat, MaxAddresses \in Nat
    PROVE  Spec => []NetlibSound
<1> DEFINE I == unit = "netlib" => NetInv
<1>1. NetInv /\ [Net!Next]_(Net!vars) => NetInv'
  <2> SUFFICES ASSUME NetInv, [Net!Next]_(Net!vars) PROVE NetInv'
    OBVIOUS
  <2>1. CASE UNCHANGED Net!vars
    BY <2>1 DEF Net!vars, NetInv, Descriptors, Errors, Buffer
  <2> QED
    BY <2>1, NetLookup, NetSocket, NetSetsockopt, NetAttach, NetClose, NetReturns,
       NetOutside DEF Net!Next
<1>2. NetInv => Net!NetlibSound
  <2> SUFFICES ASSUME NetInv PROVE Net!NetlibSound
    OBVIOUS
  <2>1. Net!NoLeak
    BY DEF NetInv, Descriptors, Net!NoLeak
  <2>2. Net!ErrorIsOfLast
    BY DEF NetInv, Errors, Net!ErrorIsOfLast
  <2>3. Net!BufferIsOfAsked
    BY DEF NetInv, Buffer, Net!BufferIsOfAsked
  <2> QED
    BY <2>1, <2>2, <2>3 DEF Net!NetlibSound
<1>3. Init => I
  BY PartInit, NetInit
<1>4. I /\ [Next]_vars => I'
  BY <1>1, PartNext
<1>5. I => NetlibSound
  BY <1>2 DEF NetlibSound
<1> HIDE DEF I
<1> QED
  BY <1>3, <1>4, <1>5, PTL DEF Spec

----------------------------------------------------------------------------
(* The loggers *)

\* The private blocks: the one the logger points to is no longer fresh, a live
\* one is the one it points to and counts what was sent since it was made, and
\* one that is not live counts nothing.
LogBlocks ==
    /\ heap \in [Blocks -> {"fresh", "live", "freed"}]
    /\ counts \in [Blocks -> [Log!Classes -> Nat]]
    /\ sent \in [Log!Classes -> Nat]
    /\ priv \in Blocks \cup {"NULL"}
    /\ priv \in Blocks => heap[priv] # "fresh"
    /\ \A b \in Blocks : IF heap[b] = "live" THEN priv = b /\ counts[b] = sent
                         ELSE counts[b] = Log!None

LogInv == LogBlocks /\ Log!ConnectionFollowsLogger /\ kind \in Log!Kinds

LEMMA LogInit == ASSUME "NULL" \notin Blocks, Log!Init PROVE LogInv
  BY DEF Log!Init, LogInv, LogBlocks, Log!ConnectionFollowsLogger, Log!None

(* The step a call takes on a logger without live private state. *)
LEMMA LogCheckFails ==
    ASSUME LogInv, Log!Running, Log!PrivCheckFails PROVE LogInv'
  BY DEF LogInv, LogBlocks, Log!Running, Log!PrivCheckFails, Log!ConnectionFollowsLogger, Log!Live

LEMMA LogAssign ==
    ASSUME "NULL" \notin Blocks, LogInv, Log!Running, ~Log!Live, NEW k \in Log!Kinds, Log!Assign(k)
    PROVE  LogInv'
<1>1. LogBlocks'
  BY DEF LogInv, LogBlocks, Log!Assign, Log!Live
<1>2. ~opened
  BY DEF LogInv, Log!ConnectionFollowsLogger, Log!Running
<1> QED
  BY <1>1, <1>2 DEF Log!Assign, LogInv, Log!ConnectionFollowsLogger

LEMMA LogLog ==
    ASSUME LogInv, Log!Running, NEW class \in Log!Classes, Log!Log(class)
    PROVE  LogInv'
<1>1. CASE Log!PrivCheckFails
  BY <1>1, LogCheckFails
<1>2. CASE /\ Log!Live
           /\ counts' = [counts EXCEPT ![priv][class] = @ + 1]
           /\ sent' = [sent EXCEPT ![class] = @ + 1]
           /\ UNCHANGED <<kind, priv, heap, opened, exited, undefined, stats>>
  <2>1. priv \in Blocks /\ counts[priv] = sent /\ sent \in [Log!Classes -> Nat]
    BY <1>2 DEF LogInv, LogBlocks, Log!Live
  <2>2. counts' = [counts EXCEPT ![priv] = sent'] /\ sent' \in [Log!Classes -> Nat]
    BY <1>2, <2>1 DEF LogInv, LogBlocks
  <2>3. counts' \in [Blocks -> [Log!Classes -> Nat]] /\ counts'[priv] = sent'
    BY <2>1, <2>2 DEF LogInv, LogBlocks
  <2>4. ASSUME NEW b \in Blocks, b # priv PROVE heap[b] # "live" /\ counts'[b] = counts[b]
    BY <2>4, <2>2 DEF LogInv, LogBlocks
  <2>5. LogBlocks'
    BY <1>2, <2>1, <2>2, <2>3, <2>4 DEF LogInv, LogBlocks, Log!Live
  <2> QED
    BY <1>2, <2>5 DEF LogInv, Log!ConnectionFollowsLogger, Log!Live
<1> QED
  BY <1>1, <1>2 DEF Log!Log

LEMMA LogMake ==
    ASSUME "NULL" \notin Blocks, LogInv, Log!Running, ~Log!Dangling, Log!init
    PROVE  LogInv'
<1>1. LogBlocks'
  <2>1. CASE UNCHANGED <<priv, heap, sent>>
    BY <2>1 DEF Log!init, LogInv, LogBlocks
  <2>2. ASSUME NEW b \in Blocks, priv = "NULL", heap[b] = "fresh", priv' = b,
               heap' = [heap EXCEPT ![b] = "live"], sent' = Log!None
        PROVE  LogBlocks'
    <3>1. Log!None \in [Log!Classes -> Nat] /\ UNCHANGED counts
      BY DEF Log!None, Log!init
    <3> QED
      BY <2>2, <3>1 DEF LogInv, LogBlocks
  <2> QED
    BY <2>1, <2>2 DEF Log!init
<1>2. Log!ConnectionFollowsLogger'
  <2>1. UNCHANGED kind /\ (opened' => kind = "syslog")
    BY DEF Log!init, LogInv, Log!ConnectionFollowsLogger
  <2>2. CASE priv # "NULL" /\ UNCHANGED <<priv, heap, exited, sent>>
    <3>1. Log!Live /\ Log!Live'
      BY <2>2 DEF LogInv, LogBlocks, Log!Live, Log!Dangling
    <3> QED
      BY <2>1, <3>1 DEF Log!ConnectionFollowsLogger
  <2>3. ASSUME NEW b \in Blocks, heap[b] = "fresh", priv' = b,
               heap' = [heap EXCEPT ![b] = "live"]
        PROVE  Log!ConnectionFollowsLogger'
    BY <2>1, <2>3 DEF Log!ConnectionFollowsLogger, Log!Live, LogInv, LogBlocks
  <2>4. CASE exited'
    BY <2>1, <2>4 DEF Log!ConnectionFollowsLogger
  <2> QED
    BY <2>2, <2>3, <2>4 DEF Log!init
<1> QED
  BY <1>1, <1>2 DEF LogInv, Log!init

LEMMA LogDestroy ==
    ASSUME LogInv, Log!Running, Log!destroy PROVE LogInv'
<1>1. CASE Log!PrivCheckFails
  BY <1>1, LogCheckFails
<1>2. CASE /\ Log!Live /\ heap' = [heap EXCEPT ![priv] = "freed"]
           /\ counts' = [counts EXCEPT ![priv] = Log!None]
           /\ opened' = (opened /\ kind # "syslog")
           /\ UNCHANGED <<kind, priv, exited, undefined, sent, stats>>
  <2>1. LogBlocks'
    <3>1. Log!None \in [Log!Classes -> Nat]
      BY DEF Log!None
    <3> QED
      BY <1>2, <3>1 DEF LogInv, LogBlocks, Log!Live
  <2>2. ~opened'
    BY <1>2 DEF LogInv, Log!ConnectionFollowsLogger
  <2> QED
    BY <1>2, <2>1, <2>2 DEF LogInv, Log!ConnectionFollowsLogger
<1> QED
  BY <1>1, <1>2 DEF Log!destroy

LEMMA LogStats ==
    ASSUME LogInv, Log!Running, Log!dump_stats \/ Log!reset PROVE LogInv'
<1>1. CASE Log!PrivCheckFails
  BY <1>1, LogCheckFails
<1>2. CASE UNCHANGED <<kind, priv, heap, counts, opened, exited, undefined, sent>>
  BY <1>2 DEF LogInv, LogBlocks, Log!ConnectionFollowsLogger, Log!Live
<1> QED
  BY <1>1, <1>2 DEF Log!dump_stats, Log!reset

(* Only dump_stats prints, and what it prints is what was sent. *)
LEMMA LogExact ==
    ASSUME LogInv, Log!Next PROVE Log!Exact
<1>1. CASE stats' = stats
  BY <1>1 DEF Log!Exact
<1>2. CASE Log!Live /\ stats' = counts[priv]
  BY <1>2 DEF Log!Exact, LogInv, LogBlocks, Log!Live
<1> QED
  BY <1>1, <1>2 DEF Log!Next, Log!Assign, Log!init, Log!Log, Log!destroy, Log!dump_stats, Log!reset,
     Log!PrivCheckFails

(* For any number of private blocks: dump_stats prints what was logged      *)
(* since init, a program that destroys before it switches loses no block,   *)
(* and the syslog connection is open only for a live syslog logger.         *)
THEOREM LoggerSoundHolds ==
    ASSUME "NULL" \notin Blocks
    PROVE  Spec => LoggerSound
<1> DEFINE I == unit = "logger" => LogInv
<1>1. LogInv /\ [Log!Next]_(Log!vars) => LogInv'
  <2> SUFFICES ASSUME LogInv, [Log!Next]_(Log!vars) PROVE LogInv'
    OBVIOUS
  <2>1. CASE UNCHANGED Log!vars
    BY <2>1 DEF Log!vars, LogInv, LogBlocks, Log!ConnectionFollowsLogger, Log!Live
  <2> QED
    BY <2>1, LogAssign, LogLog, LogMake, LogDestroy, LogStats DEF Log!Next
<1>2. LogInv /\ [Log!Next]_(Log!vars) => Log!Exact
  BY LogExact DEF Log!Exact, Log!vars
<1>3. LogInv => Log!NoBlockLost /\ Log!ConnectionFollowsLogger
  BY DEF LogInv, LogBlocks, Log!NoBlockLost
<1>4. Init => I
  BY PartInit, LogInit
<1>5. I /\ [Next]_vars => I'
  BY <1>1, PartNext
<1>6. I /\ [Next]_vars => [unit = "logger" => Log!Exact]_logger
  BY <1>2, PartNext
<1>7. I => (unit = "logger" => Log!NoBlockLost /\ Log!ConnectionFollowsLogger)
  BY <1>3
<1> HIDE DEF I
<1> QED
  BY <1>4, <1>5, <1>6, <1>7, PTL DEF Spec, LoggerSound

----------------------------------------------------------------------------
(* The timeval arithmetic *)

\* The units the code uses (a second is a whole number of milliseconds, and that
\* one of microseconds), and times after the second 0, which means "none".
TimeUnits ==
    /\ USEC \in Nat /\ MSECS \in Nat /\ MSECS > 0
    /\ Time!UsecsPerMsec \in Nat /\ Time!UsecsPerMsec > 0 /\ MSECS * Time!UsecsPerMsec = USEC
    /\ FarSecs \in Nat /\ MaxDelay \in Nat
    /\ Secs \subseteq Nat /\ 0 \notin Secs

(* Division by a positive number rounds down. *)
LEMMA DivBounds ==
    ASSUME NEW a \in Int, NEW b \in Nat, b > 0
    PROVE  a \div b \in Int /\ b * (a \div b) <= a /\ a < b * (a \div b) + b
  OBVIOUS

LEMMA SmallQuotient == ASSUME NEW n \in Nat, NEW a \in 0 .. n - 1 PROVE a \div n = 0
  OBVIOUS

LEMMA MulMonotone ==
    ASSUME NEW a \in Int, NEW b \in Int, NEW c \in Nat, a <= b
    PROVE  a * c <= b * c
  OBVIOUS

LEMMA UnitsPositive == ASSUME TimeUnits PROVE USEC > 0
  BY DEF TimeUnits

\* Times that are not "none".
Moments == [tv_sec : Nat \ {0}, tv_usec : 0 .. USEC - 1]

LEMMA TimevalIsMoment ==
    ASSUME TimeUnits, NEW t \in Time!Timevals
    PROVE  t \in Moments
<1>1. t.tv_sec \in Nat \ {0} /\ t.tv_usec \in 0 .. USEC - 1
  BY DEF Time!Timevals, TimeUnits
<1>2. t = [tv_sec |-> t.tv_sec, tv_usec |-> t.tv_usec]
  BY DEF Time!Timevals
<1> QED
  BY <1>1, <1>2 DEF Moments

(* timeval_compare is the lexicographic order. *)
LEMMA CompareOrder ==
    ASSUME NEW a \in [tv_sec : Int, tv_usec : Int], NEW b \in [tv_sec : Int, tv_usec : Int]
    PROVE  /\ Time!timeval_compare(a, b) \in {-1, 0, 1}
           /\ Time!timeval_compare(a, b) <= 0 <=>
                 a.tv_sec < b.tv_sec \/ (a.tv_sec = b.tv_sec /\ a.tv_usec <= b.tv_usec)
           /\ Time!timeval_compare(a, b) < 0 <=>
                 a.tv_sec < b.tv_sec \/ (a.tv_sec = b.tv_sec /\ a.tv_usec < b.tv_usec)
  BY DEF Time!timeval_compare

\* The deadline: none while nothing was folded in, then a time not after any that
\* was, in the second of one that was.
DeadlineInv ==
    /\ folded \subseteq Moments
    /\ folded = {} => d = Time!Never
    /\ folded # {} =>
          /\ d \in Moments
          /\ \A m \in folded : Time!timeval_compare(d, m) <= 0
          /\ \E m \in folded : d.tv_sec = m.tv_sec

(* Folding in one more time. *)
LEMMA DeadlineFold ==
    ASSUME TimeUnits, DeadlineInv, NEW m \in Moments, Time!FoldMin(m)
    PROVE  DeadlineInv'
<1>1. folded' = folded \cup {m} /\ d' = Time!timeval_min(d, m) /\ m.tv_sec # 0
  BY DEF Time!FoldMin, Moments
<1>2. Moments \subseteq [tv_sec : Int, tv_usec : Int]
  BY DEF Moments, TimeUnits
<1>3. CASE folded = {}
  <2>1. d' = m
    BY <1>1, <1>3 DEF DeadlineInv, Time!timeval_min, Time!Never
  <2> QED
    BY <1>1, <1>2, <1>3, <2>1, CompareOrder DEF DeadlineInv
<1>4. CASE folded # {}
  <2>1. d \in Moments /\ d.tv_sec # 0
    BY <1>4 DEF DeadlineInv, Moments
  <2>2. d' = IF Time!timeval_compare(d, m) > 0 THEN m ELSE d
    BY <1>1, <2>1 DEF Time!timeval_min
  <2>3. CASE Time!timeval_compare(d, m) > 0
    <3>1. d' = m
      BY <2>2, <2>3
    <3>2. ~(d.tv_sec < m.tv_sec \/ (d.tv_sec = m.tv_sec /\ d.tv_usec <= m.tv_usec))
      BY <2>1, <2>3, <1>2, CompareOrder
    <3>3. ASSUME NEW n \in folded PROVE Time!timeval_compare(m, n) <= 0
      <4>1. n \in Moments /\ Time!timeval_compare(d, n) <= 0
        BY <1>4 DEF DeadlineInv
      <4>2. d.tv_sec < n.tv_sec \/ (d.tv_sec = n.tv_sec /\ d.tv_usec <= n.tv_usec)
        BY <4>1, <2>1, <1>2, CompareOrder
      <4>3. m.tv_sec < n.tv_sec \/ (m.tv_sec = n.tv_sec /\ m.tv_usec <= n.tv_usec)
        BY <4>1, <4>2, <3>2, <2>1 DEF Moments, TimeUnits
      <4> QED
        BY <4>1, <4>3, <1>2, CompareOrder
    <3>4. Time!timeval_compare(m, m) <= 0
      BY <1>2, CompareOrder
    <3> QED
      BY <3>1, <3>3, <3>4, <1>1 DEF DeadlineInv
  <2>4. CASE ~(Time!timeval_compare(d, m) > 0)
    <3>1. d' = d /\ Time!timeval_compare(d, m) <= 0
      BY <2>2, <2>4, <2>1, <1>2, CompareOrder
    <3> QED
      BY <3>1, <1>1, <1>4 DEF DeadlineInv
  <2> QED
    BY <2>3, <2>4
<1> QED
  BY <1>3, <1>4

(* Folding in some time during a second. *)
LEMMA DeadlineFoldSec ==
    ASSUME TimeUnits, DeadlineInv, NEW secs \in Secs, Time!FoldMinSec(secs)
    PROVE  DeadlineInv'
<1> DEFINE end == [tv_sec |-> secs, tv_usec |-> USEC - 1]
<1>1. end \in Moments /\ end.tv_sec = secs /\ end.tv_usec = USEC - 1 /\ secs \in Nat \ {0}
  BY UnitsPositive DEF Moments, TimeUnits
<1> HIDE DEF end
<1>2. PICK e \in Time!timeval_min_sec(d, secs) : d' = e /\ folded' = folded \cup {end}
  BY DEF Time!FoldMinSec, end
<1>3. Moments \subseteq [tv_sec : Int, tv_usec : Int]
  BY DEF Moments, TimeUnits
<1>4. CASE d.tv_sec = 0 \/ d.tv_sec > secs
  <2>1. d' \in Moments /\ d'.tv_sec = secs /\ d'.tv_usec <= USEC - 1
    BY <1>1, <1>2, <1>4, UnitsPositive DEF Time!timeval_min_sec, Moments, TimeUnits
  <2>2. Time!timeval_compare(d', end) <= 0
    BY <2>1, <1>1, <1>3, CompareOrder
  <2>3. ASSUME NEW n \in folded PROVE Time!timeval_compare(d', n) <= 0
    <3>1. n \in Moments /\ d \in Moments /\ Time!timeval_compare(d, n) <= 0
      BY DEF DeadlineInv
    <3>2. d.tv_sec <= n.tv_sec
      BY <3>1, <1>3, CompareOrder DEF Moments
    <3>3. d'.tv_sec < n.tv_sec
      BY <3>1, <3>2, <2>1, <1>1, <1>4 DEF Moments
    <3> QED
      BY <3>1, <3>3, <2>1, <1>3, CompareOrder
  <2> QED
    BY <1>1, <1>2, <2>1, <2>2, <2>3 DEF DeadlineInv
<1>5. CASE ~(d.tv_sec = 0 \/ d.tv_sec > secs)
  <2>1. d' = d /\ d.tv_sec # 0 /\ ~(d.tv_sec > secs)
    BY <1>2, <1>5 DEF Time!timeval_min_sec
  <2>2. folded # {} /\ d \in Moments
    BY <2>1 DEF DeadlineInv, Time!Never
  <2>3. Time!timeval_compare(d, end) <= 0
    <3>1. d.tv_sec <= secs /\ d.tv_usec <= USEC - 1
      BY <2>1, <2>2, <1>1, UnitsPositive DEF Moments, TimeUnits
    <3>2. d \in [tv_sec : Int, tv_usec : Int] /\ end \in [tv_sec : Int, tv_usec : Int]
      BY <2>2, <1>1, <1>3
    <3> QED
      BY <3>1, <3>2, <1>1, CompareOrder
  <2> QED
    BY <1>1, <1>2, <2>1, <2>2, <2>3 DEF DeadlineInv
<1> QED
  BY <1>4, <1>5

(* The C division: truncation keeps the sign of what is left over. *)
LEMMA CDivBounds ==
    ASSUME NEW a \in Int, NEW b \in Nat, b > 0
    PROVE  /\ Time!CDiv(a, b) \in Int /\ Time!CMod(a, b) \in Int
           /\ a = Time!CDiv(a, b) * b + Time!CMod(a, b)
           /\ a >= 0 => Time!CDiv(a, b) >= 0 /\ Time!CMod(a, b) \in 0 .. b - 1
           /\ a < 0 => Time!CDiv(a, b) <= 0 /\ Time!CMod(a, b) \in -(b - 1) .. 0
<1>1. CASE a >= 0
  <2>1. Time!CDiv(a, b) = a \div b /\ Time!CMod(a, b) = a - b * (a \div b)
    BY <1>1 DEF Time!CDiv, Time!CMod
  <2>2. a \div b \in Int /\ b * (a \div b) <= a /\ a < b * (a \div b) + b
    BY DivBounds
  <2>3. a \div b >= 0
    BY <1>1, <2>2
  <2> QED
    BY <1>1, <2>1, <2>2, <2>3
<1>2. CASE a < 0
  <2>1. Time!CDiv(a, b) = -((-a) \div b) /\ Time!CMod(a, b) = a - b * (-((-a) \div b))
    BY <1>2 DEF Time!CDiv, Time!CMod
  <2>2. -a \in Int
    OBVIOUS
  <2>3. (-a) \div b \in Int /\ b * ((-a) \div b) <= -a /\ -a < b * ((-a) \div b) + b
    BY <2>2, DivBounds
  <2>4. (-a) \div b >= 0
    BY <1>2, <2>3
  <2>5. b * (-((-a) \div b)) = -(b * ((-a) \div b))
    BY <2>3
  <2> QED
    BY <1>2, <2>1, <2>3, <2>4, <2>5
<1> QED
  BY <1>1, <1>2

(* timeval_add_msec moves the instant by exactly msecs, and forward it keeps *)
(* tv_usec below a second.                                                   *)
LEMMA AddMsec ==
    ASSUME TimeUnits, NEW t \in [tv_sec : Int, tv_usec : 0 .. USEC - 1], NEW m \in Int
    PROVE  LET later == Time!timeval_add_msec(t, m)
           IN  /\ later \in [tv_sec : Int, tv_usec : Int]
               /\ Time!Instant(later) = Time!Instant(t) + m * Time!UsecsPerMsec
               /\ m >= 0 => later.tv_sec >= t.tv_sec /\ later.tv_usec \in 0 .. USEC - 1
<1> DEFINE u == Time!UsecsPerMsec
           q == Time!CDiv(m, MSECS)
           r == Time!CMod(m, MSECS)
           usecs == t.tv_usec + r * u
<1>1. u \in Nat /\ u > 0 /\ MSECS \in Nat /\ MSECS > 0 /\ MSECS * u = USEC /\ USEC \in Nat
  BY DEF TimeUnits
<1>2. /\ q \in Int /\ r \in Int /\ m = q * MSECS + r /\ r < MSECS
      /\ m >= 0 => q >= 0 /\ r >= 0
  BY <1>1, CDivBounds
<1>3. Time!timeval_add_msec(t, m) =
         IF usecs < USEC THEN [tv_sec |-> t.tv_sec + q, tv_usec |-> usecs]
         ELSE [tv_sec |-> t.tv_sec + q + 1, tv_usec |-> usecs - USEC]
  BY DEF Time!timeval_add_msec
<1> HIDE DEF u, q, r
<1>4. r * u \in Int /\ r * u < USEC /\ (m >= 0 => r * u >= 0)
  <2>1. r * u <= (MSECS - 1) * u
    BY <1>1, <1>2, MulMonotone
  <2>2. (MSECS - 1) * u = USEC - u
    BY <1>1
  <2>3. m >= 0 => r * u >= 0
    BY <1>1, <1>2
  <2> QED
    BY <1>1, <1>2, <2>1, <2>2, <2>3
<1>5. t.tv_sec \in Int /\ t.tv_usec \in 0 .. USEC - 1
  OBVIOUS
<1>6. q * USEC + r * u = m * u
  <2>1. q * USEC = (q * MSECS) * u
    BY <1>1, <1>2
  <2> QED
    BY <1>1, <1>2, <2>1
<1>7. (t.tv_sec + q) * USEC = t.tv_sec * USEC + q * USEC
  BY <1>1, <1>2, <1>5
<1>8. (t.tv_sec + q + 1) * USEC = t.tv_sec * USEC + q * USEC + USEC
  BY <1>1, <1>2, <1>5
<1>9. t.tv_sec * USEC \in Int /\ q * USEC \in Int /\ m * u \in Int
  BY <1>1, <1>2, <1>5
<1> DEFINE later == Time!timeval_add_msec(t, m)
<1>10. CASE usecs < USEC
  <2>1. later = [tv_sec |-> t.tv_sec + q, tv_usec |-> usecs]
    BY <1>3, <1>10
  <2>2. Time!Instant(later) = (t.tv_sec + q) * USEC + usecs
    BY <2>1 DEF Time!Instant
  <2>3. Time!Instant(later) = Time!Instant(t) + m * u
    BY <2>2, <1>4, <1>5, <1>6, <1>7, <1>9 DEF Time!Instant
  <2>4. /\ later \in [tv_sec : Int, tv_usec : Int]
        /\ m >= 0 => later.tv_sec >= t.tv_sec /\ later.tv_usec \in 0 .. USEC - 1
    BY <2>1, <1>1, <1>2, <1>4, <1>5, <1>10
  <2> QED
    BY <2>3, <2>4 DEF u
<1>11. CASE ~(usecs < USEC)
  <2>1. later = [tv_sec |-> t.tv_sec + q + 1, tv_usec |-> usecs - USEC]
    BY <1>3, <1>11
  <2>2. Time!Instant(later) = (t.tv_sec + q + 1) * USEC + (usecs - USEC)
    BY <2>1 DEF Time!Instant
  <2>3. Time!Instant(later) = Time!Instant(t) + m * u
    BY <2>2, <1>1, <1>4, <1>5, <1>6, <1>8, <1>9 DEF Time!Instant
  <2>4. /\ later \in [tv_sec : Int, tv_usec : Int]
        /\ m >= 0 => later.tv_sec >= t.tv_sec /\ later.tv_usec \in 0 .. USEC - 1
    BY <2>1, <1>1, <1>2, <1>4, <1>5, <1>11
  <2> QED
    BY <2>3, <2>4 DEF u
<1> QED
  BY <1>10, <1>11

(* Folding in an event some time after now. *)
LEMMA DeadlineFoldDelay ==
    ASSUME TimeUnits, DeadlineInv, NEW now \in Time!Timevals, NEW r \in Int, r >= 0,
           Time!FoldMin(Time!timeval_add_msec(now, r))
    PROVE  DeadlineInv'
<1> DEFINE later == Time!timeval_add_msec(now, r)
<1>1. now \in [tv_sec : Int, tv_usec : 0 .. USEC - 1] /\ now.tv_sec > 0
  BY TimevalIsMoment DEF Moments
<1>2. /\ later \in [tv_sec : Int, tv_usec : Int]
      /\ later.tv_sec >= now.tv_sec /\ later.tv_usec \in 0 .. USEC - 1
  BY <1>1, AddMsec
<1> HIDE DEF later
<1>3. later.tv_sec \in Nat \ {0} /\ later.tv_usec \in 0 .. USEC - 1
  BY <1>1, <1>2
<1>4. later = [tv_sec |-> later.tv_sec, tv_usec |-> later.tv_usec]
  BY <1>2
<1>5. later \in Moments
  BY <1>3, <1>4 DEF Moments
<1> QED
  BY <1>5, DeadlineFold DEF later

(* roughly stays within a quarter of the value and on its side of 0. *)
LEMMA RoughlyNear ==
    ASSUME NEW m \in Int, NEW r \in Time!roughly(m)
    PROVE  /\ r \in Int
           /\ m = 0 => r = 0
           /\ m > 0 => r > 0 /\ 4 * r >= 3 * m - 3 /\ 4 * r <= 5 * m
           /\ m < 0 => r < 0 /\ 4 * r <= 3 * m + 3 /\ 4 * r >= 5 * m
<1> DEFINE near(v) == IF v <= 1 THEN {v}
                      ELSE {(v * 3) \div 4 + k : k \in 0 .. (v \div 2) - 1}
<1>1. ASSUME NEW v \in Nat, NEW n \in near(v)
      PROVE  /\ n \in Int
             /\ v = 0 => n = 0
             /\ v > 0 => n > 0 /\ 4 * n >= 3 * v - 3 /\ 4 * n <= 5 * v
  <2>1. CASE v <= 1
    BY <1>1, <2>1
  <2>2. CASE v > 1
    <3>1. PICK k \in 0 .. (v \div 2) - 1 : n = (v * 3) \div 4 + k
      BY <1>1, <2>2
    <3> QED
      BY <3>1, <2>2
  <2> QED
    BY <2>1, <2>2
<1>2. CASE m >= 0
  <2>1. r \in near(m)
    BY <1>2 DEF Time!roughly
  <2> HIDE DEF near
  <2> QED
    BY <1>1, <1>2, <2>1
<1>3. CASE m < 0
  <2>1. PICK n \in near(-m) : r = -n
    BY <1>3 DEF Time!roughly
  <2> HIDE DEF near
  <2>2. /\ n \in Int
        /\ n > 0 /\ 4 * n >= 3 * (-m) - 3 /\ 4 * n <= 5 * (-m)
    BY <1>1, <1>3, <2>1
  <2> QED
    BY <1>3, <2>1, <2>2
<1> QED
  BY <1>2, <1>3

Pairs == [tv_sec : Int, tv_usec : Int]

(* The record after the borrow stands for the same instant and has no more  *)
(* microseconds than x.                                                     *)
LEMMA BorrowKeeps ==
    ASSUME TimeUnits, NEW x \in Pairs, NEW yy \in Pairs
    PROVE  LET b == Time!Borrowed(x, yy)
           IN  /\ b \in Pairs /\ Time!Instant(b) = Time!Instant(yy) /\ x.tv_usec >= b.tv_usec
               /\ x.tv_usec < yy.tv_usec => x.tv_usec - b.tv_usec <= USEC
<1> DEFINE g == yy.tv_usec - x.tv_usec
           n == g \div USEC + 1
           b == Time!Borrowed(x, yy)
<1>1. USEC \in Nat /\ USEC > 0 /\ x.tv_usec \in Int /\ yy.tv_usec \in Int /\ yy.tv_sec \in Int
  BY UnitsPositive DEF TimeUnits, Pairs
<1>2. CASE x.tv_usec >= yy.tv_usec
  BY <1>1, <1>2 DEF Time!Borrowed
<1>3. CASE x.tv_usec < yy.tv_usec
  <2>1. g \div USEC \in Int /\ USEC * (g \div USEC) <= g /\ g < USEC * (g \div USEC) + USEC
    BY <1>1, DivBounds
  <2>2. n \in Int /\ USEC * n = USEC * (g \div USEC) + USEC
    BY <1>1, <2>1
  <2>3. b = [tv_sec |-> yy.tv_sec + n, tv_usec |-> yy.tv_usec - USEC * n]
    BY <1>1, <1>3 DEF Time!Borrowed
  <2>4. (yy.tv_sec + n) * USEC = yy.tv_sec * USEC + USEC * n
    BY <1>1, <2>2
  <2>5. Time!Instant(b) = Time!Instant(yy)
    BY <1>1, <2>2, <2>3, <2>4 DEF Time!Instant
  <2>6. x.tv_usec - b.tv_usec \in 0 .. USEC
    BY <1>1, <1>3, <2>1, <2>2, <2>3
  <2> QED
    BY <1>1, <2>2, <2>3, <2>5, <2>6 DEF Pairs
<1> QED
  BY <1>1, <1>2, <1>3

LEMMA RepayKeeps ==
    ASSUME TimeUnits, NEW x \in Pairs, NEW yy \in Pairs, x.tv_usec >= yy.tv_usec
    PROVE  LET b == Time!Repaid(x, yy)
           IN  b \in Pairs /\ Time!Instant(b) = Time!Instant(yy) /\ x.tv_usec - b.tv_usec \in 0 .. USEC
<1> DEFINE g == x.tv_usec - yy.tv_usec
           n == g \div USEC
           b == Time!Repaid(x, yy)
<1>1. USEC \in Nat /\ USEC > 0 /\ x.tv_usec \in Int /\ yy.tv_usec \in Int /\ yy.tv_sec \in Int
  BY UnitsPositive DEF TimeUnits, Pairs
<1>2. CASE g <= USEC
  BY <1>1, <1>2 DEF Time!Repaid
<1>3. CASE ~(g <= USEC)
  <2>1. n \in Int /\ USEC * n <= g /\ g < USEC * n + USEC
    BY <1>1, DivBounds
  <2>2. b = [tv_sec |-> yy.tv_sec - n, tv_usec |-> yy.tv_usec + USEC * n]
    BY <1>1, <1>3 DEF Time!Repaid
  <2>3. (yy.tv_sec - n) * USEC = yy.tv_sec * USEC - USEC * n
    BY <1>1, <2>1
  <2>4. Time!Instant(b) = Time!Instant(yy)
    BY <1>1, <2>1, <2>2, <2>3 DEF Time!Instant
  <2> QED
    BY <1>1, <2>1, <2>2, <2>4 DEF Pairs
<1> QED
  BY <1>1, <1>2, <1>3

(* timeval_subtract gives the true difference, and leaves a record behind   *)
(* that stands for the same instant.                                        *)
LEMMA SubtractExact ==
    ASSUME TimeUnits, NEW x \in Pairs, NEW yy \in Pairs
    PROVE  LET sub == Time!timeval_subtract(x, yy)
           IN  /\ sub.y \in Pairs /\ Time!Instant(sub.y) = Time!Instant(yy)
               /\ Time!Instant(sub.result) = Time!Instant(x) - Time!Instant(yy)
               /\ sub.result.tv_usec \in 0 .. USEC
<1> DEFINE b == Time!Borrowed(x, yy)
           left == Time!Repaid(x, b)
           sub == Time!timeval_subtract(x, yy)
<1>1. b \in Pairs /\ Time!Instant(b) = Time!Instant(yy) /\ x.tv_usec >= b.tv_usec
  BY BorrowKeeps
<1>2. /\ left \in Pairs /\ Time!Instant(left) = Time!Instant(yy)
      /\ x.tv_usec - left.tv_usec \in 0 .. USEC
  BY <1>1, RepayKeeps
<1>3. /\ sub.y = left
      /\ sub.result = [tv_sec |-> x.tv_sec - left.tv_sec, tv_usec |-> x.tv_usec - left.tv_usec]
  BY DEF Time!timeval_subtract
<1> HIDE DEF left, sub
<1>4. USEC \in Nat /\ x.tv_sec \in Int /\ x.tv_usec \in Int /\ left.tv_sec \in Int /\ left.tv_usec \in Int
  BY <1>2 DEF TimeUnits, Pairs
<1>5. (x.tv_sec - left.tv_sec) * USEC = x.tv_sec * USEC - left.tv_sec * USEC
  BY <1>4
<1>6. Time!Instant(sub.result) = Time!Instant(x) - Time!Instant(left)
  BY <1>3, <1>4, <1>5 DEF Time!Instant
<1> QED
  BY <1>2, <1>3, <1>6 DEF sub

(* On two normalised times timeval_subtract is timeval_minus. *)
LEMMA SubtractFresh ==
    ASSUME TimeUnits, NEW x \in Moments, NEW yy \in Moments
    PROVE  LET sub == Time!timeval_subtract(x, yy)
           IN  /\ sub.result = Time!timeval_minus(x, yy) /\ Time!Normal(sub.result)
               /\ sub.negative <=> Time!timeval_compare(x, yy) < 0
<1> DEFINE b == Time!Borrowed(x, yy)
           sub == Time!timeval_subtract(x, yy)
<1>1. /\ USEC \in Nat /\ USEC > 0 /\ x.tv_sec \in Nat /\ yy.tv_sec \in Nat
      /\ x.tv_usec \in 0 .. USEC - 1 /\ yy.tv_usec \in 0 .. USEC - 1
  BY UnitsPositive DEF TimeUnits, Moments
<1>2. b = IF x.tv_usec >= yy.tv_usec THEN yy
          ELSE [tv_sec |-> yy.tv_sec + 1, tv_usec |-> yy.tv_usec - USEC]
  <2>1. CASE x.tv_usec < yy.tv_usec
    <3>1. yy.tv_usec - x.tv_usec \in 0 .. USEC - 1
      BY <1>1, <2>1
    <3>2. (yy.tv_usec - x.tv_usec) \div USEC = 0
      <4>1. PICK a \in 0 .. USEC - 1 : a = yy.tv_usec - x.tv_usec
        BY <3>1
      <4>2. a \div USEC = 0
        BY <1>1, SmallQuotient
      <4> QED
        BY <4>1, <4>2
    <3>3. PICK nsec \in Nat : nsec = (yy.tv_usec - x.tv_usec) \div USEC + 1 /\ nsec = 1
      BY <3>2
    <3>4. b = [tv_sec |-> yy.tv_sec + nsec, tv_usec |-> yy.tv_usec - USEC * nsec]
      BY <1>1, <2>1, <3>3 DEF Time!Borrowed
    <3>5. USEC * nsec = USEC /\ ~(x.tv_usec >= yy.tv_usec)
      BY <1>1, <2>1, <3>3
    <3> QED
      BY <3>3, <3>4, <3>5
  <2>2. CASE x.tv_usec >= yy.tv_usec
    BY <2>2 DEF Time!Borrowed
  <2> QED
    BY <1>1, <2>1, <2>2
<1>3. Time!Repaid(x, b) = b
  BY <1>1, <1>2 DEF Time!Repaid
<1>4. /\ sub.result = [tv_sec |-> x.tv_sec - b.tv_sec, tv_usec |-> x.tv_usec - b.tv_usec]
      /\ sub.negative = (x.tv_sec < b.tv_sec)
  BY <1>3 DEF Time!timeval_subtract
<1> HIDE DEF b, sub
<1>5. x \in Pairs /\ yy \in Pairs
  BY DEF Moments, Pairs, TimeUnits
<1>6. Time!timeval_compare(x, yy) < 0 <=>
         x.tv_sec < yy.tv_sec \/ (x.tv_sec = yy.tv_sec /\ x.tv_usec < yy.tv_usec)
  BY <1>5, CompareOrder DEF Pairs
<1>7. CASE x.tv_usec >= yy.tv_usec
  <2>1. b = yy
    BY <1>2, <1>7
  <2>2. sub.result = Time!timeval_minus(x, yy)
    BY <1>1, <1>4, <1>7, <2>1 DEF Time!timeval_minus
  <2>3. Time!Normal(sub.result)
    BY <1>1, <1>4, <1>7, <2>1 DEF Time!Normal
  <2>4. (x.tv_sec < b.tv_sec) <=> Time!timeval_compare(x, yy) < 0
    BY <1>1, <1>6, <1>7, <2>1
  <2> QED
    BY <1>4, <2>2, <2>3, <2>4, Zenon DEF sub
<1>8. CASE x.tv_usec < yy.tv_usec
  <2>1. b.tv_sec = yy.tv_sec + 1 /\ b.tv_usec = yy.tv_usec - USEC
    BY <1>1, <1>2, <1>8
  <2>2. sub.result = Time!timeval_minus(x, yy)
    BY <1>1, <1>4, <1>8, <2>1 DEF Time!timeval_minus
  <2>3. Time!Normal(sub.result)
    BY <1>1, <1>4, <1>8, <2>1 DEF Time!Normal
  <2>4. (x.tv_sec < b.tv_sec) <=> Time!timeval_compare(x, yy) < 0
    BY <1>1, <1>6, <1>8, <2>1
  <2> QED
    BY <1>4, <2>2, <2>3, <2>4, Zenon DEF sub
<1> QED
  BY <1>1, <1>7, <1>8

(* timeval_minus_msec is the difference to within a millisecond. *)
LEMMA MinusMsec ==
    ASSUME TimeUnits, NEW x \in Moments, NEW yy \in Moments
    PROVE  LET gap == Time!Instant(x) - Time!Instant(yy)
               ms == Time!timeval_minus_msec(x, yy)
               u == Time!UsecsPerMsec
           IN  /\ gap <= 0 => ms = 0
               /\ gap > 0 /\ x.tv_sec - yy.tv_sec <= FarSecs =>
                     ms >= 0 /\ ms * u - gap \in -(u - 1) .. u - 1
               /\ x.tv_sec - yy.tv_sec > FarSecs => ms = FarSecs * MSECS
<1> DEFINE gap == Time!Instant(x) - Time!Instant(yy)
           ms == Time!timeval_minus_msec(x, yy)
           u == Time!UsecsPerMsec
           D == x.tv_sec - yy.tv_sec
           e == x.tv_usec - yy.tv_usec
<1>1. /\ USEC \in Nat /\ USEC > 0 /\ x.tv_sec \in Nat /\ yy.tv_sec \in Nat
      /\ x.tv_usec \in 0 .. USEC - 1 /\ yy.tv_usec \in 0 .. USEC - 1
      /\ u \in Nat /\ u > 0 /\ MSECS \in Nat /\ MSECS > 0 /\ MSECS * u = USEC /\ FarSecs \in Nat
  BY UnitsPositive DEF TimeUnits, Moments
<1>2. gap = D * USEC + e /\ D \in Int /\ e \in Int /\ e > -USEC /\ e < USEC
  <2>1. D * USEC = x.tv_sec * USEC - yy.tv_sec * USEC
    BY <1>1
  <2>2. x.tv_sec * USEC \in Int /\ yy.tv_sec * USEC \in Int
    BY <1>1
  <2> QED
    BY <1>1, <2>1, <2>2 DEF Time!Instant
<1>3. CASE D < 0
  <2>1. ms = 0
    BY <1>1, <1>3 DEF Time!timeval_minus_msec
  <2>2. D * USEC <= (-1) * USEC
    BY <1>1, <1>2, <1>3, MulMonotone
  <2>3. gap <= 0 /\ ~(D > FarSecs)
    BY <1>1, <1>2, <1>3, <2>2
  <2>4. gap <= 0 => ms = 0
    BY <2>1
  <2>5. ~(gap > 0)
    BY <1>1, <1>2, <2>3
  <2> HIDE DEF gap, ms, u, D
  <2> QED
    BY <2>3, <2>4, <2>5 DEF gap, ms, u, D
<1>4. CASE D = 0
  <2>1. gap = e
    BY <1>1, <1>2, <1>4
  <2>2. ms = IF e <= 0 THEN 0 ELSE e \div u
    BY <1>1, <1>4 DEF Time!timeval_minus_msec
  <2>3. e \div u \in Int /\ u * (e \div u) <= e /\ e < u * (e \div u) + u
    BY <1>1, <1>2, DivBounds
  <2>4. e > 0 => e \div u >= 0
    BY <1>1, <1>2, <2>3
  <2>5. (e \div u) * u = u * (e \div u)
    BY <1>1, <2>3
  <2>6. ~(D > FarSecs)
    BY <1>1, <1>4
  <2> HIDE DEF gap, ms, u, D, e
  <2>7. gap > 0 => ms >= 0 /\ ms * u - gap \in -(u - 1) .. u - 1
    BY <1>1, <1>2, <2>1, <2>2, <2>3, <2>4, <2>5
  <2>8. gap <= 0 => ms = 0
    BY <1>2, <2>1, <2>2
  <2> QED
    BY <2>6, <2>7, <2>8 DEF gap, ms, u, D
<1>5. CASE D > 0
  <2>1. D * USEC >= 1 * USEC
    BY <1>1, <1>2, <1>5, MulMonotone
  <2>2. gap > 0
    BY <1>1, <1>2, <2>1
  <2>3. D > FarSecs => ms = FarSecs * MSECS
    BY <1>1, <1>5 DEF Time!timeval_minus_msec
  <2>4. ASSUME D <= FarSecs
        PROVE  ms >= 0 /\ ms * u - gap \in -(u - 1) .. u - 1
    <3> DEFINE q == Time!CDiv(e, u)
               r == Time!CMod(e, u)
    <3>1. ms = D * MSECS + q
      BY <1>1, <1>5, <2>4 DEF Time!timeval_minus_msec
    <3>2. /\ q \in Int /\ r \in Int /\ e = q * u + r
          /\ e >= 0 => q >= 0 /\ r \in 0 .. u - 1
          /\ e < 0 => r \in -(u - 1) .. 0
      BY <1>1, <1>2, CDivBounds
    <3> HIDE DEF gap, ms, u, D, e, q, r
    <3>3. r \in -(u - 1) .. u - 1
      BY <1>1, <1>2, <3>2
    <3>4. ms * u = D * USEC + q * u
      <4>1. ms * u = (D * MSECS) * u + q * u
        BY <1>1, <1>2, <3>1, <3>2
      <4>2. (D * MSECS) * u = D * USEC
        BY <1>1, <1>2
      <4> QED
        BY <4>1, <4>2
    <3>5. D * USEC \in Int /\ q * u \in Int
      BY <1>1, <1>2, <3>2
    <3>6. ms * u - gap = -r
      BY <1>2, <3>2, <3>4, <3>5
    <3>7. q > -MSECS
      <4>1. q * u > -USEC
        BY <1>1, <1>2, <3>2
      <4>2. CASE q <= -MSECS
        <5>1. q * u <= (-MSECS) * u
          BY <1>1, <3>2, <4>2, MulMonotone
        <5>2. (-MSECS) * u = -USEC
          BY <1>1
        <5> QED
          BY <4>1, <5>1, <5>2, <3>5, <1>1
      <4> QED
        BY <4>2, <3>2, <1>1
    <3>8. D * MSECS >= 1 * MSECS
      BY <1>1, <1>2, <1>5, MulMonotone
    <3>9. D * MSECS \in Int
      BY <1>1, <1>2
    <3>10. ms >= 0
      BY <1>1, <3>1, <3>2, <3>7, <3>8, <3>9
    <3> QED
      BY <1>1, <3>2, <3>3, <3>6, <3>10
  <2> HIDE DEF gap, ms, u, D
  <2> QED
    BY <1>1, <1>2, <2>2, <2>3, <2>4 DEF gap, ms, u, D
<1> QED
  BY <1>2, <1>3, <1>4, <1>5

\* The record timeval_subtract rewrites still stands for its owner's time.
TimeInv ==
    /\ DeadlineInv
    /\ y \in Pairs /\ y0 \in Time!Timevals /\ Time!Instant(y) = Time!Instant(y0)

LEMMA TimevalIsPair ==
    ASSUME TimeUnits, NEW t \in Time!Timevals
    PROVE  t \in Pairs /\ t \in [tv_sec : Int, tv_usec : 0 .. USEC - 1]
  BY TimevalIsMoment DEF Moments, Pairs, TimeUnits

LEMMA TimeInit == ASSUME TimeUnits, Time!Init PROVE TimeInv
  BY TimevalIsPair DEF Time!Init, TimeInv, DeadlineInv, Time!Never

LEMMA TimeNext == ASSUME TimeUnits, TimeInv, [Time!Next]_(Time!vars) PROVE TimeInv'
<1>1. CASE UNCHANGED Time!vars
  BY <1>1 DEF Time!vars, TimeInv, DeadlineInv
<1>2. ASSUME NEW m \in Time!Timevals, Time!FoldMin(m) PROVE DeadlineInv'
  BY <1>2, TimevalIsMoment, DeadlineFold DEF TimeInv
<1>3. ASSUME NEW now \in Time!Timevals, NEW m \in Time!Delays, m >= 0, Time!FoldDelay(now, m)
      PROVE  DeadlineInv'
  <2>1. PICK r \in Time!roughly(m) : Time!FoldMin(Time!timeval_add_msec(now, r))
    BY <1>3 DEF Time!FoldDelay
  <2>2. r \in Int /\ r >= 0
    BY <1>3, RoughlyNear DEF Time!Delays, TimeUnits
  <2> QED
    BY <2>1, <2>2, DeadlineFoldDelay DEF TimeInv
<1>4. ASSUME NEW secs \in Secs, Time!FoldMinSec(secs) PROVE DeadlineInv'
  BY <1>4, DeadlineFoldSec DEF TimeInv
<1>5. CASE Time!Restart /\ UNCHANGED <<y, y0>>
  BY <1>5 DEF Time!Restart, TimeInv, DeadlineInv
<1>6. ASSUME NEW x \in Time!Timevals, Time!Subtract(x), UNCHANGED <<d, folded, y0>>
      PROVE  TimeInv'
  <2>1. y' = Time!timeval_subtract(x, y).y
    BY <1>6 DEF Time!Subtract
  <2>2. y' \in Pairs /\ Time!Instant(y') = Time!Instant(y)
    BY <2>1, TimevalIsPair, SubtractExact DEF TimeInv
  <2>3. DeadlineInv'
    BY <1>6 DEF TimeInv, DeadlineInv
  <2>4. Time!Instant(y)' = Time!Instant(y') /\ Time!Instant(y0)' = Time!Instant(y0)
    BY <1>6 DEF Time!Instant
  <2> QED
    BY <1>6, <2>2, <2>3, <2>4 DEF TimeInv
<1>7. CASE UNCHANGED <<y, y0>> /\ DeadlineInv'
  BY <1>7 DEF TimeInv, Time!Instant
<1> QED
  BY <1>1, <1>2, <1>3, <1>4, <1>5, <1>6, <1>7 DEF Time!Next

LEMMA TimeDeadline == ASSUME TimeUnits, TimeInv PROVE Time!DeadlineNotLate /\ Time!DeadlineNotEarly
  BY DEF TimeInv, DeadlineInv, Time!DeadlineNotLate, Time!DeadlineNotEarly, Time!Never, Moments

LEMMA TimeSubtract == ASSUME TimeUnits, TimeInv PROVE Time!SubtractKeepsY /\ Time!FreshSubtract
<1>1. Time!SubtractKeepsY
  BY TimevalIsPair, SubtractExact DEF TimeInv, Time!SubtractKeepsY
<1>2. Time!FreshSubtract
  BY TimevalIsMoment, SubtractFresh DEF TimeInv, Time!FreshSubtract
<1> QED
  BY <1>1, <1>2

LEMMA TimeMsecs == ASSUME TimeUnits, TimeInv PROVE Time!MsecsAreExact
<1> SUFFICES ASSUME NEW x \in Time!Timevals, NEW m \in Time!Delays
             PROVE  LET gap == Time!Instant(x) - Time!Instant(y0)
                        ms == Time!timeval_minus_msec(x, y0)
                        later == Time!timeval_add_msec(x, m)
                    IN  /\ gap <= 0 => ms = 0
                        /\ gap > 0 /\ x.tv_sec - y0.tv_sec <= FarSecs =>
                              /\ ms >= 0
                              /\ ms * Time!UsecsPerMsec - gap \in
                                    -(Time!UsecsPerMsec - 1) .. Time!UsecsPerMsec - 1
                        /\ x.tv_sec - y0.tv_sec > FarSecs => ms = FarSecs * MSECS
                        /\ Time!Instant(later) = Time!Instant(x) + m * Time!UsecsPerMsec
                        /\ m >= 0 => Time!Normal(later)
  BY DEF Time!MsecsAreExact
<1>1. x \in Moments /\ y0 \in Moments /\ m \in Int
  BY TimevalIsMoment DEF TimeInv, Time!Delays, TimeUnits
<1>2. /\ Time!Instant(Time!timeval_add_msec(x, m)) = Time!Instant(x) + m * Time!UsecsPerMsec
      /\ m >= 0 => Time!Normal(Time!timeval_add_msec(x, m))
  BY <1>1, TimevalIsPair, AddMsec DEF Time!Normal
<1> QED
  BY <1>1, <1>2, MinusMsec

LEMMA TimeJitter == ASSUME TimeUnits, TimeInv PROVE Time!JitterNear
<1> SUFFICES ASSUME NEW m \in Time!Delays, NEW r \in Time!roughly(m)
             PROVE  LET due == Time!Instant(Time!timeval_add_msec(y0, r)) - Time!Instant(y0)
                        ask == m * Time!UsecsPerMsec
                        slack == 3 * Time!UsecsPerMsec
                    IN  /\ ask = 0 <=> due = 0
                        /\ ask > 0 => due > 0 /\ 4 * due >= 3 * ask - slack /\ 4 * due <= 5 * ask
                        /\ ask < 0 => due < 0 /\ 4 * due <= 3 * ask + slack /\ 4 * due >= 5 * ask
  BY DEF Time!JitterNear
<1> DEFINE u == Time!UsecsPerMsec
           due == Time!Instant(Time!timeval_add_msec(y0, r)) - Time!Instant(y0)
<1>1. m \in Int /\ u \in Nat /\ u > 0
  BY DEF Time!Delays, TimeUnits
<1>2. /\ r \in Int
      /\ m = 0 => r = 0
      /\ m > 0 => r > 0 /\ 4 * r >= 3 * m - 3 /\ 4 * r <= 5 * m
      /\ m < 0 => r < 0 /\ 4 * r <= 3 * m + 3 /\ 4 * r >= 5 * m
  BY <1>1, RoughlyNear
<1>3. due = r * u
  <2>1. y0 \in [tv_sec : Int, tv_usec : 0 .. USEC - 1]
    BY TimevalIsPair DEF TimeInv
  <2>2. Time!Instant(Time!timeval_add_msec(y0, r)) = Time!Instant(y0) + r * u
    BY <1>2, <2>1, AddMsec
  <2>3. Time!Instant(y0) \in Int
    BY <2>1 DEF Time!Instant, TimeUnits
  <2>4. r * u \in Int
    BY <1>1, <1>2
  <2> QED
    BY <2>2, <2>3, <2>4
<1> HIDE DEF u, due
<1>4. CASE m = 0
  <2>1. due = 0 /\ m * u = 0
    BY <1>1, <1>2, <1>3, <1>4
  <2> QED
    BY <2>1 DEF u, due
<1>5. CASE m > 0
  <2>1. due > 0 /\ m * u > 0
    BY <1>1, <1>2, <1>3, <1>5
  <2>2. (3 * m - 3) * u <= (4 * r) * u /\ (4 * r) * u <= (5 * m) * u
    BY <1>1, <1>2, <1>5, MulMonotone
  <2>3. 4 * due >= 3 * (m * u) - 3 * u /\ 4 * due <= 5 * (m * u)
    BY <1>1, <1>2, <1>3, <2>2
  <2>4. m * u \in Int
    BY <1>1
  <2> QED
    BY <2>1, <2>3, <2>4 DEF u, due
<1>6. CASE m < 0
  <2>1. due < 0 /\ m * u < 0
    BY <1>1, <1>2, <1>3, <1>6
  <2>2. (4 * r) * u <= (3 * m + 3) * u /\ (5 * m) * u <= (4 * r) * u
    BY <1>1, <1>2, <1>6, MulMonotone
  <2>3. 4 * due <= 3 * (m * u) + 3 * u /\ 4 * due >= 5 * (m * u)
    BY <1>1, <1>2, <1>3, <2>2
  <2>4. m * u \in Int
    BY <1>1
  <2> QED
    BY <2>1, <2>3, <2>4 DEF u, due
<1> QED
  BY <1>1, <1>4, <1>5, <1>6

(* For every second and millisecond and every set of times: a deadline is   *)
(* neither late nor early, timeval_subtract may rewrite its argument again  *)
(* and again and later differences stay true, and milliseconds and jitter   *)
(* are exact to within one millisecond.                                     *)
THEOREM TimesSoundHolds ==
    ASSUME TimeUnits
    PROVE  Spec => []TimesSound
<1> DEFINE I == unit = "time" => TimeInv
<1>1. TimeInv => Time!TimesSound
  BY TimeDeadline, TimeSubtract, TimeMsecs, TimeJitter DEF Time!TimesSound
<1>2. Init => I
  BY PartInit, TimeInit
<1>3. I /\ [Next]_vars => I'
  BY PartNext, TimeNext
<1>4. I => TimesSound
  BY <1>1 DEF TimesSound
<1> HIDE DEF I
<1> QED
  BY <1>2, <1>3, <1>4, PTL DEF Spec

----------------------------------------------------------------------------
(* The address parser and its test program *)

(* strrchr finds the last colon when there is one. *)
LEMMA HighestIs ==
    ASSUME NEW n \in Nat, NEW S, S \subseteq 1 .. n, S # {}
    PROVE  Addr!Highest(S) \in S /\ \A j \in S : j <= Addr!Highest(S)
<1> DEFINE D == {n - k : k \in S}
<1>0. \A k \in S : k \in Nat /\ n - k \in Nat
  OBVIOUS
<1>1. D \subseteq Nat /\ D # {}
  BY <1>0
<1>2. PICK x \in D : \A z \in D : x <= z
  BY <1>1, LeastNatural
<1>3. PICK k \in S : x = n - k
  BY <1>2
<1>4. \A j \in S : j <= k
  <2>1. \A j \in S : n - k <= n - j
    BY <1>2, <1>3
  <2> QED
    BY <1>0, <2>1
<1> QED
  BY <1>4 DEF Addr!Highest

(* A C string ends before the first NUL. *)
LEMMA CStringEnds ==
    ASSUME NEW X, NEW buf \in Seq(X), NEW k \in Nat, NEW e \in k .. Len(buf), buf[e] = Addr!NUL,
           \A j \in k .. e - 1 : buf[j] # Addr!NUL
    PROVE  Addr!CString(buf, k) = SubSeq(buf, k, e - 1)
<1> DEFINE P(x) == buf[x] = Addr!NUL /\ \A j \in k .. x - 1 : buf[j] # Addr!NUL
<1>0. Len(buf) \in Nat
  BY LenProperties
<1>1. ASSUME NEW x \in k .. Len(buf), P(x) PROVE x = e
  <2>1. ~(x < e)
    BY <1>0, <1>1
  <2>2. ~(e < x)
    BY <1>0, <1>1
  <2> QED
    BY <1>0, <2>1, <2>2
<1>2. P(e)
  OBVIOUS
<1>3. (CHOOSE x \in k .. Len(buf) : P(x)) = e
  BY <1>1, <1>2
<1> QED
  BY <1>3 DEF Addr!CString

(* The bare form: a text cut at its last colon, c. *)
BareIs(t, a, m, p, x, n, c) ==
    Join(a, m, p) = t /\ Addr!Where(p, x) = {}
        <=> a = SubSeq(t, 1, c - 1) /\ p = SubSeq(t, c + 1, n)

LEMMA BareForm ==
    ASSUME NEW X, NEW x, NEW t \in Seq(X), NEW a \in Seq(X), NEW p \in Seq(X), NEW m \in Seq(X),
           Len(m) = 1, m[1] = x, NEW n \in Nat, n = Len(t), NEW c \in 1 .. n, LastAt(x, t, n, c)
    PROVE  BareIs(t, a, m, p, x, n, c)
<1>1. JoinedByElements(a, m, p, t)
  BY JoinIs
<1>2. Addr!Where(p, x) = {} <=> \A k \in 1 .. Len(p) : p[k] # x
  BY DEF Addr!Where
<1>3. PICK la \in Nat, lp \in Nat : la = Len(a) /\ lp = Len(p)
  BY LenProperties
<1>4. a = SubSeq(t, 1, c - 1) <=> la = c - 1 /\ \A k \in 1 .. c - 1 : a[k] = t[k]
  <2>1. PICK b \in Nat : b = c - 1
    OBVIOUS
  <2>2. 1 \in Nat /\ 1 <= 1 /\ 1 <= b + 1 /\ b <= Len(t)
    BY <2>1
  <2>3. PieceByElements(a, t, 1, b)
    BY <2>2, IsPiece
  <2>4. b + 1 - 1 = c - 1 /\ \A k \in 1 .. c - 1 : 1 - 1 + k = k
    BY <2>1
  <2> QED
    BY <1>3, <2>1, <2>3, <2>4 DEF PieceByElements
<1>5. p = SubSeq(t, c + 1, n) <=> lp = n - c /\ \A k \in 1 .. n - c : p[k] = t[c + k]
  <2>1. TailByElements(p, t, n, c)
    BY TailIs
  <2> QED
    BY <1>3, <2>1 DEF TailByElements
<1>6. Join(a, m, p) = t <=>
              /\ n = la + 1 + lp
              /\ \A k \in 1 .. la : t[k] = a[k]
              /\ t[la + 1] = x
              /\ \A k \in 1 .. lp : t[la + 1 + k] = p[k]
  <2>1. Len(m) = 1 /\ ((\A k \in 1 .. 1 : t[la + k] = m[k]) <=> t[la + 1] = x)
    OBVIOUS
  <2> QED
    BY <1>1, <1>3, <2>1 DEF JoinedByElements
<1>7. CutAt(x, t, p, n, la, lp) => la = c - 1 /\ lp = n - c
  BY CutIsUnique
<1>8. ASSUME la = c - 1, lp = n - c
      PROVE  /\ n = la + 1 + lp /\ t[la + 1] = x
             /\ (\A k \in 1 .. lp : t[la + 1 + k] = p[k]) <=> \A k \in 1 .. n - c : p[k] = t[c + k]
             /\ (\A k \in 1 .. la : t[k] = a[k]) <=> \A k \in 1 .. c - 1 : a[k] = t[k]
             /\ (\A k \in 1 .. n - c : p[k] = t[c + k]) => \A k \in 1 .. lp : p[k] # x
  <2>1. la + 1 = c
    BY <1>8
  <2>2. \A k \in 1 .. n - c : c + k \in c + 1 .. n
    OBVIOUS
  <2> QED
    BY <1>8, <2>1, <2>2 DEF LastAt
<1> QED
  BY <1>2, <1>3, <1>4, <1>5, <1>6, <1>7, <1>8 DEF CutAt, BareIs

(* The bracketed form: the closing bracket e is right before the last colon. *)
BracketIs(t, a, u, m, p, x, b, e, n, c) ==
    Join(u, m, p) = t /\ Addr!Where(p, x) = {}
        <=> /\ c >= 3 /\ t[1] = b /\ t[c - 1] = e
            /\ a = SubSeq(t, 2, c - 2) /\ p = SubSeq(t, c + 1, n)

LEMMA BracketForm ==
    ASSUME NEW X, NEW x, NEW b, NEW e, NEW t \in Seq(X), NEW a \in Seq(X), NEW p \in Seq(X),
           NEW m \in Seq(X), Len(m) = 2, m[1] = e, m[2] = x,
           NEW u \in Seq(X), Len(u) = Len(a) + 1, u[1] = b, \A k \in 1 .. Len(a) : u[k + 1] = a[k],
           NEW n \in Nat, n = Len(t), NEW c \in 1 .. n, LastAt(x, t, n, c)
    PROVE  BracketIs(t, a, u, m, p, x, b, e, n, c)
<1>1. JoinedByElements(u, m, p, t)
  BY JoinIs
<1>2. Addr!Where(p, x) = {} <=> \A k \in 1 .. Len(p) : p[k] # x
  BY DEF Addr!Where
<1>3. PICK la \in Nat, lp \in Nat : la = Len(a) /\ lp = Len(p)
  BY LenProperties
<1>4. ASSUME c >= 3
      PROVE  a = SubSeq(t, 2, c - 2) <=> la = c - 3 /\ \A k \in 1 .. c - 3 : a[k] = t[k + 1]
  <2>1. PICK g \in Nat : g = c - 2
    BY <1>4
  <2>2. 2 \in Nat /\ 1 <= 2 /\ 2 <= g + 1 /\ g <= Len(t)
    BY <1>4, <2>1
  <2>3. PieceByElements(a, t, 2, g)
    BY <2>2, IsPiece
  <2>4. g + 1 - 2 = c - 3 /\ \A k \in 1 .. c - 3 : 2 - 1 + k = k + 1
    BY <2>1
  <2> QED
    BY <1>3, <2>1, <2>3, <2>4 DEF PieceByElements
<1>5. p = SubSeq(t, c + 1, n) <=> lp = n - c /\ \A k \in 1 .. n - c : p[k] = t[c + k]
  <2>1. TailByElements(p, t, n, c)
    BY TailIs
  <2> QED
    BY <1>3, <2>1 DEF TailByElements
<1>6. Join(u, m, p) = t <=>
              /\ n = la + 1 + 2 + lp
              /\ \A k \in 1 .. la + 1 : t[k] = u[k]
              /\ t[la + 1 + 1] = e /\ t[la + 1 + 2] = x
              /\ \A k \in 1 .. lp : t[la + 1 + 2 + k] = p[k]
  <2>1. Len(m) = 2 /\ ((\A k \in 1 .. 2 : t[la + 1 + k] = m[k]) <=> t[la + 1 + 1] = e /\ t[la + 1 + 2] = x)
    <3>1. \A k : k \in 1 .. 2 <=> k = 1 \/ k = 2
      OBVIOUS
    <3> QED
      BY <3>1
  <2> QED
    BY <1>1, <1>3, <2>1 DEF JoinedByElements
<1>7. (\A k \in 1 .. la + 1 : t[k] = u[k]) <=> t[1] = b /\ \A k \in 1 .. la : t[k + 1] = a[k]
  <2>1. \A k \in 1 .. la : k + 1 \in 1 .. la + 1 /\ u[k + 1] = a[k]
    BY <1>3
  <2>2. \A k \in 1 .. la + 1 : k = 1 \/ \E j \in 1 .. la : k = j + 1
    <3>1. \A k \in 1 .. la + 1 : k = 1 \/ (k - 1 \in 1 .. la /\ k = (k - 1) + 1)
      OBVIOUS
    <3> QED
      BY <3>1
  <2>3. 1 \in 1 .. la + 1
    OBVIOUS
  <2>4. ASSUME \A k \in 1 .. la + 1 : t[k] = u[k]
        PROVE  t[1] = b /\ \A k \in 1 .. la : t[k + 1] = a[k]
    BY <2>1, <2>3, <2>4
  <2>5. ASSUME t[1] = b, \A k \in 1 .. la : t[k + 1] = a[k], NEW k \in 1 .. la + 1
        PROVE  t[k] = u[k]
    <3>1. CASE k = 1
      BY <2>5, <3>1
    <3>2. ASSUME NEW j \in 1 .. la, k = j + 1 PROVE t[k] = u[k]
      <4>1. t[j + 1] = a[j] /\ u[j + 1] = a[j]
        BY <2>1, <2>5
      <4> QED
        BY <3>2, <4>1
    <3> QED
      BY <2>2, <3>1, <3>2
  <2> QED
    BY <2>4, <2>5
<1>8. PICK lc \in Nat : lc = la + 2
  OBVIOUS
<1>9. CutAt(x, t, p, n, lc, lp) => lc = c - 1 /\ lp = n - c
  BY CutIsUnique
<1>10. /\ n = la + 1 + 2 + lp /\ t[la + 1 + 2] = x
       /\ \A k \in 1 .. lp : t[la + 1 + 2 + k] = p[k]
       /\ \A k \in 1 .. lp : p[k] # x
       => la = c - 3 /\ lp = n - c /\ c >= 3
  <2>1. la + 1 + 2 = lc + 1
    BY <1>8
  <2> QED
    BY <1>8, <1>9, <2>1 DEF CutAt
<1>11. ASSUME la = c - 3, lp = n - c
       PROVE  /\ n = la + 1 + 2 + lp /\ t[la + 1 + 2] = x
              /\ t[la + 1 + 1] = t[c - 1]
              /\ (\A k \in 1 .. lp : t[la + 1 + 2 + k] = p[k]) <=> \A k \in 1 .. n - c : p[k] = t[c + k]
              /\ (\A k \in 1 .. la : t[k + 1] = a[k]) <=> \A k \in 1 .. c - 3 : a[k] = t[k + 1]
              /\ (\A k \in 1 .. n - c : p[k] = t[c + k]) => \A k \in 1 .. lp : p[k] # x
  <2>0. c \in Nat /\ la + 1 + 2 = c /\ la + 1 + 1 = c - 1
    BY <1>11
  <2>1. la + 1 + 2 = c /\ la + 1 + 1 = c - 1 /\ n = la + 1 + 2 + lp
    BY <1>11, <2>0
  <2>2. (\A k \in 1 .. n - c : p[k] = t[c + k]) => \A k \in 1 .. lp : p[k] # x
    <3>1. \A k \in 1 .. n - c : c + k \in c + 1 .. n
      OBVIOUS
    <3>2. \A k \in 1 .. n - c : t[c + k] # x
      BY <3>1 DEF LastAt
    <3> QED
      BY <1>11, <3>2
  <2>3. (\A k \in 1 .. lp : t[la + 1 + 2 + k] = p[k]) <=> \A k \in 1 .. n - c : p[k] = t[c + k]
    <3>1. \A k \in 1 .. lp : t[la + 1 + 2 + k] = t[c + k]
      <4>1. \A k \in 1 .. lp : la + 1 + 2 + k = c + k
        BY <2>1
      <4> QED
        BY <4>1
    <3>2. 1 .. lp = 1 .. n - c
      BY <1>11
    <3> QED
      BY <3>1, <3>2, Zenon
  <2>4. (\A k \in 1 .. la : t[k + 1] = a[k]) <=> \A k \in 1 .. c - 3 : a[k] = t[k + 1]
    BY <1>11
  <2>5. t[la + 1 + 2] = x /\ t[la + 1 + 1] = t[c - 1]
    BY <2>1 DEF LastAt
  <2> QED
    BY <2>1, <2>2, <2>3, <2>4, <2>5
<1> QED
  BY <1>2, <1>3, <1>4, <1>5, <1>6, <1>7, <1>10, <1>11 DEF BracketIs

(* The C string that a NUL right after g ends. *)
LEMMA CStringIs ==
    ASSUME NEW X, NEW t \in Seq(X), NEW buf \in Seq(X), NEW f \in Nat, NEW g \in Nat, 1 <= f, f <= g + 1,
           g <= Len(t), g + 1 <= Len(buf), buf[g + 1] = Addr!NUL,
           \A k \in f .. g : buf[k] = t[k] /\ t[k] # Addr!NUL
    PROVE  Addr!CString(buf, f) = SubSeq(t, f, g)
<1>1. PICK e \in f .. Len(buf) : e = g + 1 /\ e - 1 = g
  <2>1. PICK l \in Nat : l = Len(buf)
    BY LenProperties
  <2>2. g + 1 \in f .. l /\ (g + 1) - 1 = g
    BY <2>1
  <2> QED
    BY <2>1, <2>2
<1>2. buf[e] = Addr!NUL /\ \A j \in f .. e - 1 : buf[j] # Addr!NUL
  BY <1>1
<1>3. Addr!CString(buf, f) = SubSeq(buf, f, e - 1)
  BY <1>2, CStringEnds
<1>4. g <= Len(buf)
  BY LenProperties
<1>5. SubSeq(buf, f, g) \in Seq(X)
  BY <1>4, PieceOf
<1>6. PICK w \in Seq(X) : w = SubSeq(buf, f, g)
  BY <1>5
<1>7. PieceByElements(w, buf, f, g) /\ PieceByElements(w, t, f, g)
  BY IsPiece, LenProperties
<1>8. Len(w) = g + 1 - f /\ \A k \in 1 .. g + 1 - f : w[k] = buf[f - 1 + k]
  BY <1>6, <1>7 DEF PieceByElements
<1>9. \A k \in 1 .. g + 1 - f : f - 1 + k \in f .. g
  OBVIOUS
<1>10. \A k \in 1 .. g + 1 - f : w[k] = t[f - 1 + k]
  BY <1>8, <1>9
<1> QED
  BY <1>1, <1>3, <1>6, <1>7, <1>8, <1>10 DEF PieceByElements

(* The two results of the splitting part of to_addr_port. *)
Refused == [rc |-> Addr!EINVAL, addr |-> <<>>, port |-> <<>>]
Taken(a, p) == [rc |-> 0, addr |-> a, port |-> p]

(* Where to_addr_port cuts a text whose last colon is at c. *)
LEMMA SplitCuts ==
    ASSUME NEW X, Addr!NUL \in X, NEW t \in Seq(X), NEW n \in Nat, n = Len(t),
           \A k \in 1 .. n : t[k] # Addr!NUL, NEW c \in 1 .. n, LastAt(":", t, n, c)
    PROVE  Addr!Split(t) =
              IF t[1] # "[" THEN Taken(SubSeq(t, 1, c - 1), SubSeq(t, c + 1, n))
              ELSE IF c >= 3 /\ t[c - 1] = "]" THEN Taken(SubSeq(t, 2, c - 2), SubSeq(t, c + 1, n))
              ELSE Refused
<1>1. Addr!Where(t, ":") # {} /\ Addr!Where(t, ":") \subseteq 1 .. n
  BY DEF Addr!Where, LastAt
<1>2. Addr!Highest(Addr!Where(t, ":")) = c
  <2>1. /\ Addr!Highest(Addr!Where(t, ":")) \in Addr!Where(t, ":")
        /\ \A j \in Addr!Where(t, ":") : j <= Addr!Highest(Addr!Where(t, ":"))
    BY <1>1, HighestIs
  <2>2. c \in Addr!Where(t, ":") /\ \A j \in Addr!Where(t, ":") : j \in 1 .. n /\ j <= c
    <3>1. c \in Addr!Where(t, ":")
      BY DEF Addr!Where, LastAt
    <3>2. ASSUME NEW j \in Addr!Where(t, ":") PROVE j \in 1 .. n /\ j <= c
      <4>1. j \in 1 .. n /\ t[j] = ":"
        BY DEF Addr!Where
      <4>2. j \notin c + 1 .. n
        BY <4>1 DEF LastAt
      <4> QED
        BY <4>1, <4>2
    <3> QED
      BY <3>1, <3>2
  <2>3. PICK w : w = Addr!Highest(Addr!Where(t, ":"))
    OBVIOUS
  <2>4. w \in 1 .. n /\ w <= c /\ c <= w
    BY <2>1, <2>2, <2>3
  <2>5. w = c
    BY <2>4
  <2> QED
    BY <2>3, <2>5
<1> DEFINE buf == [Append(t, Addr!NUL) EXCEPT ![c] = Addr!NUL]
           end == [buf EXCEPT ![c - 1] = Addr!NUL]
<1>3. Addr!Split(t) =
         IF buf[1] # "[" THEN [rc |-> 0, addr |-> Addr!CString(buf, 1), port |-> Addr!CString(buf, c + 1)]
         ELSE IF buf[c - 1] # "]" THEN [rc |-> Addr!EINVAL, addr |-> <<>>, port |-> <<>>]
         ELSE [rc |-> 0, addr |-> Addr!CString(end, 2), port |-> Addr!CString(buf, c + 1)]
  BY <1>1, <1>2 DEF Addr!Split
<1>4. /\ buf \in Seq(X) /\ Len(buf) = n + 1 /\ buf[c] = Addr!NUL /\ buf[n + 1] = Addr!NUL
      /\ \A k \in 1 .. n : k # c => buf[k] = t[k]
  BY CutBuffer
<1>5. c - 1 \in 1 .. n => /\ end \in Seq(X) /\ Len(end) = n + 1
                          /\ \A k \in 1 .. n + 1 : end[k] = IF k = c - 1 THEN Addr!NUL ELSE buf[k]
  <2> HIDE DEF buf
  <2>1. c - 1 \in 1 .. n => c - 1 \in 1 .. Len(buf)
    BY <1>4
  <2> QED
    BY <1>4, <2>1, ExceptSeq
<1> HIDE DEF buf, end
<1>6. PICK last \in Nat : last = c - 1
  OBVIOUS
<1>7. Addr!CString(buf, 1) = SubSeq(t, 1, last)
  <2>1. 1 \in Nat /\ 1 <= 1 /\ 1 <= last + 1 /\ last <= Len(t) /\ last + 1 <= Len(buf) /\ buf[last + 1] = Addr!NUL
    BY <1>4, <1>6
  <2>2. \A k \in 1 .. last : buf[k] = t[k] /\ t[k] # Addr!NUL
    BY <1>4, <1>6
  <2> QED
    BY <1>4, <2>1, <2>2, CStringIs
<1>8. Addr!CString(buf, c + 1) = SubSeq(t, c + 1, n)
  <2>1. PICK f \in Nat : f = c + 1
    OBVIOUS
  <2>2. 1 <= f /\ f <= n + 1 /\ n <= Len(t) /\ n + 1 <= Len(buf) /\ buf[n + 1] = Addr!NUL
    BY <1>4, <2>1
  <2>3. \A k \in f .. n : buf[k] = t[k] /\ t[k] # Addr!NUL
    BY <1>4, <2>1
  <2>4. Addr!CString(buf, f) = SubSeq(t, f, n)
    BY <1>4, <2>2, <2>3, CStringIs
  <2> QED
    BY <2>1, <2>4
<1>9. ASSUME c >= 3 PROVE Addr!CString(end, 2) = SubSeq(t, 2, c - 2)
  <2>1. PICK g \in Nat : g = c - 2
    BY <1>9
  <2>2. c - 1 \in 1 .. n /\ g + 1 = c - 1 /\ g + 1 \in 1 .. n + 1
    BY <1>9, <2>1
  <2>3. /\ end \in Seq(X) /\ Len(end) = n + 1
        /\ \A k \in 1 .. n + 1 : end[k] = IF k = c - 1 THEN Addr!NUL ELSE buf[k]
    BY <1>5, <2>2
  <2>4. 2 \in Nat /\ 1 <= 2 /\ 2 <= g + 1 /\ g <= Len(t) /\ g + 1 <= Len(end)
    BY <1>9, <2>1, <2>3
  <2>5. end[g + 1] = Addr!NUL
    BY <2>2, <2>3
  <2>6. \A k \in 2 .. g : k \in 1 .. n + 1 /\ k \in 1 .. n /\ k # c - 1 /\ k # c
    BY <2>1
  <2>7. \A k \in 2 .. g : end[k] = t[k] /\ t[k] # Addr!NUL
    BY <1>4, <2>3, <2>6
  <2>8. Addr!CString(end, 2) = SubSeq(t, 2, g)
    BY <2>3, <2>4, <2>5, <2>7, CStringIs
  <2> QED
    BY <2>1, <2>8
<1>10. buf[1] # "[" <=> t[1] # "["
  <2>1. Addr!NUL # "[" /\ ":" # "["
    BY DEF Addr!NUL
  <2>2. 1 \in 1 .. n
    OBVIOUS
  <2> QED
    BY <1>4, <2>1, <2>2 DEF LastAt
<1>11. ASSUME t[1] = "[" PROVE buf[c - 1] = "]" <=> c >= 3 /\ t[c - 1] = "]"
  <2>1. c # 1 /\ "[" # "]"
    BY <1>11 DEF LastAt
  <2>2. c - 1 \in 1 .. n /\ c - 1 # c
    BY <2>1
  <2>3. buf[c - 1] = t[c - 1]
    BY <1>4, <2>2
  <2>4. c >= 3 \/ c - 1 = 1
    BY <2>1
  <2> QED
    BY <1>11, <2>1, <2>3, <2>4
<1> QED
  BY <1>3, <1>6, <1>7, <1>8, <1>9, <1>10, <1>11 DEF Taken, Refused

(* The pieces of a text, and what Denotes takes of them. *)
PiecesOf(t) == {SubSeq(t, a, b) : a \in 1 .. Len(t) + 1, b \in 0 .. Len(t)}
FormBare(t, a, p) == Addr!Concat3(a, <<":">>, p) = t /\ Addr!Where(p, ":") = {}
FormBracket(t, a, p) == Addr!Concat3(<<"[">> \o a, <<"]", ":">>, p) = t /\ Addr!Where(p, ":") = {}

LEMMA DenotesIs ==
    ASSUME NEW t
    PROVE  Addr!Denotes(t) = {m \in [addr : PiecesOf(t), port : PiecesOf(t)] :
                         (FormBare(t, m.addr, m.port) /\ t[1] # "[") \/ FormBracket(t, m.addr, m.port)}
<1> DEFINE Both == [addr : PiecesOf(t), port : PiecesOf(t)]
<1>1. Addr!Denotes(t) = {m \in Both :
            /\ Addr!Where(m.port, ":") = {}
            /\ \/ Addr!Concat3(m.addr, <<":">>, m.port) = t /\ t[1] # "["
               \/ Addr!Concat3(<<"[">> \o m.addr, <<"]", ":">>, m.port) = t}
  BY DEF Addr!Denotes, PiecesOf
<1> HIDE DEF Both
<1>2. \A m : (FormBare(t, m.addr, m.port) /\ t[1] # "[") \/ FormBracket(t, m.addr, m.port)
            <=> /\ Addr!Where(m.port, ":") = {}
                /\ \/ Addr!Concat3(m.addr, <<":">>, m.port) = t /\ t[1] # "["
                   \/ Addr!Concat3(<<"[">> \o m.addr, <<"]", ":">>, m.port) = t
  BY Zenon DEF FormBare, FormBracket
<1>3. Addr!Denotes(t) = {m \in Both :
            (FormBare(t, m.addr, m.port) /\ t[1] # "[") \/ FormBracket(t, m.addr, m.port)}
  BY Zenon, <1>1, <1>2
<1> QED
  BY Zenon, <1>3 DEF Both

(* to_addr_port takes exactly the texts of the two forms. *)
LEMMA SplitForm ==
    ASSUME NEW X, Addr!NUL \in X, ":" \in X, "[" \in X, "]" \in X, NEW t \in Seq(X),
           \A k \in 1 .. Len(t) : t[k] # Addr!NUL
    PROVE  Addr!Denotes(t) = IF Addr!Split(t).rc = 0 THEN {[addr |-> Addr!Split(t).addr, port |-> Addr!Split(t).port]}
                          ELSE {}
<1>0. \A u, m, p : Addr!Concat3(u, m, p) = Join(u, m, p)
  BY Zenon DEF Addr!Concat3, Join
<1>1. PICK n \in Nat : n = Len(t)
  BY LenProperties
<1> DEFINE Piece == PiecesOf(t)
           Bare(a, p) == FormBare(t, a, p)
           Bracket(a, p) == FormBracket(t, a, p)
<1>2. Addr!Denotes(t) = {m \in [addr : Piece, port : Piece] :
                         (Bare(m.addr, m.port) /\ t[1] # "[") \/ Bracket(m.addr, m.port)}
  BY DenotesIs
<1>3. \A w \in Piece : w \in Seq(X)
  <2>1. ASSUME NEW a \in 1 .. n + 1, NEW b \in 0 .. n PROVE SubSeq(t, a, b) \in Seq(X)
    <3>1. \A k \in a .. b : k \in 1 .. n
      OBVIOUS
    <3>2. \A k \in a .. b : t[k] \in X
      BY <1>1, <3>1, ElementOfSeq
    <3> QED
      BY <3>2, SubSeqProperties
  <2>2. ASSUME NEW w \in Piece PROVE w \in Seq(X)
    <3>1. PICK a \in 1 .. n + 1, b \in 0 .. n : w = SubSeq(t, a, b)
      BY <1>1 DEF PiecesOf
    <3> HIDE DEF Piece
    <3>2. SubSeq(t, a, b) \in Seq(X)
      BY <2>1
    <3> QED
      BY <3>1, <3>2
  <2> QED
    BY <2>2
<1>4. ASSUME NEW a \in Nat, NEW b \in Nat, 1 <= a, a <= n + 1, b <= n PROVE SubSeq(t, a, b) \in Piece
  BY <1>1, <1>4 DEF PiecesOf
<1> HIDE DEF Piece, Bare, Bracket
<1>5. CASE Addr!Where(t, ":") = {}
  <2>1. Addr!Split(t) = Refused
    BY <1>5 DEF Addr!Split, Refused
  <2>2. ASSUME NEW a \in Seq(X), NEW p \in Seq(X) PROVE ~ Bare(a, p) /\ ~ Bracket(a, p)
    <3>1. \A k \in 1 .. n : t[k] # ":"
      BY <1>1, <1>5 DEF Addr!Where
    <3>2. PICK la \in Nat, lp \in Nat : la = Len(a) /\ lp = Len(p)
      BY LenProperties
    <3>3. PICK u \in Seq(X) : IsCons(u, "[", a)
      BY ConsExists
    <3>4. PICK m \in Seq(X) : IsOne(m, ":")
      BY OneExists
    <3>5. PICK q \in Seq(X) : IsTwo(q, "]", ":")
      BY TwoExists
    <3>6. JoinedByElements(a, m, p, t) /\ JoinedByElements(u, q, p, t)
      BY JoinIs
    <3>7. ASSUME Join(a, m, p) = t PROVE FALSE
      <4>1. n = la + 1 + lp /\ \A k \in 1 .. 1 : t[la + k] = m[k]
        BY <1>1, <3>2, <3>4, <3>6, <3>7 DEF JoinedByElements, IsOne
      <4>2. la + 1 \in 1 .. n /\ 1 \in 1 .. 1
        BY <4>1
      <4> QED
        BY <3>1, <3>4, <4>1, <4>2 DEF IsOne
    <3>8. ASSUME Join(u, q, p) = t PROVE FALSE
      <4>1. n = la + 1 + 2 + lp /\ \A k \in 1 .. 2 : t[la + 1 + k] = q[k]
        BY <1>1, <3>2, <3>3, <3>5, <3>6, <3>8 DEF JoinedByElements, IsTwo, IsCons
      <4>2. la + 1 + 2 \in 1 .. n /\ 2 \in 1 .. 2
        BY <4>1
      <4> QED
        BY <3>1, <3>5, <4>1, <4>2 DEF IsTwo
    <3> QED
      BY <1>0, <3>3, <3>4, <3>5, <3>7, <3>8 DEF Bare, Bracket, FormBare, FormBracket, IsOne, IsTwo, IsCons
  <2> QED
    BY <1>2, <1>3, <2>1, <2>2 DEF Refused, Addr!EINVAL
<1>6. CASE Addr!Where(t, ":") # {}
  <2>1. PICK c \in 1 .. n : LastAt(":", t, n, c)
    <3>1. Addr!Where(t, ":") \subseteq 1 .. n
      BY <1>1 DEF Addr!Where
    <3>2. PICK c \in Addr!Where(t, ":") : \A j \in Addr!Where(t, ":") : j <= c
      BY <1>6, <3>1, HighestIs
    <3>3. ASSUME NEW j \in c + 1 .. n PROVE t[j] # ":"
      <4>1. j \in 1 .. n /\ ~(j <= c)
        BY <3>1, <3>2
      <4> QED
        BY <1>1, <3>2, <4>1 DEF Addr!Where
    <3> QED
      BY <1>1, <3>1, <3>2, <3>3 DEF Addr!Where, LastAt
  <2> DEFINE tail == SubSeq(t, c + 1, n)
             bare == SubSeq(t, 1, c - 1)
             inner == SubSeq(t, 2, c - 2)
  <2>2. Addr!Split(t) = IF t[1] # "[" THEN Taken(bare, tail)
                     ELSE IF c >= 3 /\ t[c - 1] = "]" THEN Taken(inner, tail) ELSE Refused
    BY <1>1, <2>1, SplitCuts
  <2>3. tail \in Piece /\ bare \in Piece /\ (c >= 3 => inner \in Piece)
    <3>1. c + 1 \in Nat /\ 1 <= c + 1 /\ c + 1 <= n + 1 /\ c - 1 \in Nat /\ c - 1 <= n /\ 1 <= n + 1
      OBVIOUS
    <3>2. c >= 3 => c - 2 \in Nat /\ c - 2 <= n /\ 2 <= n + 1
      OBVIOUS
    <3> QED
      BY <1>4, <3>1, <3>2
  <2>4. ASSUME NEW a \in Seq(X), NEW p \in Seq(X) PROVE Bare(a, p) <=> a = bare /\ p = tail
    <3>1. PICK m \in Seq(X) : IsOne(m, ":")
      BY OneExists
    <3>2. BareIs(t, a, m, p, ":", n, c)
      BY <1>1, <2>1, <3>1, BareForm DEF IsOne
    <3> QED
      BY <1>0, <3>1, <3>2 DEF Bare, FormBare, BareIs, IsOne
  <2>5. ASSUME NEW a \in Seq(X), NEW p \in Seq(X)
        PROVE  Bracket(a, p) <=> c >= 3 /\ t[1] = "[" /\ t[c - 1] = "]" /\ a = inner /\ p = tail
    <3>1. PICK m \in Seq(X) : IsTwo(m, "]", ":")
      BY TwoExists
    <3>2. PICK u \in Seq(X) : IsCons(u, "[", a)
      BY ConsExists
    <3>3. BracketIs(t, a, u, m, p, ":", "[", "]", n, c)
      BY <1>1, <2>1, <3>1, <3>2, BracketForm DEF IsTwo, IsCons
    <3> QED
      BY <1>0, <3>1, <3>2, <3>3 DEF Bracket, FormBracket, BracketIs, IsTwo, IsCons
  <2> HIDE DEF tail, bare, inner
  <2>6. CASE t[1] # "["
    <3>1. ASSUME NEW m \in [addr : Piece, port : Piece]
          PROVE  (Bare(m.addr, m.port) /\ t[1] # "[") \/ Bracket(m.addr, m.port)
                    <=> m = [addr |-> bare, port |-> tail]
      BY <1>3, <2>4, <2>5, <2>6
    <3> QED
      BY <1>2, <2>2, <2>3, <2>6, <3>1 DEF Taken
  <2>7. CASE t[1] = "[" /\ c >= 3 /\ t[c - 1] = "]"
    <3>1. ASSUME NEW m \in [addr : Piece, port : Piece]
          PROVE  (Bare(m.addr, m.port) /\ t[1] # "[") \/ Bracket(m.addr, m.port)
                    <=> m = [addr |-> inner, port |-> tail]
      BY <1>3, <2>5, <2>7
    <3> QED
      BY <1>2, <2>2, <2>3, <2>7, <3>1 DEF Taken
  <2>8. CASE t[1] = "[" /\ ~(c >= 3 /\ t[c - 1] = "]")
    <3>1. ASSUME NEW m \in [addr : Piece, port : Piece]
          PROVE  ~((Bare(m.addr, m.port) /\ t[1] # "[") \/ Bracket(m.addr, m.port))
      BY <1>3, <2>5, <2>8
    <3> QED
      BY <1>2, <2>2, <2>8, <3>1 DEF Refused, Addr!EINVAL
  <2> QED
    BY <2>6, <2>7, <2>8
<1> QED
  BY <1>5, <1>6

(* The test program: hosts before h have their line, and no line stands for a   *)
(* host that was resolved to a family the mode does not ask for, as long as the *)
(* program means to exit with success.                                          *)

Asked == IF atype = Addr!any THEN Addr!Families ELSE {atype}

AddrInv ==
    /\ hosts \in Seq(Seq(Chars))
    /\ lines \in Seq({"NONE", "none"} \cup Addr!Families \cup {atype})
    /\ h \in Nat
    /\ apc \in {"start", "loop", "exit"}
    /\ apc = "start" => h = 1 /\ lines = <<>> /\ atype = "none"
    /\ apc = "loop" => h <= Len(hosts) + 1 /\ Len(lines) = h - 1
    /\ apc = "exit" /\ atype # "none" => Len(lines) = Len(hosts)
    /\ aret = "success" => \A k \in 1 .. Len(lines) : lines[k] \in Asked

(* The invariant holds at the start and every step keeps it. *)
LEMMA AddrInit ==
    ASSUME HostLists \subseteq Seq(Seq(Chars)), Addr!Init PROVE AddrInv
<1>1. hosts \in Seq(Seq(Chars))
  <2>1. hosts \in {<<>>} \/ hosts \in HostLists
    BY Zenon DEF Addr!Init
  <2>2. <<>> \in Seq(Seq(Chars))
    OBVIOUS
  <2> QED
    BY Zenon, <2>1, <2>2
<1>2. lines = <<>> /\ Len(<<>>) = 0
  BY DEF Addr!Init
<1> QED
  BY <1>1, <1>2 DEF Addr!Init, AddrInv

(* What a call may give: a result, and on success a family the hint allows. *)
LEMMA Outcome ==
    ASSUME NEW t, NEW r \in Addr!to_addr_port(t, atype), r.rc = 0 PROVE r.family \in Asked
  BY DEF Addr!to_addr_port, Addr!getaddrinfo, Addr!EINVAL, Addr!EADDRNOTAVAIL, Asked

LEMMA AddrHost == ASSUME AddrInv, Addr!Host PROVE AddrInv'
<1> DEFINE G == {"NONE", "none"} \cup Addr!Families \cup {atype}
<1>1. PICK r \in Addr!to_addr_port(hosts[h], atype) : Addr!Failure(r) \/ Addr!Success(r)
  BY DEF Addr!Host
<1>2. PICK f \in G : /\ lines' = Append(lines, f)
                     /\ aret' = "success" => aret = "success" /\ f \in Asked
  <2>1. CASE Addr!Failure(r)
    BY <2>1 DEF Addr!Failure
  <2>2. CASE Addr!Success(r)
    <3>1. r.family \in Asked
      BY <2>2, Outcome DEF Addr!Success
    <3> QED
      BY <2>2, <3>1 DEF Addr!Success, Asked
  <2> QED
    BY <1>1, <2>1, <2>2
<1>3. lines \in Seq(G)
  BY DEF AddrInv
<1>4. /\ lines' \in Seq(G) /\ Len(lines') = Len(lines) + 1 /\ lines'[Len(lines) + 1] = f
      /\ \A k \in 1 .. Len(lines) : lines'[k] = lines[k]
  BY <1>2, <1>3, AppendProperties
<1>5. /\ apc' = "loop" /\ h' = h + 1 /\ h <= Len(hosts) /\ UNCHANGED <<hosts, atype>> /\ apc = "loop"
  BY <1>1 DEF Addr!Host, Addr!Failure, Addr!Success
<1>6. PICK l \in Nat, nh \in Nat : l = Len(lines) /\ nh = Len(hosts)
  BY <1>3, LenProperties DEF AddrInv
<1>7. Asked' = Asked
  BY <1>5 DEF Asked
<1>8. ASSUME aret' = "success", NEW k \in 1 .. Len(lines') PROVE lines'[k] \in Asked'
  <2>1. k \in 1 .. l \/ k = l + 1
    BY <1>4, <1>6
  <2>2. k \in 1 .. l => lines[k] \in Asked
    BY <1>2, <1>6, <1>8 DEF AddrInv
  <2> QED
    BY <1>2, <1>4, <1>6, <1>7, <1>8, <2>1, <2>2
<1>9. h' \in Nat /\ h' <= nh + 1 /\ Len(lines') = h' - 1
  BY <1>4, <1>5, <1>6 DEF AddrInv
<1>10. lines' \in Seq({"NONE", "none"} \cup Addr!Families \cup {atype'})
  BY <1>4, <1>5
<1>11. hosts' \in Seq(Seq(Chars)) /\ nh = Len(hosts')
  BY <1>5, <1>6 DEF AddrInv
<1> QED
  BY <1>5, <1>8, <1>9, <1>10, <1>11 DEF AddrInv

LEMMA AddrNext == ASSUME AddrInv, [Addr!Next]_(Addr!vars) PROVE AddrInv'
<1>1. CASE Addr!Usage
  BY <1>1 DEF Addr!Usage, AddrInv, Asked
<1>2. CASE Addr!Start
  <2>1. /\ lines = <<>> /\ lines' = <<>> /\ Len(<<>>) = 0 /\ h = 1 /\ h' = 1 /\ hosts' = hosts
        /\ apc' = "loop" /\ Len(hosts) \in Nat /\ hosts \in Seq(Seq(Chars))
    BY <1>2, LenProperties DEF Addr!Start, AddrInv
  <2>2. lines' \in Seq({"NONE", "none"} \cup Addr!Families \cup {atype'})
    BY <2>1
  <2> QED
    BY <2>1, <2>2 DEF AddrInv
<1>3. CASE Addr!Done
  BY <1>3 DEF Addr!Done, AddrInv, Asked
<1>4. CASE UNCHANGED Addr!vars
  BY <1>4 DEF Addr!vars, AddrInv, Asked
<1> QED
  BY <1>1, <1>2, <1>3, <1>4, AddrHost DEF Addr!Next

(* to_addr_port takes exactly the texts of the forms address:port and           *)
(* [address]:port, whatever their length and characters (a C text holds no NUL), *)
(* and splits them at the only place the form allows; the test program reports   *)
(* every host, and exits with success only when each was resolved to a family    *)
(* the mode asked for.                                                           *)
THEOREM AddressesParsedHolds ==
    ASSUME HostLists \subseteq Seq(Seq(Chars)), Addr!NUL \notin Chars
    PROVE  Spec => []AddressesParsed
<1> DEFINE I == unit = "addresses" => AddrInv
<1>1. ASSUME AddrInv PROVE Addr!SplitIsTheForm
  <2> SUFFICES ASSUME NEW k \in DOMAIN hosts
               PROVE  Addr!Denotes(hosts[k]) =
                         IF Addr!Split(hosts[k]).rc = 0
                         THEN {[addr |-> Addr!Split(hosts[k]).addr, port |-> Addr!Split(hosts[k]).port]} ELSE {}
    BY DEF Addr!SplitIsTheForm
  <2>1. PICK t \in Seq(Chars) : t = hosts[k]
    BY <1>1, ElementOfSeq DEF AddrInv
  <2> DEFINE X == Chars \cup {Addr!NUL, ":", "[", "]"}
  <2>2. t \in Seq(X) /\ Addr!NUL \in X /\ ":" \in X /\ "[" \in X /\ "]" \in X
    BY <2>1
  <2>3. \A j \in 1 .. Len(t) : t[j] # Addr!NUL
    BY <2>1, ElementOfSeq
  <2> HIDE DEF X
  <2>4. Addr!Denotes(t) = IF Addr!Split(t).rc = 0 THEN {[addr |-> Addr!Split(t).addr, port |-> Addr!Split(t).port]}
                       ELSE {}
    BY <2>2, <2>3, SplitForm
  <2> QED
    BY <2>1, <2>4
<1>2. ASSUME AddrInv PROVE Addr!EveryHostReported /\ Addr!ExitTells
  <2>1. DOMAIN lines = 1 .. Len(lines)
    BY <1>2, LenProperties DEF AddrInv
  <2> QED
    BY <1>2, <2>1 DEF AddrInv, Addr!EveryHostReported, Addr!ExitTells, Asked
<1>3. AddrInv => Addr!AddressesParsed
  BY <1>1, <1>2 DEF Addr!AddressesParsed
<1>4. Init => I
  BY PartInit, AddrInit
<1>5. I /\ [Next]_vars => I'
  BY PartNext, AddrNext
<1>6. I => AddressesParsed
  BY <1>3 DEF AddressesParsed
<1> HIDE DEF I
<1> QED
  BY <1>4, <1>5, <1>6, PTL DEF Spec

----------------------------------------------------------------------------
(* Sequence numbers and number texts                                          *)

(* A space with a half, a base, and an unsigned int.                          *)
NumberUnits ==
    /\ SeqSpace \in Nat /\ SeqSpace > 1 /\ MaxStep \in Nat /\ MaxCount \in Nat
    /\ Radix \in Nat /\ Radix > 0 /\ Word \in Nat /\ Word > 0
    /\ OctRadix \in Nat /\ OctRadix > 0 /\ OctRadix < Radix /\ HexRadix \in Nat /\ Radix < HexRadix

LEMMA ModBounds ==
    ASSUME NEW m \in Nat, m > 0, NEW a \in Int
    PROVE  a % m \in 0 .. m - 1 /\ \E q \in Int : a = m * q + (a % m)
<1>1. a % m \in Int /\ a \div m \in Int
  OBVIOUS
<1>2. a = m * (a \div m) + (a % m)
  OBVIOUS
<1>3. 0 <= a % m /\ a % m < m
  OBVIOUS
<1> QED
  BY <1>1, <1>2, <1>3

LEMMA ModIs ==
    ASSUME NEW m \in Nat, m > 0, NEW a \in Int, NEW q \in Int, NEW r \in 0 .. m - 1, a = m * q + r
    PROVE  a % m = r
<1>1. PICK p \in Int, e \in 0 .. m - 1 : e = a % m /\ a = m * p + e
  BY ModBounds
<1>2. m * q + r = m * p + e /\ r \in Int /\ e \in Int /\ m * q \in Int /\ m * p \in Int
  BY <1>1
<1>3. ASSUME q < p PROVE FALSE
  <2>1. m * (q + 1) <= m * p /\ m * (q + 1) = m * q + m
    BY <1>3
  <2> QED
    BY <1>2, <2>1
<1>4. ASSUME p < q PROVE FALSE
  <2>1. m * (p + 1) <= m * q /\ m * (p + 1) = m * p + m
    BY <1>4
  <2> QED
    BY <1>2, <2>1
<1>5. p = q
  BY <1>3, <1>4
<1> QED
  BY <1>1, <1>2, <1>5

LEMMA ModSmall == ASSUME NEW m \in Nat, m > 0, NEW r \in 0 .. m - 1 PROVE r % m = r
<1>1. r \in Int /\ r = m * 0 + r
  OBVIOUS
<1> QED
  BY <1>1, ModIs

(* Whole turns of the space make no difference. *)
LEMMA ModTurns ==
    ASSUME NEW m \in Nat, m > 0, NEW a \in Int, NEW c \in Int, NEW q \in Int, a = m * q + c
    PROVE  a % m = c % m
<1>1. PICK p \in Int : c = m * p + (c % m) /\ c % m \in 0 .. m - 1
  BY ModBounds
<1>2. PICK r \in 0 .. m - 1 : r = c % m
  BY <1>1
<1>3. PICK t \in Int : t = q + p
  OBVIOUS
<1>4. a = m * t + r
  <2>1. m * t = m * q + m * p /\ m * q \in Int /\ m * p \in Int /\ m * t \in Int
    BY <1>3
  <2>2. c = m * p + r
    BY <1>1, <1>2
  <2> HIDE <1>1, <1>2, <1>3
  <2> QED
    BY <2>1, <2>2
<1> QED
  BY <1>2, <1>4, ModIs

SumModulo(m, a, c) == ((a % m) + c) % m = (a + c) % m
DifferenceModulo(m, a, c) == ((a % m) - (c % m)) % m = (a - c) % m

LEMMA ModPlus ==
    ASSUME NEW m \in Nat, m > 0, NEW a \in Int, NEW c \in Int
    PROVE  SumModulo(m, a, c)
<1>1. PICK p \in Int, e \in 0 .. m - 1 : a = m * p + e /\ e = a % m
  BY ModBounds
<1>2. PICK w \in Int : w = m * p
  OBVIOUS
<1>3. PICK f \in Int, g \in Int : f = a + c /\ g = e + c
  OBVIOUS
<1>4. f = w + g
  <2>1. a = w + e
    BY <1>1, <1>2
  <2> QED
    BY <1>3, <2>1
<1>5. f % m = g % m
  BY <1>2, <1>4, ModTurns
<1> QED
  BY <1>1, <1>3, <1>5 DEF SumModulo

LEMMA ModMinus ==
    ASSUME NEW m \in Nat, m > 0, NEW a \in Int, NEW c \in Int
    PROVE  DifferenceModulo(m, a, c)
<1>1. PICK p \in Int, e \in 0 .. m - 1 : a = m * p + e /\ e = a % m
  BY ModBounds
<1>2. PICK o \in Int, u \in 0 .. m - 1 : c = m * o + u /\ u = c % m
  BY ModBounds
<1>3. PICK v \in Int, w \in Int, t \in Int : v = m * o /\ w = m * p /\ t = p - o
  OBVIOUS
<1>4. PICK f \in Int, g \in Int : f = a - c /\ g = e - u
  OBVIOUS
<1>5. m * t = w - v
  BY <1>3
<1>6. f = m * t + g
  <2>1. a = w + e /\ c = v + u
    BY <1>1, <1>2, <1>3
  <2> QED
    BY <1>4, <1>5, <2>1
<1>7. f % m = g % m
  BY <1>6, ModTurns
<1> QED
  BY <1>1, <1>2, <1>4, <1>7 DEF DifferenceModulo

(* What holds of 0 and passes from each number to the next holds up to n.     *)
LEMMA Upward ==
    ASSUME NEW n \in Nat, NEW S, 0 \in S, \A k \in 1 .. n : k - 1 \in S => k \in S
    PROVE  \A k \in 0 .. n : k \in S
<1> DEFINE T == {k \in 0 .. n : k \notin S}
<1> SUFFICES ASSUME T # {} PROVE FALSE
  OBVIOUS
<1>1. T \subseteq Nat
  OBVIOUS
<1>2. PICK m \in T : \A v \in T : m <= v
  BY <1>1, LeastNatural
<1>3. m \in 1 .. n /\ m - 1 \in 0 .. n /\ ~(m <= m - 1)
  OBVIOUS
<1>4. m - 1 \in S
  BY <1>2, <1>3
<1> QED
  BY <1>3, <1>4
(* What a loop over n elements computes: it starts at x, and step F takes the *)
(* result so far and the number of the element to the next result.            *)
LoopOver(X, x, F, n, g) ==
    /\ g \in [0 .. n -> X] /\ g[0] = x
    /\ \A j \in 1 .. n : g[j] = F[<<g[j - 1], j>>]

LEMMA LoopExists ==
    ASSUME NEW X, NEW x \in X, NEW n \in Nat, NEW D, 1 .. n \subseteq D, NEW F \in [X \X D -> X]
    PROVE  \E g : LoopOver(X, x, F, n, g)
<1> DEFINE T == {m \in 0 .. n : ~ \E g : LoopOver(X, x, F, m, g)}
<1> SUFFICES ASSUME n \in T PROVE FALSE
  OBVIOUS
<1>1. T \subseteq Nat /\ T # {}
  OBVIOUS
<1>2. PICK m \in T : \A v \in T : m <= v
  BY <1>1, LeastNatural
<1>3. CASE m = 0
  <2>1. LoopOver(X, x, F, 0, [j \in 0 .. 0 |-> x])
    BY DEF LoopOver
  <2> QED
    BY <1>2, <1>3, <2>1
<1>4. CASE m # 0
  <2>1. PICK k \in 0 .. n - 1 : m = k + 1 /\ k \notin T /\ m \in 1 .. n
    <3>1. m - 1 \in 0 .. n - 1 /\ ~(m <= m - 1) /\ m = (m - 1) + 1
      BY <1>4
    <3> QED
      BY <1>2, <3>1
  <2>2. PICK g : LoopOver(X, x, F, k, g)
    BY <2>1
  <2>3. PICK z \in X : z = F[<<g[k], m>>]
    BY <2>1, <2>2 DEF LoopOver
  <2> DEFINE f == [j \in 0 .. m |-> IF j = m THEN z ELSE g[j]]
  <2>4. \A j \in 0 .. k : f[j] = g[j]
    BY <2>1
  <2>5. f[m] = z /\ f \in [0 .. m -> X]
    BY <2>1, <2>2 DEF LoopOver
  <2>6. f[0] = x
    BY <2>1, <2>2, <2>4 DEF LoopOver
  <2>7. ASSUME NEW j \in 1 .. m PROVE f[j] = F[<<f[j - 1], j>>]
    <3> HIDE DEF f
    <3>1. CASE j = m
      <4>1. j - 1 = k
        BY <2>1, <3>1
      <4> QED
        BY <2>3, <2>4, <2>5, <3>1, <4>1
    <3>2. CASE j # m
      <4>1. j \in 1 .. k /\ j - 1 \in 0 .. k /\ j \in 0 .. k
        BY <2>1, <3>2
      <4> QED
        BY <2>2, <2>4, <4>1 DEF LoopOver
    <3> QED
      BY <3>1, <3>2
  <2> HIDE DEF f
  <2>8. LoopOver(X, x, F, m, f)
    BY <2>5, <2>6, <2>7 DEF LoopOver
  <2> QED
    BY <1>2, <2>8
<1> QED
  BY <1>3, <1>4


(* A difference of two counters that is less than one turn, modulo the space. *)
LEMMA WithinTurn ==
    ASSUME NumberUnits, NEW g \in Int
    PROVE  /\ g \in 0 .. SeqSpace - 1 => g % SeqSpace = g
           /\ g \in -SeqSpace .. -1 => g % SeqSpace = g + SeqSpace
<1>1. SeqSpace \in Nat /\ SeqSpace > 0
  BY DEF NumberUnits
<1>2. ASSUME g \in 0 .. SeqSpace - 1 PROVE g % SeqSpace = g
  BY <1>1, <1>2, ModSmall
<1>3. ASSUME g \in -SeqSpace .. -1 PROVE g % SeqSpace = g + SeqSpace
  <2>1. PICK r \in 0 .. SeqSpace - 1 : r = g + SeqSpace
    BY <1>1, <1>3
  <2>2. -1 \in Int /\ g = SeqSpace * (-1) + r
    BY <1>1, <2>1
  <2> QED
    BY <1>1, <2>1, <2>2, ModIs
<1> QED
  BY <1>2, <1>3

LEMMA HalfIs ==
    ASSUME NumberUnits
    PROVE  Num!Half \in Nat /\ Num!Half >= 1 /\ 2 * Num!Half <= SeqSpace /\ SeqSpace <= 2 * Num!Half + 1
  BY DEF NumberUnits, Num!Half

(* Whether two numbers are equal, and which comes first, by their difference  *)
(* modulo the space.                                                          *)
Differences(su, sv, u, v) ==
    /\ Num!seqno_minus(su, sv) =
          IF (u - v) % SeqSpace >= Num!Half THEN ((u - v) % SeqSpace) - SeqSpace ELSE (u - v) % SeqSpace
    /\ (v - u) % SeqSpace # 0 => Num!seqno_compare(su, sv) = IF (v - u) % SeqSpace >= Num!Half THEN 1 ELSE -1
    /\ u = v => Num!seqno_compare(su, sv) = 0

LEMMA CompareBy ==
    ASSUME NumberUnits, NEW u \in Nat, NEW v \in Nat
    PROVE  Differences(u % SeqSpace, v % SeqSpace, u, v)
<1>0. SeqSpace \in Nat /\ SeqSpace > 0
  BY DEF NumberUnits
<1>1. PICK su \in 0 .. SeqSpace - 1, sv \in 0 .. SeqSpace - 1 : su = u % SeqSpace /\ sv = v % SeqSpace
  BY <1>0, ModBounds
<1>2. PICK f, e : f = (u - v) % SeqSpace /\ e = (v - u) % SeqSpace
  OBVIOUS
<1>3. (su - sv) % SeqSpace = f /\ (sv - su) % SeqSpace = e
  <2>1. DifferenceModulo(SeqSpace, u, v) /\ DifferenceModulo(SeqSpace, v, u)
    BY <1>0, ModMinus
  <2> QED
    BY <1>1, <1>2, <2>1 DEF DifferenceModulo
<1>4. su = sv => e = 0
  <2>1. ASSUME su = sv PROVE e = 0
    <3>1. sv - su = 0 /\ 0 \in 0 .. SeqSpace - 1
      BY <1>0, <2>1
    <3>2. 0 % SeqSpace = 0
      BY <1>0, <3>1, ModSmall
    <3> QED
      BY <1>3, <3>1, <3>2
  <2> QED
    BY <2>1
<1>5. Num!seqno_minus(su, sv) = IF f >= Num!Half THEN f - SeqSpace ELSE f
  BY <1>3 DEF Num!seqno_minus
<1>6. e # 0 => Num!seqno_compare(su, sv) = IF e >= Num!Half THEN 1 ELSE -1
  BY <1>3, <1>4 DEF Num!seqno_compare
<1>7. u = v => Num!seqno_compare(su, sv) = 0
  BY <1>1 DEF Num!seqno_compare
<1> QED
  BY <1>1, <1>2, <1>5, <1>6, <1>7 DEF Differences

NumLines == [sign : {"none", "-", "+"}, int : Seq(Nat), hex : BOOLEAN, point : BOOLEAN, frac : Seq(Nat), junk : BOOLEAN]

(* A number is its counter modulo the space; digits are numbers, and there is *)
(* no fraction without a point.                                               *)
NumInv ==
    /\ count \in [{1, 2} -> Nat] /\ \A w \in {1, 2} : seqno[w] = count[w] % SeqSpace
    /\ seqno \in [{1, 2} -> 0 .. SeqSpace - 1]
    /\ numeral \in NumLines /\ (~numeral.point => numeral.frac = <<>>)

LEMMA NumInitial == ASSUME NumberUnits, Num!Init PROVE NumInv
<1>1. \A c \in 0 .. SeqSpace - 1 : c \in Nat /\ c % SeqSpace = c
  BY WithinTurn DEF NumberUnits
<1>2. numeral \in NumLines /\ (~numeral.point => numeral.frac = <<>>)
  BY DEF Num!Init, Num!Empty, NumLines
<1>3. PICK c \in 0 .. SeqSpace - 1 : count = [w \in {1, 2} |-> c] /\ seqno = [w \in {1, 2} |-> c]
  BY DEF Num!Init, Num!Who
<1> QED
  BY <1>1, <1>2, <1>3 DEF NumInv

LEMMA NumSteps ==
    ASSUME NumberUnits, NumInv, NEW w \in {1, 2}, NEW plus \in -MaxStep .. MaxStep, Num!Step(w, plus), UNCHANGED numeral
    PROVE  NumInv'
<1>1. PICK c \in Nat : count' = [count EXCEPT ![w] = c] /\ c = count[w] + plus
  <2>1. count[w] + plus \in Nat
    BY DEF NumberUnits, Num!Step
  <2>2. count' = [count EXCEPT ![w] = count[w] + plus]
    BY DEF Num!Step
  <2> QED
    BY <2>1, <2>2
<1>2. seqno' = [seqno EXCEPT ![w] = c % SeqSpace] /\ c % SeqSpace \in 0 .. SeqSpace - 1
  <2>1. seqno[w] = count[w] % SeqSpace /\ count[w] \in Int /\ plus \in Int /\ SeqSpace \in Nat /\ SeqSpace > 0
    BY DEF NumInv, NumberUnits
  <2>2. Num!seqno_plus(seqno[w], plus) = c % SeqSpace
    BY <1>1, <2>1, ModPlus DEF Num!seqno_plus, SumModulo
  <2>3. c % SeqSpace \in 0 .. SeqSpace - 1
    BY <2>1, ModBounds
  <2> QED
    BY <2>2, <2>3 DEF Num!Step
<1> QED
  BY <1>1, <1>2 DEF NumInv

LEMMA NumType ==
    ASSUME NumInv, NEW dg \in Nat, Num!Type(dg), UNCHANGED <<count, seqno>>
    PROVE  NumInv'
<1>1. numeral.frac \in Seq(Nat) /\ numeral.int \in Seq(Nat) /\ numeral \in NumLines
  BY DEF NumInv, NumLines
<1>2. PICK f \in Seq(Nat), n \in Seq(Nat) : f = Append(numeral.frac, dg) /\ n = Append(numeral.int, dg)
  BY <1>1, AppendProperties
<1>3. numeral' = IF numeral.point THEN [numeral EXCEPT !.frac = f] ELSE [numeral EXCEPT !.int = n]
  BY <1>2 DEF Num!Type
<1>4. numeral' \in NumLines /\ (~numeral'.point => numeral'.frac = <<>>)
  BY <1>1, <1>3 DEF NumInv, NumLines
<1> QED
  BY <1>4 DEF NumInv

LEMMA NumNext == ASSUME NumberUnits, NumInv, [Num!Next]_(Num!vars) PROVE NumInv'
<1>1. CASE UNCHANGED Num!vars
  BY <1>1 DEF Num!vars, NumInv
<1>2. ASSUME NEW w \in Num!Who, NEW plus \in -MaxStep .. MaxStep, Num!Step(w, plus), UNCHANGED numeral
      PROVE  NumInv'
  BY <1>2, NumSteps DEF Num!Who
<1>3. CASE Num!Typing /\ UNCHANGED <<count, seqno>>
  <2>1. ASSUME NEW dg \in 0 .. (IF numeral.hex THEN HexRadix ELSE Radix) - 1, Num!Type(dg) PROVE NumInv'
    <3>1. dg \in Nat
      BY DEF NumberUnits
    <3> QED
      BY <1>3, <2>1, <3>1, NumType
  <2>2. CASE Num!TypeSign \/ Num!TypeX \/ Num!TypePoint \/ Num!TypeJunk
    <3>1. numeral' \in NumLines /\ (~numeral'.point => numeral'.frac = <<>>)
      BY <2>2 DEF NumInv, NumLines, Num!TypeSign, Num!TypeX, Num!TypePoint, Num!TypeJunk
    <3> QED
      BY <1>3, <3>1 DEF NumInv
  <2> QED
    BY <1>3, <2>1, <2>2 DEF Num!Typing
<1> QED
  BY <1>1, <1>2, <1>3 DEF Num!Next

LEMMA NumOrder == ASSUME NumberUnits, NumInv PROVE Num!SeqnoTracks /\ Num!SeqnoOrder
<1>1. Num!SeqnoTracks
  BY DEF NumInv, Num!SeqnoTracks, Num!Who
<1>2. PICK u \in Nat, v \in Nat, su \in 0 .. SeqSpace - 1, sv \in 0 .. SeqSpace - 1 :
        count[1] = u /\ count[2] = v /\ seqno[1] = su /\ seqno[2] = sv /\ su = u % SeqSpace /\ sv = v % SeqSpace
  BY DEF NumInv
<1>3. PICK gap \in Int, back \in Int : gap = u - v /\ back = v - u /\ back = 0 - gap
  OBVIOUS
<1>4. PICK H \in Nat : H = Num!Half /\ H >= 1 /\ 2 * H <= SeqSpace /\ SeqSpace <= 2 * H + 1
  BY HalfIs
<1>5. SeqSpace \in Nat /\ SeqSpace > 1
  BY DEF NumberUnits
<1>6. /\ Num!seqno_minus(su, sv) = IF gap % SeqSpace >= H THEN (gap % SeqSpace) - SeqSpace ELSE gap % SeqSpace
      /\ back % SeqSpace # 0 => Num!seqno_compare(su, sv) = IF back % SeqSpace >= H THEN 1 ELSE -1
      /\ gap % SeqSpace # 0 => Num!seqno_compare(sv, su) = IF gap % SeqSpace >= H THEN 1 ELSE -1
      /\ gap = 0 => Num!seqno_compare(su, sv) = 0
  <2>1. Differences(su, sv, u, v) /\ Differences(sv, su, v, u)
    BY <1>2, CompareBy
  <2>2. gap = 0 <=> u = v
    BY <1>3
  <2> QED
    BY <1>3, <1>4, <2>1, <2>2 DEF Differences
<1>7. /\ gap \in 0 .. SeqSpace - 1 => gap % SeqSpace = gap
      /\ gap \in -SeqSpace .. -1 => gap % SeqSpace = gap + SeqSpace
      /\ back \in 0 .. SeqSpace - 1 => back % SeqSpace = back
      /\ back \in -SeqSpace .. -1 => back % SeqSpace = back + SeqSpace
  BY WithinTurn
<1>8. ASSUME gap \in -H + 1 .. H - 1
      PROVE  /\ Num!seqno_minus(su, sv) = gap
             /\ Num!seqno_compare(su, sv) = IF gap = 0 THEN 0 ELSE IF gap > 0 THEN 1 ELSE -1
  <2>1. CASE gap = 0
    BY <1>4, <1>5, <1>6, <1>7, <2>1
  <2>2. CASE gap > 0
    <3>1. gap % SeqSpace = gap /\ back % SeqSpace = back + SeqSpace /\ back + SeqSpace >= H
      BY <1>3, <1>4, <1>5, <1>7, <1>8, <2>2
    <3> QED
      BY <1>4, <1>6, <1>8, <2>2, <3>1
  <2>3. CASE gap < 0
    <3>1. gap % SeqSpace = gap + SeqSpace /\ back % SeqSpace = back /\ gap + SeqSpace >= H /\ back < H /\ back # 0
      BY <1>3, <1>4, <1>5, <1>7, <1>8, <2>3
    <3> QED
      BY <1>4, <1>5, <1>6, <1>8, <2>3, <3>1
  <2> QED
    BY <2>1, <2>2, <2>3
<1>9. Num!seqno_plus(sv, gap) = su
  <2>1. SumModulo(SeqSpace, v, gap)
    <3>1. SeqSpace \in Nat /\ SeqSpace > 0 /\ v \in Int
      BY <1>5
    <3> QED
      BY <3>1, ModPlus
  <2>2. v + gap = u
    BY <1>3
  <2> QED
    BY <1>2, <2>1, <2>2 DEF Num!seqno_plus, SumModulo
<1>10. ASSUME gap \in {-H, H} PROVE Num!seqno_compare(su, sv) = 1 /\ Num!seqno_compare(sv, su) = 1
  <2>1. CASE gap = H
    <3>1. gap % SeqSpace = gap /\ back % SeqSpace = back + SeqSpace /\ back + SeqSpace >= H /\ gap >= H /\ gap # 0
      BY <1>3, <1>4, <1>5, <1>7, <2>1
    <3> QED
      BY <1>4, <1>6, <3>1
  <2>2. CASE gap = -H
    <3>1. gap % SeqSpace = gap + SeqSpace /\ back % SeqSpace = back /\ gap + SeqSpace >= H /\ back >= H /\ back # 0
      BY <1>3, <1>4, <1>5, <1>7, <2>2
    <3> QED
      BY <1>4, <1>6, <3>1
  <2> QED
    BY <1>10, <2>1, <2>2
<1>11. Num!SeqnoOrder
  BY <1>2, <1>3, <1>4, <1>8, <1>9, <1>10 DEF Num!SeqnoOrder
<1> QED
  BY <1>1, <1>11

(* The powers of the base, as a recursive function. *)
IsPower(f) == f = [k \in Nat |-> IF k = 0 THEN 1 ELSE Radix * f[k - 1]]

LEMMA PowerExists == ASSUME NumberUnits PROVE \E f : f \in [Nat -> Nat] /\ IsPower(f)
<1>0. Radix \in Nat
  BY DEF NumberUnits
<1> DEFINE F == [x \in Nat \X Nat |-> Radix * x[1]]
<1>1. F \in [Nat \X Nat -> Nat]
  BY <1>0
<1>2. \A n \in Nat : \E g : LoopOver(Nat, 1, F, n, g)
  <2> SUFFICES ASSUME NEW n \in Nat PROVE \E g : LoopOver(Nat, 1, F, n, g)
    OBVIOUS
  <2>1. 1 \in Nat /\ 1 .. n \subseteq Nat
    OBVIOUS
  <2> HIDE DEF F
  <2> QED
    BY <1>1, <2>1, LoopExists
<1> DEFINE G(n) == CHOOSE g : LoopOver(Nat, 1, F, n, g)
           f == [n \in Nat |-> G(n)[n]]
<1>3. ASSUME NEW n \in Nat PROVE LoopOver(Nat, 1, F, n, G(n))
  <2> HIDE DEF F
  <2> QED
    BY <1>2
<1>4. ASSUME NEW x \in Nat, NEW j \in Nat PROVE F[<<x, j>>] = Radix * x
  BY <1>0
<1> HIDE DEF F, G
<1>5. ASSUME NEW n \in Nat, n # 0, NEW j \in 0 .. n - 1 PROVE G(n)[j] = G(n - 1)[j]
  <2>1. PICK m \in Nat : m = n - 1
    BY <1>5
  <2>2. LoopOver(Nat, 1, F, n, G(n)) /\ LoopOver(Nat, 1, F, m, G(m))
    BY <1>3
  <2> DEFINE S == {k \in 0 .. m : G(n)[k] = G(m)[k]}
  <2>3. 0 \in S
    BY <2>2 DEF LoopOver
  <2>4. ASSUME NEW k \in 1 .. m, k - 1 \in S PROVE k \in S
    <3>1. k \in 1 .. n /\ G(n)[k - 1] = G(m)[k - 1] /\ k \in 0 .. m
      BY <2>1, <2>4
    <3>2. G(n)[k] = F[<<G(n)[k - 1], k>>] /\ G(m)[k] = F[<<G(m)[k - 1], k>>]
      BY <2>2, <3>1 DEF LoopOver
    <3> QED
      BY <3>1, <3>2
  <2> HIDE DEF S
  <2>5. \A k \in 0 .. m : k \in S
    BY <2>3, <2>4, Upward
  <2>6. j \in S
    BY <2>1, <2>5
  <2> QED
    BY <2>1, <2>6 DEF S
<1>6. ASSUME NEW n \in Nat PROVE f[n] \in Nat
  <2>1. n \in 0 .. n
    OBVIOUS
  <2> QED
    BY <1>3, <2>1 DEF LoopOver
<1>7. ASSUME NEW n \in Nat PROVE f[n] = IF n = 0 THEN 1 ELSE Radix * f[n - 1]
  <2>1. CASE n = 0
    BY <1>3, <2>1 DEF LoopOver
  <2>2. CASE n # 0
    <3>1. n - 1 \in Nat /\ n - 1 \in 0 .. n - 1 /\ n \in 1 .. n
      BY <2>2
    <3>2. f[n] = F[<<G(n)[n - 1], n>>]
      BY <1>3, <3>1 DEF LoopOver
    <3>3. G(n)[n - 1] = f[n - 1] /\ f[n - 1] \in Nat
      BY <1>5, <1>6, <2>2, <3>1
    <3> QED
      BY <1>4, <2>2, <3>2, <3>3
  <2> QED
    BY <2>1, <2>2
<1>8. f \in [Nat -> Nat] /\ IsPower(f)
  <2>1. f = [n \in Nat |-> f[n]]
    OBVIOUS
  <2> HIDE DEF f
  <2> QED
    BY <1>6, <1>7, <2>1 DEF IsPower
<1> HIDE DEF f
<1> QED
  BY <1>8

LEMMA PowerIs ==
    ASSUME NumberUnits
    PROVE  /\ Num!Power[0] = 1
           /\ \A k \in Nat : /\ Num!Power[k] \in Nat /\ Num!Power[k] > 0
                             /\ Num!Power[k + 1] = Radix * Num!Power[k]
<1>1. PICK f : IsPower(f)
  BY PowerExists
<1>2. Num!Power = CHOOSE g : IsPower(g)
  BY DEF Num!Power, IsPower
<1>3. IsPower(Num!Power)
  BY <1>1, <1>2
<1>4. PICK pw : pw = Num!Power
  OBVIOUS
<1>5. \A k \in Nat : pw[k] = IF k = 0 THEN 1 ELSE Radix * pw[k - 1]
  <2>1. pw = [k \in Nat |-> IF k = 0 THEN 1 ELSE Radix * pw[k - 1]]
    BY <1>3, <1>4 DEF IsPower
  <2> QED
    BY <2>1
<1>6. pw[0] = 1
  BY <1>5
<1>7. ASSUME NEW k \in Nat PROVE pw[k + 1] = Radix * pw[k]
  <2>1. k + 1 \in Nat /\ k + 1 # 0 /\ (k + 1) - 1 = k
    OBVIOUS
  <2> QED
    BY <1>5, <2>1
<1>8. ASSUME NEW n \in Nat PROVE pw[n] \in Nat /\ pw[n] > 0
  <2> DEFINE S == {k \in 0 .. n : pw[k] \in Nat /\ pw[k] > 0}
  <2>1. 0 \in S
    BY <1>6
  <2>2. ASSUME NEW k \in 1 .. n, k - 1 \in S PROVE k \in S
    <3>1. PICK x \in Nat : x = pw[k - 1] /\ x > 0
      BY <2>2
    <3>2. pw[k] = Radix * x
      BY <1>5, <3>1
    <3>3. Radix * x \in Nat /\ Radix * x > 0
      BY <3>1 DEF NumberUnits
    <3> QED
      BY <3>2, <3>3
  <2> HIDE DEF S
  <2>3. \A k \in 0 .. n : k \in S
    BY <2>1, <2>2, Upward
  <2>4. n \in S
    BY <2>3
  <2> QED
    BY <2>4 DEF S
<1> QED
  BY <1>4, <1>6, <1>7, <1>8

(* Exponents add. *)
LEMMA PowerAdds ==
    ASSUME NumberUnits, NEW m \in Nat, NEW n \in Nat
    PROVE  Num!Power[m + n] = Num!Power[m] * Num!Power[n]
<1>0. PICK pw : /\ pw = Num!Power /\ pw[0] = 1
                /\ \A k \in Nat : pw[k] \in Nat /\ pw[k + 1] = Radix * pw[k]
  BY PowerIs
<1> DEFINE S == {k \in 0 .. n : pw[m + k] = pw[m] * pw[k]}
<1>1. 0 \in S
  <2>1. m + 0 = m /\ pw[m] \in Nat
    BY <1>0
  <2> QED
    BY <1>0, <2>1
<1>2. ASSUME NEW k \in 1 .. n, k - 1 \in S PROVE k \in S
  <2>1. PICK j \in Nat : j = k - 1 /\ k = j + 1 /\ m + k = (m + j) + 1 /\ m + j \in Nat
    OBVIOUS
  <2>2. PICK x \in Nat, z \in Nat : x = pw[m] /\ z = pw[j]
    BY <1>0
  <2>3. pw[m + j] = x * z
    BY <1>2, <2>1, <2>2
  <2>4. pw[m + k] = Radix * (x * z) /\ pw[k] = Radix * z
    BY <1>0, <2>1, <2>2, <2>3
  <2>5. Radix * (x * z) = x * (Radix * z)
    BY DEF NumberUnits
  <2> QED
    BY <2>2, <2>4, <2>5
<1> HIDE DEF S
<1>3. \A k \in 0 .. n : k \in S
  BY <1>1, <1>2, Upward
<1>4. n \in S
  BY <1>3
<1> QED
  BY <1>0, <1>4 DEF S

(* What digits stand for, and what an unsigned int makes of them. *)
IsValue(base, ds, n, f) == f = [k \in 0 .. n |-> IF k = 0 THEN 0 ELSE f[k - 1] * base + ds[k]]
IsWordValue(ds, n, f) == f = [k \in 0 .. n |-> IF k = 0 THEN 0 ELSE (f[k - 1] * Radix + ds[k]) % Word]

LEMMA ValuesExist ==
    ASSUME NumberUnits, NEW base \in Nat, NEW n \in Nat, NEW ds \in [1 .. n -> Nat]
    PROVE  (\E f : IsValue(base, ds, n, f)) /\ (\E f : IsWordValue(ds, n, f))
<1>0. Radix \in Nat /\ Word \in Nat /\ Word > 0
  BY DEF NumberUnits
<1> DEFINE F == [x \in Nat \X (1 .. n) |-> x[1] * base + ds[x[2]]]
           W == [x \in Nat \X (1 .. n) |-> (x[1] * Radix + ds[x[2]]) % Word]
<1>1. ASSUME NEW x \in Nat, NEW j \in 1 .. n
      PROVE  /\ F[<<x, j>>] = x * base + ds[j] /\ x * base + ds[j] \in Nat
             /\ W[<<x, j>>] = (x * Radix + ds[j]) % Word /\ (x * Radix + ds[j]) % Word \in Nat
  <2>1. PICK e \in Nat, a \in Nat : e = x * Radix + ds[j] /\ a = x * base + ds[j]
    BY <1>0
  <2>2. e % Word \in Nat
    BY <1>0, ModBounds
  <2> QED
    BY <2>1, <2>2
<1>2. F \in [Nat \X (1 .. n) -> Nat] /\ W \in [Nat \X (1 .. n) -> Nat]
  BY <1>1
<1> HIDE DEF F, W
<1>3. 0 \in Nat /\ 1 .. n \subseteq 1 .. n
  OBVIOUS
<1>4. PICK g : LoopOver(Nat, 0, F, n, g)
  BY <1>2, <1>3, LoopExists
<1>5. PICK h0 : LoopOver(Nat, 0, W, n, h0)
  BY <1>2, <1>3, LoopExists
<1>6. IsValue(base, ds, n, g)
  <2>1. \A k \in 0 .. n : g[k] = IF k = 0 THEN 0 ELSE g[k - 1] * base + ds[k]
    <3> SUFFICES ASSUME NEW k \in 0 .. n PROVE g[k] = IF k = 0 THEN 0 ELSE g[k - 1] * base + ds[k]
      OBVIOUS
    <3>1. CASE k = 0
      BY <1>4, <3>1 DEF LoopOver
    <3>2. CASE k # 0
      <4>1. k \in 1 .. n /\ k - 1 \in 0 .. n
        BY <3>2
      <4>2. g[k] = F[<<g[k - 1], k>>] /\ g[k - 1] \in Nat
        BY <1>4, <4>1 DEF LoopOver
      <4> QED
        BY <1>1, <3>2, <4>1, <4>2
    <3> QED
      BY <3>1, <3>2
  <2> QED
    BY <1>4, <2>1 DEF LoopOver, IsValue
<1>7. IsWordValue(ds, n, h0)
  <2>1. \A k \in 0 .. n : h0[k] = IF k = 0 THEN 0 ELSE (h0[k - 1] * Radix + ds[k]) % Word
    <3> SUFFICES ASSUME NEW k \in 0 .. n PROVE h0[k] = IF k = 0 THEN 0 ELSE (h0[k - 1] * Radix + ds[k]) % Word
      OBVIOUS
    <3>1. CASE k = 0
      BY <1>5, <3>1 DEF LoopOver
    <3>2. CASE k # 0
      <4>1. k \in 1 .. n /\ k - 1 \in 0 .. n
        BY <3>2
      <4>2. h0[k] = W[<<h0[k - 1], k>>] /\ h0[k - 1] \in Nat
        BY <1>5, <4>1 DEF LoopOver
      <4> QED
        BY <1>1, <3>2, <4>1, <4>2
    <3> QED
      BY <3>1, <3>2
  <2> QED
    BY <1>5, <2>1 DEF LoopOver, IsWordValue
<1> QED
  BY <1>6, <1>7

LEMMA ValueIs ==
    ASSUME NumberUnits, NEW ds \in Seq(Nat)
    PROVE  /\ Num!Value(ds) \in Nat /\ Num!WordValue(ds) = Num!Value(ds) % Word
           /\ ds = <<>> => Num!Value(ds) = 0
<1>0. Radix \in Nat /\ Word \in Nat /\ Word > 0
  BY DEF NumberUnits
<1>1. PICK n \in Nat : n = Len(ds) /\ ds \in [1 .. n -> Nat]
  BY LenProperties
<1> DEFINE c == CHOOSE f : IsValue(Radix, ds, n, f)
           w == CHOOSE f : IsWordValue(ds, n, f)
<1>2. IsValue(Radix, ds, n, c) /\ IsWordValue(ds, n, w)
  BY <1>0, <1>1, ValuesExist
<1>3. Num!Value(ds) = c[n] /\ Num!WordValue(ds) = w[n]
  BY <1>1 DEF Num!Value, Num!ValueIn, Num!WordValue, IsValue, IsWordValue
<1> HIDE DEF c, w
<1>4. c[0] = 0 /\ w[0] = 0
  <2>1. 0 \in 0 .. n
    OBVIOUS
  <2> QED
    BY <1>2, <2>1 DEF IsValue, IsWordValue
<1>5. ASSUME NEW k \in 1 .. n
      PROVE  c[k] = c[k - 1] * Radix + ds[k] /\ w[k] = (w[k - 1] * Radix + ds[k]) % Word
  <2>1. k \in 0 .. n /\ k # 0
    OBVIOUS
  <2> QED
    BY <1>2, <2>1 DEF IsValue, IsWordValue
<1> DEFINE S == {k \in 0 .. n : c[k] \in Nat /\ w[k] = c[k] % Word}
<1>6. 0 \in S
  <2>1. 0 % Word = 0
    BY <1>0, ModSmall
  <2> QED
    BY <1>4, <2>1
<1>7. ASSUME NEW k \in 1 .. n, k - 1 \in S PROVE k \in S
  <2>1. PICK x \in Nat, dg \in Nat : x = c[k - 1] /\ w[k - 1] = x % Word /\ dg = ds[k]
    BY <1>1, <1>7
  <2>2. PICK q \in Int, e \in 0 .. Word - 1 : x = Word * q + e /\ e = x % Word
    <3>1. x \in Int
      OBVIOUS
    <3> QED
      BY <1>0, <3>1, ModBounds
  <2>3. PICK f \in Nat, g \in Nat, t \in Int : f = x * Radix + dg /\ g = e * Radix + dg /\ t = q * Radix
    BY <1>0
  <2>4. f = Word * t + g
    <3>1. x * Radix = Word * (q * Radix) + e * Radix
      <4>1. (Word * q + e) * Radix = Word * (q * Radix) + e * Radix
        BY <1>0
      <4> QED
        BY <2>2, <4>1
    <3>2. PICK a \in Int, b \in Int, o \in Int : a = x * Radix /\ b = Word * t /\ o = e * Radix
      BY <1>0
    <3>3. a = b + o
      BY <2>3, <3>1, <3>2
    <3> QED
      BY <2>3, <3>2, <3>3
  <2>5. f % Word = g % Word
    <3>1. f \in Int /\ g \in Int
      OBVIOUS
    <3> QED
      BY <1>0, <2>4, <3>1, ModTurns
  <2>6. c[k] = f /\ w[k] = g % Word
    BY <1>5, <2>1, <2>2, <2>3
  <2> QED
    BY <2>5, <2>6
<1> HIDE DEF S
<1>8. \A k \in 0 .. n : k \in S
  BY <1>6, <1>7, Upward
<1>9. n \in S
  BY <1>8
<1>10. ds = <<>> => n = 0
  BY <1>1
<1> QED
  BY <1>3, <1>4, <1>9, <1>10 DEF S

(* The same of a number in any base. *)
LEMMA ValueInIs ==
    ASSUME NumberUnits, NEW base \in Nat, NEW ds \in Seq(Nat)
    PROVE  \E n, f :
              /\ n \in Nat /\ n = Len(ds) /\ ds \in [1 .. n -> Nat] /\ f[0] = 0 /\ Num!ValueIn(base, ds) = f[n]
              /\ \A k \in 1 .. n : f[k] = f[k - 1] * base + ds[k]
<1>1. PICK n \in Nat : n = Len(ds) /\ ds \in [1 .. n -> Nat]
  BY LenProperties
<1> DEFINE c == CHOOSE f : IsValue(base, ds, n, f)
<1>2. IsValue(base, ds, n, c)
  BY <1>1, ValuesExist
<1>3. Num!ValueIn(base, ds) = c[n]
  BY <1>1 DEF Num!ValueIn, IsValue
<1> HIDE DEF c
<1>4. c[0] = 0
  <2>1. 0 \in 0 .. n
    OBVIOUS
  <2> QED
    BY <1>2, <2>1 DEF IsValue
<1>5. ASSUME NEW k \in 1 .. n PROVE c[k] = c[k - 1] * base + ds[k]
  <2>1. k \in 0 .. n /\ k # 0
    OBVIOUS
  <2> QED
    BY <1>2, <2>1 DEF IsValue
<1> QED
  BY <1>1, <1>3, <1>4, <1>5

LEMMA ValueInType ==
    ASSUME NumberUnits, NEW base \in Nat, NEW ds \in Seq(Nat)
    PROVE  Num!ValueIn(base, ds) \in Nat
<1>1. PICK n, f :
         /\ n \in Nat /\ ds \in [1 .. n -> Nat] /\ f[0] = 0 /\ Num!ValueIn(base, ds) = f[n]
         /\ \A k \in 1 .. n : f[k] = f[k - 1] * base + ds[k]
  BY ValueInIs
<1> DEFINE S == {k \in 0 .. n : f[k] \in Nat}
<1>2. 0 \in S
  BY <1>1
<1>3. ASSUME NEW k \in 1 .. n, k - 1 \in S PROVE k \in S
  <2>1. PICK x \in Nat, dg \in Nat : x = f[k - 1] /\ dg = ds[k]
    BY <1>1, <1>3
  <2>2. x * base + dg \in Nat
    OBVIOUS
  <2> QED
    BY <1>1, <2>1, <2>2
<1> HIDE DEF S
<1>4. \A k \in 0 .. n : k \in S
  BY <1>1, <1>2, <1>3, Upward
<1>5. n \in S
  BY <1>1, <1>4
<1> QED
  BY <1>1, <1>5 DEF S

(* Octal digits stand for less in octal than in the usual base, from two of   *)
(* them on.                                                                   *)
LEMMA OctalLess ==
    ASSUME NumberUnits, NEW ds \in Seq(Nat), \A k \in DOMAIN ds : ds[k] < OctRadix
    PROVE  LET o == Num!ValueIn(OctRadix, ds)
           IN  o <= Num!Value(ds) /\ (o = Num!Value(ds) <=> o < OctRadix)
<1>0. OctRadix \in Nat /\ OctRadix > 0 /\ Radix \in Nat /\ OctRadix < Radix
  BY DEF NumberUnits
<1>1. PICK n, f :
         /\ n \in Nat /\ n = Len(ds) /\ ds \in [1 .. n -> Nat] /\ f[0] = 0 /\ Num!ValueIn(OctRadix, ds) = f[n]
         /\ \A k \in 1 .. n : f[k] = f[k - 1] * OctRadix + ds[k]
  BY <1>0, ValueInIs
<1>2. PICK m, g :
         /\ m \in Nat /\ m = Len(ds) /\ g[0] = 0 /\ Num!ValueIn(Radix, ds) = g[m]
         /\ \A k \in 1 .. m : g[k] = g[k - 1] * Radix + ds[k]
  BY <1>0, ValueInIs
<1> DEFINE S == {k \in 0 .. n : f[k] \in Nat /\ g[k] \in Nat /\ f[k] <= g[k] /\ (f[k] = g[k] <=> f[k] < OctRadix)}
<1>3. 0 \in S
  BY <1>0, <1>1, <1>2
<1>4. ASSUME NEW k \in 1 .. n, k - 1 \in S PROVE k \in S
  <2>1. PICK x \in Nat, z \in Nat, dg \in Nat : x = f[k - 1] /\ z = g[k - 1] /\ dg = ds[k]
    BY <1>1, <1>4
  <2>2. x <= z /\ (x = z <=> x < OctRadix) /\ dg < OctRadix
    BY <1>1, <1>4, <2>1
  <2>3. PICK a \in Nat, b \in Nat : a = x * OctRadix /\ b = z * Radix
    BY <1>0
  <2>4. f[k] = a + dg /\ g[k] = b + dg
    BY <1>1, <1>2, <2>1, <2>3
  <2>5. CASE x = 0
    <3>1. z = 0
      BY <1>0, <2>2, <2>5
    <3>2. a = 0 /\ b = 0
      BY <1>0, <2>3, <2>5, <3>1
    <3> QED
      BY <2>2, <2>4, <3>2
  <2>6. CASE x # 0
    <3>1. OctRadix <= x * OctRadix
      BY <1>0, <2>6
    <3>2. x * OctRadix < x * Radix
      BY <1>0, <2>6
    <3>3. x * Radix <= z * Radix
      BY <1>0, <2>2
    <3>4. PICK c \in Nat : c = x * Radix
      BY <1>0
    <3>5. OctRadix <= a /\ a < b
      BY <2>3, <3>1, <3>2, <3>3, <3>4
    <3> QED
      BY <1>0, <2>4, <3>5
  <2> QED
    BY <2>5, <2>6
<1> HIDE DEF S
<1>5. \A k \in 0 .. n : k \in S
  BY <1>1, <1>3, <1>4, Upward
<1>6. n \in S
  BY <1>1, <1>5
<1> QED
  BY <1>1, <1>2, <1>6 DEF S, Num!Value

LEMMA DivIs ==
    ASSUME NEW b \in Nat, b > 0, NEW a \in Int, NEW q \in Int, NEW r \in 0 .. b - 1, a = b * q + r
    PROVE  a \div b = q
<1>1. PICK o \in Int : o = a \div b /\ b * o <= a /\ a < b * o + b
  BY DivBounds
<1>2. ASSUME q < o PROVE FALSE
  <2>1. b * (q + 1) <= b * o /\ b * (q + 1) = b * q + b
    BY <1>2
  <2> QED
    BY <1>1, <2>1
<1>3. ASSUME o < q PROVE FALSE
  <2>1. b * (o + 1) <= b * q /\ b * (o + 1) = b * o + b
    BY <1>3
  <2> QED
    BY <1>1, <2>1
<1> QED
  BY <1>1, <1>2, <1>3

(* A factor cancels in a quotient. *)
Cancelled(a, b, c) ==
    (a * c) \div (b * c) = a \div b /\ (a * (b * c)) \div b = a * c /\ a \div b \in Nat

LEMMA DivCancels ==
    ASSUME NEW a \in Nat, NEW b \in Nat, b > 0, NEW c \in Nat, c > 0
    PROVE  Cancelled(a, b, c)
<1>0. a \in Int
  OBVIOUS
<1>1. PICK q \in Int, r \in 0 .. b - 1 : a = b * q + r
  BY <1>0, ModBounds
<1>2. a \div b = q
  BY <1>1, DivIs
<1>3. PICK f \in Nat, g \in Nat, e \in Nat : f = a * c /\ g = b * c /\ e = r * c /\ g > 0 /\ e \in 0 .. g - 1
  <2>1. a * c \in Nat /\ b * c \in Nat /\ b * c > 0 /\ r * c \in Nat
    OBVIOUS
  <2>2. (r + 1) * c <= b * c /\ (r + 1) * c = r * c + c
    OBVIOUS
  <2>3. r * c \in 0 .. b * c - 1
    BY <2>1, <2>2
  <2> QED
    BY <2>1, <2>3
<1>4. f = g * q + e
  <2>1. (b * q + r) * c = (b * c) * q + r * c
    OBVIOUS
  <2> QED
    BY <1>1, <1>3, <2>1
<1>5. f \div g = q
  BY <1>3, <1>4, DivIs
<1>6. (a * (b * c)) \div b = a * c
  <2>1. PICK o \in Int, u \in Int : o = a * c /\ u = a * (b * c)
    OBVIOUS
  <2>2. u = b * o + 0
    BY <2>1
  <2> QED
    BY <2>1, <2>2, DivIs
<1>7. q \in Nat
  <2>1. ASSUME q < 0 PROVE FALSE
    <3>1. b * (q + 1) <= b * 0 /\ b * (q + 1) = b * q + b
      BY <2>1
    <3> QED
      BY <1>1, <3>1
  <2> QED
    BY <2>1
<1> QED
  BY <1>2, <1>3, <1>5, <1>6, <1>7 DEF Cancelled

LEMMA IntFits == ASSUME NumberUnits PROVE Num!IntMax \in Int /\ Num!IntMax < Word
  BY DEF NumberUnits, Num!IntMax

(* The fraction digits are scaled to thousandths. *)
LEMMA FractionScaled ==
    ASSUME NumberUnits, NEW ds \in Seq(Nat), NEW x \in Int,
           x = (Num!Value(ds) * Num!Thousand) \div Num!Power[Len(ds)], x <= Num!IntMax, Num!Value(ds) < Word
    PROVE  Num!ThreeDigits(ds) = x /\ x \in Nat
<1>0. Word \in Nat /\ Word > 0
  BY DEF NumberUnits
<1>1. PICK v \in Nat, j \in Nat : v = Num!Value(ds) /\ j = Len(ds)
  BY ValueIs, LenProperties
<1>2. Num!WordValue(ds) = v
  <2>1. v \in 0 .. Word - 1
    BY <1>0, <1>1
  <2>2. v % Word = v
    BY <1>0, <2>1, ModSmall
  <2> QED
    BY <1>1, <2>2, ValueIs
<1>3. CASE j > 3
  <2>1. PICK k \in Nat : k = j - 3 /\ j = k + 3
    BY <1>3
  <2>2. Num!Power[j] = Num!Power[k] * Num!Power[3]
    BY <2>1, PowerAdds
  <2>3. PICK b \in Nat, c \in Nat : b = Num!Power[k] /\ c = Num!Power[3] /\ b > 0 /\ c > 0
    BY PowerIs
  <2>4. x = v \div b
    <3>1. x = (v * c) \div (b * c)
      BY <1>1, <2>2, <2>3 DEF Num!Thousand
    <3>2. (v * c) \div (b * c) = v \div b
      <4>1. Cancelled(v, b, c)
        BY <2>3, DivCancels
      <4> QED
        BY <4>1 DEF Cancelled
    <3> QED
      BY <3>1, <3>2
  <2>5. Num!ThreeDigits(ds) = v \div b
    BY <1>1, <1>2, <1>3, <2>1, <2>3 DEF Num!ThreeDigits
  <2>6. v \div b \in Nat
    <3>1. Cancelled(v, b, c)
      BY <2>3, DivCancels
    <3> QED
      BY <3>1 DEF Cancelled
  <2> QED
    BY <2>4, <2>5, <2>6
<1>4. CASE ~(j > 3)
  <2>1. PICK k \in Nat : k = 3 - j /\ 3 = j + k
    BY <1>4
  <2>2. Num!Power[3] = Num!Power[j] * Num!Power[k]
    BY <2>1, PowerAdds
  <2>3. PICK b \in Nat, c \in Nat : b = Num!Power[j] /\ c = Num!Power[k] /\ b > 0 /\ c > 0
    BY PowerIs
  <2>4. x = v * c
    <3>1. x = (v * (b * c)) \div b
      BY <1>1, <2>2, <2>3 DEF Num!Thousand
    <3>2. (v * (b * c)) \div b = v * c
      <4>1. Cancelled(v, b, c)
        BY <2>3, DivCancels
      <4> QED
        BY <4>1 DEF Cancelled
    <3> QED
      BY <3>1, <3>2
  <2>5. Num!ThreeDigits(ds) = (v * c) % Word
    BY <1>1, <1>2, <1>4, <2>1, <2>3 DEF Num!ThreeDigits
  <2>6. x \in Nat /\ x < Word
    <3>1. v * c \in Nat
      OBVIOUS
    <3> QED
      BY <1>0, <2>4, <3>1, IntFits
  <2>7. x % Word = x
    BY <1>0, <2>6, ModSmall
  <2> QED
    BY <2>4, <2>5, <2>6, <2>7
<1> QED
  BY <1>3, <1>4

(* What parse_msec returns where it fits an int. *)
LEMMA MsecIs ==
    ASSUME NumberUnits, numeral \in NumLines, numeral.sign = "none", ~numeral.hex, ~numeral.junk, NEW x \in Nat,
           x = IF numeral.point THEN Num!ThreeDigits(numeral.frac) ELSE 0,
           Num!Value(numeral.int) * Num!Thousand + x <= Num!IntMax
    PROVE  Num!parse_msec(numeral) = Num!Value(numeral.int) * Num!Thousand + x
<1>0. Word \in Nat /\ Word > 0 /\ numeral.int \in Seq(Nat)
  BY DEF NumberUnits, NumLines
<1>1. PICK v \in Nat : v = Num!Value(numeral.int) /\ Num!WordValue(numeral.int) = v % Word
  BY <1>0, ValueIs
<1>2. PICK t \in Nat : t = Num!Thousand /\ t > 0
  BY PowerIs DEF Num!Thousand
<1>3. PICK m \in Nat : m = v * t + x
  OBVIOUS
<1>4. m <= Num!IntMax /\ m < Word /\ v < Word
  <2>1. PICK p \in Nat : p = v * t
    OBVIOUS
  <2>2. v <= v * t
    BY <1>2
  <2>3. m = p + x /\ v <= p
    BY <1>3, <2>1, <2>2
  <2>4. m <= Num!IntMax
    BY <1>1, <1>2, <1>3
  <2> QED
    BY <1>0, <2>3, <2>4, IntFits
<1>5. v % Word = v /\ m % Word = m
  BY <1>0, <1>4, ModSmall
<1>6. Num!parse_msec(numeral) = Num!Signed(m % Word)
  BY <1>1, <1>2, <1>3, <1>5 DEF Num!parse_msec
<1>7. Num!Signed(m) = m
  BY <1>4, IntFits DEF Num!Signed
<1> QED
  BY <1>1, <1>2, <1>3, <1>5, <1>6, <1>7

LEMMA NumMsec == ASSUME NumberUnits, NumInv PROVE Num!MsecExact
<1>1. numeral \in NumLines /\ numeral.int \in Seq(Nat) /\ numeral.frac \in Seq(Nat)
  BY DEF NumInv, NumLines
<1>2. ASSUME numeral.sign # "none" \/ numeral.hex \/ numeral.junk PROVE Num!parse_msec(numeral) = -1
  BY <1>2 DEF Num!parse_msec
<1>3. PICK v \in Nat, f \in Nat, t \in Nat, b \in Nat :
         /\ v = Num!Value(numeral.int) /\ f = Num!Value(numeral.frac)
         /\ t = Num!Thousand /\ b = Num!Power[Len(numeral.frac)] /\ b > 0
  BY <1>1, ValueIs, PowerIs, LenProperties DEF Num!Thousand
<1>4. PICK x \in Int : x = (f * t) \div b
  <2>1. f * t \in Int
    OBVIOUS
  <2> QED
    BY <1>3, <2>1
<1>5. ASSUME numeral.sign = "none", ~numeral.hex, ~numeral.junk, v * t + x <= Num!IntMax, f < Word
      PROVE  Num!parse_msec(numeral) = v * t + x
  <2>1. x <= Num!IntMax
    <3>1. v * t \in Nat
      OBVIOUS
    <3> QED
      BY <1>5, <3>1, IntFits
  <2>2. Num!ThreeDigits(numeral.frac) = x /\ x \in Nat
    BY <1>1, <1>3, <1>4, <1>5, <2>1, FractionScaled
  <2>3. ASSUME ~numeral.point PROVE x = 0
    <3>1. f = 0
      BY <1>1, <1>3, <2>3, ValueIs DEF NumInv
    <3>2. f * t = b * 0 + 0 /\ 0 \in 0 .. b - 1
      BY <1>3, <3>1
    <3>3. PICK a \in Int : a = f * t
      BY <3>1
    <3>4. a \div b = 0
      BY <1>3, <3>2, <3>3, DivIs
    <3> QED
      BY <1>4, <3>3, <3>4
  <2>4. x = IF numeral.point THEN Num!ThreeDigits(numeral.frac) ELSE 0
    BY <2>2, <2>3
  <2> QED
    BY <1>1, <1>3, <1>5, <2>2, <2>4, MsecIs
<1> QED
  BY <1>2, <1>3, <1>4, <1>5 DEF Num!MsecExact

LEMMA NumAgree == ASSUME NumberUnits, NumInv PROVE Num!ParsersAgree
<1>1. numeral \in NumLines /\ numeral.int \in Seq(Nat)
  BY DEF NumInv, NumLines
<1>2. PICK v \in Nat, t \in Nat : v = Num!Value(numeral.int) /\ t = Num!Thousand /\ t > 0
  BY <1>1, ValueIs, PowerIs DEF Num!Thousand
<1>3. PICK g \in Nat, base \in Nat : g = Num!ValueIn(base, numeral.int) /\ base = Num!Base(numeral)
  <2>1. Num!Base(numeral) \in Nat
    BY DEF Num!Base, NumberUnits
  <2> QED
    BY <1>1, <2>1, ValueInType
<1>4. PICK n \in Int : n = Num!parse_nat(numeral)
  BY <1>3 DEF Num!parse_nat
<1>5. ASSUME n # -1 PROVE ~Num!StopsEarly(numeral) /\ n = (IF numeral.sign = "-" THEN -g ELSE g) /\ n >= 0
  BY <1>3, <1>4, <1>5 DEF Num!parse_nat
<1>6. ASSUME n # -1, numeral.sign = "none", ~numeral.hex, v * t <= Num!IntMax
      PROVE  Num!parse_msec(numeral) = v * t
  <2>1. ~numeral.point /\ ~numeral.junk
    BY <1>5, <1>6 DEF Num!StopsEarly
  <2>2. 0 = IF numeral.point THEN Num!ThreeDigits(numeral.frac) ELSE 0
    BY <2>1
  <2>3. v * t + 0 <= Num!IntMax /\ v * t + 0 = v * t /\ 0 \in Nat
    BY <1>6, IntFits
  <2>4. Num!parse_msec(numeral) = v * t + 0
    BY <1>1, <1>2, <1>6, <2>1, <2>2, <2>3, MsecIs
  <2> QED
    BY <2>3, <2>4
<1>7. ASSUME n # -1, numeral.sign = "none", base = Radix, n * t <= Num!IntMax
      PROVE  Num!parse_msec(numeral) = n * t
  <2>1. ~numeral.hex
    BY <1>3, <1>7 DEF Num!Base, NumberUnits
  <2>2. n = v
    BY <1>2, <1>3, <1>5, <1>7 DEF Num!Value
  <2> QED
    BY <1>6, <1>7, <2>1, <2>2
<1>8. ASSUME n # -1, numeral.sign = "none", Num!Octal(numeral), v * t <= Num!IntMax
      PROVE  n * t <= Num!parse_msec(numeral) /\ (n * t = Num!parse_msec(numeral) <=> n < OctRadix)
  <2>1. ~numeral.hex /\ base = OctRadix
    BY <1>3, <1>8 DEF Num!Base, Num!Octal
  <2>2. \A k \in DOMAIN numeral.int : numeral.int[k] < OctRadix
    <3>1. \A k \in DOMAIN numeral.int : ~(numeral.int[k] >= OctRadix)
      BY <1>3, <1>5, <1>8, <2>1 DEF Num!StopsEarly
    <3>2. \A k \in DOMAIN numeral.int : numeral.int[k] \in Nat
      BY <1>1, ElementOfSeq, LenProperties
    <3> QED
      BY <3>1, <3>2 DEF NumberUnits
  <2>3. n = g /\ g = Num!ValueIn(OctRadix, numeral.int)
    BY <1>3, <1>5, <1>8, <2>1
  <2>4. g <= v /\ (g = v <=> g < OctRadix)
    BY <1>1, <1>2, <2>2, <2>3, OctalLess
  <2>5. Num!parse_msec(numeral) = v * t
    BY <1>6, <1>8, <2>1
  <2>6. g * t <= v * t /\ (g * t = v * t <=> g = v)
    BY <1>2, <2>4
  <2>7. PICK p \in Nat, q \in Nat : p = g * t /\ q = v * t
    OBVIOUS
  <2>8. n * t = p /\ Num!parse_msec(numeral) = q /\ p <= q /\ (p = q <=> g < OctRadix)
    BY <2>3, <2>4, <2>5, <2>6, <2>7
  <2> QED
    BY <2>3, <2>8
<1>9. ASSUME g > Num!IntMax PROVE n = -1
  BY <1>3, <1>4, <1>9, IntFits DEF Num!parse_nat
<1>10. ASSUME n # -1, numeral.sign = "-" PROVE n = 0
  BY <1>5, <1>10
<1> QED
  BY <1>2, <1>3, <1>4, <1>7, <1>8, <1>9, <1>10 DEF Num!ParsersAgree

(* Sequence numbers keep the distance and the order of counters less than     *)
(* half the space apart, however often they wrap, and the two number parsers  *)
(* are exact up to the overflow each one has.                                 *)
THEOREM NumbersSoundHolds ==
    ASSUME NumberUnits
    PROVE  Spec => []NumbersSound
<1> DEFINE I == unit = "numbers" => NumInv
<1>1. Init => I
  BY PartInit, NumInitial
<1>2. I /\ [Next]_vars => I'
  BY PartNext, NumNext
<1>3. I => NumbersSound
  BY NumOrder, NumMsec, NumAgree DEF NumbersSound
<1> HIDE DEF I
<1> QED
  BY <1>1, <1>2, <1>3, PTL DEF Spec

----------------------------------------------------------------------------
(* Bits of a byte and of an address, for bytes of b bits.                     *)

TwoTo(k) == <<1, 2, 4, 8, 16, 32, 64, 128, 256>>[k + 1]
ByteOf(b) == 0 .. TwoTo(b) - 1
BitOf(b, x, r) == (x \div TwoTo(b - 1 - r)) % 2
HighOf(b, x, k) == x - (x % TwoTo(b - k))
BitAt(b, a, j) == BitOf(b, a[j \div b + 1], j % b)
Agree(b, a, c, l) == \A j \in 0 .. l - 1 : BitAt(b, a, j) = BitAt(b, c, j)
SameHead(a, c, l) == \A j \in 1 .. l : a[j] = c[j]
SamePrefix(b, a, c, l) ==
    /\ SameHead(a, c, l \div b)
    /\ l % b # 0 => HighOf(b, a[l \div b + 1], l % b) = HighOf(b, c[l \div b + 1], l % b)

LEMMA TwoToIs ==
    ASSUME NEW k \in 0 .. 8
    PROVE  TwoTo(k) \in {1, 2, 4, 8, 16, 32, 64, 128, 256} /\ (k < 8 => TwoTo(k + 1) = 2 * TwoTo(k))
           /\ TwoTo(0) = 1
<1>1. k = 0 \/ k = 1 \/ k = 2 \/ k = 3 \/ k = 4 \/ k = 5 \/ k = 6 \/ k = 7 \/ k = 8
  OBVIOUS
<1> QED
  BY <1>1 DEF TwoTo

(* The quotient by a power is twice that by the next power and a bit, so two *)
(* quotients are equal where the next ones and the bits are.                 *)
LEMMA Halves ==
    ASSUME NEW x \in Nat, NEW z \in Nat, NEW m \in {1, 2, 4, 8, 16, 32, 64, 128}
    PROVE  x \div m = z \div m <=> x \div (2 * m) = z \div (2 * m) /\ (x \div m) % 2 = (z \div m) % 2
<1>1. CASE m = 1
  BY <1>1
<1>2. CASE m = 2
  BY <1>2
<1>3. CASE m = 4
  BY <1>3
<1>4. CASE m = 8
  BY <1>4
<1>5. CASE m = 16
  BY <1>5
<1>6. CASE m = 32
  BY <1>6
<1>7. CASE m = 64
  BY <1>7
<1>8. CASE m = 128
  BY <1>8
<1> QED
  BY <1>1, <1>2, <1>3, <1>4, <1>5, <1>6, <1>7, <1>8

(* What holds from the top down as long as no bit differs. *)
LEMMA TopDown ==
    ASSUME NEW n \in Nat, NEW E, NEW S, n \in E,
           \A e \in 0 .. n - 1 : e \in E <=> e + 1 \in E /\ e \in S,
           NEW f \in 0 .. n
    PROVE  f \in E <=> \A e \in f .. n - 1 : e \in S
<1>1. ASSUME \A e \in f .. n - 1 : e \in S, f \notin E PROVE FALSE
  <2> DEFINE T == {e \in f .. n : e \in E}
  <2>1. T \subseteq Nat /\ n \in T
    OBVIOUS
  <2>2. PICK m \in T : \A e \in T : m <= e
    BY <2>1, LeastNatural
  <2>3. m # f /\ m \in f .. n /\ m \in E
    BY <1>1
  <2>4. m - 1 \in f .. n - 1 /\ m - 1 \in 0 .. n - 1 /\ (m - 1) + 1 = m
    BY <2>3
  <2>5. m - 1 \in E
    BY <1>1, <2>3, <2>4
  <2>6. m - 1 \in T
    BY <2>4, <2>5
  <2> QED
    BY <2>2, <2>3, <2>6
<1>2. ASSUME f \in E, NEW g \in f .. n - 1, g \notin S PROVE FALSE
  <2> DEFINE T == {e \in f .. n : e \notin E}
  <2>1. T \subseteq Nat /\ g \in T
    BY <1>2
  <2>2. PICK m \in T : \A e \in T : m <= e
    BY <2>1, LeastNatural
  <2>3. m # f /\ m \in f .. n /\ m \notin E
    BY <1>2
  <2>4. m - 1 \in f .. n - 1 /\ m - 1 \in 0 .. n - 1 /\ (m - 1) + 1 = m
    BY <2>3
  <2>5. m - 1 \notin E
    BY <2>3, <2>4
  <2>6. m - 1 \in T
    BY <2>4, <2>5
  <2> QED
    BY <2>2, <2>3, <2>6
<1> QED
  BY <1>1, <1>2

(* The first k bits of two bytes agree where their quotients do. *)
LEMMA TopBits ==
    ASSUME NEW b \in 1 .. 8, NEW x \in ByteOf(b), NEW z \in ByteOf(b), NEW k \in 0 .. b
    PROVE  x \div TwoTo(b - k) = z \div TwoTo(b - k) <=> \A r \in 0 .. k - 1 : BitOf(b, x, r) = BitOf(b, z, r)
<1> DEFINE E == {e \in 0 .. b : x \div TwoTo(e) = z \div TwoTo(e)}
           S == {e \in 0 .. b - 1 : (x \div TwoTo(e)) % 2 = (z \div TwoTo(e)) % 2}
<1>1. x \in Nat /\ z \in Nat /\ x < TwoTo(b) /\ z < TwoTo(b) /\ TwoTo(b) \in Nat
  BY TwoToIs DEF ByteOf
<1>2. b \in E
  <2>1. x \div TwoTo(b) = 0 /\ z \div TwoTo(b) = 0
    BY <1>1, TwoToIs
  <2> QED
    BY <2>1
<1>3. ASSUME NEW e \in 0 .. b - 1 PROVE e \in E <=> e + 1 \in E /\ e \in S
  <2>1. e \in 0 .. 8 /\ e + 1 \in 0 .. 8 /\ e < 8 /\ e \in 0 .. b /\ e + 1 \in 0 .. b
    OBVIOUS
  <2>2. PICK m \in {1, 2, 4, 8, 16, 32, 64, 128} : TwoTo(e) = m /\ TwoTo(e + 1) = 2 * m
    BY <2>1, TwoToIs
  <2>3. x \div m = z \div m <=> x \div (2 * m) = z \div (2 * m) /\ (x \div m) % 2 = (z \div m) % 2
    BY <1>1, Halves
  <2> QED
    BY <2>1, <2>2, <2>3
<1>4. b - k \in 0 .. b /\ b \in Nat
  OBVIOUS
<1> HIDE DEF E, S
<1>5. b - k \in E <=> \A e \in b - k .. b - 1 : e \in S
  BY <1>2, <1>3, <1>4, TopDown
<1>6. (\A e \in b - k .. b - 1 : e \in S) <=> \A r \in 0 .. k - 1 : BitOf(b, x, r) = BitOf(b, z, r)
  <2>1. ASSUME \A e \in b - k .. b - 1 : e \in S, NEW r \in 0 .. k - 1 PROVE BitOf(b, x, r) = BitOf(b, z, r)
    <3>1. b - 1 - r \in b - k .. b - 1
      OBVIOUS
    <3> QED
      BY <2>1, <3>1 DEF S, BitOf
  <2>2. ASSUME \A r \in 0 .. k - 1 : BitOf(b, x, r) = BitOf(b, z, r), NEW e \in b - k .. b - 1 PROVE e \in S
    <3>1. b - 1 - e \in 0 .. k - 1 /\ b - 1 - (b - 1 - e) = e /\ e \in 0 .. b - 1
      OBVIOUS
    <3>2. BitOf(b, x, b - 1 - e) = BitOf(b, z, b - 1 - e)
      BY <2>2, <3>1
    <3> QED
      BY <3>1, <3>2 DEF S, BitOf
  <2> QED
    BY <2>1, <2>2
<1> QED
  BY <1>4, <1>5, <1>6 DEF E

(* The high bits are equal where the quotients are. *)
LEMMA HighIsTop ==
    ASSUME NEW b \in 1 .. 8, NEW x \in ByteOf(b), NEW z \in ByteOf(b), NEW k \in 0 .. b
    PROVE  HighOf(b, x, k) = HighOf(b, z, k) <=> x \div TwoTo(b - k) = z \div TwoTo(b - k)
<1>1. x \in Nat /\ z \in Nat /\ b - k \in 0 .. 8
  BY TwoToIs DEF ByteOf
<1>2. PICK m \in {1, 2, 4, 8, 16, 32, 64, 128, 256} : TwoTo(b - k) = m
  BY <1>1, TwoToIs
<1>3. m = 1 \/ m = 2 \/ m = 4 \/ m = 8 \/ m = 16 \/ m = 32 \/ m = 64 \/ m = 128 \/ m = 256
  OBVIOUS
<1>4. x - (x % m) = z - (z % m) <=> x \div m = z \div m
  BY <1>1, <1>3
<1> QED
  BY <1>2, <1>4 DEF HighOf

LEMMA HighSame ==
    ASSUME NEW b \in 1 .. 8, NEW x \in ByteOf(b), NEW z \in ByteOf(b), NEW k \in 0 .. b
    PROVE  HighOf(b, x, k) = HighOf(b, z, k) <=> \A r \in 0 .. k - 1 : BitOf(b, x, r) = BitOf(b, z, r)
  BY HighIsTop, TopBits

LEMMA ByteSame ==
    ASSUME NEW b \in 1 .. 8, NEW x \in ByteOf(b), NEW z \in ByteOf(b)
    PROVE  x = z <=> \A r \in 0 .. b - 1 : BitOf(b, x, r) = BitOf(b, z, r)
<1>1. b \in 0 .. b /\ b - b = 0 /\ TwoTo(0) = 1 /\ x \in Nat /\ z \in Nat
  BY TwoToIs DEF ByteOf, TwoTo
<1>2. x \div 1 = x /\ z \div 1 = z
  BY <1>1
<1> QED
  BY <1>1, <1>2, TopBits

(* Bit j lies in byte j \div b, at j % b. *)
LEMMA Place ==
    ASSUME NEW b \in 1 .. 8, NEW j \in Nat, NEW l \in Nat
    PROVE  /\ j \div b \in Nat /\ j % b \in 0 .. b - 1 /\ l \div b \in Nat /\ l % b \in 0 .. b - 1
           /\ j < l <=> \/ j \div b < l \div b
                        \/ j \div b = l \div b /\ j % b < l % b
<1>1. b = 1 \/ b = 2 \/ b = 3 \/ b = 4 \/ b = 5 \/ b = 6 \/ b = 7 \/ b = 8
  OBVIOUS
<1> QED
  BY <1>1

LEMMA PlaceBack ==
    ASSUME NEW b \in 1 .. 8, NEW t \in Nat, NEW r \in 0 .. b - 1
    PROVE  /\ b * t + r \in Nat /\ (b * t + r) \div b = t /\ (b * t + r) % b = r
<1>1. b = 1 \/ b = 2 \/ b = 3 \/ b = 4 \/ b = 5 \/ b = 6 \/ b = 7 \/ b = 8
  OBVIOUS
<1> QED
  BY <1>1

(* As long as the length lies within n bytes, so do the bytes compared. *)
LEMMA PlaceWithin ==
    ASSUME NEW b \in 1 .. 8, NEW n \in Nat, NEW l \in 0 .. b * n
    PROVE  /\ l \in Nat /\ l \div b <= n /\ (l % b # 0 => l \div b < n)
<1>1. b = 1 \/ b = 2 \/ b = 3 \/ b = 4 \/ b = 5 \/ b = 6 \/ b = 7 \/ b = 8
  OBVIOUS
<1> QED
  BY <1>1

(* Whole bytes and one mask compare the first l bits. *)
LEMMA SamePrefixIsBits ==
    ASSUME NEW b \in 1 .. 8, NEW n \in Nat, NEW a \in [1 .. n -> ByteOf(b)], NEW c \in [1 .. n -> ByteOf(b)],
           NEW l \in 0 .. b * n
    PROVE  SamePrefix(b, a, c, l) <=> Agree(b, a, c, l)
<1>0. l \in Nat /\ l \div b \in Nat /\ l % b \in 0 .. b - 1
  BY Place, PlaceWithin
<1>1. PICK w \in Nat, k \in 0 .. b - 1 : w = l \div b /\ k = l % b
  BY <1>0
<1>2. w <= n /\ (k # 0 => w < n)
  BY <1>1, PlaceWithin
<1>3. ASSUME SamePrefix(b, a, c, l), NEW j \in 0 .. l - 1 PROVE BitAt(b, a, j) = BitAt(b, c, j)
  <2>0. j \in Nat /\ j < l
    BY <1>0
  <2>1. PICK t \in Nat, r \in 0 .. b - 1 : t = j \div b /\ r = j % b
    BY <1>0, <2>0, Place
  <2>2. t < w \/ (t = w /\ r < k)
    BY <1>0, <1>1, <2>0, <2>1, Place
  <2>3. CASE t < w
    <3>1. t + 1 \in 1 .. w
      BY <2>3
    <3> QED
      BY <1>1, <1>3, <2>1, <3>1 DEF SamePrefix, SameHead, BitAt
  <2>4. CASE t = w /\ r < k
    <3>1. k # 0 /\ w + 1 \in 1 .. n /\ r \in 0 .. k - 1 /\ k \in 0 .. b
      BY <1>2, <2>4
    <3>2. HighOf(b, a[w + 1], k) = HighOf(b, c[w + 1], k)
      BY <1>1, <1>3, <3>1 DEF SamePrefix
    <3>3. a[w + 1] \in ByteOf(b) /\ c[w + 1] \in ByteOf(b)
      BY <3>1
    <3>4. BitOf(b, a[w + 1], r) = BitOf(b, c[w + 1], r)
      BY <3>1, <3>2, <3>3, HighSame
    <3> QED
      BY <2>1, <2>4, <3>4 DEF BitAt
  <2> QED
    BY <2>2, <2>3, <2>4
<1>4. ASSUME Agree(b, a, c, l) PROVE SamePrefix(b, a, c, l)
  <2>1. ASSUME NEW t \in Nat, NEW r \in 0 .. b - 1, t < w \/ (t = w /\ r < k)
        PROVE  BitOf(b, a[t + 1], r) = BitOf(b, c[t + 1], r)
    <3>1. PICK j \in Nat : j = b * t + r /\ j \div b = t /\ j % b = r
      BY PlaceBack
    <3>2. j < l
      BY <1>0, <1>1, <2>1, <3>1, Place
    <3>3. BitAt(b, a, j) = BitAt(b, c, j)
      BY <1>0, <1>4, <3>2 DEF Agree
    <3> QED
      BY <3>1, <3>3 DEF BitAt
  <2>2. ASSUME NEW j \in 1 .. w PROVE a[j] = c[j]
    <3>1. PICK t \in Nat : t = j - 1 /\ t < w /\ t + 1 = j
      OBVIOUS
    <3>2. \A r \in 0 .. b - 1 : BitOf(b, a[j], r) = BitOf(b, c[j], r)
      BY <2>1, <3>1
    <3>3. a[j] \in ByteOf(b) /\ c[j] \in ByteOf(b)
      BY <1>2
    <3> QED
      BY <3>2, <3>3, ByteSame
  <2>3. ASSUME k # 0 PROVE HighOf(b, a[w + 1], k) = HighOf(b, c[w + 1], k)
    <3>1. a[w + 1] \in ByteOf(b) /\ c[w + 1] \in ByteOf(b) /\ k \in 0 .. b
      BY <1>2, <2>3
    <3>2. \A r \in 0 .. k - 1 : BitOf(b, a[w + 1], r) = BitOf(b, c[w + 1], r)
      BY <2>1
    <3> QED
      BY <3>1, <3>2, HighSame
  <2> QED
    BY <1>1, <2>2, <2>3 DEF SamePrefix, SameHead
<1> QED
  BY <1>3, <1>4 DEF Agree

(* Agreeing is an equivalence, and shorter prefixes agree where longer do. *)
LEMMA AgreeFacts ==
    ASSUME NEW b, NEW l \in Int, NEW k \in Int, k <= l, NEW a, NEW c, NEW g
    PROVE  /\ Agree(b, a, a, l)
           /\ Agree(b, a, c, l) <=> Agree(b, c, a, l)
           /\ Agree(b, a, c, l) /\ Agree(b, c, g, l) => Agree(b, a, g, l)
           /\ Agree(b, a, c, l) => Agree(b, a, c, k)
<1> DEFINE bit(u, j) == BitAt(b, u, j)
<1>1. \A u, v, z : Agree(b, u, v, z) <=> \A j \in 0 .. z - 1 : bit(u, j) = bit(v, j)
  BY DEF Agree
<1>2. \A j \in 0 .. k - 1 : j \in 0 .. l - 1
  OBVIOUS
<1> HIDE DEF bit
<1> QED
  BY <1>1, <1>2

----------------------------------------------------------------------------
(* Masks                                                                      *)

MaskOf(b, n, a, l) ==
    [j \in 1 .. n |-> IF j <= l \div b THEN a[j]
                      ELSE IF j = l \div b + 1 /\ l % b # 0 THEN HighOf(b, a[j], l % b) ELSE 0]

(* The high bits of a byte: a byte with the same high bits, the others clear. *)
LEMMA HighFacts ==
    ASSUME NEW b \in 1 .. 8, NEW x \in ByteOf(b), NEW k \in 0 .. b
    PROVE  /\ HighOf(b, x, k) \in ByteOf(b)
           /\ HighOf(b, HighOf(b, x, k), k) = HighOf(b, x, k)
           /\ \A r \in k .. b - 1 : BitOf(b, HighOf(b, x, k), r) = 0
<1>1. b - k \in 0 .. 8 /\ b \in 0 .. 8
  OBVIOUS
<1>2. PICK m \in {1, 2, 4, 8, 16, 32, 64, 128, 256} : TwoTo(b - k) = m
  BY <1>1, TwoToIs
<1>3. m = 1 \/ m = 2 \/ m = 4 \/ m = 8 \/ m = 16 \/ m = 32 \/ m = 64 \/ m = 128 \/ m = 256
  OBVIOUS
<1>4. x \in Nat /\ x < TwoTo(b) /\ TwoTo(b) \in Nat
  BY <1>1, TwoToIs DEF ByteOf
<1>5. PICK q \in Nat : q = x \div m /\ x - (x % m) = m * q /\ m * q <= x /\ (m * q) % m = 0
  BY <1>3, <1>4
<1>6. HighOf(b, x, k) = m * q /\ m * q \in Nat
  BY <1>2, <1>3, <1>5 DEF HighOf
<1>7. HighOf(b, m * q, k) = m * q
  <2>1. HighOf(b, m * q, k) = m * q - 0
    BY <1>2, <1>5 DEF HighOf
  <2> QED
    BY <1>6, <2>1
<1>8. ASSUME NEW r \in k .. b - 1 PROVE BitOf(b, m * q, r) = 0
  <2>1. b - 1 - r \in 0 .. 8 /\ b - 1 - r < b - k /\ b - 1 - r < 8
    OBVIOUS
  <2>2. PICK e \in 0 .. 7, f \in 1 .. 8 : e = b - 1 - r /\ f = b - k /\ e < f
    BY <1>1, <2>1
  <2>3. ((m * q) \div TwoTo(e)) % 2 = 0
    <3>1. e = 0 \/ e = 1 \/ e = 2 \/ e = 3 \/ e = 4 \/ e = 5 \/ e = 6 \/ e = 7
      OBVIOUS
    <3>2. f = 1 \/ f = 2 \/ f = 3 \/ f = 4 \/ f = 5 \/ f = 6 \/ f = 7 \/ f = 8
      OBVIOUS
    <3>3. TwoTo(f) = m
      BY <1>2, <2>2
    <3> QED
      BY <2>2, <3>1, <3>2, <3>3 DEF TwoTo
  <2> QED
    BY <2>2, <2>3 DEF BitOf
<1> QED
  BY <1>4, <1>5, <1>6, <1>7, <1>8 DEF ByteOf

LEMMA ZeroByte ==
    ASSUME NEW b \in 1 .. 8
    PROVE  0 \in ByteOf(b) /\ \A r \in 0 .. b - 1 : BitOf(b, 0, r) = 0
<1>1. b \in 0 .. 8 /\ TwoTo(b) \in Nat /\ TwoTo(b) > 0
  BY TwoToIs
<1>2. ASSUME NEW r \in 0 .. b - 1 PROVE BitOf(b, 0, r) = 0
  <2>1. b - 1 - r \in 0 .. 8
    OBVIOUS
  <2>2. PICK m \in {1, 2, 4, 8, 16, 32, 64, 128, 256} : TwoTo(b - 1 - r) = m
    BY <2>1, TwoToIs
  <2>3. 0 \div m = 0
    BY <2>2
  <2> QED
    BY <2>2, <2>3 DEF BitOf
<1> QED
  BY <1>1, <1>2 DEF ByteOf

(* Masking keeps the first l bits and clears the rest. *)
LEMMA MaskFacts ==
    ASSUME NEW b \in 1 .. 8, NEW n \in Nat, NEW a \in [1 .. n -> ByteOf(b)], NEW l \in 0 .. b * n
    PROVE  /\ MaskOf(b, n, a, l) \in [1 .. n -> ByteOf(b)]
           /\ Agree(b, MaskOf(b, n, a, l), a, l)
           /\ \A j \in l .. b * n - 1 : BitAt(b, MaskOf(b, n, a, l), j) = 0
<1> DEFINE m == MaskOf(b, n, a, l)
<1>0. l \in Nat /\ l \div b \in Nat /\ l % b \in 0 .. b - 1
  BY Place, PlaceWithin
<1>1. PICK w \in Nat, k \in 0 .. b - 1 : w = l \div b /\ k = l % b /\ k \in 0 .. b
  BY <1>0
<1>2. w <= n /\ (k # 0 => w < n)
  BY <1>1, PlaceWithin
<1>3. m = [j \in 1 .. n |-> IF j <= w THEN a[j] ELSE IF j = w + 1 /\ k # 0 THEN HighOf(b, a[j], k) ELSE 0]
  BY <1>1 DEF MaskOf
<1> HIDE DEF m
<1>4. ASSUME NEW j \in 1 .. n PROVE m[j] \in ByteOf(b)
  BY <1>1, <1>3, HighFacts, ZeroByte
<1>5. m \in [1 .. n -> ByteOf(b)]
  BY <1>3, <1>4
<1>6. SamePrefix(b, m, a, l)
  <2>1. ASSUME NEW j \in 1 .. w PROVE m[j] = a[j]
    BY <1>2, <1>3
  <2>2. ASSUME k # 0 PROVE HighOf(b, m[w + 1], k) = HighOf(b, a[w + 1], k)
    <3>1. w + 1 \in 1 .. n
      BY <1>2, <2>2
    <3>2. m[w + 1] = HighOf(b, a[w + 1], k) /\ a[w + 1] \in ByteOf(b)
      BY <1>3, <2>2, <3>1
    <3> QED
      BY <1>1, <3>2, HighFacts
  <2> QED
    BY <1>1, <2>1, <2>2 DEF SamePrefix, SameHead
<1>7. Agree(b, m, a, l)
  BY <1>5, <1>6, SamePrefixIsBits
<1>8. ASSUME NEW j \in l .. b * n - 1 PROVE BitAt(b, m, j) = 0
  <2>1. b * n \in Nat /\ j \in Nat /\ j < b * n /\ ~(j < l)
    BY <1>0
  <2>2. PICK t \in Nat, r \in 0 .. b - 1 : t = j \div b /\ r = j % b
    BY <2>1, Place
  <2>3. ~(t < w) /\ ~(t = w /\ r < k)
    BY <1>0, <1>1, <2>1, <2>2, Place
  <2>4. t < n
    <3>1. (b * n) \div b = n /\ (b * n) % b = 0
      <4>1. 0 \in 0 .. b - 1 /\ b * n + 0 = b * n
        BY <2>1
      <4> QED
        BY <4>1, PlaceBack
    <3> QED
      BY <2>1, <2>2, <3>1, Place
  <2>5. CASE t = w /\ k # 0
    <3>1. m[t + 1] = HighOf(b, a[t + 1], k) /\ a[t + 1] \in ByteOf(b) /\ r \in k .. b - 1
      BY <1>3, <2>3, <2>4, <2>5
    <3>2. PICK x \in ByteOf(b) : x = a[t + 1]
      BY <3>1
    <3>3. BitOf(b, HighOf(b, x, k), r) = 0
      BY <1>1, <3>1, HighFacts
    <3> QED
      BY <2>2, <3>1, <3>2, <3>3 DEF BitAt
  <2>6. CASE ~(t = w /\ k # 0)
    <3>1. m[t + 1] = 0
      BY <1>3, <2>3, <2>4, <2>6
    <3> QED
      BY <2>2, <3>1, ZeroByte DEF BitAt
  <2> QED
    BY <2>5, <2>6
<1> QED
  BY <1>5, <1>7, <1>8 DEF m

----------------------------------------------------------------------------
(* Prefixes as sets                                                           *)

(* There is a byte that agrees before bit r and differs there. *)
Flipped(b, x, r, z) ==
    BitOf(b, z, r) # BitOf(b, x, r) /\ \A u \in 0 .. r - 1 : BitOf(b, z, u) = BitOf(b, x, u)

LEMMA Flip ==
    ASSUME NEW b \in 1 .. 8, NEW x \in ByteOf(b), NEW r \in 0 .. b - 1
    PROVE  \E z \in ByteOf(b) : Flipped(b, x, r, z)
<1>1. PICK e \in 0 .. 7 : e = b - 1 - r /\ e < b
  OBVIOUS
<1>2. PICK m \in {1, 2, 4, 8, 16, 32, 64, 128} : TwoTo(e) = m /\ TwoTo(e + 1) = 2 * m
  <2>1. e \in 0 .. 8 /\ e < 8
    OBVIOUS
  <2> QED
    BY <2>1, TwoToIs
<1>3. m = 1 \/ m = 2 \/ m = 4 \/ m = 8 \/ m = 16 \/ m = 32 \/ m = 64 \/ m = 128
  OBVIOUS
<1>4. x \in Nat /\ x < TwoTo(b) /\ TwoTo(b) \in Nat
  BY TwoToIs DEF ByteOf
<1>5. PICK g \in Nat : TwoTo(b) = (2 * m) * g
  <2>1. b = 1 \/ b = 2 \/ b = 3 \/ b = 4 \/ b = 5 \/ b = 6 \/ b = 7 \/ b = 8
    OBVIOUS
  <2>2. e = 0 \/ e = 1 \/ e = 2 \/ e = 3 \/ e = 4 \/ e = 5 \/ e = 6 \/ e = 7
    OBVIOUS
  <2>3. TwoTo(b) = (2 * TwoTo(e)) * TwoTo(b - 1 - e)
    BY <1>1, <2>1, <2>2 DEF TwoTo
  <2>4. TwoTo(b - 1 - e) \in Nat
    <3>1. b - 1 - e \in 0 .. 8
      BY <1>1
    <3> QED
      BY <3>1, TwoToIs
  <2> QED
    BY <1>2, <2>3, <2>4
<1>6. PICK z \in Nat : /\ z < (2 * m) * g /\ z \div (2 * m) = x \div (2 * m)
                       /\ (z \div m) % 2 # (x \div m) % 2
  <2>1. CASE (x \div m) % 2 = 0
    <3>1. /\ x + m \in Nat /\ x + m < (2 * m) * g /\ (x + m) \div (2 * m) = x \div (2 * m)
          /\ ((x + m) \div m) % 2 # (x \div m) % 2
      BY <1>3, <1>4, <1>5, <2>1
    <3> QED
      BY <3>1
  <2>2. CASE (x \div m) % 2 # 0
    <3>1. /\ x - m \in Nat /\ x - m < (2 * m) * g /\ (x - m) \div (2 * m) = x \div (2 * m)
          /\ ((x - m) \div m) % 2 # (x \div m) % 2
      BY <1>3, <1>4, <1>5, <2>2
    <3> QED
      BY <3>1
  <2> QED
    BY <2>1, <2>2
<1>7. z \in ByteOf(b)
  BY <1>4, <1>5, <1>6 DEF ByteOf
<1>8. BitOf(b, z, r) # BitOf(b, x, r)
  BY <1>1, <1>2, <1>6 DEF BitOf
<1>9. \A u \in 0 .. r - 1 : BitOf(b, z, u) = BitOf(b, x, u)
  <2>1. r \in 0 .. b /\ b - r = e + 1
    BY <1>1
  <2>2. z \div TwoTo(b - r) = x \div TwoTo(b - r)
    BY <1>2, <1>6, <2>1
  <2> QED
    BY <1>7, <2>1, <2>2, TopBits
<1> QED
  BY <1>7, <1>8, <1>9 DEF Flipped

(* A prefix that is not full holds an address that differs in the next bit. *)
LEMMA Beyond ==
    ASSUME NEW b \in 1 .. 8, NEW n \in Nat, NEW a \in [1 .. n -> ByteOf(b)], NEW l \in 0 .. b * n, l < b * n
    PROVE  \E c \in [1 .. n -> ByteOf(b)] : Agree(b, c, a, l) /\ BitAt(b, c, l) # BitAt(b, a, l)
<1>0. l \in Nat /\ b * n \in Nat
  BY Place, PlaceWithin
<1>1. PICK w \in Nat, k \in 0 .. b - 1 : w = l \div b /\ k = l % b
  BY <1>0, Place
<1>2. w < n
  <2>1. 0 \in 0 .. b - 1 /\ b * n + 0 = b * n
    BY <1>0
  <2>2. (b * n) \div b = n /\ (b * n) % b = 0
    BY <2>1, PlaceBack
  <2> QED
    BY <1>0, <1>1, <2>2, Place
<1>3. w + 1 \in 1 .. n /\ a[w + 1] \in ByteOf(b)
  BY <1>2
<1>4. PICK x \in ByteOf(b) : x = a[w + 1]
  BY <1>3
<1>9. PICK z \in ByteOf(b) : Flipped(b, x, k, z)
  BY Flip
<1> DEFINE c == [a EXCEPT ![w + 1] = z]
<1>5. /\ c \in [1 .. n -> ByteOf(b)] /\ c[w + 1] = z
      /\ \A j \in 1 .. n : j # w + 1 => c[j] = a[j]
  BY <1>3
<1> HIDE DEF c
<1>6. BitAt(b, c, l) # BitAt(b, a, l)
  BY <1>1, <1>4, <1>5, <1>9 DEF BitAt, Flipped
<1>7. ASSUME NEW j \in 0 .. l - 1 PROVE BitAt(b, c, j) = BitAt(b, a, j)
  <2>0. j \in Nat /\ j < l
    BY <1>0
  <2>1. PICK t \in Nat, r \in 0 .. b - 1 : t = j \div b /\ r = j % b
    BY <2>0, Place
  <2>2. t < w \/ (t = w /\ r < k)
    BY <1>0, <1>1, <2>0, <2>1, Place
  <2>3. CASE t < w
    <3>1. t + 1 \in 1 .. n /\ t + 1 # w + 1
      BY <1>2, <2>3
    <3>2. c[t + 1] = a[t + 1]
      BY <1>5, <3>1
    <3> QED
      BY <2>1, <3>2 DEF BitAt
  <2>4. CASE t = w /\ r < k
    <3>1. BitOf(b, c[t + 1], r) = BitOf(b, a[t + 1], r)
      BY <1>4, <1>5, <1>9, <2>4 DEF Flipped
    <3> QED
      BY <2>1, <3>1 DEF BitAt
  <2> QED
    BY <2>2, <2>3, <2>4
<1>8. Agree(b, c, a, l)
  BY <1>7 DEF Agree
<1> QED
  BY <1>5, <1>6, <1>8

Within(b, n, a, l) == {g \in [1 .. n -> ByteOf(b)] : Agree(b, g, a, l)}

(* A longer prefix is a proper part of a shorter one it agrees with. *)
LEMMA Inside ==
    ASSUME NEW b \in 1 .. 8, NEW n \in Nat, NEW a \in [1 .. n -> ByteOf(b)], NEW c \in [1 .. n -> ByteOf(b)],
           NEW l \in 0 .. b * n, NEW k \in 0 .. b * n, l < k, Agree(b, a, c, l)
    PROVE  Within(b, n, c, k) \subseteq Within(b, n, a, l) /\ Within(b, n, a, l) # Within(b, n, c, k)
<1>0. l \in Int /\ k \in Int /\ l <= k /\ l <= l /\ l < b * n
  OBVIOUS
<1>1. Agree(b, c, a, l)
  BY <1>0, AgreeFacts
<1>2. ASSUME NEW g \in [1 .. n -> ByteOf(b)], Agree(b, g, c, k) PROVE Agree(b, g, a, l)
  <2>1. Agree(b, g, c, l)
    BY <1>0, <1>2, AgreeFacts
  <2> QED
    BY <1>0, <1>1, <2>1, AgreeFacts
<1>3. PICK g \in [1 .. n -> ByteOf(b)] : Agree(b, g, c, l) /\ BitAt(b, g, l) # BitAt(b, c, l)
  BY <1>0, Beyond
<1>4. Agree(b, g, a, l)
  BY <1>0, <1>1, <1>3, AgreeFacts
<1>5. ~Agree(b, g, c, k)
  <2>1. l \in 0 .. k - 1
    OBVIOUS
  <2> QED
    BY <1>3, <2>1 DEF Agree
<1> QED
  BY <1>2, <1>4, <1>5 DEF Within

(* How two sets relate, given whether the prefixes agree and their lengths.  *)
Related(A, C, same, l, k) ==
    /\ ~same <=> A \cap C = {}
    /\ same /\ l = k => A = C
    /\ same /\ l < k => C \subseteq A /\ A # C
    /\ same /\ l > k => A \subseteq C /\ A # C

(* The relation of the sets by the shorter length and the lengths. *)
LEMMA SetRelation ==
    ASSUME NEW b \in 1 .. 8, NEW n \in Nat, NEW a \in [1 .. n -> ByteOf(b)], NEW c \in [1 .. n -> ByteOf(b)],
           NEW l \in 0 .. b * n, NEW k \in 0 .. b * n
    PROVE  /\ Related(Within(b, n, a, l), Within(b, n, c, k), Agree(b, a, c, IF l <= k THEN l ELSE k), l, k)
           /\ a \in Within(b, n, a, l) /\ c \in Within(b, n, c, k)
<1> DEFINE m == IF l <= k THEN l ELSE k
           A == Within(b, n, a, l)
           C == Within(b, n, c, k)
<1>0. l \in Int /\ k \in Int /\ m \in Int /\ m <= l /\ m <= k /\ (m = l \/ m = k) /\ l <= l /\ k <= k /\ m <= m
  OBVIOUS
<1>1. a \in A /\ c \in C
  BY <1>0, AgreeFacts DEF Within
<1>2. ASSUME Agree(b, a, c, m) PROVE A \cap C # {}
  <2>1. Agree(b, c, a, m)
    BY <1>0, <1>2, AgreeFacts
  <2>2. m = l => c \in A
    BY <2>1 DEF Within
  <2>3. m = k => a \in C
    BY <1>2 DEF Within
  <2> QED
    BY <1>0, <1>1, <2>2, <2>3
<1>3. ASSUME NEW g \in A, g \in C PROVE Agree(b, a, c, m)
  <2>1. Agree(b, g, a, l) /\ Agree(b, g, c, k)
    BY <1>3 DEF Within
  <2>2. Agree(b, g, a, m) /\ Agree(b, g, c, m)
    BY <1>0, <2>1, AgreeFacts
  <2>3. Agree(b, a, g, m)
    BY <1>0, <2>2, AgreeFacts
  <2> QED
    BY <1>0, <2>2, <2>3, AgreeFacts
<1>4. ASSUME Agree(b, a, c, m), l = k PROVE A = C
  <2>1. m = l /\ Agree(b, a, c, l) /\ Agree(b, c, a, l)
    BY <1>0, <1>4, AgreeFacts
  <2>2. \A g : Agree(b, g, a, l) <=> Agree(b, g, c, l)
    BY <1>0, <2>1, AgreeFacts
  <2> QED
    BY <1>4, <2>2 DEF Within
<1>5. ASSUME Agree(b, a, c, m), l < k PROVE C \subseteq A /\ A # C
  <2>1. Agree(b, a, c, l)
    BY <1>0, <1>5
  <2> QED
    BY <1>5, <2>1, Inside
<1>6. ASSUME Agree(b, a, c, m), l > k PROVE A \subseteq C /\ A # C
  <2>1. m = k /\ k < l
    BY <1>6
  <2>2. Agree(b, c, a, k)
    BY <1>0, <1>6, <2>1, AgreeFacts
  <2> QED
    BY <2>1, <2>2, Inside
<1> HIDE DEF A, C, m
<1>7. Related(A, C, Agree(b, a, c, m), l, k) /\ a \in A /\ c \in C
  BY <1>1, <1>2, <1>3, <1>4, <1>5, <1>6 DEF Related
<1> QED
  BY <1>7 DEF A, C, m

----------------------------------------------------------------------------
(* The two instances of UtilPrefix                                            *)

SmallAll == [1 .. SmallBytes -> ByteOf(SmallBits)]
Ip6All == [1 .. 16 -> ByteOf(8)]

(* Bytes of at most eight bits; the small instance holds all addresses.       *)
PrefixUnits ==
    /\ SmallBits \in 1 .. 8 /\ SmallBytes \in Nat
    /\ SmallAddresses = [1 .. SmallBytes -> 0 .. Small!Ones]
    /\ SmallPlens \subseteq 0 .. Small!Bits
    /\ Ip6Addresses \subseteq [1 .. 16 -> 0 .. Ip6!Ones]
    /\ Ip6Plens \subseteq 0 .. Ip6!Bits

SmallInv ==
    /\ one \in [addr : SmallAll, plen : 0 .. SmallBits * SmallBytes]
    /\ two \in [addr : SmallAll, plen : 0 .. SmallBits * SmallBytes]
Ip6Inv ==
    /\ one \in [addr : Ip6All, plen : 0 .. 8 * 16]
    /\ two \in [addr : Ip6All, plen : 0 .. 8 * 16]

LEMMA Units ==
    ASSUME PrefixUnits
    PROVE  /\ SmallAddresses = SmallAll /\ SmallPlens \subseteq 0 .. SmallBits * SmallBytes
           /\ Ip6Addresses \subseteq Ip6All /\ Ip6Plens \subseteq 0 .. 8 * 16
<1>1. Small!Ones = TwoTo(SmallBits) - 1 /\ Ip6!Ones = TwoTo(8) - 1
  BY DEF Small!Ones, Ip6!Ones, Small!Pow2, Ip6!Pow2, TwoTo
<1>2. Small!Bits = SmallBits * SmallBytes /\ Ip6!Bits = 8 * 16
  BY DEF Small!Bits, Ip6!Bits
<1> QED
  BY <1>1, <1>2 DEF PrefixUnits, SmallAll, Ip6All, ByteOf

(* The rest of a division, as prefixes_cmp computes it. *)
LEMMA Remainder ==
    ASSUME NEW b \in 1 .. 8, NEW n \in Nat, NEW m \in 0 .. b * n
    PROVE  m \in Nat /\ m - (m \div b) * b = m % b
<1>1. m \in Nat
  BY PlaceWithin
<1>2. b = 1 \/ b = 2 \/ b = 3 \/ b = 4 \/ b = 5 \/ b = 6 \/ b = 7 \/ b = 8
  OBVIOUS
<1> QED
  BY <1>1, <1>2

(* The operators of UtilAddr for Small, in terms of those above. *)
LEMMA SmallIs ==
    ASSUME PrefixUnits, NEW a \in SmallAll, NEW c \in SmallAll, NEW l \in 0 .. SmallBits * SmallBytes, NEW k \in 0 .. SmallBits * SmallBytes
    PROVE  /\ Small!in_prefix(a, c, l) <=> Agree(SmallBits, a, c, l)
           /\ Small!mask_prefix(a, l) = MaskOf(SmallBits, SmallBytes, a, l)
           /\ Small!Compared = Small!prefixes_cmp(one.addr, one.plen, two.addr, two.plen)
           /\ Small!prefixes_cmp(a, l, c, k) =
                 IF ~Agree(SmallBits, a, c, IF l <= k THEN l ELSE k) THEN "PST_DISJOINT"
                 ELSE IF l < k THEN "PST_LESS_SPECIFIC"
                 ELSE IF l > k THEN "PST_MORE_SPECIFIC" ELSE "PST_EQUALS"
<1>1. /\ SmallBits \in 1 .. 8 /\ SmallBytes \in Nat /\ SmallBits * SmallBytes \in Nat
      /\ a \in [1 .. SmallBytes -> ByteOf(SmallBits)] /\ c \in [1 .. SmallBytes -> ByteOf(SmallBits)]
  BY DEF PrefixUnits, SmallAll
<1>2. \A x, j : Small!High(x, j) = HighOf(SmallBits, x, j)
  BY DEF Small!High, HighOf, Small!Pow2, TwoTo
<1>3. \A u, v, j : Small!SameBytes(u, v, j) <=> SameHead(u, v, j)
  BY DEF Small!SameBytes, SameHead
<1>4. Small!in_prefix(a, c, l) <=> SamePrefix(SmallBits, a, c, l)
  <2>1. ~(l > Small!Bits)
    BY <1>1 DEF Small!Bits
  <2> QED
    BY <1>2, <1>3, <2>1 DEF Small!in_prefix, SamePrefix
<1>5. Small!mask_prefix(a, l) = MaskOf(SmallBits, SmallBytes, a, l)
  <2>1. CASE l >= Small!Bits
    <3>1. l = SmallBits * SmallBytes + 0 /\ 0 \in 0 .. SmallBits - 1
      BY <1>1, <2>1 DEF Small!Bits
    <3>2. l \div SmallBits = SmallBytes /\ l % SmallBits = 0
      BY <1>1, <3>1, PlaceBack
    <3>3. MaskOf(SmallBits, SmallBytes, a, l) = a
      BY <1>1, <3>2 DEF MaskOf
    <3> QED
      BY <2>1, <3>3 DEF Small!mask_prefix
  <2>2. CASE ~(l >= Small!Bits)
    BY <1>2, <2>2 DEF Small!mask_prefix, MaskOf
  <2> QED
    BY <2>1, <2>2
<1>6. Small!prefixes_cmp(a, l, c, k) =
        IF ~Agree(SmallBits, a, c, IF l <= k THEN l ELSE k) THEN "PST_DISJOINT"
        ELSE IF l < k THEN "PST_LESS_SPECIFIC"
        ELSE IF l > k THEN "PST_MORE_SPECIFIC" ELSE "PST_EQUALS"
  <2>1. PICK m \in 0 .. SmallBits * SmallBytes : m = IF l <= k THEN l ELSE k
    OBVIOUS
  <2>2. m \in Nat /\ m - (m \div SmallBits) * SmallBits = m % SmallBits
    BY <1>1, <2>1, Remainder
  <2>3. Small!prefixes_cmp(a, l, c, k) =
          IF ~SamePrefix(SmallBits, a, c, m) THEN "PST_DISJOINT"
          ELSE IF l < k THEN "PST_LESS_SPECIFIC"
          ELSE IF l > k THEN "PST_MORE_SPECIFIC" ELSE "PST_EQUALS"
    BY <1>2, <1>3, <2>1, <2>2 DEF Small!prefixes_cmp, SamePrefix
  <2> QED
    BY <1>1, <2>1, <2>3, SamePrefixIsBits
<1> QED
  BY <1>1, <1>4, <1>5, <1>6, SamePrefixIsBits DEF Small!Compared

LEMMA SmallBitsAre ==
    ASSUME NEW a, NEW c, NEW l
    PROVE  /\ Small!AgreeUpTo(a, c, l) <=> Agree(SmallBits, a, c, l)
           /\ \A j : Small!Bit(a, j) = BitAt(SmallBits, a, j)
<1>1. \A u, j : Small!Bit(u, j) = BitAt(SmallBits, u, j)
  BY DEF Small!Bit, BitAt, BitOf, Small!Pow2, TwoTo
<1> QED
  BY <1>1 DEF Small!AgreeUpTo, Agree

LEMMA SmallInitial == ASSUME PrefixUnits, Small!Init PROVE SmallInv
  BY Units DEF Small!Init, Small!Prefixes, SmallInv

LEMMA SmallNext ==
    ASSUME PrefixUnits, SmallInv, [Small!Next]_(Small!vars) PROVE SmallInv'
<1>1. ASSUME NEW a \in SmallAll, NEW l \in 0 .. SmallBits * SmallBytes PROVE Small!mask_prefix(a, l) \in SmallAll
  <2>1. SmallBits \in 1 .. 8 /\ SmallBytes \in Nat /\ a \in [1 .. SmallBytes -> ByteOf(SmallBits)]
    BY DEF PrefixUnits, SmallAll
  <2>2. MaskOf(SmallBits, SmallBytes, a, l) \in [1 .. SmallBytes -> ByteOf(SmallBits)]
    BY <2>1, MaskFacts
  <2> QED
    BY <2>2, SmallIs DEF SmallAll
<1>2. CASE UNCHANGED Small!vars
  BY <1>2 DEF Small!vars, SmallInv
<1>3. CASE Small!MaskP
  BY <1>1, <1>3 DEF Small!MaskP, SmallInv
<1>4. CASE Small!MaskQ
  BY <1>1, <1>4 DEF Small!MaskQ, SmallInv
<1> QED
  BY <1>2, <1>3, <1>4 DEF Small!Next

(* The operators of UtilAddr for Ip6, in terms of those above. *)
LEMMA Ip6Is ==
    ASSUME PrefixUnits, NEW a \in Ip6All, NEW c \in Ip6All, NEW l \in 0 .. 8 * 16, NEW k \in 0 .. 8 * 16
    PROVE  /\ Ip6!in_prefix(a, c, l) <=> Agree(8, a, c, l)
           /\ Ip6!mask_prefix(a, l) = MaskOf(8, 16, a, l)
           /\ Ip6!Compared = Ip6!prefixes_cmp(one.addr, one.plen, two.addr, two.plen)
           /\ Ip6!prefixes_cmp(a, l, c, k) =
                 IF ~Agree(8, a, c, IF l <= k THEN l ELSE k) THEN "PST_DISJOINT"
                 ELSE IF l < k THEN "PST_LESS_SPECIFIC"
                 ELSE IF l > k THEN "PST_MORE_SPECIFIC" ELSE "PST_EQUALS"
<1>1. /\ 8 \in 1 .. 8 /\ 16 \in Nat /\ 8 * 16 \in Nat
      /\ a \in [1 .. 16 -> ByteOf(8)] /\ c \in [1 .. 16 -> ByteOf(8)]
  BY DEF PrefixUnits, Ip6All
<1>2. \A x, j : Ip6!High(x, j) = HighOf(8, x, j)
  BY DEF Ip6!High, HighOf, Ip6!Pow2, TwoTo
<1>3. \A u, v, j : Ip6!SameBytes(u, v, j) <=> SameHead(u, v, j)
  BY DEF Ip6!SameBytes, SameHead
<1>4. Ip6!in_prefix(a, c, l) <=> SamePrefix(8, a, c, l)
  <2>1. ~(l > Ip6!Bits)
    BY <1>1 DEF Ip6!Bits
  <2> QED
    BY <1>2, <1>3, <2>1 DEF Ip6!in_prefix, SamePrefix
<1>5. Ip6!mask_prefix(a, l) = MaskOf(8, 16, a, l)
  <2>1. CASE l >= Ip6!Bits
    <3>1. l = 8 * 16 + 0 /\ 0 \in 0 .. 8 - 1
      BY <1>1, <2>1 DEF Ip6!Bits
    <3>2. l \div 8 = 16 /\ l % 8 = 0
      BY <1>1, <3>1, PlaceBack
    <3>3. MaskOf(8, 16, a, l) = a
      BY <1>1, <3>2 DEF MaskOf
    <3> QED
      BY <2>1, <3>3 DEF Ip6!mask_prefix
  <2>2. CASE ~(l >= Ip6!Bits)
    BY <1>2, <2>2 DEF Ip6!mask_prefix, MaskOf
  <2> QED
    BY <2>1, <2>2
<1>6. Ip6!prefixes_cmp(a, l, c, k) =
        IF ~Agree(8, a, c, IF l <= k THEN l ELSE k) THEN "PST_DISJOINT"
        ELSE IF l < k THEN "PST_LESS_SPECIFIC"
        ELSE IF l > k THEN "PST_MORE_SPECIFIC" ELSE "PST_EQUALS"
  <2>1. PICK m \in 0 .. 8 * 16 : m = IF l <= k THEN l ELSE k
    OBVIOUS
  <2>2. m \in Nat /\ m - (m \div 8) * 8 = m % 8
    BY <1>1, <2>1, Remainder
  <2>3. Ip6!prefixes_cmp(a, l, c, k) =
          IF ~SamePrefix(8, a, c, m) THEN "PST_DISJOINT"
          ELSE IF l < k THEN "PST_LESS_SPECIFIC"
          ELSE IF l > k THEN "PST_MORE_SPECIFIC" ELSE "PST_EQUALS"
    BY <1>2, <1>3, <2>1, <2>2 DEF Ip6!prefixes_cmp, SamePrefix
  <2> QED
    BY <1>1, <2>1, <2>3, SamePrefixIsBits
<1> QED
  BY <1>1, <1>4, <1>5, <1>6, SamePrefixIsBits DEF Ip6!Compared

LEMMA Ip6BitsAre ==
    ASSUME NEW a, NEW c, NEW l
    PROVE  /\ Ip6!AgreeUpTo(a, c, l) <=> Agree(8, a, c, l)
           /\ \A j : Ip6!Bit(a, j) = BitAt(8, a, j)
<1>1. \A u, j : Ip6!Bit(u, j) = BitAt(8, u, j)
  BY DEF Ip6!Bit, BitAt, BitOf, Ip6!Pow2, TwoTo
<1> QED
  BY <1>1 DEF Ip6!AgreeUpTo, Agree

LEMMA Ip6Initial == ASSUME PrefixUnits, Ip6!Init PROVE Ip6Inv
  BY Units DEF Ip6!Init, Ip6!Prefixes, Ip6Inv

LEMMA Ip6Next ==
    ASSUME PrefixUnits, Ip6Inv, [Ip6!Next]_(Ip6!vars) PROVE Ip6Inv'
<1>1. ASSUME NEW a \in Ip6All, NEW l \in 0 .. 8 * 16 PROVE Ip6!mask_prefix(a, l) \in Ip6All
  <2>1. 8 \in 1 .. 8 /\ 16 \in Nat /\ a \in [1 .. 16 -> ByteOf(8)]
    BY DEF PrefixUnits, Ip6All
  <2>2. MaskOf(8, 16, a, l) \in [1 .. 16 -> ByteOf(8)]
    BY <2>1, MaskFacts
  <2> QED
    BY <2>2, Ip6Is DEF Ip6All
<1>2. CASE UNCHANGED Ip6!vars
  BY <1>2 DEF Ip6!vars, Ip6Inv
<1>3. CASE Ip6!MaskP
  BY <1>1, <1>3 DEF Ip6!MaskP, Ip6Inv
<1>4. CASE Ip6!MaskQ
  BY <1>1, <1>4 DEF Ip6!MaskQ, Ip6Inv
<1> QED
  BY <1>2, <1>3, <1>4 DEF Ip6!Next

----------------------------------------------------------------------------
(* What the properties of UtilPrefix say, for the two instances               *)

LEMMA SmallFollows ==
    ASSUME PrefixUnits, SmallInv
    PROVE  Small!InPrefixIsBits /\ Small!MaskIsBits /\ Small!CmpIsSetRelation
<1>0. /\ SmallBits \in 1 .. 8 /\ SmallBytes \in Nat /\ SmallAddresses = SmallAll
      /\ SmallAll = [1 .. SmallBytes -> ByteOf(SmallBits)]
      /\ Small!Bits = SmallBits * SmallBytes
  BY Units DEF PrefixUnits, SmallAll, Small!Bits
<1>1. PICK a \in SmallAll, c \in SmallAll, l \in 0 .. SmallBits * SmallBytes, k \in 0 .. SmallBits * SmallBytes :
         one = [addr |-> a, plen |-> l] /\ two = [addr |-> c, plen |-> k]
  BY DEF SmallInv
<1>2. \A g \in SmallAll : Small!in_prefix(g, a, l) <=> Agree(SmallBits, g, a, l)
  BY SmallIs
<1>3. \A g \in SmallAll : Small!in_prefix(g, c, k) <=> Agree(SmallBits, g, c, k)
  BY SmallIs
<1>4. Small!InPrefixIsBits
  BY <1>0, <1>1, <1>2, SmallBitsAre DEF Small!InPrefixIsBits
<1>5. Small!MaskIsBits
  <2>1. PICK m \in SmallAll : /\ m = MaskOf(SmallBits, SmallBytes, a, l) /\ Agree(SmallBits, m, a, l)
                              /\ \A j \in l .. SmallBits * SmallBytes - 1 : BitAt(SmallBits, m, j) = 0
    BY <1>0, MaskFacts
  <2>2. Small!mask_prefix(one.addr, one.plen) = m /\ one.addr = a /\ one.plen = l
    BY <1>1, <2>1, SmallIs
  <2>3. \A g \in SmallAll : Small!in_prefix(g, m, l) <=> Agree(SmallBits, g, m, l)
    BY <2>1, SmallIs
  <2>4. \A g \in SmallAll : Agree(SmallBits, g, m, l) <=> Agree(SmallBits, g, a, l)
    <3>1. l \in Int /\ l <= l
      OBVIOUS
    <3>2. Agree(SmallBits, a, m, l)
      BY <2>1, <3>1, AgreeFacts
    <3> QED
      BY <2>1, <3>1, <3>2, AgreeFacts
  <2>5. \A g \in SmallAddresses : Small!in_prefix(g, m, l) <=> Small!in_prefix(g, a, l)
    BY <1>0, <1>2, <2>3, <2>4
  <2>6. Small!AgreeUpTo(m, a, l) /\ \A j \in l .. Small!Bits - 1 : Small!Bit(m, j) = 0
    BY <1>0, <2>1, SmallBitsAre
  <2> QED
    BY <2>2, <2>5, <2>6 DEF Small!MaskIsBits
<1>6. Small!CmpIsSetRelation
  <2>1. PICK A, C : A = Within(SmallBits, SmallBytes, a, l) /\ C = Within(SmallBits, SmallBytes, c, k)
    OBVIOUS
  <2>2. Small!Members(one) = A /\ Small!Members(two) = C
    BY <1>0, <1>1, <1>2, <1>3, <2>1 DEF Small!Members, Within
  <2>3. PICK same \in BOOLEAN : same <=> Agree(SmallBits, a, c, IF l <= k THEN l ELSE k)
    OBVIOUS
  <2>4. Small!Compared =
          IF ~same THEN "PST_DISJOINT"
          ELSE IF l < k THEN "PST_LESS_SPECIFIC"
          ELSE IF l > k THEN "PST_MORE_SPECIFIC" ELSE "PST_EQUALS"
    BY <1>1, <2>3, SmallIs
  <2>5. Related(A, C, same, l, k) /\ a \in A /\ c \in C
    <3>1. /\ Related(Within(SmallBits, SmallBytes, a, l), Within(SmallBits, SmallBytes, c, k),
                     Agree(SmallBits, a, c, IF l <= k THEN l ELSE k), l, k)
          /\ a \in Within(SmallBits, SmallBytes, a, l) /\ c \in Within(SmallBits, SmallBytes, c, k)
      BY <1>0, SetRelation
    <3> QED
      BY <2>1, <2>3, <3>1 DEF Related
  <2>6. l \in Int /\ k \in Int
    OBVIOUS
  <2>7. CASE ~same
    <3>1. Small!Compared = "PST_DISJOINT"
      BY <2>4, <2>7
    <3>2. A \cap C = {} /\ ~(A \subseteq C) /\ ~(C \subseteq A) /\ A # C
      BY <2>5, <2>7 DEF Related
    <3> QED
      BY <2>2, <3>1, <3>2 DEF Small!CmpIsSetRelation
  <2>8. CASE same /\ l < k
    <3>1. Small!Compared = "PST_LESS_SPECIFIC"
      BY <2>4, <2>8
    <3>2. A \cap C # {} /\ ~(A \subseteq C) /\ C \subseteq A /\ A # C
      BY <2>5, <2>8 DEF Related
    <3> QED
      BY <2>2, <3>1, <3>2 DEF Small!CmpIsSetRelation
  <2>9. CASE same /\ l > k
    <3>1. Small!Compared = "PST_MORE_SPECIFIC"
      BY <2>4, <2>6, <2>9
    <3>2. A \cap C # {} /\ A \subseteq C /\ ~(C \subseteq A) /\ A # C
      BY <2>5, <2>9 DEF Related
    <3> QED
      BY <2>2, <3>1, <3>2 DEF Small!CmpIsSetRelation
  <2>10. CASE same /\ l = k
    <3>1. Small!Compared = "PST_EQUALS"
      BY <2>4, <2>6, <2>10
    <3>2. A \cap C # {} /\ A = C
      BY <2>5, <2>10 DEF Related
    <3> QED
      BY <2>2, <3>1, <3>2 DEF Small!CmpIsSetRelation
  <2> QED
    BY <2>6, <2>7, <2>8, <2>9, <2>10
<1> QED
  BY <1>4, <1>5, <1>6

(* What two addresses share that agree on k bits: the bytes that the filter *)
(* for martian prefixes looks at when a prefix is at least so long.         *)
LEMMA SharedHead ==
    ASSUME NEW a \in Ip6All, NEW c \in Ip6All, NEW k \in 0 .. 8 * 16, Agree(8, a, c, k)
    PROVE  /\ k >= 8 => a[1] = c[1]
           /\ k >= 10 => HighOf(8, a[2], 2) = HighOf(8, c[2], 2)
           /\ k >= 96 => SameHead(a, c, 12)
           /\ k >= 99 => HighOf(8, a[13], 3) = HighOf(8, c[13], 3)
           /\ k >= 104 => a[13] = c[13]
           /\ k >= 128 => SameHead(a, c, 16)
<1>1. ASSUME NEW m \in 0 .. 8 * 16, m <= k PROVE SamePrefix(8, a, c, m)
  <2>1. m \in Int /\ k \in Int
    OBVIOUS
  <2>2. Agree(8, a, c, m)
    BY <1>1, <2>1, AgreeFacts
  <2> QED
    <3>1. 8 \in 1 .. 8 /\ 16 \in Nat /\ a \in [1 .. 16 -> ByteOf(8)] /\ c \in [1 .. 16 -> ByteOf(8)]
      BY DEF Ip6All
    <3> QED
      BY <2>2, <3>1, SamePrefixIsBits
<1>2. k >= 8 => a[1] = c[1]
  <2>1. 8 \div 8 = 1 /\ 8 \in 0 .. 8 * 16
    OBVIOUS
  <2> QED
    BY <1>1, <2>1 DEF SamePrefix, SameHead
<1>3. k >= 10 => HighOf(8, a[2], 2) = HighOf(8, c[2], 2)
  <2>1. 10 \div 8 = 1 /\ 10 % 8 = 2 /\ 10 \in 0 .. 8 * 16 /\ 1 + 1 = 2
    OBVIOUS
  <2> QED
    BY <1>1, <2>1 DEF SamePrefix
<1>4. k >= 96 => SameHead(a, c, 12)
  <2>1. 96 \div 8 = 12 /\ 96 \in 0 .. 8 * 16
    OBVIOUS
  <2> QED
    BY <1>1, <2>1 DEF SamePrefix
<1>5. k >= 99 => HighOf(8, a[13], 3) = HighOf(8, c[13], 3)
  <2>1. 99 \div 8 = 12 /\ 99 % 8 = 3 /\ 99 \in 0 .. 8 * 16 /\ 12 + 1 = 13
    OBVIOUS
  <2> QED
    BY <1>1, <2>1 DEF SamePrefix
<1>6. k >= 104 => a[13] = c[13]
  <2>1. 104 \div 8 = 13 /\ 104 \in 0 .. 8 * 16
    OBVIOUS
  <2> QED
    BY <1>1, <2>1 DEF SamePrefix, SameHead
<1>7. k >= 128 => SameHead(a, c, 16)
  <2>1. 128 \div 8 = 16 /\ 128 \in 0 .. 8 * 16
    OBVIOUS
  <2> QED
    BY <1>1, <2>1 DEF SamePrefix
<1> QED
  BY <1>2, <1>3, <1>4, <1>5, <1>6, <1>7

(* The constants of the code at its own width. *)
LEMMA Ip6Constants ==
    /\ Ip6!Bits = 128 /\ Ip6!Ones = 255 /\ Ip6!Pow2(7) = 128
    /\ \A x, j : Ip6!High(x, j) = HighOf(8, x, j)
    /\ \A u, v, j : Ip6!SameBytes(u, v, j) <=> SameHead(u, v, j)
  BY DEF Ip6!Bits, Ip6!Ones, Ip6!Pow2, Ip6!High, HighOf, TwoTo, Ip6!SameBytes, SameHead

LEMMA Ip6Martian ==
    ASSUME NEW a, NEW l \in Int
    PROVE  Ip6!martian_prefix(a, l) <=>
             \/ l >= 8 /\ a[1] = 255
             \/ l >= 10 /\ a[1] = 254 /\ HighOf(8, a[2], 2) = 128
             \/ l >= 128 /\ SameHead(a, Ip6!Zeroes, 15) /\ a[16] \in {0, 1}
             \/ /\ l >= 96 /\ SameHead(a, Ip6!v4prefix, 12)
                /\ \/ l >= 104 /\ a[13] \in {127, 0}
                   \/ l >= 100 /\ HighOf(8, a[13], 3) = HighOf(8, 255, 3)
<1>1. /\ 8 + 2 = 10 /\ 255 - 1 = 254 /\ 8 - 1 = 7 /\ 16 - 1 = 15 /\ 12 * 8 = 96 /\ 12 + 1 = 13 /\ 255 \div 2 = 127
      /\ (l - 96 >= 0 <=> l >= 96) /\ (l - 96 >= 8 <=> l >= 104) /\ (l - 96 >= 4 <=> l >= 100)
  OBVIOUS
<1> QED
  BY <1>1, Ip6Constants DEF Ip6!martian_prefix, Ip6!v4mapped

LEMMA MartianInside ==
    ASSUME NEW a \in Ip6All, NEW c \in Ip6All, NEW l \in 0 .. 8 * 16, NEW k \in 0 .. 8 * 16,
           k <= l, Agree(8, a, c, k), Ip6!martian_prefix(c, k)
    PROVE  Ip6!martian_prefix(a, l)
<1>0. l \in Int /\ k \in Int
  OBVIOUS
<1>1. CASE k >= 8 /\ c[1] = 255
  <2>1. l >= 8 /\ a[1] = 255
    BY <1>0, <1>1, SharedHead
  <2> QED
    BY <1>0, <2>1, Ip6Martian
<1>2. CASE k >= 10 /\ c[1] = 254 /\ HighOf(8, c[2], 2) = 128
  <2>1. k >= 8
    BY <1>0, <1>2
  <2>2. l >= 10 /\ a[1] = 254 /\ HighOf(8, a[2], 2) = 128
    BY <1>0, <1>2, <2>1, SharedHead
  <2> QED
    BY <1>0, <2>2, Ip6Martian
<1>3. CASE k >= 128 /\ SameHead(c, Ip6!Zeroes, 15) /\ c[16] \in {0, 1}
  <2>1. SameHead(a, c, 16) /\ l >= 128
    BY <1>0, <1>3, SharedHead
  <2>2. SameHead(a, Ip6!Zeroes, 15) /\ a[16] \in {0, 1}
    BY <1>3, <2>1 DEF SameHead
  <2> QED
    BY <1>0, <2>1, <2>2, Ip6Martian
<1>4. CASE /\ k >= 96 /\ SameHead(c, Ip6!v4prefix, 12)
           /\ \/ k >= 104 /\ c[13] \in {127, 0}
              \/ k >= 100 /\ HighOf(8, c[13], 3) = HighOf(8, 255, 3)
  <2>1. SameHead(a, c, 12) /\ l >= 96
    BY <1>0, <1>4, SharedHead
  <2>2. SameHead(a, Ip6!v4prefix, 12)
    BY <1>4, <2>1 DEF SameHead
  <2>3. CASE k >= 104 /\ c[13] \in {127, 0}
    <3>1. l >= 104 /\ a[13] \in {127, 0}
      BY <1>0, <2>3, SharedHead
    <3> QED
      BY <1>0, <2>1, <2>2, <3>1, Ip6Martian
  <2>4. CASE k >= 100 /\ HighOf(8, c[13], 3) = HighOf(8, 255, 3)
    <3>1. k >= 99 /\ l >= 100
      BY <1>0, <2>4
    <3>2. HighOf(8, a[13], 3) = HighOf(8, 255, 3)
      BY <2>4, <3>1, SharedHead
    <3> QED
      BY <1>0, <2>1, <2>2, <3>1, <3>2, Ip6Martian
  <2> QED
    BY <1>4, <2>3, <2>4
<1> QED
  BY <1>0, <1>1, <1>2, <1>3, <1>4, Ip6Martian

LEMMA Ip6Classes ==
    ASSUME NEW a \in Ip6All
    PROVE  /\ Ip6!linklocal(a) => Ip6!martian_prefix(a, Ip6!Bits) /\ ~Ip6!v4mapped(a)
           /\ Ip6!v4mapped(a) <=> a = Ip6!v4tov6(SubSeq(a, 12 + 1, 16))
<1>0. a \in [1 .. 16 -> ByteOf(8)] /\ ByteOf(8) = 0 .. 255
  BY DEF Ip6All, ByteOf, TwoTo
<1>1. /\ Ip6!llprefix = [j \in 1 .. 16 |-> IF j = 1 THEN 254 ELSE IF j = 2 THEN 128 ELSE 0]
      /\ Ip6!v4prefix = [j \in 1 .. 16 |-> IF j \in {11, 12} THEN 255 ELSE 0]
  <2>1. 255 - 1 = 254 /\ 8 - 1 = 7 /\ 12 - 1 = 11
    OBVIOUS
  <2> QED
    BY <2>1, Ip6Constants DEF Ip6!llprefix, Ip6!v4prefix
<1>2. ASSUME Ip6!linklocal(a) PROVE Ip6!martian_prefix(a, Ip6!Bits) /\ ~Ip6!v4mapped(a)
  <2>1. SameHead(a, Ip6!llprefix, 8)
    <3>1. 16 \div 2 = 8
      OBVIOUS
    <3> QED
      BY <1>2, <3>1, Ip6Constants DEF Ip6!linklocal
  <2>2. a[1] = 254 /\ a[2] = 128
    BY <1>1, <2>1 DEF SameHead
  <2>3. HighOf(8, 128, 2) = 128
    BY DEF HighOf, TwoTo
  <2>4. ~SameHead(a, Ip6!v4prefix, 12)
    BY <1>1, <2>2 DEF SameHead
  <2>5. 128 \in Int /\ 128 >= 10
    OBVIOUS
  <2>6. Ip6!martian_prefix(a, 128)
    BY <2>2, <2>3, <2>5, Ip6Martian
  <2> QED
    BY <2>4, <2>6, Ip6Constants DEF Ip6!v4mapped
<1>3. PICK tail : tail = SubSeq(a, 13, 16) /\ \A j \in 1 .. 4 : tail[j] = a[j + 12]
  <2>1. PICK w \in Nat : w = 16
    OBVIOUS
  <2>2. a \in [1 .. w -> 0 .. 255]
    BY <1>0, <2>1
  <2>3. a \in Seq(0 .. 255) /\ Len(a) = w
    BY <2>2, FunctionIsSeq
  <2>4. \A j \in 1 .. 4 : SubSeq(a, 13, 16)[j] = a[13 - 1 + j]
    <3>1. 13 \in Nat /\ 16 \in Nat /\ 1 <= 13 /\ 13 <= 16 + 1 /\ 16 <= Len(a) /\ 16 + 1 - 13 = 4
      BY <2>1, <2>3
    <3> QED
      BY <2>3, <3>1, PieceOf
  <2>5. \A j \in 1 .. 4 : 13 - 1 + j = j + 12
    OBVIOUS
  <2> QED
    BY <2>4, <2>5
<1>4. Ip6!v4tov6(tail) = [j \in 1 .. 16 |-> IF j <= 12 THEN Ip6!v4prefix[j] ELSE a[j]]
  <2>1. \A j \in 1 .. 16 : ~(j <= 12) => j - 12 \in 1 .. 4 /\ (j - 12) + 12 = j
    OBVIOUS
  <2> QED
    BY <1>3, <2>1 DEF Ip6!v4tov6
<1>5. SameHead(a, Ip6!v4prefix, 12) <=> a = Ip6!v4tov6(tail)
  BY <1>0, <1>4 DEF SameHead
<1> QED
  BY <1>2, <1>3, <1>5, Ip6Constants DEF Ip6!v4mapped

LEMMA Ip6Follows ==
    ASSUME PrefixUnits, Ip6Inv
    PROVE  Ip6!CmpIsBits /\ Ip6!MartianDownward /\ Ip6!AddressClasses
<1>1. PICK a \in Ip6All, c \in Ip6All, l \in 0 .. 8 * 16, k \in 0 .. 8 * 16 :
         one = [addr |-> a, plen |-> l] /\ two = [addr |-> c, plen |-> k]
  BY DEF Ip6Inv
<1>2. PICK same \in BOOLEAN : same <=> Agree(8, a, c, IF l <= k THEN l ELSE k)
  OBVIOUS
<1>3. Ip6!Compared =
        IF ~same THEN "PST_DISJOINT"
        ELSE IF l < k THEN "PST_LESS_SPECIFIC"
        ELSE IF l > k THEN "PST_MORE_SPECIFIC" ELSE "PST_EQUALS"
  BY <1>1, <1>2, Ip6Is
<1>4. Ip6!CmpIsBits
  <2>1. Ip6!AgreeUpTo(one.addr, two.addr, Ip6!Min2(one.plen, two.plen)) <=> same
    BY <1>1, <1>2, Ip6BitsAre DEF Ip6!Min2
  <2> QED
    BY <1>3, <2>1 DEF Ip6!CmpIsBits
<1>5. Ip6!MartianDownward
  <2> SUFFICES ASSUME Ip6!Compared \in {"PST_MORE_SPECIFIC", "PST_EQUALS"}, Ip6!martian_prefix(c, k)
               PROVE  Ip6!martian_prefix(a, l)
    BY <1>1 DEF Ip6!MartianDownward
  <2>1. same /\ k <= l
    BY <1>3
  <2>2. (IF l <= k THEN l ELSE k) = k
    BY <2>1
  <2> QED
    BY <1>2, <2>1, <2>2, MartianInside
<1>6. Ip6!AddressClasses
  BY <1>1, Ip6Classes DEF Ip6!AddressClasses
<1> QED
  BY <1>4, <1>5, <1>6

(* Whole bytes and one mask mean what the bits mean: in_prefix compares the   *)
(* first bits, mask_prefix keeps them and clears the rest, prefixes_cmp is    *)
(* the relation of the sets of addresses, and a prefix inside a martian one   *)
(* is martian.                                                                *)
THEOREM PrefixesSoundHolds ==
    ASSUME PrefixUnits
    PROVE  Spec => []PrefixesSound
<1> DEFINE I == (unit = "small" => SmallInv) /\ (unit = "ip6" => Ip6Inv)
<1>1. Init => I
  BY PartInit, SmallInitial, Ip6Initial
<1>2. I /\ [Next]_vars => I'
  BY PartNext, SmallNext, Ip6Next
<1>3. I => PrefixesSound
  BY SmallFollows, Ip6Follows DEF PrefixesSound
<1> HIDE DEF I
<1> QED
  BY <1>1, <1>2, <1>3, PTL DEF Spec

----------------------------------------------------------------------------
(* Text and back *)

(* What a byte and an address are: the code has 8, 16 and 12, and texts that   *)
(* stand for bytes.                                                            *)
AddressUnits ==
    /\ ByteBits \in 1 .. 8 /\ NBytes \in Nat /\ V4Head \in 0 .. NBytes
    /\ Addresses \subseteq [1 .. NBytes -> 0 .. Text!Ones]

(* The powers of two that the shifts use. *)
LEMMA PowerPositive == ASSUME NEW k \in 0 .. 8 PROVE Text!Pow2(k) \in Nat /\ Text!Pow2(k) > 0
<1>1. k = 0 \/ k = 1 \/ k = 2 \/ k = 3 \/ k = 4 \/ k = 5 \/ k = 6 \/ k = 7 \/ k = 8
  OBVIOUS
<1> QED
  BY <1>1 DEF Text!Pow2

(* The high bits of a byte: a byte, and to take them again changes nothing. *)
LEMMA LowBits ==
    ASSUME NEW b \in Nat, NEW m \in Nat, m > 0
    PROVE  \E c \in 0 .. b : c = b - (b % m) /\ c % m = 0
<1>1. b % m \in Nat /\ b % m <= b
  OBVIOUS
<1>2. (b - (b % m)) % m = 0
  OBVIOUS
<1> QED
  BY <1>1, <1>2

LEMMA HighIsByte ==
    ASSUME AddressUnits, NEW b \in 0 .. Text!Ones, NEW k \in 0 .. ByteBits
    PROVE  Text!High(b, k) \in 0 .. Text!Ones /\ Text!High(Text!High(b, k), k) = Text!High(b, k)
<1>1. ByteBits - k \in 0 .. 8 /\ ByteBits \in 0 .. 8
  BY DEF AddressUnits
<1>2. PICK m \in Nat : m = Text!Pow2(ByteBits - k) /\ m > 0
  BY <1>1, PowerPositive
<1>3. Text!Ones \in Int
  BY <1>1, PowerPositive DEF Text!Ones
<1>4. PICK c \in 0 .. b : c = b - (b % m) /\ c % m = 0
  BY <1>2, <1>3, LowBits
<1>5. Text!High(b, k) = c /\ Text!High(c, k) = c - 0
  BY <1>2, <1>4 DEF Text!High
<1> QED
  BY <1>3, <1>4, <1>5

----------------------------------------------------------------------------
Bytes == [1 .. NBytes -> 0 .. Text!Ones]

(* mask_prefix gives an address, and to mask it again changes nothing. *)
LEMMA MaskIsMasked ==
    ASSUME AddressUnits, NEW a \in Bytes, NEW l \in 0 .. Text!Bits
    PROVE  /\ Text!mask_prefix(a, l) \in Bytes
           /\ Text!mask_prefix(Text!mask_prefix(a, l), l) = Text!mask_prefix(a, l)
<1>1. CASE l >= Text!Bits
  BY <1>1 DEF Text!mask_prefix
<1>2. CASE ~(l >= Text!Bits)
  <2>1. PICK n \in Int, k \in 0 .. ByteBits : n = l \div ByteBits /\ k = l % ByteBits
    BY DEF AddressUnits
  <2> DEFINE m == [j \in 1 .. NBytes |-> IF j <= n THEN a[j] ELSE IF j = n + 1 /\ k # 0 THEN Text!High(a[j], k) ELSE 0]
             m2 == [j \in 1 .. NBytes |-> IF j <= n THEN m[j] ELSE IF j = n + 1 /\ k # 0 THEN Text!High(m[j], k) ELSE 0]
  <2>2. Text!mask_prefix(a, l) = m
    BY <1>2, <2>1 DEF Text!mask_prefix
  <2>3. Text!mask_prefix(m, l) = m2
    BY <1>2, <2>1 DEF Text!mask_prefix
  <2>4. 0 \in 0 .. Text!Ones
    <3>1. PICK z \in Nat : z = Text!Pow2(ByteBits) /\ z > 0
      BY PowerPositive DEF AddressUnits
    <3> QED
      BY <3>1 DEF Text!Ones
  <2>5. ASSUME NEW j \in 1 .. NBytes PROVE m[j] \in 0 .. Text!Ones /\ m2[j] = m[j]
    <3>1. a[j] \in 0 .. Text!Ones
      BY DEF Bytes
    <3>2. Text!High(a[j], k) \in 0 .. Text!Ones /\ Text!High(Text!High(a[j], k), k) = Text!High(a[j], k)
      BY <3>1, HighIsByte
    <3> QED
      BY <2>4, <3>1, <3>2
  <2>6. m \in Bytes /\ m2 = m
    BY <2>5 DEF Bytes
  <2> QED
    BY <2>2, <2>3, <2>6
<1> QED
  BY <1>1, <1>2

(* Masking behind the mapped block leaves a mapped address mapped. *)
LEMMA MaskKeepsMapped ==
    ASSUME AddressUnits, NEW a \in Bytes, NEW l \in 0 .. Text!Bits, l >= Text!V4Bits, Text!v4mapped(a)
    PROVE  Text!v4mapped(Text!mask_prefix(a, l))
<1>1. CASE l >= Text!Bits
  BY <1>1 DEF Text!mask_prefix
<1>2. CASE ~(l >= Text!Bits)
  <2>1. PICK n \in Int : n = l \div ByteBits
    BY DEF AddressUnits
  <2>2. l < ByteBits * n + ByteBits
    BY <2>1, DivBounds DEF AddressUnits, Text!Bits
  <2>3. V4Head <= n
    <3>1. SUFFICES ASSUME n + 1 <= V4Head PROVE FALSE
      BY DEF AddressUnits
    <3>2. (n + 1) * ByteBits <= V4Head * ByteBits
      BY <3>1 DEF AddressUnits
    <3>3. l < V4Head * ByteBits
      BY <2>2, <3>2 DEF AddressUnits
    <3> QED
      BY <3>3 DEF Text!V4Bits, AddressUnits, Text!Bits
  <2>4. ASSUME NEW j \in 1 .. V4Head PROVE Text!mask_prefix(a, l)[j] = a[j]
    <3>1. j \in 1 .. NBytes /\ j <= n
      BY <2>3 DEF AddressUnits
    <3> QED
      BY <1>2, <2>1, <3>1 DEF Text!mask_prefix
  <2> QED
    BY <2>4 DEF Text!v4mapped, Text!SameBytes
<1> QED
  BY <1>1, <1>2

(* The IPv4 part of a mapped address, embedded again, is the address. *)
LEMMA TailBack ==
    ASSUME AddressUnits, NEW a \in Bytes, Text!v4mapped(a)
    PROVE  Text!v4tov6(Text!V4Tail(a)) = a
<1>1. a \in Seq(0 .. Text!Ones) /\ Len(a) = NBytes
  BY FunctionIsSeq DEF Bytes, AddressUnits
<1>2. PICK f \in Nat : f = V4Head + 1
  BY DEF AddressUnits
<1>3. 1 <= f /\ f <= NBytes + 1 /\ NBytes <= Len(a) /\ NBytes \in Nat
  BY <1>1, <1>2 DEF AddressUnits
<1>4. \A k \in 1 .. NBytes + 1 - f : SubSeq(a, f, NBytes)[k] = a[f - 1 + k]
  BY <1>1, <1>3, PieceOf
<1>5. ASSUME NEW j \in 1 .. NBytes, ~(j <= V4Head) PROVE Text!V4Tail(a)[j - V4Head] = a[j]
  <2>1. j - V4Head \in 1 .. NBytes + 1 - f /\ f - 1 + (j - V4Head) = j
    BY <1>2, <1>5 DEF AddressUnits
  <2> QED
    BY <1>2, <1>4, <2>1 DEF Text!V4Tail
<1>6. ASSUME NEW j \in 1 .. NBytes, j <= V4Head PROVE Text!v4prefix[j] = a[j]
  BY <1>6 DEF Text!v4mapped, Text!SameBytes, AddressUnits
<1>7. \A j \in 1 .. NBytes : Text!v4tov6(Text!V4Tail(a))[j] = a[j]
  BY <1>5, <1>6 DEF Text!v4tov6
<1> QED
  BY <1>7 DEF Text!v4tov6, Bytes

LEMMA BitsAre ==
    ASSUME AddressUnits PROVE Text!Bits \in Nat /\ Text!V4Bits \in Nat /\ Text!V4Bits <= Text!Bits
<1>1. Text!Bits \in Nat /\ Text!V4Bits \in Nat
  BY DEF AddressUnits, Text!Bits, Text!V4Bits
<1>2. V4Head * ByteBits <= NBytes * ByteBits
  BY DEF AddressUnits
<1> QED
  BY <1>1, <1>2 DEF AddressUnits, Text!Bits, Text!V4Bits

LEMMA ZeroesAre ==
    ASSUME AddressUnits PROVE Text!Zeroes \in Bytes /\ Text!mask_prefix(Text!Zeroes, 0) = Text!Zeroes
<1>1. 0 \in 0 .. Text!Ones
  <2>1. PICK m \in Nat : m = Text!Pow2(ByteBits) /\ m > 0
    BY PowerPositive DEF AddressUnits
  <2> QED
    BY <2>1 DEF Text!Ones
<1>2. 0 % ByteBits = 0 /\ 0 \div ByteBits = 0
  BY DEF AddressUnits
<1>3. Text!Zeroes \in Bytes
  BY <1>1 DEF Text!Zeroes, Bytes
<1> QED
  BY <1>2, <1>3 DEF Text!mask_prefix, Text!Zeroes

(* A route parse_net may store. *)
Route(r) ==
    /\ r.prefix \in Bytes /\ r.plen \in 0 .. Text!Bits /\ r.prefix = Text!mask_prefix(r.prefix, r.plen)
    /\ r.af \in {"AF_INET", "AF_INET6"}
    /\ r.af = "AF_INET" => r.plen >= Text!V4Bits /\ Text!v4mapped(r.prefix)

LEMMA DefaultRoute == ASSUME AddressUnits PROVE Route(Text!parse_net(Text!Default))
<1>1. Text!parse_net(Text!Default) = [prefix |-> Text!Zeroes, plen |-> 0, af |-> "AF_INET6"]
  BY DEF Text!parse_net, Text!Default
<1> QED
  BY <1>1, ZeroesAre, BitsAre DEF Route

(* What parse_address makes of the text of an address. *)
LEMMA AddressText ==
    ASSUME AddressUnits, NEW a \in Bytes
    PROVE  /\ Text!v4mapped(a) => Text!AddrText(a).form = "v4" /\ Text!parse_address(Text!AddrText(a)) = [prefix |-> a, af |-> "AF_INET"]
           /\ ~Text!v4mapped(a) => Text!AddrText(a) = [form |-> "v6", body |-> a]
           /\ Text!parse_address([form |-> "v6", body |-> a]) = [prefix |-> a, af |-> "AF_INET6"]
<1>1. Text!v4mapped(a) => Text!v4tov6(Text!V4Tail(a)) = a
  BY TailBack
<1> QED
  BY <1>1 DEF Text!AddrText, Text!parse_address

(* The route of an address and a length. *)
LEMMA RouteOf ==
    ASSUME AddressUnits, NEW a \in Bytes, NEW l \in 0 .. Text!Bits, NEW f \in {"AF_INET", "AF_INET6"},
           f = "AF_INET" => l >= Text!V4Bits /\ Text!v4mapped(a)
    PROVE  Route([prefix |-> Text!mask_prefix(a, l), plen |-> l, af |-> f])
<1>1. /\ Text!mask_prefix(a, l) \in Bytes
      /\ Text!mask_prefix(Text!mask_prefix(a, l), l) = Text!mask_prefix(a, l)
  BY MaskIsMasked
<1>2. f = "AF_INET" => Text!v4mapped(Text!mask_prefix(a, l))
  BY MaskKeepsMapped
<1> QED
  BY <1>1, <1>2 DEF Route

(* The length of a text that is not rejected. *)
LenOf(t) == IF ~t.slash THEN Text!Bits ELSE IF t.addr.form = "v4" THEN t.len + Text!V4Bits ELSE t.len

LEMMA ParsedRoute ==
    ASSUME AddressUnits, Lens \subseteq Int, NEW t \in Text!NetTexts, ~Text!Rejected(t)
    PROVE  Route(Text!parse_net(t))
<1>1. CASE t = Text!Default
  BY <1>1, DefaultRoute
<1>2. CASE t # Text!Default
  <2>1. /\ t.addr \in {Text!AddrText(a) : a \in Addresses} \cup {[form |-> "v6", body |-> a] : a \in Addresses}
                        \cup {Text!NoNumber}
        /\ t.slash \in BOOLEAN /\ t.len \in Lens /\ t.junk \in BOOLEAN
    BY <1>2 DEF Text!NetTexts
  <2>2. t.addr # Text!NoNumber
    BY DEF Text!Rejected, Text!NoNumber
  <2>3. PICK a \in Bytes : t.addr = Text!AddrText(a) \/ t.addr = [form |-> "v6", body |-> a]
    BY <2>1, <2>2 DEF AddressUnits, Bytes
  <2>4. PICK f \in {"AF_INET", "AF_INET6"} :
            /\ Text!parse_address(t.addr) = [prefix |-> a, af |-> f]
            /\ f = "AF_INET" <=> t.addr.form = "v4"
            /\ f = "AF_INET" => Text!v4mapped(a)
            /\ t.addr.form # "default"
    <3>1. CASE Text!v4mapped(a) /\ t.addr = Text!AddrText(a)
      BY <3>1, AddressText
    <3>2. CASE t.addr = [form |-> "v6", body |-> a]
      BY <3>2, AddressText
    <3> QED
      BY <2>3, <3>1, <3>2, AddressText
  <2>5. Text!parse_net(t) = [prefix |-> Text!mask_prefix(a, LenOf(t)), plen |-> LenOf(t), af |-> f]
    BY <2>4 DEF Text!parse_net, LenOf
  <2>6. LenOf(t) \in 0 .. Text!Bits /\ (f = "AF_INET" => LenOf(t) >= Text!V4Bits)
    <3>1. CASE ~t.slash
      BY <3>1, BitsAre DEF LenOf
    <3>2. CASE t.slash
      <4>1. t.len \in Int /\ t.len >= 0 /\ t.len <= IF t.addr.form = "v4" THEN Text!Bits - Text!V4Bits ELSE Text!Bits
        <5>1. t.len \in Int
          BY <2>1
        <5>2. ~(t.len < 0) /\ ~(t.len > IF t.addr.form = "v4" THEN Text!Bits - Text!V4Bits ELSE Text!Bits)
          BY <3>2, Zenon DEF Text!Rejected
        <5> QED
          BY <5>1, <5>2, BitsAre
      <4> QED
        BY <2>4, <3>2, <4>1, BitsAre DEF LenOf
    <3> QED
      BY <2>1, <3>1, <3>2
  <2> QED
    BY <2>4, <2>5, <2>6, RouteOf
<1> QED
  BY <1>1, <1>2

(* What format_prefix and format_address show of a route can be read back. *)
LEMMA ShownPrefix ==
    ASSUME AddressUnits, Route(net)
    PROVE  LET t == Text!PrefixText(net.prefix, net.plen)
           IN  ~Text!Rejected(t) /\ Text!parse_net(t).prefix = net.prefix /\ Text!parse_net(t).plen = net.plen
<1> DEFINE t == Text!PrefixText(net.prefix, net.plen)
           a == net.prefix
           l == net.plen
<1>1. a \in Bytes /\ l \in 0 .. Text!Bits /\ a = Text!mask_prefix(a, l)
  BY DEF Route
<1>2. CASE l >= Text!V4Bits /\ Text!v4mapped(a)
  <2>1. t = [addr |-> Text!AddrText(a), slash |-> TRUE, len |-> l - Text!V4Bits, junk |-> FALSE]
    BY <1>2 DEF Text!PrefixText
  <2>2. Text!AddrText(a).form = "v4" /\ Text!parse_address(Text!AddrText(a)) = [prefix |-> a, af |-> "AF_INET"]
    BY <1>1, <1>2, AddressText
  <2>3. ~(l - Text!V4Bits < 0) /\ ~(l - Text!V4Bits > Text!Bits - Text!V4Bits) /\ l - Text!V4Bits + Text!V4Bits = l
    BY <1>1, <1>2, BitsAre
  <2>4. ~Text!Rejected(t)
    BY <2>1, <2>2, <2>3 DEF Text!Rejected
  <2>5. Text!parse_net(t) = [prefix |-> Text!mask_prefix(a, l), plen |-> l, af |-> "AF_INET"]
    BY <2>1, <2>2, <2>3 DEF Text!parse_net
  <2> QED
    BY <1>1, <2>4, <2>5
<1>3. CASE ~(l >= Text!V4Bits /\ Text!v4mapped(a))
  <2>1. t = [addr |-> [form |-> "v6", body |-> a], slash |-> TRUE, len |-> l, junk |-> FALSE]
    BY <1>3 DEF Text!PrefixText
  <2>2. Text!parse_address([form |-> "v6", body |-> a]) = [prefix |-> a, af |-> "AF_INET6"]
    BY <1>1, AddressText
  <2>3. ~(l < 0) /\ ~(l > Text!Bits)
    BY <1>1, BitsAre
  <2>4. ~Text!Rejected(t)
    BY <2>1, <2>3 DEF Text!Rejected
  <2>5. Text!parse_net(t) = [prefix |-> Text!mask_prefix(a, l), plen |-> l, af |-> "AF_INET6"]
    BY <2>1, <2>2 DEF Text!parse_net
  <2> QED
    BY <1>1, <2>4, <2>5
<1> QED
  BY <1>2, <1>3

LEMMA ShownAddress ==
    ASSUME AddressUnits, NEW a \in Bytes, NEW t,
           t = [addr |-> Text!AddrText(a), slash |-> FALSE, len |-> 0, junk |-> FALSE]
    PROVE  /\ ~Text!Rejected(t) /\ Text!parse_net(t).prefix = a
           /\ Text!parse_net(t).af = "AF_INET" <=> Text!v4mapped(a)
<1>1. Text!mask_prefix(a, Text!Bits) = a
  BY BitsAre DEF Text!mask_prefix
<1>2. CASE Text!v4mapped(a)
  <2>1. Text!AddrText(a).form = "v4" /\ Text!parse_address(Text!AddrText(a)) = [prefix |-> a, af |-> "AF_INET"]
    BY <1>2, AddressText
  <2>2. ~Text!Rejected(t)
    BY <2>1 DEF Text!Rejected
  <2>3. Text!parse_net(t) = [prefix |-> Text!mask_prefix(a, Text!Bits), plen |-> Text!Bits, af |-> "AF_INET"]
    BY <2>1 DEF Text!parse_net
  <2> QED
    BY <1>1, <1>2, <2>2, <2>3
<1>3. CASE ~Text!v4mapped(a)
  <2>0. /\ Text!AddrText(a) = [form |-> "v6", body |-> a]
        /\ Text!parse_address([form |-> "v6", body |-> a]) = [prefix |-> a, af |-> "AF_INET6"]
    BY <1>3, AddressText
  <2>1. Text!AddrText(a).form = "v6" /\ Text!parse_address(Text!AddrText(a)) = [prefix |-> a, af |-> "AF_INET6"]
    BY <2>0
  <2>2. ~Text!Rejected(t)
    BY <2>1 DEF Text!Rejected
  <2>3. Text!parse_net(t) = [prefix |-> Text!mask_prefix(a, Text!Bits), plen |-> Text!Bits, af |-> "AF_INET6"]
    BY <2>1 DEF Text!parse_net
  <2> QED
    BY <1>1, <1>3, <2>2, <2>3
<1> QED
  BY <1>2, <1>3

(* The fields sscanf converts, with the format of eight and with that of six. *)
Stored(old, t, sep, places, k, m) == Text!sscanf(old, t, sep, places).eui[k] = t.bytes[m]

LEMMA Placed ==
    ASSUME NEW old, NEW t, NEW sep, NEW places, NEW n, n = Text!sscanf(old, t, sep, places).n,
           NEW k \in 1 .. 8, NEW m \in 1 .. n, places[m] = k, \A j \in 1 .. n : places[j] = k => j = m
    PROVE  Stored(old, t, sep, places, k, m)
<1>1. (CHOOSE j \in 1 .. n : places[j] = k) = m
  OBVIOUS
<1>2. n = Text!Least(Len(t.bytes), IF t.sep = sep THEN Len(places) ELSE 1)
  BY DEF Text!sscanf
<1> QED
  BY <1>1, <1>2 DEF Text!sscanf, Stored

LEMMA ScanEight ==
    ASSUME NEW old, NEW t, NEW sep, Len(t.bytes) \in Nat
    PROVE  LET r == Text!sscanf(old, t, sep, Text!All)
           IN  /\ r.n = 8 <=> Len(t.bytes) >= 8 /\ t.sep = sep
               /\ r.n = 8 => \A k \in 1 .. 8 : r.eui[k] = t.bytes[k]
               /\ r.eui = [k \in 1 .. 8 |-> r.eui[k]]
<1> DEFINE r == Text!sscanf(old, t, sep, Text!All)
<1>1. Len(Text!All) = 8 /\ \A k \in 1 .. 8 : Text!All[k] = k
  BY DEF Text!All
<1>2. r.n = Text!Least(Len(t.bytes), IF t.sep = sep THEN Len(Text!All) ELSE 1) /\ r.eui = [k \in 1 .. 8 |-> r.eui[k]]
  BY DEF Text!sscanf
<1>3. r.n = 8 <=> Len(t.bytes) >= 8 /\ t.sep = sep
  <2>1. PICK l \in Nat : l = Len(t.bytes)
    OBVIOUS
  <2>2. CASE t.sep = sep
    <3>1. r.n = IF l <= 8 THEN l ELSE 8
      BY <1>1, <1>2, <2>1, <2>2, Zenon DEF Text!Least
    <3>2. (IF l <= 8 THEN l ELSE 8) = 8 <=> l >= 8
      OBVIOUS
    <3> HIDE DEF r
    <3> QED
      BY <2>1, <2>2, <3>1, <3>2, Zenon
  <2>3. CASE t.sep # sep
    <3>1. r.n = IF l <= 1 THEN l ELSE 1
      BY <1>2, <2>1, <2>3, Zenon DEF Text!Least
    <3>2. (IF l <= 1 THEN l ELSE 1) # 8
      OBVIOUS
    <3> HIDE DEF r
    <3> QED
      BY <2>3, <3>1, <3>2, Zenon
  <2> QED
    BY <2>2, <2>3
<1>4. ASSUME r.n = 8, NEW k \in 1 .. 8 PROVE r.eui[k] = t.bytes[k]
  <2>1. Text!All[k] = k /\ \A j \in 1 .. 8 : Text!All[j] = k => j = k
    BY <1>1
  <2>2. Stored(old, t, sep, Text!All, k, k)
    BY <1>4, <2>1, Placed
  <2> QED
    BY <2>2 DEF Stored
<1> QED
  BY <1>2, <1>3, <1>4

LEMMA ScanSix ==
    ASSUME NEW old, NEW t, NEW sep, Len(t.bytes) \in Nat
    PROVE  LET r == Text!sscanf(old, t, sep, Text!Outer)
           IN  /\ r.n = 6 <=> Len(t.bytes) >= 6 /\ t.sep = sep
               /\ r.n = 6 => /\ \A k \in 1 .. 3 : r.eui[k] = t.bytes[k]
                             /\ \A k \in 4 .. 6 : r.eui[k + 2] = t.bytes[k]
               /\ r.eui = [k \in 1 .. 8 |-> r.eui[k]]
<1> DEFINE r == Text!sscanf(old, t, sep, Text!Outer)
<1>1. /\ Len(Text!Outer) = 6 /\ \A k \in 1 .. 3 : Text!Outer[k] = k
      /\ \A k \in 4 .. 6 : Text!Outer[k] = k + 2
  BY DEF Text!Outer
<1>2. r.n = Text!Least(Len(t.bytes), IF t.sep = sep THEN Len(Text!Outer) ELSE 1) /\ r.eui = [k \in 1 .. 8 |-> r.eui[k]]
  BY DEF Text!sscanf
<1>3. r.n = 6 <=> Len(t.bytes) >= 6 /\ t.sep = sep
  <2>1. PICK l \in Nat : l = Len(t.bytes)
    OBVIOUS
  <2>2. CASE t.sep = sep
    <3>1. r.n = IF l <= 6 THEN l ELSE 6
      BY <1>1, <1>2, <2>1, <2>2, Zenon DEF Text!Least
    <3>2. (IF l <= 6 THEN l ELSE 6) = 6 <=> l >= 6
      OBVIOUS
    <3> HIDE DEF r
    <3> QED
      BY <2>1, <2>2, <3>1, <3>2, Zenon
  <2>3. CASE t.sep # sep
    <3>1. r.n = IF l <= 1 THEN l ELSE 1
      BY <1>2, <2>1, <2>3, Zenon DEF Text!Least
    <3>2. (IF l <= 1 THEN l ELSE 1) # 6
      OBVIOUS
    <3> HIDE DEF r
    <3> QED
      BY <2>3, <3>1, <3>2, Zenon
  <2> QED
    BY <2>2, <2>3
<1>4. ASSUME r.n = 6, NEW k \in 1 .. 3 PROVE r.eui[k] = t.bytes[k]
  <2>1. k \in 1 .. 8 /\ k \in 1 .. 6 /\ Text!Outer[k] = k /\ \A j \in 1 .. 6 : Text!Outer[j] = k => j = k
    BY <1>1
  <2>2. Stored(old, t, sep, Text!Outer, k, k)
    BY <1>4, <2>1, Placed
  <2> QED
    BY <2>2 DEF Stored
<1>5. ASSUME r.n = 6, NEW k \in 4 .. 6 PROVE r.eui[k + 2] = t.bytes[k]
  <2>1. k + 2 \in 1 .. 8 /\ k \in 1 .. 6 /\ Text!Outer[k] = k + 2
    BY <1>1
  <2>2. \A j \in 1 .. 6 : Text!Outer[j] = k + 2 => j = k
    BY <1>1
  <2>3. Stored(old, t, sep, Text!Outer, k + 2, k)
    BY <1>5, <2>1, <2>2, Placed
  <2> QED
    BY <2>3 DEF Stored
<1> QED
  BY <1>2, <1>3, <1>4, <1>5

(* The identifier a text stands for. *)
EuiOf(b) == IF Len(b) >= 8 THEN SubSeq(b, 1, 8) ELSE SubSeq(b, 1, 3) \o <<255, 254>> \o SubSeq(b, 4, 6)

LEMMA EightBytes ==
    ASSUME NEW B, NEW b \in Seq(B), Len(b) >= 8, NEW e, e = [k \in 1 .. 8 |-> e[k]],
           \A k \in 1 .. 8 : e[k] = b[k]
    PROVE  e = SubSeq(b, 1, 8)
<1>1. \A k \in 1 .. 8 : b[k] \in B
  <2>1. \A k \in 1 .. 8 : k \in 1 .. Len(b)
    BY LenProperties
  <2> QED
    BY <2>1, ElementOfSeq
<1>2. e \in [1 .. 8 -> B]
  BY <1>1
<1>3. e \in Seq(B) /\ Len(e) = 8
  BY <1>2, FunctionIsSeq
<1>4. PieceByElements(e, b, 1, 8)
  <2>1. PICK lo \in Nat, hi \in Nat : lo = 1 /\ hi = 8
    OBVIOUS
  <2>2. 1 <= lo /\ lo <= hi + 1 /\ hi <= Len(b)
    BY <2>1
  <2>3. PieceByElements(e, b, lo, hi)
    BY <1>3, <2>2, IsPiece
  <2> QED
    BY <2>1, <2>3
<1>5. 8 + 1 - 1 = 8 /\ \A k \in 1 .. 8 : 1 - 1 + k = k
  OBVIOUS
<1> QED
  BY <1>3, <1>4, <1>5 DEF PieceByElements

(* Three bytes in a row. *)
IsThree(u, b, lo, hi, off) == u = SubSeq(b, lo, hi) /\ Len(u) = 3 /\ \A k \in 1 .. 3 : u[k] = b[off + k]

LEMMA ThreeExists ==
    ASSUME NEW B, NEW b \in Seq(B), NEW lo \in Nat, NEW hi \in Nat, NEW off \in Nat,
           lo = off + 1, hi = off + 3, hi <= Len(b)
    PROVE  \E u \in Seq(B) : IsThree(u, b, lo, hi, off)
<1>1. 1 <= lo /\ lo <= hi + 1 /\ hi + 1 - lo = 3 /\ lo - 1 = off
  OBVIOUS
<1>2. /\ SubSeq(b, lo, hi) \in Seq(B) /\ Len(SubSeq(b, lo, hi)) = hi + 1 - lo
      /\ \A k \in 1 .. hi + 1 - lo : SubSeq(b, lo, hi)[k] = b[lo - 1 + k]
  BY <1>1, PieceOf
<1>3. Len(SubSeq(b, lo, hi)) = 3 /\ \A k \in 1 .. 3 : SubSeq(b, lo, hi)[k] = b[off + k]
  BY <1>1, <1>2, Zenon
<1> QED
  BY <1>2, <1>3, Zenon DEF IsThree

(* Two places of an identifier rewritten. *)
LEMMA Widened ==
    ASSUME NEW old, old = [k \in 1 .. 8 |-> old[k]],
           NEW new, new = [old EXCEPT ![4] = 255, ![5] = 254]
    PROVE  /\ new[4] = 255 /\ new[5] = 254 /\ new = [k \in 1 .. 8 |-> new[k]]
           /\ \A k \in 1 .. 8 : k # 4 /\ k # 5 => new[k] = old[k]
<1>1. DOMAIN old = 1 .. 8
  <2> DEFINE f == [k \in 1 .. 8 |-> old[k]]
  <2>1. DOMAIN f = 1 .. 8
    OBVIOUS
  <2> QED
    BY <2>1
<1>2. new = [k \in 1 .. 8 |-> IF k = 5 THEN 254 ELSE IF k = 4 THEN 255 ELSE old[k]]
  BY <1>1
<1>3. ASSUME NEW k \in 1 .. 8 PROVE new[k] = IF k = 5 THEN 254 ELSE IF k = 4 THEN 255 ELSE old[k]
  BY <1>2
<1>4. 4 \in 1 .. 8 /\ 5 \in 1 .. 8
  OBVIOUS
<1>5. new = [k \in 1 .. 8 |-> new[k]]
  <2> DEFINE f == [k \in 1 .. 8 |-> IF k = 5 THEN 254 ELSE IF k = 4 THEN 255 ELSE old[k]]
  <2>1. f = [k \in 1 .. 8 |-> f[k]]
    OBVIOUS
  <2> QED
    BY <1>2, <2>1
<1> QED
  BY <1>3, <1>4, <1>5

LEMMA SixBytes ==
    ASSUME NEW B, NEW b \in Seq(B), Len(b) >= 6, 255 \in B, 254 \in B,
           NEW e, e = [k \in 1 .. 8 |-> e[k]], e[4] = 255, e[5] = 254,
           \A k \in 1 .. 3 : e[k] = b[k], \A k \in 4 .. 6 : e[k + 2] = b[k]
    PROVE  e = SubSeq(b, 1, 3) \o <<255, 254>> \o SubSeq(b, 4, 6)
<1>1. \A k \in 1 .. 6 : b[k] \in B
  <2>1. \A k \in 1 .. 6 : k \in 1 .. Len(b)
    BY LenProperties
  <2> QED
    BY <2>1, ElementOfSeq
<1>2. ASSUME NEW k \in 1 .. 8 PROVE e[k] \in B
  <2>1. CASE k \in 1 .. 3
    BY <1>1, <2>1
  <2>2. CASE k - 2 \in 4 .. 6
    <3>1. PICK j \in 4 .. 6 : k = j + 2
      BY <2>2
    <3> QED
      BY <1>1, <3>1
  <2>3. k \in 1 .. 3 \/ k = 4 \/ k = 5 \/ k - 2 \in 4 .. 6
    OBVIOUS
  <2> QED
    BY <2>1, <2>2, <2>3
<1>3. e \in Seq(B) /\ Len(e) = 8
  <2>1. e \in [1 .. 8 -> B]
    BY <1>2
  <2> QED
    BY <2>1, FunctionIsSeq
<1>4. PICK u \in Seq(B) : IsThree(u, b, 1, 3, 0)
  <2>1. PICK lo \in Nat, hi \in Nat, off \in Nat : lo = 1 /\ hi = 3 /\ off = 0
    OBVIOUS
  <2>2. lo = off + 1 /\ hi = off + 3 /\ hi <= Len(b)
    BY <2>1, LenProperties
  <2>3. \E u \in Seq(B) : IsThree(u, b, lo, hi, off)
    BY <2>2, ThreeExists
  <2> QED
    BY <2>1, <2>3, Zenon
<1>5. PICK p \in Seq(B) : IsThree(p, b, 4, 6, 3)
  <2>1. PICK lo \in Nat, hi \in Nat, off \in Nat : lo = 4 /\ hi = 6 /\ off = 3
    OBVIOUS
  <2>2. lo = off + 1 /\ hi = off + 3 /\ hi <= Len(b)
    BY <2>1, LenProperties
  <2>3. \E p \in Seq(B) : IsThree(p, b, lo, hi, off)
    BY <2>2, ThreeExists
  <2> QED
    BY <2>1, <2>3, Zenon
<1>6. PICK m \in Seq(B) : IsTwo(m, 255, 254)
  BY TwoExists
<1>7. JoinedByElements(u, m, p, e)
  BY <1>3, JoinIs
<1>8. Len(m) = 2 /\ m[1] = 255 /\ m[2] = 254 /\ m = <<255, 254>>
  BY <1>6 DEF IsTwo
<1>9. \A k \in 1 .. 2 : e[3 + k] = m[k]
  <2>1. \A k \in 1 .. 2 : k = 1 \/ k = 2
    OBVIOUS
  <2> QED
    BY <1>8, <2>1
<1>10. Len(u) = 3 /\ Len(p) = 3 /\ u = SubSeq(b, 1, 3) /\ p = SubSeq(b, 4, 6)
  BY <1>4, <1>5, Zenon DEF IsThree
<1>11. ASSUME NEW k \in 1 .. 3 PROVE e[k] = u[k]
  <2>1. u[k] = b[0 + k] /\ 0 + k = k
    BY <1>4 DEF IsThree
  <2> QED
    BY <2>1
<1>12. ASSUME NEW k \in 1 .. 3 PROVE e[3 + 2 + k] = p[k]
  <2>1. p[k] = b[3 + k] /\ 3 + k \in 4 .. 6 /\ (3 + k) + 2 = 3 + 2 + k
    BY <1>5 DEF IsThree
  <2> QED
    BY <2>1
<1>13. Join(u, m, p) = e
  <2>1. PICK lu \in Nat, lm \in Nat, lp \in Nat : lu = 3 /\ lm = 2 /\ lp = 3
    OBVIOUS
  <2>2. Len(u) = lu /\ Len(m) = lm /\ Len(p) = lp
    BY <1>8, <1>10, <2>1, Zenon
  <2>3. Len(e) = Len(u) + Len(m) + Len(p)
    BY <1>3, <2>1, <2>2
  <2>4. ASSUME NEW k \in 1 .. Len(u) PROVE e[k] = u[k]
    BY <1>11, <2>1, <2>2
  <2>5. ASSUME NEW k \in 1 .. Len(m) PROVE e[Len(u) + k] = m[k]
    BY <1>9, <2>1, <2>2
  <2>6. ASSUME NEW k \in 1 .. Len(p) PROVE e[Len(u) + Len(m) + k] = p[k]
    BY <1>12, <2>1, <2>2
  <2> QED
    BY <1>7, <2>3, <2>4, <2>5, <2>6, Zenon DEF JoinedByElements
<1> QED
  BY <1>8, <1>10, <1>13, Zenon DEF Join

(* parse_eui64 stores what the text says, whatever was there before. *)
LEMMA ParsedEui ==
    ASSUME NEW B, 255 \in B, 254 \in B, NEW old, NEW t, t.bytes \in Seq(B), Text!parse_eui64(old, t).rc = 0
    PROVE  Text!parse_eui64(old, t).eui = EuiOf(t.bytes)
<1>1. PICK b \in Seq(B) : b = t.bytes /\ Len(b) \in Nat
  BY LenProperties
<1> DEFINE colon == Text!sscanf(old, t, ":", Text!All)
           dash == Text!sscanf(colon.eui, t, "-", Text!All)
           mac == Text!sscanf(dash.eui, t, ":", Text!Outer)
           wide == [mac.eui EXCEPT ![4] = 255, ![5] = 254]
<1>2. Text!parse_eui64(old, t) =
         IF colon.n = 8 THEN [rc |-> 0, eui |-> colon.eui]
         ELSE IF dash.n = 8 THEN [rc |-> 0, eui |-> dash.eui]
         ELSE IF mac.n = 6 THEN [rc |-> 0, eui |-> wide]
         ELSE [rc |-> -1, eui |-> mac.eui]
  BY DEF Text!parse_eui64
<1>3. /\ colon.n = 8 <=> Len(t.bytes) >= 8 /\ t.sep = ":"
      /\ colon.n = 8 => \A k \in 1 .. 8 : colon.eui[k] = t.bytes[k]
      /\ colon.eui = [k \in 1 .. 8 |-> colon.eui[k]]
  BY <1>1, ScanEight
<1>4. /\ dash.n = 8 <=> Len(t.bytes) >= 8 /\ t.sep = "-"
      /\ dash.n = 8 => \A k \in 1 .. 8 : dash.eui[k] = t.bytes[k]
      /\ dash.eui = [k \in 1 .. 8 |-> dash.eui[k]]
  <2> HIDE DEF colon
  <2> QED
    BY <1>1, ScanEight
<1>5. /\ mac.n = 6 <=> Len(t.bytes) >= 6 /\ t.sep = ":"
      /\ mac.n = 6 => /\ \A k \in 1 .. 3 : mac.eui[k] = t.bytes[k]
                      /\ \A k \in 4 .. 6 : mac.eui[k + 2] = t.bytes[k]
      /\ mac.eui = [k \in 1 .. 8 |-> mac.eui[k]]
  <2> HIDE DEF dash
  <2> QED
    BY <1>1, ScanSix
<1> HIDE DEF colon, dash, mac
<1>6. CASE colon.n = 8
  <2>1. colon.eui = SubSeq(b, 1, 8) /\ Len(b) >= 8
    BY <1>1, <1>3, <1>6, EightBytes
  <2> QED
    BY <1>1, <1>2, <1>6, <2>1 DEF EuiOf
<1>7. CASE colon.n # 8 /\ dash.n = 8
  <2>1. dash.eui = SubSeq(b, 1, 8) /\ Len(b) >= 8
    BY <1>1, <1>4, <1>7, EightBytes
  <2> QED
    BY <1>1, <1>2, <1>7, <2>1 DEF EuiOf
<1>8. CASE colon.n # 8 /\ dash.n # 8 /\ mac.n = 6
  <2>1. /\ wide[4] = 255 /\ wide[5] = 254 /\ wide = [k \in 1 .. 8 |-> wide[k]]
        /\ \A k \in 1 .. 8 : k # 4 /\ k # 5 => wide[k] = mac.eui[k]
    BY <1>5, Widened
  <2> HIDE DEF wide
  <2>2. \A k \in 1 .. 3 : wide[k] = b[k]
    BY <1>1, <1>5, <1>8, <2>1
  <2>3. \A k \in 4 .. 6 : wide[k + 2] = b[k]
    BY <1>1, <1>5, <1>8, <2>1
  <2>4. Len(b) >= 6 /\ ~(Len(b) >= 8)
    BY <1>1, <1>3, <1>5, <1>8
  <2>5. wide = SubSeq(b, 1, 3) \o <<255, 254>> \o SubSeq(b, 4, 6)
    BY <2>1, <2>2, <2>3, <2>4, SixBytes
  <2> QED
    BY <1>1, <1>2, <1>8, <2>4, <2>5 DEF EuiOf
<1>9. CASE colon.n # 8 /\ dash.n # 8 /\ mac.n # 6
  BY <1>2, <1>9
<1> QED
  BY <1>6, <1>7, <1>8, <1>9

----------------------------------------------------------------------------
(* The four buffers: the results handed out last lie in the last slots, in     *)
(* turn, so a result is distance(k) slots behind the slot written last.        *)
Results ==
    /\ fi \in 0 .. 3 /\ fbuf = [k \in 0 .. 3 |-> fbuf[k]]
    /\ \E X : recent \in Seq(X)
    /\ Len(recent) \in 0 .. 4
    /\ \A k \in 1 .. Len(recent) :
          /\ recent[k].slot \in 0 .. 3
          /\ (recent[k].slot + (Len(recent) - k)) % 4 = fi
          /\ fbuf[recent[k].slot] = recent[k].text

(* One call later every older result but the oldest of four is a slot further. *)
Turned(a, z, n) == z # (a + 1) % 4 /\ (z + (n + 1)) % 4 = (a + 1) % 4

LEMMA SlotTurns ==
    ASSUME NEW a \in 0 .. 3, NEW z \in 0 .. 3, NEW n \in 0 .. 2, (z + n) % 4 = a
    PROVE  Turned(a, z, n)
  BY DEF Turned

LEMMA SlotStays == \A a \in 0 .. 3 : (a + 0) % 4 = a
  OBVIOUS

(* The list of results after a call: the new one, behind the last three.       *)
AfterCall(r, all, e) ==
    /\ Len(r) \in 1 .. 4 /\ r[Len(r)] = e
    /\ \A k \in 1 .. Len(r) - 1 : \E j \in 1 .. Len(all) :
          r[k] = all[j] /\ Len(all) - j \in 0 .. 2 /\ Len(r) - k = (Len(all) - j) + 1

IsNextList(r, q, e) == r = LET all == Append(q, e) IN SubSeq(all, IF Len(all) > 4 THEN 2 ELSE 1, Len(all))

LEMMA ListTurns ==
    ASSUME NEW X, NEW q \in Seq(X), Len(q) \in 0 .. 4, NEW e, NEW r,
           IsNextList(r, q, e)
    PROVE  AfterCall(r, q, e) /\ r \in Seq(X \cup {e})
<1> DEFINE Y == X \cup {e}
<1>1. PICK n \in 0 .. 4 : n = Len(q)
  OBVIOUS
<1>2. q \in Seq(Y) /\ e \in Y
  OBVIOUS
<1> HIDE DEF Y
<1>3. PICK all \in Seq(Y) : all = Append(q, e)
  <2>1. Append(q, e) \in Seq(Y)
    BY <1>2, AppendProperties
  <2> QED
    BY <2>1
<1>4. Len(all) = n + 1 /\ all[n + 1] = e /\ \A k \in 1 .. n : all[k] = q[k]
  BY <1>1, <1>2, <1>3
<1>5. PICK o \in 0 .. 1 : o = IF n + 1 > 4 THEN 1 ELSE 0
  OBVIOUS
<1>6. PICK lo \in Nat, hi \in Nat : lo = o + 1 /\ hi = n + 1
  OBVIOUS
<1>7. r = SubSeq(all, lo, hi)
  <2>1. (IF Len(all) > 4 THEN 2 ELSE 1) = lo
    BY <1>4, <1>5, <1>6
  <2> QED
    BY <1>3, <1>4, <1>6, <2>1 DEF IsNextList
<1>8. 1 <= lo /\ lo <= hi + 1 /\ hi <= Len(all) /\ hi + 1 - lo = n + 1 - o /\ lo - 1 = o
  BY <1>4, <1>5, <1>6
<1>9. r \in Seq(Y) /\ Len(r) = n + 1 - o /\ \A k \in 1 .. n + 1 - o : r[k] = all[o + k]
  <2>1. /\ SubSeq(all, lo, hi) \in Seq(Y) /\ Len(SubSeq(all, lo, hi)) = hi + 1 - lo
        /\ \A k \in 1 .. hi + 1 - lo : SubSeq(all, lo, hi)[k] = all[lo - 1 + k]
    BY <1>8, PieceOf
  <2> QED
    BY <1>7, <1>8, <2>1, Zenon
<1>10. PICK m \in 1 .. 4 : m = Len(r) /\ m = n + 1 - o
  <2>1. n + 1 - o \in 1 .. 4
    BY <1>5
  <2> QED
    BY <1>9, <2>1
<1>11. r[Len(r)] = e
  <2>1. n + 1 - o \in 1 .. n + 1 - o /\ o + (n + 1 - o) = n + 1
    BY <1>5
  <2> QED
    BY <1>4, <1>9, <2>1
<1>12. ASSUME NEW k \in 1 .. Len(r) - 1
       PROVE  \E j \in 1 .. Len(q) :
                 r[k] = q[j] /\ Len(q) - j \in 0 .. 2 /\ Len(r) - k = (Len(q) - j) + 1
  <2>0. k \in 1 .. m - 1
    BY <1>10
  <2>1. PICK j \in 1 .. n : j = o + k
    BY <1>5, <1>10, <2>0
  <2>2. k \in 1 .. n + 1 - o
    BY <1>10, <2>0
  <2>3. r[k] = q[j]
    BY <1>4, <1>9, <2>1, <2>2
  <2>4. n - j \in 0 .. 2 /\ m - k = (n - j) + 1
    BY <1>5, <1>10, <2>0, <2>1
  <2> QED
    BY <1>1, <1>10, <2>3, <2>4
<1>13. AfterCall(r, q, e)
  BY <1>10, <1>11, <1>12, Zenon DEF AfterCall
<1> QED
  BY <1>9, <1>13 DEF Y

LEMMA ResultsAfterCall ==
    ASSUME Results, Text!Format PROVE Results'
<1>1. PICK e : e = [slot |-> fi', text |-> Text!Formatted]
  OBVIOUS
<1>2. PICK X : recent \in Seq(X)
  BY DEF Results
<1>3. /\ fi \in 0 .. 3 /\ fbuf = [k \in 0 .. 3 |-> fbuf[k]] /\ Len(recent) \in 0 .. 4
      /\ \A k \in 1 .. Len(recent) :
          /\ recent[k].slot \in 0 .. 3
          /\ (recent[k].slot + (Len(recent) - k)) % 4 = fi
          /\ fbuf[recent[k].slot] = recent[k].text
  BY DEF Results
<1>4. fi' = (fi + 1) % 4 /\ fbuf' = [fbuf EXCEPT ![fi'] = Text!Formatted]
  BY DEF Text!Format
<1>5. fi' \in 0 .. 3
  BY <1>3, <1>4
<1>6. IsNextList(recent', recent, e)
  BY <1>1, Zenon DEF Text!Format, IsNextList
<1>7. AfterCall(recent', recent, e) /\ recent' \in Seq(X \cup {e})
  BY <1>2, <1>3, <1>6, ListTurns
<1>8. /\ fbuf'[fi'] = Text!Formatted
      /\ \A k \in 0 .. 3 : k # fi' => fbuf'[k] = fbuf[k]
      /\ fbuf' = [k \in 0 .. 3 |-> fbuf'[k]]
  BY <1>3, <1>4, <1>5
<1>9. Len(recent') \in 1 .. 4 /\ recent'[Len(recent')] = e
  BY <1>7 DEF AfterCall
<1>10. ASSUME NEW k \in 1 .. Len(recent')
       PROVE  /\ recent'[k].slot \in 0 .. 3
              /\ (recent'[k].slot + (Len(recent') - k)) % 4 = fi'
              /\ fbuf'[recent'[k].slot] = recent'[k].text
  <2>1. CASE k = Len(recent')
    <3>1. recent'[k].slot = fi' /\ recent'[k].text = Text!Formatted /\ Len(recent') - k = 0
      BY <1>1, <1>9, <2>1
    <3>2. (fi' + 0) % 4 = fi'
      BY <1>5, SlotStays
    <3> QED
      BY <1>5, <1>8, <3>1, <3>2
  <2>2. CASE k # Len(recent')
    <3>1. k \in 1 .. Len(recent') - 1
      BY <1>9, <2>2
    <3>2. PICK j \in 1 .. Len(recent) :
              /\ recent'[k] = recent[j] /\ Len(recent) - j \in 0 .. 2
              /\ Len(recent') - k = (Len(recent) - j) + 1
      BY <1>7, <3>1 DEF AfterCall
    <3>3. PICK z \in 0 .. 3, n \in 0 .. 2 : z = recent[j].slot /\ n = Len(recent) - j /\ (z + n) % 4 = fi
      BY <1>3, <3>2
    <3>4. Turned(fi, z, n)
      BY <1>3, <3>3, SlotTurns
    <3>6. z # fi' /\ (z + (n + 1)) % 4 = fi'
      BY <1>4, <3>4, Zenon DEF Turned
    <3>5. fbuf'[z] = recent[j].text
      BY <1>3, <1>8, <3>3, <3>6
    <3> QED
      BY <3>2, <3>3, <3>5, <3>6
  <2> QED
    BY <2>1, <2>2
<1> QED
  BY <1>5, <1>7, <1>8, <1>9, <1>10 DEF Results

----------------------------------------------------------------------------
(* An accepted identifier is what its text says, whatever was there before.    *)
FromText == typed # <<>> => eui = EuiOf(typed[1].bytes)

TextInv == who \in Text!Formatters /\ Route(net) /\ FromText /\ Results

TextTypes ==
    /\ Lens \subseteq Int
    /\ \E B : 255 \in B /\ 254 \in B /\ \A t \in EuiTexts : t.bytes \in Seq(B)

LEMMA TextInitial == ASSUME AddressUnits, Text!Init PROVE TextInv
<1>1. who \in Text!Formatters /\ net = Text!parse_net(Text!Default) /\ typed = <<>>
  BY DEF Text!Init
<1>2. Results
  <2>1. fbuf = [k \in 0 .. 3 |-> Text!Default] /\ fi = 0 /\ recent = <<>>
    BY DEF Text!Init
  <2>2. recent \in Seq({}) /\ Len(recent) = 0
    BY <2>1
  <2>3. fbuf = [k \in 0 .. 3 |-> fbuf[k]]
    BY <2>1
  <2> QED
    BY <2>1, <2>2, <2>3 DEF Results
<1> QED
  BY <1>1, <1>2, DefaultRoute DEF TextInv, FromText

LEMMA TextKept ==
    ASSUME AddressUnits, TextTypes, TextInv, [Text!Next]_(Text!vars) PROVE TextInv'
<1>0. /\ Results /\ UNCHANGED <<fbuf, fi, recent>> => Results'
      /\ FromText /\ UNCHANGED <<eui, typed>> => FromText'
      /\ Route(net) /\ UNCHANGED net => Route(net)'
  BY DEF Results, FromText, Route
<1>1. CASE UNCHANGED Text!vars
  BY <1>0, <1>1 DEF TextInv, Text!vars
<1>2. ASSUME NEW t \in Text!NetTexts, Text!ParseNet(t) PROVE TextInv'
  <2>1. ~Text!Rejected(t) /\ net' = Text!parse_net(t) /\ UNCHANGED <<who, eui, typed, fbuf, fi, recent>>
    BY <1>2 DEF Text!ParseNet
  <2>2. Route(net')
    BY <2>1, ParsedRoute DEF TextTypes
  <2> QED
    BY <1>0, <2>1, <2>2 DEF TextInv
<1>3. ASSUME NEW t \in EuiTexts, Text!ParseEui(t) PROVE TextInv'
  <2>1. /\ eui' = Text!parse_eui64(eui, t).eui
        /\ typed' = IF Text!parse_eui64(eui, t).rc = 0 THEN <<t>> ELSE <<>>
        /\ UNCHANGED <<who, net, fbuf, fi, recent>>
    BY <1>3 DEF Text!ParseEui
  <2>2. FromText'
    <3>1. CASE Text!parse_eui64(eui, t).rc = 0
      <4>1. Text!parse_eui64(eui, t).eui = EuiOf(t.bytes)
        BY <3>1, ParsedEui DEF TextTypes
      <4>2. typed'[1] = t
        BY <2>1, <3>1
      <4> QED
        BY <2>1, <4>1, <4>2, Zenon DEF FromText
    <3>2. CASE Text!parse_eui64(eui, t).rc # 0
      BY <2>1, <3>2, Zenon DEF FromText
    <3> QED
      BY <3>1, <3>2
  <2> QED
    BY <1>0, <2>1, <2>2 DEF TextInv
<1>4. CASE Text!Format
  <2>1. UNCHANGED <<who, net, eui, typed>>
    BY <1>4 DEF Text!Format
  <2>2. Results'
    BY <1>4, ResultsAfterCall DEF TextInv
  <2> QED
    BY <1>0, <2>1, <2>2 DEF TextInv
<1> QED
  BY <1>1, <1>2, <1>3, <1>4 DEF Text!Next

(* What the invariant says is what the run checks. *)
LEMMA TextFollows == ASSUME AddressUnits, TextInv PROVE Text!TextSound
<1>1. Text!LastFourIntact
  BY DEF TextInv, Results, Text!LastFourIntact
<1>2. Text!RouteNormal
  BY DEF TextInv, Route, Text!RouteNormal
<1>3. Text!ReadsBack
  <2>1. CASE who = "prefix"
    <3>1. Text!Formatted = Text!PrefixText(net.prefix, net.plen)
      BY <2>1 DEF Text!Formatted
    <3>2. LET t == Text!PrefixText(net.prefix, net.plen)
          IN  ~Text!Rejected(t) /\ Text!parse_net(t).prefix = net.prefix /\ Text!parse_net(t).plen = net.plen
      BY ShownPrefix DEF TextInv
    <3> QED
      BY <2>1, <3>1, <3>2, Zenon DEF Text!ReadsBack
  <2>2. CASE who = "address"
    <3>1. PICK t : t = Text!Formatted
      OBVIOUS
    <3>2. t = [addr |-> Text!AddrText(net.prefix), slash |-> FALSE, len |-> 0, junk |-> FALSE]
      BY <2>2, <3>1, Zenon DEF Text!Formatted
    <3>3. /\ ~Text!Rejected(t) /\ Text!parse_net(t).prefix = net.prefix
          /\ Text!parse_net(t).af = "AF_INET" <=> Text!v4mapped(net.prefix)
      BY <3>2, ShownAddress DEF TextInv, Route
    <3>4. who # "prefix"
      BY <2>2
    <3> QED
      BY <3>1, <3>3, <3>4, Zenon DEF Text!ReadsBack
  <2>3. CASE who = "eui64"
    BY <2>3 DEF Text!ReadsBack
  <2> QED
    BY <2>1, <2>2, <2>3 DEF TextInv, Text!Formatters
<1>4. Text!EuiFromText
  BY DEF TextInv, FromText, EuiOf, Text!EuiFromText
<1> QED
  BY <1>1, <1>2, <1>3, <1>4 DEF Text!TextSound

(* Text and back, for every width of a byte and of an address: the results of  *)
(* the last four calls of a formatter stay as they were handed out, a parsed   *)
(* route is masked and fits its family, what is shown reads back as the same   *)
(* route, and an accepted EUI-64 depends on its text only.                     *)
THEOREM TextSoundHolds ==
    ASSUME AddressUnits, TextTypes
    PROVE  Spec => []TextSound
<1> DEFINE I == unit = "text" => TextInv
<1>1. Init => I
  BY PartInit, TextInitial
<1>2. I /\ [Next]_vars => I'
  BY PartNext, TextKept
<1>3. I => TextSound
  BY TextFollows DEF TextSound
<1> HIDE DEF I
<1> QED
  BY <1>1, <1>2, <1>3, PTL DEF Spec
=============================================================================
