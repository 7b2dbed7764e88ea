---------------------------- MODULE UtilPrefix ----------------------------
(***************************************************************************)
(* A caller of util.c holds two prefixes, compares them and masks them, as *)
(* a routing table does.  The properties say what the byte-wise operators  *)
(* of UtilAddr must mean bit by bit and as sets of addresses.              *)
(***************************************************************************)
EXTENDS UtilAddr

VARIABLES p, q     \* the two prefixes the caller holds

vars == <<p, q>>

----------------------------------------------------------------------------
Init == p \in Prefixes /\ q \in Prefixes

\* The caller normalises a prefix, as parse_net does with what it has read.
MaskP == p' = [p EXCEPT !.addr = mask_prefix(@, p.plen)] /\ UNCHANGED q
MaskQ == q' = [q EXCEPT !.addr = mask_prefix(@, q.plen)] /\ UNCHANGED p

Next == MaskP \/ MaskQ

Spec == Init /\ [][Next]_vars

----------------------------------------------------------------------------
Bit(a, i) == (a[i \div ByteBits + 1] \div Pow2(ByteBits - 1 - (i % ByteBits))) % 2
AgreeUpTo(a, b, n) == \A i \in 0 .. n - 1 : Bit(a, i) = Bit(b, i)
Members(x) == {a \in Addresses : in_prefix(a, x.addr, x.plen)}
Compared == prefixes_cmp(p.addr, p.plen, q.addr, q.plen)
Min2(m, n) == IF m <= n THEN m ELSE n

\* Byte by byte, in_prefix means: the address and the prefix agree on the first
\* plen bits.
InPrefixIsBits == \A a \in Addresses :
    in_prefix(a, p.addr, p.plen) <=> AgreeUpTo(a, p.addr, p.plen)

\* mask_prefix keeps the first plen bits and clears the rest, so masking again
\* changes nothing and no address enters or leaves the prefix.
MaskIsBits ==
    LET m == mask_prefix(p.addr, p.plen) IN
    /\ AgreeUpTo(m, p.addr, p.plen)
    /\ \A i \in p.plen .. Bits - 1 : Bit(m, i) = 0
    /\ \A a \in Addresses : in_prefix(a, m, p.plen) <=> in_prefix(a, p.addr, p.plen)

\* prefixes_cmp compares the prefixes as sets of addresses, whatever bits the
\* caller left behind the prefix lengths.  (Addresses holds all addresses.)
CmpIsSetRelation ==
    /\ Compared = "PST_DISJOINT" <=> Members(p) \cap Members(q) = {}
    /\ Compared = "PST_EQUALS" <=> Members(p) = Members(q)
    /\ Compared = "PST_LESS_SPECIFIC" <=> Members(q) \subseteq Members(p) /\ Members(p) # Members(q)
    /\ Compared = "PST_MORE_SPECIFIC" <=> Members(p) \subseteq Members(q) /\ Members(p) # Members(q)

\* The same on addresses of full width, bit by bit.
CmpIsBits ==
    Compared = "PST_DISJOINT" <=> ~AgreeUpTo(p.addr, q.addr, Min2(p.plen, q.plen))

\* A prefix inside a martian prefix is martian: no route gets past the filter by
\* being more specific.
MartianDownward ==
    Compared \in {"PST_MORE_SPECIFIC", "PST_EQUALS"} /\ martian_prefix(q.addr, q.plen)
        => martian_prefix(p.addr, p.plen)

\* A link-local address is never a routable one, and it is never an IPv4 one;
\* embedding an IPv4 address gives a mapped address and nothing else does.
AddressClasses ==
    /\ linklocal(p.addr) => martian_prefix(p.addr, Bits) /\ ~v4mapped(p.addr)
    /\ v4mapped(p.addr) <=> p.addr = v4tov6(SubSeq(p.addr, V4Head + 1, NBytes))
============================================================================
