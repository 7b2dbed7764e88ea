----------------------------- MODULE UtilAddr -----------------------------
(***************************************************************************)
(* Addresses and prefixes of util.c: an address is NBytes bytes, a prefix  *)
(* an address and a length in bits.  The code works on whole bytes and one *)
(* mask, and so do these operators.                                        *)
(***************************************************************************)
EXTENDS Integers, Sequences

CONSTANTS
    ByteBits,   \* bits in a byte: 8 in the code
    NBytes,     \* bytes in an address: 16 in the code
    V4Head,     \* bytes before the IPv4 part of a mapped address: 12
    Addresses,  \* the addresses considered
    Plens       \* the prefix lengths considered

Bits == ByteBits * NBytes
Pow2(k) == <<1, 2, 4, 8, 16, 32, 64, 128, 256>>[k + 1]
Ones == Pow2(ByteBits) - 1
Zeroes == [i \in 1 .. NBytes |-> 0]
Prefixes == [addr : Addresses, plen : Plens]

\* The k high bits of the byte b, the others cleared: b & (0xFF << (8 - k)).
High(b, k) == b - (b % Pow2(ByteBits - k))

\* memcmp(a, b, n) == 0
SameBytes(a, b, n) == \A i \in 1 .. n : a[i] = b[i]

in_prefix(address, prefix, plen) ==
    LET len == IF plen > Bits THEN Bits ELSE plen
        n == len \div ByteBits
        k == len % ByteBits
    IN  /\ SameBytes(address, prefix, n)
        /\ k # 0 => High(address[n + 1], k) = High(prefix[n + 1], k)

mask_prefix(prefix, plen) ==
    LET n == plen \div ByteBits
        k == plen % ByteBits
    IN  IF plen >= Bits THEN prefix
        ELSE [i \in 1 .. NBytes |->
                IF i <= n THEN prefix[i] ELSE IF i = n + 1 /\ k # 0 THEN High(prefix[i], k) ELSE 0]

Mutant_CmpShort(p1, plen1, p2, plen2) ==
    LET min == IF plen1 <= plen2 THEN plen1 ELSE plen2
    IN  IF ~SameBytes(p1, p2, min \div ByteBits) THEN "PST_DISJOINT"
        ELSE IF plen1 < plen2 THEN "PST_LESS_SPECIFIC"
        ELSE IF plen1 > plen2 THEN "PST_MORE_SPECIFIC" ELSE "PST_EQUALS"

\* The signed mask starts as the sign bit and is shifted right arithmetically,
\* so after min - 1 shifts it holds the min high bits.
prefixes_cmp(p1, plen1, p2, plen2) ==
    LET min == IF plen1 <= plen2 THEN plen1 ELSE plen2
        i == min \div ByteBits
        rest == min - i * ByteBits
    IN  IF \/ ~SameBytes(p1, p2, i)
           \/ rest # 0 /\ High(p1[i + 1], rest) # High(p2[i + 1], rest)
        THEN "PST_DISJOINT"
        ELSE IF plen1 < plen2 THEN "PST_LESS_SPECIFIC"
        ELSE IF plen1 > plen2 THEN "PST_MORE_SPECIFIC" ELSE "PST_EQUALS"

v4prefix == [i \in 1 .. NBytes |-> IF i \in {V4Head - 1, V4Head} THEN Ones ELSE 0]
llprefix == [i \in 1 .. NBytes |->
    IF i = 1 THEN Ones - 1 ELSE IF i = 2 THEN Pow2(ByteBits - 1) ELSE 0]

v4mapped(a) == SameBytes(a, v4prefix, V4Head)
v4tov6(src) == [i \in 1 .. NBytes |-> IF i <= V4Head THEN v4prefix[i] ELSE src[i - V4Head]]
linklocal(a) == SameBytes(a, llprefix, NBytes \div 2)

martian_prefix(a, plen) ==
    LET v4len == plen - V4Head * ByteBits IN
    \/ plen >= ByteBits /\ a[1] = Ones
    \/ plen >= ByteBits + 2 /\ a[1] = Ones - 1 /\ High(a[2], 2) = Pow2(ByteBits - 1)
    \/ plen >= Bits /\ SameBytes(a, Zeroes, NBytes - 1) /\ a[NBytes] \in {0, 1}
    \/ /\ v4len >= 0 /\ v4mapped(a)
       /\ \/ v4len >= ByteBits /\ a[V4Head + 1] \in {Ones \div 2, 0}
          \/ v4len >= 4 /\ High(a[V4Head + 1], 3) = High(Ones, 3)
============================================================================
