---------------------------- MODULE UtilNumbers ----------------------------
(***************************************************************************)
(* Sequence numbers (util.h) and the number parsers of util.c.  Two        *)
(* counters are carried as unsigned short by seqno_plus; a line of text is *)
(* typed and read by parse_nat and parse_msec.  Text is its digits, not    *)
(* its characters: blanks, which both parsers skip, are left out.  A long  *)
(* holds every number an unsigned int does, as on the 64-bit systems.      *)
(***************************************************************************)
EXTENDS Integers, Sequences

CONSTANTS
    SeqSpace,   \* the number of sequence numbers: 2^16 in the code
    MaxCount,   \* bound: how far a counter runs, several times SeqSpace
    MaxStep,    \* bound: the largest step of seqno_plus, either way
    Radix,      \* the base of the digits: 10 in the code
    OctRadix, HexRadix,   \* the bases strtol finds by itself: 8 and 16
    Word,       \* the values of an unsigned int: 2^32 in the code
    MaxDigits   \* bound: digits typed

VARIABLES
    count,      \* history: the two counters as unbounded numbers
    seqno,      \* the two counters as the program keeps them
    line        \* the text typed so far

vars == <<count, seqno, line>>

Half == SeqSpace \div 2
Who == {1, 2}
IntMax == Word \div 2 - 1

----------------------------------------------------------------------------
(* util.h *)

Mutant_CompareStrict(s1, s2) ==
    IF s1 = s2 THEN 0 ELSE IF (s2 - s1) % SeqSpace > Half + 1 THEN 1 ELSE -1

seqno_compare(s1, s2) ==
    IF s1 = s2 THEN 0 ELSE IF (s2 - s1) % SeqSpace >= Half THEN 1 ELSE -1

seqno_minus(s1, s2) ==
    LET diff == (s1 - s2) % SeqSpace IN IF diff >= Half THEN diff - SeqSpace ELSE diff

seqno_plus(s, plus) == (s + plus) % SeqSpace

----------------------------------------------------------------------------
(* util.c.  A line is a sign, integer digits, perhaps an x after the first  *)
(* of them, a 0, perhaps a point and fraction digits, and whether something *)
(* else follows.                                                            *)

Empty == [sign |-> "none", int |-> <<>>, hex |-> FALSE, point |-> FALSE, frac |-> <<>>, junk |-> FALSE]

Power[k \in Nat] == IF k = 0 THEN 1 ELSE Radix * Power[k - 1]
Thousand == Power[3]     \* milliseconds in a second

\* The number digits ds stand for, and the one an unsigned int makes of them.
ValueIn(base, ds) ==
    LET val[k \in 0 .. Len(ds)] == IF k = 0 THEN 0 ELSE val[k - 1] * base + ds[k]
    IN  val[Len(ds)]
Value(ds) == ValueIn(Radix, ds)
WordValue(ds) ==
    LET val[k \in 0 .. Len(ds)] == IF k = 0 THEN 0 ELSE (val[k - 1] * Radix + ds[k]) % Word
    IN  val[Len(ds)]

Signed(n) == IF n > IntMax THEN n - Word ELSE n

\* The base strtol(.., 0) takes a line in, by its prefix.
Octal(t) == ~t.hex /\ Len(t.int) > 0 /\ t.int[1] = 0
Base(t) == IF t.hex THEN HexRadix ELSE IF Octal(t) THEN OctRadix ELSE Radix

\* strtol stops at a point, at a digit that is none of its base and at anything
\* else; before the sign when no digit follows it; and before an x that none follows.
StopsEarly(t) ==
    \/ t.point \/ t.junk
    \/ t.sign # "none" /\ Len(t.int) = 0
    \/ t.hex /\ Len(t.int) = 1
    \/ \E k \in DOMAIN t.int : t.int[k] >= Base(t)

parse_nat(t) ==
    LET magnitude == ValueIn(Base(t), t.int)
        l == IF t.sign = "-" THEN -magnitude ELSE magnitude
    IN  IF StopsEarly(t) \/ l < 0 \/ l > IntMax THEN -1 ELSE l

\* The fraction digits brought to exactly three.
ThreeDigits(ds) ==
    LET j == Len(ds)
    IN  IF j > 3 THEN WordValue(ds) \div Power[j - 3]
        ELSE (WordValue(ds) * Power[3 - j]) % Word

parse_msec(t) ==
    IF t.sign # "none" \/ t.hex \/ t.junk THEN -1
    ELSE Signed((WordValue(t.int) * Thousand
                    + IF t.point THEN ThreeDigits(t.frac) ELSE 0) % Word)

----------------------------------------------------------------------------
Init ==
    /\ \E c \in 0 .. SeqSpace - 1 :
          count = [w \in Who |-> c] /\ seqno = [w \in Who |-> c]
    /\ line = Empty

Step(w, plus) ==
    /\ count[w] + plus \in 0 .. MaxCount
    /\ count' = [count EXCEPT ![w] = @ + plus]
    /\ seqno' = [seqno EXCEPT ![w] = seqno_plus(@, plus)]

Type(dg) ==
    /\ ~line.junk /\ Len(line.int) + Len(line.frac) < MaxDigits
    /\ line' = IF line.point THEN [line EXCEPT !.frac = Append(@, dg)]
               ELSE [line EXCEPT !.int = Append(@, dg)]

TypeSign == line = Empty /\ \E c \in {"-", "+"} : line' = [line EXCEPT !.sign = c]
TypeX == line.int = <<0>> /\ ~line.point /\ ~line.junk /\ line' = [line EXCEPT !.hex = TRUE]
TypePoint == ~line.point /\ ~line.junk /\ line' = [line EXCEPT !.point = TRUE]
TypeJunk == ~line.junk /\ line' = [line EXCEPT !.junk = TRUE]

\* Letters are digits only after the x; elsewhere they are junk.
Typing ==
    \/ \E dg \in 0 .. (IF line.hex THEN HexRadix ELSE Radix) - 1 : Type(dg)
    \/ TypeSign \/ TypeX \/ TypePoint \/ TypeJunk

Next ==
    \/ \E w \in Who, plus \in -MaxStep .. MaxStep :
          line = Empty /\ Step(w, plus) /\ UNCHANGED line
    \/ /\ \A w \in Who : count[w] = 0
       /\ Typing
       /\ UNCHANGED <<count, seqno>>

Spec == Init /\ [][Next]_vars

----------------------------------------------------------------------------
\* The program keeps every sequence number in range and equal to its counter
\* modulo the space, steps back included, however often it has wrapped.
SeqnoTracks == \A w \in Who :
    seqno[w] \in 0 .. SeqSpace - 1 /\ seqno[w] = count[w] % SeqSpace

\* While two counters are less than half the space apart, seqno_minus is their
\* true distance and seqno_compare their true order, across wraps; exactly half
\* the space apart seqno_compare calls each greater than the other.
SeqnoOrder ==
    LET gap == count[1] - count[2]
    IN  /\ gap \in -Half + 1 .. Half - 1 =>
              /\ seqno_minus(seqno[1], seqno[2]) = gap
              /\ seqno_compare(seqno[1], seqno[2]) =
                    IF gap = 0 THEN 0 ELSE IF gap > 0 THEN 1 ELSE -1
              /\ seqno_plus(seqno[2], seqno_minus(seqno[1], seqno[2])) = seqno[1]
        /\ gap \in {-Half, Half} =>
              /\ seqno_compare(seqno[1], seqno[2]) = 1
              /\ seqno_compare(seqno[2], seqno[1]) = 1

\* parse_msec is exact, truncating beyond the third fraction digit, for every
\* line whose milliseconds fit an int and whose fraction digits, read as one
\* integer, fit an unsigned int: a longer fraction or a larger number wraps.
MsecExact ==
    LET whole == Value(line.int) * Thousand
        frac == (Value(line.frac) * Thousand) \div Power[Len(line.frac)]
    IN  IF line.sign # "none" \/ line.hex \/ line.junk THEN parse_msec(line) = -1
        ELSE whole + frac <= IntMax /\ Value(line.frac) < Word =>
                parse_msec(line) = whole + frac

\* Where parse_nat accepts a line in the usual base and its milliseconds fit an
\* int, the two parsers agree.  A leading 0 makes it octal for parse_nat alone: from
\* two octal digits on the same line is then less to parse_nat than to parse_msec.
\* parse_nat returns -1 where the number does not fit, whatever its base, and takes
\* a minus in front of nothing but zeroes.
ParsersAgree ==
    LET n == parse_nat(line)
        msec == parse_msec(line)
    IN
    /\ n # -1 /\ line.sign = "none" /\ Base(line) = Radix /\ n * Thousand <= IntMax => msec = n * Thousand
    /\ n # -1 /\ line.sign = "none" /\ Octal(line) /\ Value(line.int) * Thousand <= IntMax =>
          n * Thousand <= msec /\ (n * Thousand = msec <=> n < OctRadix)
    /\ ValueIn(Base(line), line.int) > IntMax => n = -1
    /\ n # -1 /\ line.sign = "-" => n = 0
============================================================================
