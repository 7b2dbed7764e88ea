---------------------------- MODULE UtilFormat ----------------------------
(***************************************************************************)
(* Text and back: the formatters of util.c, each of which writes into one  *)
(* of four static buffers in turn, and the parsers that read such text.    *)
(* A text is what inet_ntop, snprintf or a user wrote, by its parts; the   *)
(* conversions of inet_pton, inet_ntop, strtol and sscanf are external.    *)
(***************************************************************************)
EXTENDS UtilAddr

CONSTANTS
    Lens,       \* the numbers typed after a slash
    EuiTexts,   \* the EUI-64 texts typed: [sep, bytes]
    MaxParses   \* bound: texts parsed in one behaviour

VARIABLES
    who,        \* the formatter under study; each has its own static buffers
    net,        \* the route of the caller: [prefix, plen, af]
    eui,        \* the interface identifier of the caller: eight bytes
    typed,      \* history: the last identifier typed and accepted
    parses,     \* the texts parsed so far
    buf, i,     \* static char buf[4][...], static int i
    recent      \* history: the last results handed out, with their text

vars == <<who, net, eui, typed, parses, buf, i, recent>>

Formatters == {"address", "prefix", "eui64"}
V4Bits == V4Head * ByteBits
V4Tail(a) == SubSeq(a, V4Head + 1, NBytes)

----------------------------------------------------------------------------
(* Texts: an address is dotted ("v4") or coloned ("v6"). *)

AddrText(a) == IF v4mapped(a) THEN [form |-> "v4", body |-> V4Tail(a)]
               ELSE [form |-> "v6", body |-> a]

\* What format_prefix writes.
PrefixText(prefix, plen) ==
    IF plen >= V4Bits /\ v4mapped(prefix)
    THEN [addr |-> AddrText(prefix), slash |-> TRUE, len |-> plen - V4Bits, junk |-> FALSE]
    ELSE [addr |-> [form |-> "v6", body |-> prefix], slash |-> TRUE, len |-> plen, junk |-> FALSE]

Default == [addr |-> [form |-> "default", body |-> <<>>], slash |-> FALSE, len |-> 0, junk |-> FALSE]
NoNumber == [form |-> "bad", body |-> <<>>]

\* What may be typed where a network is expected.
NetTexts ==
    {Default} \cup
    [addr : {AddrText(a) : a \in Addresses} \cup {[form |-> "v6", body |-> a] : a \in Addresses}
               \cup {NoNumber},
     slash : BOOLEAN, len : Lens, junk : BOOLEAN]

\* The address parse_address stores, and its family; a bad text stores nothing.
parse_address(t) ==
    IF t.form = "v4" THEN [prefix |-> v4tov6(t.body), af |-> "AF_INET"]
    ELSE [prefix |-> t.body, af |-> "AF_INET6"]

Rejected(t) ==
    \/ t.addr.form = "bad"
    \/ /\ t.slash
       /\ t.junk \/ t.len < 0 \/ t.len > IF t.addr.form = "v4" THEN Bits - V4Bits ELSE Bits

\* The route parse_net stores for a text it accepts.
parse_net(t) ==
    IF t.addr.form = "default" THEN [prefix |-> Zeroes, plen |-> 0, af |-> "AF_INET6"]
    ELSE LET at == parse_address(t.addr)
             plen == IF ~t.slash THEN Bits
                     ELSE IF t.addr.form = "v4" THEN t.len + V4Bits ELSE t.len
         IN  [prefix |-> mask_prefix(at.prefix, plen), plen |-> plen, af |-> at.af]

----------------------------------------------------------------------------
(* EUI-64.  sscanf stores the fields it converts before the first mismatch  *)
(* and returns how many; the places are where it stores them.               *)

Least(m, n) == IF m <= n THEN m ELSE n

sscanf(old, t, sep, places) ==
    LET n == Least(Len(t.bytes), IF t.sep = sep THEN Len(places) ELSE 1)
    IN  [n |-> n, eui |-> [k \in 1 .. 8 |->
            IF \E m \in 1 .. n : places[m] = k
            THEN t.bytes[CHOOSE m \in 1 .. n : places[m] = k] ELSE old[k]]]

All == <<1, 2, 3, 4, 5, 6, 7, 8>>
Outer == <<1, 2, 3, 6, 7, 8>>

Mutant_EuiNoWiden(old, t) ==
    LET colon == sscanf(old, t, ":", All)
        mac == sscanf(colon.eui, t, ":", Outer)
    IN  IF colon.n = 8 THEN [rc |-> 0, eui |-> colon.eui]
        ELSE [rc |-> IF mac.n = 6 THEN 0 ELSE -1, eui |-> mac.eui]

parse_eui64(old, t) ==
    LET colon == sscanf(old, t, ":", All)
        dash == sscanf(colon.eui, t, "-", All)
        mac == sscanf(dash.eui, t, ":", Outer)
    IN  IF colon.n = 8 THEN [rc |-> 0, eui |-> colon.eui]
        ELSE IF dash.n = 8 THEN [rc |-> 0, eui |-> dash.eui]
        ELSE IF mac.n = 6 THEN [rc |-> 0, eui |-> [mac.eui EXCEPT ![4] = 255, ![5] = 254]]
        ELSE [rc |-> -1, eui |-> mac.eui]

----------------------------------------------------------------------------
Init ==
    /\ who \in Formatters
    /\ net = parse_net(Default) /\ eui = [k \in 1 .. 8 |-> 0] /\ typed = <<>> /\ parses = 0
    /\ buf = [k \in 0 .. 3 |-> Default] /\ i = 0 /\ recent = <<>>

ParseNet(t) ==
    /\ parses < MaxParses /\ parses' = parses + 1
    /\ who # "eui64" /\ ~Rejected(t)
    /\ net' = parse_net(t) /\ UNCHANGED <<who, eui, typed, buf, i, recent>>

ParseEui(t) ==
    /\ parses < MaxParses /\ parses' = parses + 1
    /\ who = "eui64"
    /\ LET r == parse_eui64(eui, t)
       IN  eui' = r.eui /\ typed' = IF r.rc = 0 THEN <<t>> ELSE <<>>
    /\ UNCHANGED <<who, net, buf, i, recent>>

\* The text the formatter under study makes of what the caller holds.
Formatted ==
    IF who = "address"
    THEN [addr |-> AddrText(net.prefix), slash |-> FALSE, len |-> 0, junk |-> FALSE]
    ELSE IF who = "prefix" THEN PrefixText(net.prefix, net.plen)
    ELSE [sep |-> ":", bytes |-> eui]

Format ==
    /\ i' = (i + 1) % 4 /\ buf' = [buf EXCEPT ![i'] = Formatted]
    /\ recent' = LET all == Append(recent, [slot |-> i', text |-> Formatted])
                 IN  SubSeq(all, IF Len(all) > 4 THEN 2 ELSE 1, Len(all))
    /\ UNCHANGED <<who, net, eui, typed, parses>>

Next ==
    \/ \E t \in NetTexts : ParseNet(t)
    \/ \E t \in EuiTexts : ParseEui(t)
    \/ Format

Spec == Init /\ [][Next]_vars

----------------------------------------------------------------------------
\* A result stays what it was through the next three calls of the formatter, so
\* one message may show four of them; the fifth call overwrites the first.
LastFourIntact == \A k \in 1 .. Len(recent) : buf[recent[k].slot] = recent[k].text

\* A route read by parse_net is masked, its length fits its family, and an
\* AF_INET route lies in the mapped block: the rest of the code relies on it.
RouteNormal ==
    /\ net.plen \in 0 .. Bits /\ net.prefix = mask_prefix(net.prefix, net.plen)
    /\ net.af = "AF_INET" => net.plen >= V4Bits /\ v4mapped(net.prefix)

\* What format_prefix and format_address show can be typed back: parse_net
\* accepts it and returns the same route, or for an address the same address,
\* with the family the text has.
ReadsBack == who # "eui64" =>
    /\ ~Rejected(Formatted)
    /\ LET back == parse_net(Formatted) IN
       IF who = "prefix" THEN back.prefix = net.prefix /\ back.plen = net.plen
       ELSE back.prefix = net.prefix /\ (back.af = "AF_INET" <=> v4mapped(net.prefix))

\* An accepted identifier depends on the text only: nothing that an earlier scan
\* of the same text, or an earlier text, stored shows through.  Six coloned
\* bytes are widened with FF FE, and what follows the sixth or eighth is ignored.
EuiFromText == typed # <<>> =>
    LET b == typed[1].bytes IN
    eui = IF Len(b) >= 8 THEN SubSeq(b, 1, 8)
          ELSE SubSeq(b, 1, 3) \o <<255, 254>> \o SubSeq(b, 4, 6)

\* The formatters and the parsers, in one.
TextSound == LastFourIntact /\ RouteNormal /\ ReadsBack /\ EuiFromText
============================================================================
