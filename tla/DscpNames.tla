----------------------------- MODULE DscpNames -----------------------------
(***************************************************************************)
(* dscp.c: the names of the type-of-service values, parse_ipqos and        *)
(* iptos2str.  A text is a record: a word strtol refuses (its value here is *)
(* -1, which parse_ipqos answers it with), or a complete number of that    *)
(* value in any base strtol takes.                                         *)
(***************************************************************************)
EXTENDS Integers, Sequences

Word(w) == [word |-> w, num |-> -1]
Number(n) == [word |-> "number", num |-> n]

\* The table, in its order; the values are those of the IPTOS_ macros.
ipqos == <<
    <<"af11", 40>>, <<"af12", 48>>, <<"af13", 56>>, <<"af21", 72>>, <<"af22", 80>>,
    <<"af23", 88>>, <<"af31", 104>>, <<"af32", 112>>, <<"af33", 120>>, <<"af41", 136>>,
    <<"af42", 144>>, <<"af43", 152>>, <<"cs0", 0>>, <<"cs1", 32>>, <<"cs2", 64>>,
    <<"cs3", 96>>, <<"cs4", 128>>, <<"cs5", 160>>, <<"cs6", 192>>, <<"cs7", 224>>,
    <<"ef", 184>>, <<"lowdelay", 16>>, <<"throughput", 8>>, <<"reliability", 4>> >>

\* The first entry the loop finds with that name (column 1) or value (column 2),
\* 0 for none.
FirstEntry(column, wanted) ==
    LET hits == {k \in DOMAIN ipqos : ipqos[k][column] = wanted}
    IN  IF hits = {} THEN 0 ELSE CHOOSE k \in hits : \A j \in hits : k <= j

\* A name of the table, in any case, or a number that fits an octet; else -1.
parse_ipqos(cp) ==
    LET k == FirstEntry(1, cp.word)
    IN  IF k # 0 THEN ipqos[k][2]
        ELSE IF cp.num < 0 \/ cp.num > 255 THEN -1 ELSE cp.num

Mutant_Iptos2strStrict(iptos) ==
    LET v == IF iptos < 0 \/ iptos >= 64 THEN 0 ELSE iptos
        k == FirstEntry(2, v)
    IN  IF k # 0 THEN Word(ipqos[k][1]) ELSE Number(v)

\* The name of a value, or the value in hexadecimal; what is below 0 or above
\* 64 is taken for 0.
iptos2str(iptos) ==
    LET v == IF iptos < 0 \/ iptos > 64 THEN 0 ELSE iptos
        k == FirstEntry(2, v)
    IN  IF k # 0 THEN Word(ipqos[k][1]) ELSE Number(v)
============================================================================
