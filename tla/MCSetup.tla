------------------------------ MODULE MCSetup ------------------------------
(***************************************************************************)
(* Command lines for Setup: every short one over words of each kind, longer *)
(* ones that mix flags and addresses, and every value of --diffserv.       *)
(***************************************************************************)
EXTENDS Setup, TLC

Over(words, max) == UNION {[1 .. n -> words] : n \in 0 .. max}

Numbers == -6 .. 257
Names == [n \in Numbers |-> ToString(n)]
NumberWords == {Names[n] : n \in Numbers}
MCNumeral == [w \in NumberWords |-> CHOOSE n \in Numbers : Names[n] = w]

MixedWords == {"-S", "-1", "-3", "--up", "-v", "-h", "-x", "--test-ecn", "-D", "-i", "-s", "-l",
               "-L", "-w", "-o", "-m", "--diffserv", "--", "1", "json", "x:x", "[x]:x", "[x:x"}
OrderWords == {"-S", "-1", "--down", "-3", "-D", "1", "x:x"}
MCUnknown == {"-x", "-5"}
QosWords == NumberWords \cup {ipqos[k][1] : k \in DOMAIN ipqos} \cup {"bogus"}

MCBare == {Names[n] : n \in 0 .. 257} \cup (QosWords \ NumberWords) \cup {"json", "x:x", "[x]:x", "[x:x"}

MCLines ==
    Over(MixedWords, 3) \cup Over(OrderWords, 4)
    \cup {<<"--diffserv", w, "-D", "1", "x:x">> : w \in QosWords}
============================================================================
