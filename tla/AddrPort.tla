------------------------------ MODULE AddrPort ------------------------------
(***************************************************************************)
(* to_addr_port of parse_addr.c: splits a text into address and port and   *)
(* has getaddrinfo resolve it.  A text is a sequence over the characters   *)
(* the code looks for, "[", "]" and ":", and others it only copies.        *)
(***************************************************************************)
EXTENDS Integers, Sequences, FiniteSets

EINVAL == 22
EADDRNOTAVAIL == 99
Families == {"v4", "v6"}
any == "any"
NUL == "0"

Where(text, c) == {k \in 1 .. Len(text) : text[k] = c}
Highest(S) == CHOOSE k \in S : \A j \in S : j <= k

\* The C string that starts at index k of a buffer (which ends in NUL).
CString(buf, k) ==
    LET end == CHOOSE e \in k .. Len(buf) : buf[e] = NUL /\ \A j \in k .. e - 1 : buf[j] # NUL
    IN  SubSeq(buf, k, end - 1)

Mutant_SplitForward(text) ==
    IF Where(text, ":") = {} THEN [rc |-> EINVAL, addr |-> <<>>, port |-> <<>>]
    ELSE LET colon == CHOOSE k \in Where(text, ":") : \A j \in Where(text, ":") : k <= j
             buf == [Append(text, NUL) EXCEPT ![colon] = NUL]
         IN  IF buf[1] # "[" THEN [rc |-> 0, addr |-> CString(buf, 1), port |-> CString(buf, colon + 1)]
             ELSE IF buf[colon - 1] # "]" THEN [rc |-> EINVAL, addr |-> <<>>, port |-> <<>>]
             ELSE [rc |-> 0, addr |-> CString([buf EXCEPT ![colon - 1] = NUL], 2),
                   port |-> CString(buf, colon + 1)]

\* The last colon ends the address and starts the port (tport); a bracketed
\* address must have its closing bracket right before it, at tport[-2].
Split(text) ==
    IF Where(text, ":") = {} THEN [rc |-> EINVAL, addr |-> <<>>, port |-> <<>>]
    ELSE LET colon == Highest(Where(text, ":"))
             buf == [Append(text, NUL) EXCEPT ![colon] = NUL]
         IN  IF buf[1] # "[" THEN [rc |-> 0, addr |-> CString(buf, 1), port |-> CString(buf, colon + 1)]
             ELSE IF buf[colon - 1] # "]" THEN [rc |-> EINVAL, addr |-> <<>>, port |-> <<>>]
             ELSE [rc |-> 0, addr |-> CString([buf EXCEPT ![colon - 1] = NUL], 2),
                   port |-> CString(buf, colon + 1)]

\* getaddrinfo: an empty name or one that starts with a bracket never resolves,
\* any other may fail or give an address of a family the hint allows.
getaddrinfo(addr, atype) ==
    {"fails"} \cup (IF addr = <<>> \/ addr[1] \in {"[", "]"} THEN {}
                    ELSE IF atype = any THEN Families ELSE {atype})

\* The outcomes of one call: the result, and the family stored on success.
to_addr_port(text, atype) ==
    IF Split(text).rc # 0 THEN {[rc |-> EINVAL, family |-> "none"]}
    ELSE {IF g = "fails" THEN [rc |-> EADDRNOTAVAIL, family |-> "none"] ELSE [rc |-> 0, family |-> g] :
             g \in getaddrinfo(Split(text).addr, atype)}
============================================================================
