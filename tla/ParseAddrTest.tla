--------------------------- MODULE ParseAddrTest ---------------------------
(***************************************************************************)
(* The test program of parse_addr.c: every host of the command line is     *)
(* given to to_addr_port, failures are reported and the loop goes on.      *)
(***************************************************************************)
EXTENDS AddrPort

CONSTANTS Chars,     \* the characters of a text
          HostLists  \* the lists of hosts given on a command line, texts over Chars

VARIABLES pc, mode, hosts, atype, i, ret,
          lines      \* what was printed for each host: "NONE" or a family

vars == <<pc, mode, hosts, atype, i, ret, lines>>

Modes == {"4", "6", "a", "other", "missing"}

\* The first letter of argv[1], and the arguments after it.
Init ==
    /\ pc = "start" /\ atype = "none" /\ i = 1 /\ ret = "none" /\ lines = <<>>
    /\ mode \in Modes
    /\ hosts \in (IF mode = "missing" THEN {<<>>} ELSE HostLists)

Usage ==
    /\ pc = "start" /\ mode \in {"other", "missing"}
    /\ pc' = "exit" /\ ret' = "failure" /\ UNCHANGED <<mode, hosts, atype, i, lines>>

Start ==
    /\ pc = "start" /\ mode \notin {"other", "missing"}
    /\ atype' = IF mode = "4" THEN "v4" ELSE IF mode = "6" THEN "v6" ELSE any
    /\ ret' = "success" /\ pc' = "loop" /\ UNCHANGED <<mode, hosts, i, lines>>

\* A text that is refused or does not resolve: its line, and on to the next.
Failure(r) ==
    /\ r.rc # 0 /\ lines' = Append(lines, "NONE") /\ ret' = "failure" /\ pc' = pc

Success(r) ==
    /\ r.rc = 0 /\ lines' = Append(lines, r.family) /\ pc' = pc /\ UNCHANGED ret

Host ==
    /\ pc = "loop" /\ i <= Len(hosts)
    /\ \E r \in to_addr_port(hosts[i], atype) : Failure(r) \/ Success(r)
    /\ i' = i + 1 /\ UNCHANGED <<mode, hosts, atype>>

Done ==
    /\ pc = "loop" /\ i > Len(hosts)
    /\ pc' = "exit" /\ UNCHANGED <<mode, hosts, atype, i, ret, lines>>

Next == Usage \/ Start \/ Host \/ Done

Spec == Init /\ [][Next]_vars

----------------------------------------------------------------------------
Concat3(a, b, c) == a \o b \o c

\* What "address:port" and "[address]:port" mean, read off the text without an
\* index: the port holds no colon, a bare address starts with no bracket.
Denotes(text) ==
    LET Piece == {SubSeq(text, a, b) : a \in 1 .. Len(text) + 1, b \in 0 .. Len(text)}
    IN  {m \in [addr : Piece, port : Piece] :
            /\ Where(m.port, ":") = {}
            /\ \/ Concat3(m.addr, <<":">>, m.port) = text /\ text[1] # "["
               \/ Concat3(<<"[">> \o m.addr, <<"]", ":">>, m.port) = text}

\* to_addr_port takes exactly the texts of one of the two forms, and splits them
\* at the one place the form allows, never looking before the start of the text.
SplitIsTheForm == \A k \in DOMAIN hosts :
    LET s == Split(hosts[k])
    IN  Denotes(hosts[k]) = IF s.rc = 0 THEN {[addr |-> s.addr, port |-> s.port]} ELSE {}

\* Every host of the command line gets its line, whatever became of those before
\* it, unless the usage message ended the program.
EveryHostReported == pc = "exit" /\ atype # "none" => Len(lines) = Len(hosts)

\* The exit status is a success only if every host was resolved, to a family the
\* mode asked for.
ExitTells == pc = "exit" /\ ret = "success" =>
    \A k \in DOMAIN lines : lines[k] \in (IF atype = any THEN Families ELSE {atype})

\* The parser and its test program, in one.
AddressesParsed == SplitIsTheForm /\ EveryHostReported /\ ExitTells
============================================================================
