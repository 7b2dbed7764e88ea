------------------------------- MODULE Setup -------------------------------
(***************************************************************************)
(* The start of twd: process_options, finish_setup and main of twd.c over  *)
(* to_addr_port of parse_addr.c and the names of dscp.c.  A command line   *)
(* is a sequence of words; a word with no meaning of its own here is a     *)
(* text without a colon.  Memory read or written outside its object makes  *)
(* the outcome "undefined".                                                *)
(***************************************************************************)
EXTENDS AddrPort, DscpNames

CONSTANTS Lines,      \* the command lines: sequences of words
          Unknown,    \* the dashed words in which getopt_long finds no option
          Bare,       \* the words that do not begin with a dash, and the lone dash
          Numeral,    \* the words that are numbers, with their values
          UintRange   \* the number of uint32_t values: any above an octet's will do

ASSUME LinesAssumption == \A line \in Lines : line \in Seq(STRING)
ASSUME NumeralAssumption ==
    /\ Numeral = [w \in DOMAIN Numeral |-> Numeral[w]] /\ \A w \in DOMAIN Numeral : Numeral[w] \in Int
    /\ "1" \in DOMAIN Numeral /\ Numeral["1"] = 1
ASSUME UintAssumption == UintRange \in Nat /\ UintRange >= 256

VARIABLES
    pc,              \* the function the program is in, or how it ended
    argv,            \* the words after the program's name
    next,            \* the word getopt_long looks at next
    operands,        \* the words it has moved behind the options
    used,            \* how many it has taken: optind - 1 in the end
    o,               \* the options
    report,          \* what print_enabled_options printed: none or one record
    capacity,        \* entries allocated for g_hosts
    g_hosts,         \* the families stored in it
    printed,         \* the lines main printed
    stdin            \* what getsockname finds on STDIN_FILENO

vars == <<pc, argv, next, operands, used, o, report, capacity, g_hosts, printed, stdin>>
scan == <<argv, next, operands, used>>
table == <<report, capacity, g_hosts, printed, stdin>>

\* QSTRING and long_options: words with the letter each stands for, without and
\* with an argument.  --server takes an argument and -S takes none; -r, -d, -E,
\* -@, -Q and -B are no short options.
no_argument == {
    <<"-S", "S">>, <<"-h", "h">>, <<"-?", "?">>, <<"-P", "P">>, <<"-v", "v">>, <<"-1", "1">>,
    <<"-2", "2">>, <<"-3", "3">>, <<"-4", "4">>, <<"-6", "6">>, <<"-F", "F">>, <<"-e", "e">>,
    <<"-C", "C">>, <<"-T", "T">>, <<"-t", "t">>,
    <<"--help", "h">>, <<"--random-data", "r">>, <<"--passfail", "P">>, <<"--verbose", "v">>,
    <<"--dontfork", "F">>, <<"--up", "1">>, <<"--down", "2">>, <<"--bidir", "3">>,
    <<"--ipv4", "4">>, <<"--ipv6", "6">>, <<"--ecn", "e">>, <<"--test", "t">>,
    <<"--test-ecn", "E">>, <<"--test-diffserv", "C">>, <<"--test-self", "@">>,
    <<"--test-fq", "Q">>, <<"--test-bw", "B">>, <<"--test-all", "T">>}

required_argument == {
    <<"-i", "i">>, <<"-D", "D">>, <<"-s", "s">>, <<"-l", "l">>, <<"-L", "L">>, <<"-o", "o">>,
    <<"-m", "m">>, <<"-w", "w">>,
    <<"--debug", "D">>, <<"--interval", "i">>, <<"--output", "o">>, <<"--write", "w">>,
    <<"--size", "s">>, <<"--length", "l">>, <<"--logdir", "L">>, <<"--server", "S">>,
    <<"--diffserv", "d">>}

WordsOf(t) == {e[1] : e \in t}
Known == WordsOf(no_argument) \cup WordsOf(required_argument) \cup {"--"}
Dashed == Known \cup Unknown

\* A dash before words of neither table makes no operand of them.  Options joined
\* in a word (-13), glued to an argument (-D1, --debug=1) or cut short (--bid) stand
\* in no line.
ASSUME WordsAssumption ==
    /\ Unknown \cap Known = {} /\ Bare \cap Dashed = {}
    /\ \A line \in Lines : \A k \in DOMAIN line : line[k] \in Dashed \cup Bare

\* Other words: addresses, and what strtoul and parse_ipqos make of a word.
Text(w) == IF w = "x:x" THEN <<"x", ":", "x">>
           ELSE IF w = "[x]:x" THEN <<"[", "x", "]", ":", "x">>
           ELSE IF w = "[x:x" THEN <<"[", "x", ":", "x">> ELSE <<"x">>
ToUnsigned(v) == v % UintRange
ToSigned(u) == IF u >= UintRange \div 2 THEN u - UintRange ELSE u
strtoul(w) == IF w \in DOMAIN Numeral THEN ToUnsigned(Numeral[w]) ELSE 0
QosText(w) == IF w \in DOMAIN Numeral THEN Number(Numeral[w]) ELSE Word(w)

NULL == "NULL"
output_type == {<<"plain", 0>>, <<"csv", 1>>, <<"json", 2>>}

\* default_options after the memset; length in seconds here.
Defaults == [flags |-> {}, debug |-> 0, interval |-> 2500000, packet_size |-> 48,
             length |-> 30, logdir |-> NULL, filename |-> NULL, format |-> 0, diffserv |-> 0]

Init ==
    /\ pc = "options" /\ next = 1 /\ operands = <<>> /\ used = 0 /\ o = Defaults
    /\ argv \in Lines
    /\ report = <<>> /\ capacity = 0 /\ g_hosts = <<>> /\ printed = <<>>
    /\ stdin \in Families \cup {"unix", "no socket"}

----------------------------------------------------------------------------
(* process_options *)

Flags == {
    <<"S", "server">>, <<"F", "dontfork">>, <<"P", "passfail">>, <<"v", "verbose">>, <<"1", "up">>,
    <<"2", "dn">>, <<"3", "up">>, <<"3", "dn">>, <<"4", "ipv4">>, <<"6", "ipv6">>,
    <<"@", "test_self">>, <<"t", "test_owd">>, <<"E", "test_ecn">>, <<"C", "test_diffserv">>,
    <<"T", "test_all">>, <<"Q", "test_fq">>, <<"B", "test_bw">>, <<"e", "ecn">>}
FlagsOf(c) == {e[2] : e \in {x \in Flags : x[1] = c}}

Mutant_SetReplaces(c, optarg) ==
    \/ c \in WordsOf(Flags) /\ o' = [o EXCEPT !.flags = FlagsOf(c)]
    \/ c = "D" /\ o' = [o EXCEPT !.debug = strtoul(optarg)]

\* The switch: what the letters store.  ('o' is below: its loop has no end.)
Set(c, optarg) ==
    \/ c \in WordsOf(Flags) /\ o' = [o EXCEPT !.flags = @ \cup FlagsOf(c)]
    \/ c = "D" /\ o' = [o EXCEPT !.debug = strtoul(optarg)]
    \/ c = "i" /\ o' = [o EXCEPT !.interval = strtoul(optarg)]
    \/ c = "s" /\ o' = [o EXCEPT !.packet_size = strtoul(optarg)]
    \/ c = "l" /\ o' = [o EXCEPT !.length = strtoul(optarg)]
    \/ c = "L" /\ o' = [o EXCEPT !.logdir = optarg]
    \/ c = "w" /\ o' = [o EXCEPT !.filename = optarg]
    \/ c = "d" /\ o' = [o EXCEPT !.diffserv = ToUnsigned(parse_ipqos(QosText(optarg)))]

\* The loop over output_type runs past its last entry, which no NULL follows: it
\* ends by luck, or it follows a pointer that is none.
Output(optarg) ==
    \/ \E e \in output_type : optarg = e[1] /\ o' = [o EXCEPT !.format = e[2]] /\ pc' = pc
    \/ optarg \notin WordsOf(output_type) /\ UNCHANGED <<o, pc>>
    \/ pc' = "undefined" /\ UNCHANGED o

\* The next option getopt_long comes to is word k, after passing over others.
Option(k) ==
    /\ pc = "options" /\ k >= next /\ argv[k] \in Dashed
    /\ \A j \in next .. k - 1 : argv[j] \notin Dashed
Passed(k) == operands \o SubSeq(argv, next, k - 1)

Plain == \E k \in DOMAIN argv, e \in no_argument :
    /\ Option(k) /\ argv[k] = e[1]
    /\ next' = k + 1 /\ operands' = Passed(k) /\ used' = used + 1
    /\ Set(e[2], NULL) /\ UNCHANGED <<pc, argv, table>>

WithArgument == \E k \in DOMAIN argv, e \in required_argument :
    /\ Option(k) /\ argv[k] = e[1] /\ k < Len(argv)
    /\ next' = k + 2 /\ operands' = Passed(k) /\ used' = used + 2
    /\ \/ Set(e[2], argv[k + 1]) /\ pc' = pc
       \/ e[2] = "o" /\ Output(argv[k + 1])
    /\ UNCHANGED <<argv, table>>

\* 'h', '?', a missing argument, an unknown word, and the letters the switch has
\* no case for.
usage == \E k \in DOMAIN argv :
    /\ Option(k)
    /\ \/ \E e \in no_argument : argv[k] = e[1] /\ e[2] \notin WordsOf(Flags)
       \/ argv[k] \in WordsOf(required_argument) /\ (k = Len(argv) \/ argv[k] = "-m")
       \/ argv[k] \in Unknown
    /\ pc' = "usage" /\ UNCHANGED <<scan, o, table>>

\* "--", or no option left: optind is 1 + used.
EndOptions ==
    /\ \/ /\ pc = "options" /\ \A j \in next .. Len(argv) : argv[j] \notin Dashed
          /\ operands' = operands \o SubSeq(argv, next, Len(argv)) /\ used' = used
       \/ \E k \in DOMAIN argv :
             /\ Option(k) /\ argv[k] = "--" /\ used' = used + 1
             /\ operands' = Passed(k) \o SubSeq(argv, k + 1, Len(argv))
    /\ next' = Len(argv) + 1 /\ pc' = "finish" /\ UNCHANGED <<argv, o, table>>

----------------------------------------------------------------------------
(* finish_setup, main *)

NeedAddress ==
    /\ pc = "finish" /\ operands = <<>> /\ "server" \notin o.flags
    /\ pc' = "failed" /\ UNCHANGED <<scan, o, table>>

NoMemory ==
    /\ pc = "finish" /\ (operands # <<>> \/ "server" \in o.flags)
    /\ pc' = "failed" /\ UNCHANGED <<scan, o, table>>

\* No address: the socket on standard input, if it is one.
Inetd ==
    /\ pc = "finish" /\ operands = <<>> /\ "server" \in o.flags /\ capacity' = 1
    /\ \/ stdin = "no socket" /\ pc' = "failed" /\ UNCHANGED <<g_hosts, o>>
       \/ /\ stdin # "no socket" /\ pc' = "report"
          /\ g_hosts' = <<stdin>> /\ o' = [o EXCEPT !.flags = @ \cup {"inetd"}]
    /\ UNCHANGED <<scan, report, printed, stdin>>

Mutant_AllocateShort ==
    /\ pc = "finish" /\ operands # <<>>
    /\ capacity' = used /\ pc' = "hosts" /\ UNCHANGED <<scan, o, report, g_hosts, printed, stdin>>

\* calloc(idx, ...): the index of the first address, not the number of them.
Allocate ==
    /\ pc = "finish" /\ operands # <<>>
    /\ capacity' = 1 + used /\ pc' = "hosts" /\ UNCHANGED <<scan, o, report, g_hosts, printed, stdin>>

StoreHost ==
    /\ pc = "hosts" /\ Len(g_hosts) < Len(operands)
    /\ \E r \in to_addr_port(Text(operands[Len(g_hosts) + 1]), any) :
          \/ r.rc # 0 /\ pc' = "failed" /\ UNCHANGED g_hosts
          \/ r.rc = 0 /\ Len(g_hosts) < capacity /\ g_hosts' = Append(g_hosts, r.family) /\ pc' = pc
          \/ r.rc = 0 /\ Len(g_hosts) >= capacity /\ pc' = "undefined" /\ UNCHANGED g_hosts
    /\ UNCHANGED <<scan, o, report, capacity, printed, stdin>>

HostsDone ==
    /\ pc = "hosts" /\ Len(g_hosts) = Len(operands)
    /\ pc' = "report" /\ UNCHANGED <<scan, o, table>>

\* print_enabled_options leaves out verbose; it is called when debugging.
print_enabled_options ==
    /\ pc = "report" /\ pc' = "main"
    /\ report' = IF o.debug = 0 THEN <<>>
                 ELSE <<[flags |-> o.flags \ {"verbose"}, dscp |-> iptos2str(ToSigned(o.diffserv))]>>
    /\ UNCHANGED <<scan, o, capacity, g_hosts, printed, stdin>>

PrintHost ==
    /\ pc = "main" /\ Len(printed) < Len(g_hosts)
    /\ LET family == g_hosts[Len(printed) + 1]
       IN  \/ family \in Families /\ printed' = Append(printed, family) /\ pc' = pc
           \/ family \notin Families /\ pc' = "aborted" /\ UNCHANGED printed
    /\ UNCHANGED <<scan, o, report, capacity, g_hosts, stdin>>

Exit ==
    /\ pc = "main" /\ Len(printed) = Len(g_hosts)
    /\ pc' = "success" /\ UNCHANGED <<scan, o, table>>

Next == \/ Plain \/ WithArgument \/ usage \/ EndOptions \/ NeedAddress \/ NoMemory \/ Inetd
        \/ Allocate \/ StoreHost \/ HostsDone \/ print_enabled_options \/ PrintHost \/ Exit

Spec == Init /\ [][Next]_vars

----------------------------------------------------------------------------
Given == {argv[k] : k \in DOMAIN argv}
Simple == /\ Given \cap (WordsOf(required_argument) \cup {"--"}) \subseteq {"-D"}
          /\ \A k \in DOMAIN argv : argv[k] = "-D" => k < Len(argv) /\ argv[k + 1] = "1"

\* Options and addresses may come in any order and options more than once: the
\* flags in force, and those reported when debugging, are in the end the ones some
\* word of the command line asks for.  (For command lines whose dashed words are
\* all read as options.)
FlagsAsGiven == Simple /\ pc = "success" /\ operands # <<>> =>
    LET flags == IF "-D" \in Given THEN report[1].flags ELSE o.flags
    IN  /\ "up" \in flags <=> {"-1", "-3", "--up", "--bidir"} \cap Given # {}
        /\ "dn" \in flags <=> {"-2", "-3", "--down", "--bidir"} \cap Given # {}
        /\ "server" \in flags <=> "-S" \in Given
        /\ "inetd" \notin flags

\* The program works on the socket of standard input only when there is one, it
\* was asked to serve, and no address was left on the command line.
InetdMeansSocket == "inetd" \in o.flags =>
    stdin # "no socket" /\ "server" \in o.flags /\ operands = <<>>

\* The assertion of main's switch fails only for an inherited socket of another
\* family: an address that did not resolve never reaches it.
AbortOnlyInherited == pc = "aborted" => stdin = "unix" /\ "inetd" \in o.flags

\* The host table, made with one entry more than there are words of options, is
\* written past its end only when there are more addresses than that, and a
\* start with more never succeeds.
OverrunNeedsHosts ==
    /\ pc = "undefined" => Len(operands) > 1 + used \/ {"-o", "--output"} \cap Given # {}
    /\ pc = "success" => Len(operands) <= 1 + used

\* What start-up may do with the socket of standard input, the assertion of main
\* and the host table, in one.
SetupSafe == InetdMeansSocket /\ AbortOnlyInherited /\ OverrunNeedsHosts

\* The type of service reported reads back, through the same table, to the value
\* in force, for every name and number the option takes; but a value above 64
\* (or a text that was refused) is reported as 0.
DscpReported == \A k \in DOMAIN report :
    parse_ipqos(report[k].dscp) = IF o.diffserv <= 64 THEN o.diffserv ELSE 0
============================================================================
