---------------------------- MODULE SetupProofs ----------------------------
(***************************************************************************)
(* What the start of twd promises, for every set of command lines, every   *)
(* meaning of the numerals and every width of uint32_t above an octet's.   *)
(***************************************************************************)
EXTENDS Setup, SequenceTheorems, TLAPS

----------------------------------------------------------------------------
(* The tables *)

LEMMA TableDomain == DOMAIN ipqos = 1 .. 24
  BY DEF ipqos

\* No name occurs twice, none is the text of a number, and every value is an octet's.
LEMMA TableNames == \A j, k \in 1 .. 24 : ipqos[j][1] = ipqos[k][1] => j = k
  BY DEF ipqos

LEMMA TableNoNumber == \A k \in 1 .. 24 : ipqos[k][1] # "number"
  BY DEF ipqos

LEMMA TableValues == \A k \in 1 .. 24 : ipqos[k][2] \in 0 .. 255
  BY DEF ipqos

LEMMA TableValuesDiffer == \A j, k \in 1 .. 24 : ipqos[j][2] = ipqos[k][2] => j = k
  BY DEF ipqos

\* A letter stands for one word, and no word stands in both tables.
LEMMA LettersOfWords == \A d, e \in no_argument : d[1] = e[1] => d[2] = e[2]
  BY DEF no_argument

LEMMA ArgumentsApart == \A d \in no_argument, e \in required_argument : d[1] # e[1] /\ d[1] # "--" /\ d[2] # "D"
  BY DEF no_argument, required_argument

LEMMA ArgumentLetters == \A e \in required_argument :
    /\ e[2] = "o" <=> e[1] \in {"-o", "--output"}
    /\ e[2] = "D" <=> e[1] \in {"-D", "--debug"}
  BY DEF required_argument

LEMMA NoInetdFlag == \A e \in Flags : e[2] # "inetd"
  BY DEF Flags

----------------------------------------------------------------------------
(* dscp.c *)

\* FirstEntry finds an entry when there is one.
LEMMA EntryFound ==
    ASSUME NEW c \in {1, 2}, NEW x
    PROVE  LET k == FirstEntry(c, x)
           IN  \/ k = 0 /\ \A j \in 1 .. 24 : ipqos[j][c] # x
               \/ k \in 1 .. 24 /\ ipqos[k][c] = x
<1> DEFINE hits == {k \in DOMAIN ipqos : ipqos[k][c] = x}
<1>1. \A j, k \in hits : j = k
  BY TableDomain, TableNames, TableValuesDiffer
<1>2. CASE hits = {}
  BY <1>2, TableDomain DEF FirstEntry
<1>3. CASE hits # {}
  <2>1. PICK k \in hits : TRUE
    BY <1>3
  <2>2. \A j \in hits : k <= j
    BY <1>1, TableDomain
  <2>3. FirstEntry(c, x) = CHOOSE m \in hits : \A j \in hits : m <= j
    BY <1>3 DEF FirstEntry
  <2>4. FirstEntry(c, x) \in hits
    BY <2>1, <2>2, <2>3
  <2> QED
    BY <2>4, TableDomain
<1> QED
  BY <1>2, <1>3

LEMMA ParseRange == ASSUME NEW w, NEW n \in Int
                    PROVE  parse_ipqos([word |-> w, num |-> n]) \in -1 .. 255
<1> DEFINE k == FirstEntry(1, w)
<1>1. k = 0 \/ (k \in 1 .. 24 /\ ipqos[k][2] \in 0 .. 255)
  BY EntryFound, TableValues
<1>2. parse_ipqos([word |-> w, num |-> n])
         = IF k # 0 THEN ipqos[k][2] ELSE IF n < 0 \/ n > 255 THEN -1 ELSE n
  BY DEF parse_ipqos
<1> HIDE DEF k
<1>3. CASE k # 0
  BY <1>1, <1>2, <1>3
<1>4. CASE k = 0
  BY <1>2, <1>4
<1> QED
  BY <1>3, <1>4

\* Reading back what iptos2str prints.
LEMMA RoundTrip ==
    ASSUME NEW v \in Int
    PROVE  parse_ipqos(iptos2str(v)) = IF v < 0 \/ v > 64 THEN 0 ELSE v
<1> DEFINE u == IF v < 0 \/ v > 64 THEN 0 ELSE v
           k == FirstEntry(2, u)
<1>1. u \in 0 .. 64
  OBVIOUS
<1>2. iptos2str(v) = IF k # 0 THEN Word(ipqos[k][1]) ELSE Number(u)
  BY DEF iptos2str
<1> HIDE DEF u
<1>3. k = 0 \/ (k \in 1 .. 24 /\ ipqos[k][2] = u)
  BY EntryFound
<1> HIDE DEF k
<1>4. CASE k # 0
  <2> DEFINE j == FirstEntry(1, ipqos[k][1])
  <2>1. k \in 1 .. 24 /\ ipqos[k][2] = u
    BY <1>3, <1>4
  <2>2. j \in 1 .. 24 /\ ipqos[j][1] = ipqos[k][1]
    BY <2>1, EntryFound
  <2>3. iptos2str(v).word = ipqos[k][1]
    BY <1>2, <1>4 DEF Word
  <2>4. parse_ipqos(iptos2str(v)) = IF j # 0 THEN ipqos[j][2]
            ELSE IF iptos2str(v).num < 0 \/ iptos2str(v).num > 255 THEN -1 ELSE iptos2str(v).num
    BY <2>3 DEF parse_ipqos
  <2> HIDE DEF j
  <2>5. j = k
    BY <2>1, <2>2, TableNames
  <2>6. j # 0
    BY <2>2
  <2>7. parse_ipqos(iptos2str(v)) = u
    BY <2>1, <2>4, <2>5, <2>6
  <2> QED
    BY <2>7 DEF u
<1>5. CASE k = 0
  <2>1. iptos2str(v).word = "number" /\ iptos2str(v).num = u
    BY <1>2, <1>5 DEF Number
  <2>2. FirstEntry(1, "number") = 0
    BY EntryFound, TableNoNumber
  <2>3. parse_ipqos(iptos2str(v)) = u
    BY <1>1, <2>1, <2>2 DEF parse_ipqos
  <2> QED
    BY <2>3 DEF u
<1> QED
  BY <1>4, <1>5

----------------------------------------------------------------------------
(* The options *)

Texts == STRING \cup {NULL}
AllFlags == {e[2] : e \in Flags} \cup {"inetd"}
OptionRecord == [flags : SUBSET AllFlags, debug : 0 .. UintRange - 1, interval : Nat,
                 packet_size : Nat, length : Nat, logdir : Texts,
                 filename : Texts, format : 0 .. 2, diffserv : 0 .. UintRange - 1]

LEMMA FlagsOfTyped == ASSUME NEW c PROVE FlagsOf(c) \subseteq AllFlags
  BY DEF FlagsOf, AllFlags

LEMMA NoFlags == ASSUME NEW c, c \notin WordsOf(Flags) PROVE FlagsOf(c) = {}
  BY DEF FlagsOf, WordsOf

LEMMA ArgumentLettersNoFlags == \A e \in required_argument : e[2] = "S" \/ e[2] \notin WordsOf(Flags)
  BY DEF required_argument, Flags, WordsOf

LEMMA SwitchLetters == "D" \notin WordsOf(Flags) /\ "i" \notin WordsOf(Flags) /\ "s" \notin WordsOf(Flags)
                       /\ "l" \notin WordsOf(Flags) /\ "L" \notin WordsOf(Flags)
                       /\ "w" \notin WordsOf(Flags) /\ "d" \notin WordsOf(Flags)
  BY DEF Flags, WordsOf

LEMMA UnsignedRange == ASSUME NEW v \in Int PROVE ToUnsigned(v) \in 0 .. UintRange - 1
<1>1. UintRange \in Nat /\ UintRange > 0
  BY UintAssumption
<1> QED
  BY <1>1 DEF ToUnsigned

LEMMA StrtoulRange == ASSUME NEW w PROVE strtoul(w) \in 0 .. UintRange - 1
<1>1. w \in DOMAIN Numeral => Numeral[w] \in Int
  BY NumeralAssumption
<1>2. 0 \in 0 .. UintRange - 1
  BY UintAssumption
<1> QED
  BY <1>1, <1>2, UnsignedRange DEF strtoul

LEMMA QosRange == ASSUME NEW w PROVE ToUnsigned(parse_ipqos(QosText(w))) \in 0 .. UintRange - 1
<1>1. CASE w \in DOMAIN Numeral
  <2>1. Numeral[w] \in Int
    BY <1>1, NumeralAssumption
  <2>2. parse_ipqos([word |-> "number", num |-> Numeral[w]]) \in -1 .. 255
    BY <2>1, ParseRange
  <2>3. QosText(w) = [word |-> "number", num |-> Numeral[w]]
    BY <1>1 DEF QosText, Number
  <2> QED
    BY <2>2, <2>3, UnsignedRange
<1>2. CASE w \notin DOMAIN Numeral
  <2>1. parse_ipqos([word |-> w, num |-> -1]) \in -1 .. 255
    BY ParseRange
  <2>2. QosText(w) = [word |-> w, num |-> -1]
    BY <1>2 DEF QosText, Word
  <2> QED
    BY <2>1, <2>2, UnsignedRange
<1> QED
  BY <1>1, <1>2

\* What one turn of the switch does to the options.
LEMMA SetEffect ==
    ASSUME o \in OptionRecord, NEW c, NEW w \in Texts, Set(c, w)
    PROVE  /\ o' \in OptionRecord
           /\ o'.flags = o.flags \cup FlagsOf(c)
           /\ o'.debug = IF c = "D" THEN strtoul(w) ELSE o.debug
<1>1. CASE c \in WordsOf(Flags) /\ o' = [o EXCEPT !.flags = @ \cup FlagsOf(c)]
  BY <1>1, FlagsOfTyped, SwitchLetters DEF OptionRecord
<1> DEFINE v == strtoul(w)
           q == ToUnsigned(parse_ipqos(QosText(w)))
<1>2. v \in 0 .. UintRange - 1 /\ q \in 0 .. UintRange - 1 /\ UintRange \in Nat
  BY StrtoulRange, QosRange, UintAssumption
<1>3. CASE c = "D" /\ o' = [o EXCEPT !.debug = v]
  <2> HIDE DEF v
  <2>1. o' \in OptionRecord /\ o'.flags = o.flags \cup FlagsOf(c) /\ o'.debug = v
    BY <1>2, <1>3, NoFlags, SwitchLetters DEF OptionRecord
  <2> QED
    BY <1>3, <2>1 DEF v
<1>4. CASE c = "i" /\ o' = [o EXCEPT !.interval = v]
  <2> HIDE DEF v
  <2> QED
    BY <1>2, <1>4, NoFlags, SwitchLetters DEF OptionRecord
<1>5. CASE c = "s" /\ o' = [o EXCEPT !.packet_size = v]
  <2> HIDE DEF v
  <2> QED
    BY <1>2, <1>5, NoFlags, SwitchLetters DEF OptionRecord
<1>6. CASE c = "l" /\ o' = [o EXCEPT !.length = v]
  <2> HIDE DEF v
  <2> QED
    BY <1>2, <1>6, NoFlags, SwitchLetters DEF OptionRecord
<1>7. CASE c = "L" /\ o' = [o EXCEPT !.logdir = w]
  BY <1>7, NoFlags, SwitchLetters DEF OptionRecord
<1>8. CASE c = "w" /\ o' = [o EXCEPT !.filename = w]
  BY <1>8, NoFlags, SwitchLetters DEF OptionRecord
<1>9. CASE c = "d" /\ o' = [o EXCEPT !.diffserv = q]
  <2> HIDE DEF q
  <2> QED
    BY <1>2, <1>9, NoFlags, SwitchLetters DEF OptionRecord
<1> QED
  BY <1>1, <1>3, <1>4, <1>5, <1>6, <1>7, <1>8, <1>9 DEF Set

LEMMA OutputEffect ==
    ASSUME o \in OptionRecord, NEW w, Output(w)
    PROVE  /\ o' \in OptionRecord /\ o'.flags = o.flags /\ o'.debug = o.debug
           /\ pc' = pc \/ pc' = "undefined"
<1>1. \A e \in output_type : e[2] \in 0 .. 2
  BY DEF output_type
<1>2. CASE \E e \in output_type : w = e[1] /\ o' = [o EXCEPT !.format = e[2]] /\ pc' = pc
  BY <1>1, <1>2 DEF OptionRecord
<1> QED
  BY <1>2 DEF Output

LEMMA DefaultsTyped == Defaults \in OptionRecord /\ Defaults.flags = {} /\ Defaults.debug = 0
<1>1. 0 \in 0 .. UintRange - 1
  BY UintAssumption
<1>2. NULL \in Texts
  BY DEF Texts
<1>3. ASSUME NEW F \in SUBSET AllFlags, NEW U, 0 \in U, NEW n \in Texts
      PROVE  [flags |-> F, debug |-> 0, interval |-> 2500000, packet_size |-> 48, length |-> 30,
              logdir |-> n, filename |-> n, format |-> 0, diffserv |-> 0]
             \in [flags : SUBSET AllFlags, debug : U, interval : Nat, packet_size : Nat, length : Nat,
                  logdir : Texts, filename : Texts, format : 0 .. 2, diffserv : U]
  BY <1>3, SMT
<1>4. Defaults \in OptionRecord
  BY <1>1, <1>2, <1>3, SMT DEF Defaults, OptionRecord
<1>5. Defaults.flags = {}
  BY SMT DEF Defaults
<1>6. Defaults.debug = 0
  BY SMT DEF Defaults
<1> QED
  BY <1>4, <1>5, <1>6

----------------------------------------------------------------------------
(* The inductive invariant *)

\* Types, and where the scan stands.
Types ==
    /\ argv \in Seq(STRING) /\ operands \in Seq(STRING) /\ used \in Nat
    /\ next \in 1 .. Len(argv) + 1
    /\ o \in OptionRecord
    /\ pc \notin {"options", "usage", "undefined"} => next = Len(argv) + 1

\* What fills the host table, and when it is left.
Hosts ==
    /\ stdin \in Families \cup {"unix", "no socket"}
    /\ pc \in {"options", "finish"} => g_hosts = <<>>
    /\ IF "inetd" \in o.flags
       THEN /\ pc \in {"report", "main", "aborted", "success"} /\ stdin # "no socket"
            /\ "server" \in o.flags /\ operands = <<>> /\ g_hosts = <<stdin>>
       ELSE g_hosts \in Seq(Families) /\ pc # "aborted"
    /\ pc = "hosts" => capacity = 1 + used /\ Len(g_hosts) <= capacity
    /\ pc \in {"report", "main", "success"} => Len(operands) <= 1 + used
    /\ pc = "undefined" => Len(operands) > 1 + used \/ {"-o", "--output"} \cap Given # {}
    /\ pc = "aborted" => stdin = "unix"
    /\ printed \in Seq(Families)

\* What was reported is still so.
Reported ==
    report = IF pc \in {"main", "aborted", "success"} /\ o.debug # 0
             THEN <<[flags |-> o.flags \ {"verbose"}, dscp |-> iptos2str(ToSigned(o.diffserv))]>>
             ELSE <<>>

\* The words passed have had their effect, and nothing else has.
Asked == Simple =>
    /\ \A k \in DOMAIN argv, e \in no_argument :
          k < next /\ argv[k] = e[1] => FlagsOf(e[2]) \subseteq o.flags
    /\ \A f \in o.flags : f = "inetd" \/ \E e \in no_argument : e[1] \in Given /\ f \in FlagsOf(e[2])
    /\ \A k \in DOMAIN argv : k < next /\ argv[k] = "-D" => o.debug # 0

SetupInv == Types /\ Hosts /\ Reported /\ Asked

LEMMA PassedTyped ==
    ASSUME Types, NEW k \in DOMAIN argv, k >= next
    PROVE  Passed(k) \in Seq(STRING) /\ Passed(k) \o SubSeq(argv, k + 1, Len(argv)) \in Seq(STRING)
<1>1. Len(argv) \in Nat /\ k \in 1 .. Len(argv)
  BY LenProperties DEF Types
<1>2. SubSeq(argv, next, k - 1) \in Seq(STRING)
  BY <1>1, SubSeqProperties DEF Types
<1>3. SubSeq(argv, k + 1, Len(argv)) \in Seq(STRING)
  BY <1>1, SubSeqProperties DEF Types
<1>4. operands \in Seq(STRING)
  BY DEF Types
<1>5. Passed(k) \in Seq(STRING)
  BY <1>2, <1>4, ConcatProperties DEF Passed
<1> QED
  BY <1>3, <1>5, ConcatProperties

LEMMA PlainEffect ==
    ASSUME Types, Plain
    PROVE  \E k \in DOMAIN argv, e \in no_argument :
              /\ Option(k) /\ argv[k] = e[1]
              /\ next' = k + 1 /\ operands' \in Seq(STRING) /\ used' \in Nat
              /\ o' \in OptionRecord /\ o'.flags = o.flags \cup FlagsOf(e[2]) /\ o'.debug = o.debug
              /\ pc = "options" /\ UNCHANGED <<pc, argv, table>>
<1>1. PICK k \in DOMAIN argv, e \in no_argument :
         /\ Option(k) /\ argv[k] = e[1]
         /\ next' = k + 1 /\ operands' = Passed(k) /\ used' = used + 1
         /\ Set(e[2], NULL) /\ UNCHANGED <<pc, argv, table>>
  BY DEF Plain
<1>2. pc = "options" /\ k >= next
  BY <1>1 DEF Option
<1>3. operands' \in Seq(STRING) /\ used' \in Nat
  BY <1>1, <1>2, PassedTyped DEF Types
<1>4. o \in OptionRecord /\ NULL \in Texts
  BY DEF Types, Texts
<1>5. o' \in OptionRecord /\ o'.flags = o.flags \cup FlagsOf(e[2])
      /\ o'.debug = IF e[2] = "D" THEN strtoul(NULL) ELSE o.debug
  BY <1>1, <1>4, SetEffect
<1>6. e[2] # "D"
  BY DEF no_argument
<1> QED
  BY <1>1, <1>2, <1>3, <1>5, <1>6

LEMMA ArgumentEffect ==
    ASSUME Types, WithArgument
    PROVE  \E k \in DOMAIN argv, e \in required_argument :
              /\ Option(k) /\ argv[k] = e[1] /\ k < Len(argv)
              /\ next' = k + 2 /\ operands' \in Seq(STRING) /\ used' \in Nat
              /\ o' \in OptionRecord /\ o'.flags = o.flags \cup FlagsOf(e[2])
              /\ o'.debug = IF e[2] = "D" THEN strtoul(argv[k + 1]) ELSE o.debug
              /\ pc = "options" /\ (pc' = pc \/ (pc' = "undefined" /\ argv[k] \in {"-o", "--output"}))
              /\ UNCHANGED <<argv, table>>
<1>1. PICK k \in DOMAIN argv, e \in required_argument :
         /\ Option(k) /\ argv[k] = e[1] /\ k < Len(argv)
         /\ next' = k + 2 /\ operands' = Passed(k) /\ used' = used + 2
         /\ \/ Set(e[2], argv[k + 1]) /\ pc' = pc
            \/ e[2] = "o" /\ Output(argv[k + 1])
         /\ UNCHANGED <<argv, table>>
  BY DEF WithArgument
<1>2. pc = "options" /\ k >= next
  BY <1>1 DEF Option
<1>3. operands' \in Seq(STRING) /\ used' \in Nat
  BY <1>1, <1>2, PassedTyped DEF Types
<1>4. argv[k + 1] \in Texts /\ o \in OptionRecord
  <2>1. k + 1 \in 1 .. Len(argv)
    BY <1>1, LenProperties DEF Types
  <2> QED
    BY <2>1, ElementOfSeq DEF Types, Texts
<1>5. PICK w \in Texts : w = argv[k + 1]
  BY <1>4
<1>6. CASE Set(e[2], w) /\ pc' = pc
  BY <1>1, <1>2, <1>3, <1>4, <1>5, <1>6, SetEffect
<1>7. CASE e[2] = "o" /\ Output(w)
  <2>1. /\ o' \in OptionRecord /\ o'.flags = o.flags /\ o'.debug = o.debug
        /\ pc' = pc \/ pc' = "undefined"
    BY <1>4, <1>7, OutputEffect
  <2>2. FlagsOf(e[2]) = {}
    BY <1>7 DEF FlagsOf, Flags
  <2>3. argv[k] \in {"-o", "--output"}
    BY <1>1, <1>7, ArgumentLetters
  <2> QED
    BY <1>1, <1>2, <1>3, <1>7, <2>1, <2>2, <2>3
<1> QED
  BY <1>1, <1>5, <1>6, <1>7

\* The other steps of the scan, in the same form.
LEMMA EndEffect ==
    ASSUME Types, EndOptions
    PROVE  /\ pc = "options" /\ pc' = "finish" /\ next' = Len(argv) + 1
           /\ operands' \in Seq(STRING) /\ used' \in Nat /\ UNCHANGED <<argv, o, table>>
           /\ \/ \A j \in next .. Len(argv) : argv[j] \notin Dashed
              \/ "--" \in Given
<1>1. CASE /\ pc = "options" /\ \A j \in next .. Len(argv) : argv[j] \notin Dashed
           /\ operands' = operands \o SubSeq(argv, next, Len(argv)) /\ used' = used
  <2>1. Len(argv) \in Nat /\ Len(argv) \in next - 1 .. Len(argv)
    BY LenProperties DEF Types
  <2>2. SubSeq(argv, next, Len(argv)) \in Seq(STRING)
    BY <2>1, SubSeqProperties DEF Types
  <2>3. operands' \in Seq(STRING)
    BY <1>1, <2>2, ConcatProperties DEF Types
  <2> QED
    BY <1>1, <2>3 DEF EndOptions, Types
<1>2. CASE \E k \in DOMAIN argv :
              /\ Option(k) /\ argv[k] = "--" /\ used' = used + 1
              /\ operands' = Passed(k) \o SubSeq(argv, k + 1, Len(argv))
  <2>1. PICK k \in DOMAIN argv :
              /\ Option(k) /\ argv[k] = "--" /\ used' = used + 1
              /\ operands' = Passed(k) \o SubSeq(argv, k + 1, Len(argv))
    BY <1>2
  <2>2. pc = "options" /\ k >= next
    BY <2>1 DEF Option
  <2>3. operands' \in Seq(STRING) /\ used' \in Nat
    BY <2>1, <2>2, PassedTyped DEF Types
  <2>4. "--" \in Given
    BY <2>1 DEF Given
  <2> QED
    BY <2>2, <2>3, <2>4 DEF EndOptions
<1> QED
  BY <1>1, <1>2 DEF EndOptions

LEMMA InetdEffect ==
    ASSUME Types, Inetd
    PROVE  /\ o' \in OptionRecord /\ o'.debug = o.debug
           /\ \/ pc' = "failed" /\ UNCHANGED <<g_hosts, o>>
              \/ /\ pc' = "report" /\ stdin # "no socket" /\ g_hosts' = <<stdin>>
                 /\ o'.flags = o.flags \cup {"inetd"}
<1>1. o \in OptionRecord
  BY DEF Types
<1>2. CASE pc' = "report" /\ stdin # "no socket" /\ g_hosts' = <<stdin>>
           /\ o' = [o EXCEPT !.flags = @ \cup {"inetd"}]
  <2>1. o' \in OptionRecord /\ o'.debug = o.debug /\ o'.flags = o.flags \cup {"inetd"}
    BY <1>1, <1>2 DEF OptionRecord, AllFlags
  <2> QED
    BY <1>2, <2>1
<1>3. CASE pc' = "failed" /\ UNCHANGED <<g_hosts, o>>
  BY <1>1, <1>3
<1> QED
  BY <1>2, <1>3 DEF Inetd

LEMMA TypesStep == ASSUME Types, [Next]_vars PROVE Types'
<1> USE DEF Types, scan, table
<1>0. Len(argv) \in Nat
  BY LenProperties
<1>1. CASE Plain
  <2>1. PICK k \in DOMAIN argv, e \in no_argument :
              /\ next' = k + 1 /\ operands' \in Seq(STRING) /\ used' \in Nat
              /\ o' \in OptionRecord /\ pc = "options" /\ UNCHANGED <<pc, argv>>
    BY <1>1, PlainEffect
  <2>2. k \in 1 .. Len(argv)
    BY LenProperties
  <2> QED
    BY <1>0, <2>1, <2>2
<1>2. CASE WithArgument
  <2>1. PICK k \in DOMAIN argv, e \in required_argument :
              /\ k < Len(argv) /\ next' = k + 2 /\ operands' \in Seq(STRING) /\ used' \in Nat
              /\ o' \in OptionRecord /\ pc = "options" /\ (pc' = pc \/ pc' = "undefined") /\ argv' = argv
    BY <1>2, ArgumentEffect
  <2>2. k \in 1 .. Len(argv)
    BY LenProperties
  <2> QED
    BY <1>0, <2>1, <2>2
<1>3. CASE usage
  BY <1>3 DEF usage
<1>4. CASE EndOptions
  BY <1>0, <1>4, EndEffect
<1>5. CASE NeedAddress
  BY <1>5 DEF NeedAddress
<1>6. CASE NoMemory
  BY <1>6 DEF NoMemory
<1>7. CASE Inetd
  BY <1>7, InetdEffect DEF Inetd
<1>8. CASE Allocate
  BY <1>8 DEF Allocate
<1>9. CASE StoreHost
  BY <1>9 DEF StoreHost
<1>10. CASE HostsDone
  BY <1>10 DEF HostsDone
<1>11. CASE print_enabled_options
  BY <1>11 DEF print_enabled_options
<1>12. CASE PrintHost
  BY <1>12 DEF PrintHost
<1>13. CASE Exit
  BY <1>13 DEF Exit
<1>14. CASE UNCHANGED vars
  BY <1>14 DEF vars
<1> QED
  BY <1>1, <1>2, <1>3, <1>4, <1>5, <1>6, <1>7, <1>8, <1>9, <1>10, <1>11, <1>12, <1>13, <1>14 DEF Next

LEMMA ReportedStep == ASSUME Types, Reported, [Next]_vars PROVE Reported'
<1> USE DEF Reported, scan, table
<1>1. CASE Plain
  <2>1. pc = "options" /\ pc' = "options" /\ report' = report
    BY <1>1, PlainEffect
  <2> QED
    BY <2>1
<1>2. CASE WithArgument
  <2>1. pc = "options" /\ pc' \in {"options", "undefined"} /\ report' = report
    BY <1>2, ArgumentEffect
  <2> QED
    BY <2>1
<1>3. CASE usage
  BY <1>3 DEF usage, Option
<1>4. CASE EndOptions
  BY <1>4, EndEffect
<1>5. CASE NeedAddress
  BY <1>5 DEF NeedAddress
<1>6. CASE NoMemory
  BY <1>6 DEF NoMemory
<1>7. CASE Inetd
  <2>1. pc = "finish" /\ pc' \in {"failed", "report"} /\ report' = report
    BY <1>7 DEF Inetd
  <2> QED
    BY <2>1
<1>8. CASE Allocate
  BY <1>8 DEF Allocate
<1>9. CASE StoreHost
  <2>1. pc = "hosts" /\ pc' \in {"failed", "hosts", "undefined"} /\ report' = report
    BY <1>9 DEF StoreHost
  <2> QED
    BY <2>1
<1>10. CASE HostsDone
  BY <1>10 DEF HostsDone
<1>11. CASE print_enabled_options
  BY <1>11 DEF print_enabled_options
<1>12. CASE PrintHost
  <2>1. pc = "main" /\ pc' \in {"main", "aborted"} /\ report' = report /\ o' = o
    BY <1>12 DEF PrintHost
  <2> QED
    BY <2>1
<1>13. CASE Exit
  BY <1>13 DEF Exit
<1>14. CASE UNCHANGED vars
  BY <1>14 DEF vars
<1> QED
  BY <1>1, <1>2, <1>3, <1>4, <1>5, <1>6, <1>7, <1>8, <1>9, <1>10, <1>11, <1>12, <1>13, <1>14 DEF Next

LEMMA ResolvedFamily == ASSUME NEW t, NEW r \in to_addr_port(t, any), r.rc = 0 PROVE r.family \in Families
<1>1. PICK g \in getaddrinfo(Split(t).addr, any) :
         r = IF g = "fails" THEN [rc |-> EADDRNOTAVAIL, family |-> "none"] ELSE [rc |-> 0, family |-> g]
  BY DEF to_addr_port, EINVAL
<1>2. g = "fails" \/ g \in Families
  BY DEF getaddrinfo
<1>3. g # "fails" /\ r.family = g
  BY <1>1 DEF EADDRNOTAVAIL
<1> QED
  BY <1>2, <1>3

LEMMA HostsStep == ASSUME Types, Hosts, [Next]_vars PROVE Hosts'
<1> USE DEF Hosts, scan, table
<1>0. Len(operands) \in Nat /\ used \in Nat /\ o \in OptionRecord
  BY LenProperties DEF Types
<1>1. CASE Plain
  <2>1. PICK k \in DOMAIN argv, e \in no_argument :
              /\ o'.flags = o.flags \cup FlagsOf(e[2]) /\ pc = "options" /\ UNCHANGED <<pc, argv, table>>
    BY <1>1, PlainEffect
  <2>2. "inetd" \notin o.flags
    BY <2>1
  <2>3. "inetd" \notin FlagsOf(e[2])
    BY NoInetdFlag DEF FlagsOf
  <2> QED
    BY <2>1, <2>2, <2>3
<1>2. CASE WithArgument
  <2>1. PICK k \in DOMAIN argv, e \in required_argument :
              /\ o'.flags = o.flags \cup FlagsOf(e[2]) /\ pc = "options"
              /\ (pc' = pc \/ (pc' = "undefined" /\ argv[k] \in {"-o", "--output"})) /\ UNCHANGED <<argv, table>>
    BY <1>2, ArgumentEffect
  <2>2. "inetd" \notin o.flags
    BY <2>1
  <2>3. "inetd" \notin FlagsOf(e[2])
    BY NoInetdFlag DEF FlagsOf
  <2>4. pc' = "undefined" => {"-o", "--output"} \cap Given' # {}
    BY <2>1 DEF Given
  <2> QED
    BY <2>1, <2>2, <2>3, <2>4
<1>3. CASE usage
  BY <1>3 DEF usage, Option
<1>4. CASE EndOptions
  BY <1>4, EndEffect
<1>5. CASE NeedAddress
  BY <1>5 DEF NeedAddress
<1>6. CASE NoMemory
  BY <1>6 DEF NoMemory
<1>7. CASE Inetd
  <2>1. /\ \/ pc' = "failed" /\ UNCHANGED <<g_hosts, o>>
           \/ /\ pc' = "report" /\ stdin # "no socket" /\ g_hosts' = <<stdin>>
              /\ o'.flags = o.flags \cup {"inetd"}
    BY <1>7, InetdEffect
  <2>2. pc = "finish" /\ operands = <<>> /\ "server" \in o.flags /\ UNCHANGED <<scan, printed, stdin>>
    BY <1>7 DEF Inetd
  <2>3. Len(<<>>) = 0
    OBVIOUS
  <2>4. CASE pc' = "failed"
    BY <2>1, <2>2, <2>4
  <2>5. CASE pc' = "report"
    <3>1. Len(operands') <= 1 + used'
      <4> HIDE DEF Hosts
      <4> QED
        BY <1>0, <2>2, <2>3
    <3>2. /\ "inetd" \in o'.flags /\ "server" \in o'.flags /\ operands' = <<>> /\ stdin' # "no socket"
          /\ g_hosts' = <<stdin'>> /\ stdin' = stdin /\ printed' = printed
      BY <2>1, <2>2, <2>5
    <3> QED
      BY <2>5, <3>1, <3>2
  <2> QED
    BY <2>1, <2>4, <2>5
<1>8. CASE Allocate
  <2>1. g_hosts = <<>> /\ "inetd" \notin o.flags
    BY <1>8 DEF Allocate
  <2>2. /\ pc' = "hosts" /\ capacity' = 1 + used /\ used' = used /\ g_hosts' = g_hosts /\ o' = o
        /\ printed' = printed /\ stdin' = stdin
    BY <1>8 DEF Allocate
  <2>3. Len(g_hosts') <= capacity'
    <3> HIDE DEF Hosts
    <3> QED
      BY <1>0, <2>1, <2>2
  <2> QED
    BY <2>1, <2>2, <2>3
<1>9. CASE StoreHost
  <2>1. /\ pc = "hosts" /\ Len(g_hosts) < Len(operands) /\ capacity = 1 + used
        /\ UNCHANGED <<scan, o, report, capacity, printed, stdin>>
    BY <1>9 DEF StoreHost
  <2>2. "inetd" \notin o.flags /\ g_hosts \in Seq(Families) /\ Len(g_hosts) \in Nat
    BY <2>1, LenProperties
  <2>3. PICK r \in to_addr_port(Text(operands[Len(g_hosts) + 1]), any) :
          \/ r.rc # 0 /\ pc' = "failed" /\ UNCHANGED g_hosts
          \/ r.rc = 0 /\ Len(g_hosts) < capacity /\ g_hosts' = Append(g_hosts, r.family) /\ pc' = pc
          \/ r.rc = 0 /\ Len(g_hosts) >= capacity /\ pc' = "undefined" /\ UNCHANGED g_hosts
    BY <1>9 DEF StoreHost
  <2>4. CASE pc' = "failed" /\ UNCHANGED g_hosts
    BY <2>1, <2>2, <2>4
  <2>5. CASE r.rc = 0 /\ Len(g_hosts) < capacity /\ g_hosts' = Append(g_hosts, r.family) /\ pc' = pc
    <3>1. r.family \in Families
      BY <2>5, ResolvedFamily
    <3>2. g_hosts' \in Seq(Families) /\ Len(g_hosts') = Len(g_hosts) + 1
      <4> HIDE DEF Hosts
      <4> QED
        BY <2>2, <2>5, <3>1, AppendProperties
    <3>3. Len(g_hosts') <= capacity'
      <4> HIDE DEF Hosts
      <4> QED
        BY <1>0, <2>1, <2>2, <2>5, <3>2
    <3> QED
      BY <2>1, <2>2, <2>5, <3>2, <3>3
  <2>6. CASE Len(g_hosts) >= capacity /\ pc' = "undefined" /\ UNCHANGED g_hosts
    <3>1. Len(operands) > 1 + used
      <4> HIDE DEF Hosts
      <4> QED
        BY <1>0, <2>1, <2>2, <2>6
    <3> QED
      BY <2>1, <2>2, <2>6, <3>1
  <2> QED
    BY <2>3, <2>4, <2>5, <2>6
<1>10. CASE HostsDone
  <2>1. Len(g_hosts) = Len(operands) /\ capacity = 1 + used /\ Len(g_hosts) <= capacity
    BY <1>10 DEF HostsDone
  <2> QED
    BY <1>10, <2>1 DEF HostsDone
<1>11. CASE print_enabled_options
  BY <1>11 DEF print_enabled_options
<1>12. CASE PrintHost
  <2> DEFINE n == Len(printed) + 1
  <2>1. /\ pc = "main" /\ Len(printed) < Len(g_hosts)
        /\ \/ g_hosts[n] \in Families /\ printed' = Append(printed, g_hosts[n]) /\ pc' = pc
           \/ g_hosts[n] \notin Families /\ pc' = "aborted" /\ UNCHANGED printed
        /\ UNCHANGED <<scan, o, report, capacity, g_hosts, stdin>>
    BY <1>12 DEF PrintHost
  <2>2. Len(printed) \in Nat
    BY LenProperties
  <2>3. CASE g_hosts[n] \in Families /\ printed' = Append(printed, g_hosts[n]) /\ pc' = pc
    <3>1. printed' \in Seq(Families)
      BY <2>3, AppendProperties
    <3> QED
      BY <2>1, <2>3, <3>1
  <2>4. CASE g_hosts[n] \notin Families /\ pc' = "aborted" /\ UNCHANGED printed
    <3>1. CASE "inetd" \notin o.flags
      <4>1. g_hosts \in Seq(Families)
        BY <3>1
      <4>2. n \in 1 .. Len(g_hosts)
        <5> HIDE DEF Hosts
        <5> QED
          BY <2>1, <2>2, <4>1, LenProperties
      <4> QED
        BY <2>4, <4>1, <4>2, ElementOfSeq
    <3>2. CASE "inetd" \in o.flags
      <4>1. g_hosts = <<stdin>>
        BY <3>2
      <4>2. n = 1
        <5> HIDE DEF Hosts
        <5> QED
          BY <2>1, <2>2, <4>1
      <4>3. stdin \notin Families
        <5> HIDE DEF Hosts, n
        <5> QED
          BY <2>4, <4>1, <4>2
      <4> QED
        BY <2>1, <2>4, <3>2, <4>3
    <3> QED
      BY <3>1, <3>2
  <2> QED
    BY <2>1, <2>3, <2>4
<1>13. CASE Exit
  BY <1>13 DEF Exit
<1>14. CASE UNCHANGED vars
  BY <1>14 DEF vars, Given
<1> QED
  BY <1>1, <1>2, <1>3, <1>4, <1>5, <1>6, <1>7, <1>8, <1>9, <1>10, <1>11, <1>12, <1>13, <1>14 DEF Next

\* The argument of -D in a simple line: a number, and no option.
LEMMA DebugArgument == strtoul("1") # 0 /\ \A e \in no_argument : e[1] # "1"
<1>1. UintRange \in Nat /\ UintRange >= 256 /\ "1" \in DOMAIN Numeral /\ Numeral["1"] = 1
  BY UintAssumption, NumeralAssumption
<1>2. 1 % UintRange = 1
  BY <1>1
<1>3. strtoul("1") = 1
  BY <1>1, <1>2 DEF strtoul, ToUnsigned
<1>4. \A e \in no_argument : e[1] # "1"
  BY DEF no_argument
<1> QED
  BY <1>3, <1>4

\* A step that reads no word and at most adds inetd keeps what was asked for.
LEMMA AskedKept ==
    ASSUME Asked, argv' = argv, next' = next, o'.debug = o.debug,
           o'.flags = o.flags \/ o'.flags = o.flags \cup {"inetd"}
    PROVE  Asked'
  BY DEF Asked, Simple, Given

\* A step that reads word k, or words k and k + 1, or no word any more.
LEMMA AskedScanned ==
    ASSUME Types, Asked, argv' = argv, NEW k \in Nat, NEW n \in Nat, next' = n, k >= next,
           o.flags \subseteq o'.flags,
           Simple => \A j \in next .. k - 1 : argv[j] \notin Dashed,
           Simple => \A j \in k .. n - 1 : \A e \in no_argument :
                        argv[j] = e[1] => FlagsOf(e[2]) \subseteq o'.flags,
           Simple => \A f \in o'.flags \ o.flags : \E e \in no_argument :
                        e[1] \in Given /\ f \in FlagsOf(e[2]),
           Simple => \A j \in k .. n - 1 : argv[j] = "-D" => o'.debug # 0,
           Simple => (o.debug # 0 => o'.debug # 0)
    PROVE  Asked'
<1> SUFFICES ASSUME Simple
             PROVE  /\ \A j \in DOMAIN argv, e \in no_argument :
                          j < n /\ argv[j] = e[1] => FlagsOf(e[2]) \subseteq o'.flags
                    /\ \A f \in o'.flags : f = "inetd" \/ \E e \in no_argument :
                          e[1] \in Given /\ f \in FlagsOf(e[2])
                    /\ \A j \in DOMAIN argv : j < n /\ argv[j] = "-D" => o'.debug # 0
  BY DEF Asked, Simple, Given
<1>1. /\ \A j \in DOMAIN argv, e \in no_argument :
            j < next /\ argv[j] = e[1] => FlagsOf(e[2]) \subseteq o.flags
      /\ \A f \in o.flags : f = "inetd" \/ \E e \in no_argument : e[1] \in Given /\ f \in FlagsOf(e[2])
      /\ \A j \in DOMAIN argv : j < next /\ argv[j] = "-D" => o.debug # 0
  BY DEF Asked
<1>2. \A e \in no_argument : e[1] \in Dashed
  BY DEF Dashed, Known, WordsOf
<1>3. "-D" \in Dashed
  BY DEF Dashed, Known, WordsOf, required_argument
<1>4. next \in Nat /\ \A j \in DOMAIN argv : j \in Nat
  BY LenProperties DEF Types
<1>5. ASSUME NEW j \in DOMAIN argv, j < n
      PROVE  j < next \/ j \in next .. k - 1 \/ j \in k .. n - 1
  BY <1>4, <1>5
<1>6. ASSUME NEW j \in DOMAIN argv, NEW e \in no_argument, j < n, argv[j] = e[1]
      PROVE  FlagsOf(e[2]) \subseteq o'.flags
  BY <1>1, <1>2, <1>5, <1>6
<1>7. ASSUME NEW j \in DOMAIN argv, j < n, argv[j] = "-D"
      PROVE  o'.debug # 0
  BY <1>1, <1>3, <1>5, <1>7
<1> QED
  BY <1>1, <1>6, <1>7

LEMMA AskedStep == ASSUME Types, Hosts, Asked, [Next]_vars PROVE Asked'
<1> USE DEF scan, table
<1>0. /\ Len(argv) \in Nat /\ next \in Nat /\ next <= Len(argv) + 1
      /\ \A j \in DOMAIN argv : j \in 1 .. Len(argv)
  BY LenProperties DEF Types
<1>1. CASE Plain
  <2>1. PICK k \in DOMAIN argv, e \in no_argument :
              /\ Option(k) /\ argv[k] = e[1] /\ next' = k + 1
              /\ o'.flags = o.flags \cup FlagsOf(e[2]) /\ o'.debug = o.debug /\ argv' = argv
    BY <1>1, PlainEffect
  <2>2. PICK n \in Nat : n = k + 1 /\ k \in Nat
    BY <1>0
  <2>3. k >= next /\ \A j \in next .. k - 1 : argv[j] \notin Dashed
    BY <2>1 DEF Option
  <2>4. \A j \in k .. n - 1 : j = k
    BY <2>2
  <2>5. \A j \in k .. n - 1 : \A d \in no_argument : argv[j] = d[1] => FlagsOf(d[2]) \subseteq o'.flags
    <3>1. ASSUME NEW d \in no_argument, argv[k] = d[1] PROVE d[2] = e[2]
      BY <2>1, <3>1, LettersOfWords
    <3>2. \A d \in no_argument : argv[k] = d[1] => FlagsOf(d[2]) \subseteq o'.flags
      BY <2>1, <3>1
    <3> QED
      BY <2>4, <3>2
  <2>6. \A f \in o'.flags \ o.flags : e[1] \in Given /\ f \in FlagsOf(e[2])
    BY <2>1 DEF Given
  <2>7. argv[k] # "-D"
    BY <2>1 DEF no_argument
  <2>8. \A f \in o'.flags \ o.flags : \E d \in no_argument : d[1] \in Given /\ f \in FlagsOf(d[2])
    BY <2>6
  <2>9. \A j \in k .. n - 1 : argv[j] = "-D" => o'.debug # 0
    BY <2>4, <2>7
  <2>10. next' = n /\ o.flags \subseteq o'.flags
    BY <2>1, <2>2
  <2> QED
    BY <2>1, <2>2, <2>3, <2>5, <2>8, <2>9, <2>10, AskedScanned
<1>2. CASE WithArgument
  <2>1. PICK k \in DOMAIN argv, e \in required_argument :
              /\ Option(k) /\ argv[k] = e[1] /\ k < Len(argv) /\ next' = k + 2
              /\ o'.flags = o.flags \cup FlagsOf(e[2])
              /\ o'.debug = IF e[2] = "D" THEN strtoul(argv[k + 1]) ELSE o.debug
              /\ argv' = argv
    BY <1>2, ArgumentEffect
  <2>2. PICK n \in Nat : n = k + 2 /\ k \in Nat
    BY <1>0
  <2>3. k >= next /\ \A j \in next .. k - 1 : argv[j] \notin Dashed
    BY <2>1 DEF Option
  <2>4. \A j \in k .. n - 1 : j = k \/ j = k + 1
    BY <2>2
  <2>5. ASSUME Simple
        PROVE  /\ argv[k] = "-D" /\ argv[k + 1] = "1" /\ e[2] = "D"
    <3>1. argv[k] \in Given \cap (WordsOf(required_argument) \cup {"--"})
      BY <2>1 DEF Given, WordsOf
    <3>2. argv[k] = "-D"
      BY <2>5, <3>1 DEF Simple
    <3> QED
      BY <2>1, <2>5, <3>2, ArgumentLetters DEF Simple
  <2>6. ASSUME Simple PROVE o'.flags = o.flags /\ o'.debug # 0
    <3>1. FlagsOf("D") = {}
      BY NoFlags, SwitchLetters
    <3> QED
      BY <2>1, <2>5, <2>6, <3>1, DebugArgument
  <2>7. Simple => \A j \in k .. n - 1 : \A d \in no_argument :
                     argv[j] = d[1] => FlagsOf(d[2]) \subseteq o'.flags
    <3>1. \A d \in no_argument : d[1] # "-D" /\ d[1] # "1"
      BY DebugArgument DEF no_argument
    <3> QED
      BY <2>4, <2>5, <3>1
  <2>8. next' = n /\ o.flags \subseteq o'.flags
    BY <2>1, <2>2
  <2> QED
    BY <2>1, <2>2, <2>3, <2>6, <2>7, <2>8, AskedScanned
<1>3. CASE usage
  BY <1>3, AskedKept DEF usage
<1>4. CASE EndOptions
  <2>1. PICK n \in Nat : n = Len(argv) + 1
    BY <1>0
  <2>2. /\ next' = n /\ argv' = argv /\ o' = o
        /\ \/ \A j \in next .. Len(argv) : argv[j] \notin Dashed
           \/ "--" \in Given
    BY <1>4, <2>1, EndEffect
  <2>3. Simple => \A j \in next .. n - 1 : argv[j] \notin Dashed
    <3>1. Simple => "--" \notin Given
      BY DEF Simple
    <3>2. n - 1 = Len(argv)
      BY <1>0, <2>1
    <3> QED
      BY <2>2, <3>1, <3>2
  <2>4. \A j \in n .. n - 1 : FALSE
    BY <2>1
  <2>5. n >= next
    BY <1>0, <2>1
  <2> QED
    BY <2>2, <2>3, <2>4, <2>5, AskedScanned
<1>5. CASE NeedAddress
  BY <1>5, AskedKept DEF NeedAddress
<1>6. CASE NoMemory
  BY <1>6, AskedKept DEF NoMemory
<1>7. CASE Inetd
  <2>1. o'.debug = o.debug /\ (o' = o \/ o'.flags = o.flags \cup {"inetd"})
    BY <1>7, InetdEffect
  <2>2. argv' = argv /\ next' = next
    BY <1>7 DEF Inetd
  <2> QED
    BY <2>1, <2>2, AskedKept
<1>8. CASE Allocate
  BY <1>8, AskedKept DEF Allocate
<1>9. CASE StoreHost
  BY <1>9, AskedKept DEF StoreHost
<1>10. CASE HostsDone
  BY <1>10, AskedKept DEF HostsDone
<1>11. CASE print_enabled_options
  BY <1>11, AskedKept DEF print_enabled_options
<1>12. CASE PrintHost
  BY <1>12, AskedKept DEF PrintHost
<1>13. CASE Exit
  BY <1>13, AskedKept DEF Exit
<1>14. CASE UNCHANGED vars
  BY <1>14, AskedKept DEF vars
<1> QED
  BY <1>1, <1>2, <1>3, <1>4, <1>5, <1>6, <1>7, <1>8, <1>9, <1>10, <1>11, <1>12, <1>13, <1>14 DEF Next

LEMMA SetupInit == Init => SetupInv
<1> SUFFICES ASSUME Init PROVE SetupInv
  OBVIOUS
<1>1. argv \in Seq(STRING)
  BY LinesAssumption DEF Init
<1>2. o \in OptionRecord /\ o.flags = {} /\ o.debug = 0
  BY DefaultsTyped DEF Init
<1>3. Types
  <2>1. next = 1 /\ Len(argv) \in Nat
    BY <1>1, LenProperties DEF Init
  <2>2. operands \in Seq(STRING) /\ used \in Nat /\ pc = "options"
    BY EmptySeq DEF Init
  <2> QED
    BY <1>1, <1>2, <2>1, <2>2 DEF Types
<1>4. Hosts
  <2>1. /\ pc = "options" /\ g_hosts = <<>> /\ printed = <<>>
        /\ stdin \in Families \cup {"unix", "no socket"}
    BY DEF Init
  <2>2. g_hosts \in Seq(Families) /\ printed \in Seq(Families)
    BY <2>1, EmptySeq
  <2>3. "inetd" \notin o.flags
    BY <1>2
  <2> QED
    BY <2>1, <2>2, <2>3 DEF Hosts
<1>5. Reported
  BY DEF Reported, Init
<1>6. Asked
  <2>1. \A k \in DOMAIN argv : k \in Nat /\ k >= 1
    BY <1>1, LenProperties
  <2>2. next = 1
    BY DEF Init
  <2> QED
    BY <1>2, <2>1, <2>2 DEF Asked
<1> QED
  BY <1>3, <1>4, <1>5, <1>6 DEF SetupInv

LEMMA SetupInvHolds == Spec => []SetupInv
<1>1. SetupInv /\ [Next]_vars => SetupInv'
  BY TypesStep, HostsStep, ReportedStep, AskedStep DEF SetupInv
<1> QED
  BY SetupInit, <1>1, PTL DEF Spec

----------------------------------------------------------------------------
(* The theorems *)

\* SetupSafe: standard input is worked on only when it is a socket, the program
\* serves and no address is given; main's assertion fails only for an inherited
\* socket of another family; the host table is overrun only when more addresses
\* than one and the option words are given (or after -o, whose loop has no end),
\* and never by a start that succeeds.
THEOREM SetupSafeHolds == Spec => []SetupSafe
<1>1. SetupInv => SetupSafe
  <2> SUFFICES ASSUME Hosts PROVE SetupSafe
    BY DEF SetupInv
  <2>1. InetdMeansSocket
    BY DEF Hosts, InetdMeansSocket
  <2>2. AbortOnlyInherited
    BY DEF Hosts, AbortOnlyInherited
  <2>3. OverrunNeedsHosts
    BY DEF Hosts, OverrunNeedsHosts
  <2> QED
    BY <2>1, <2>2, <2>3 DEF SetupSafe
<1> QED
  BY SetupInvHolds, <1>1, PTL

\* DscpReported: whatever --diffserv was given, the type of service
\* print_enabled_options prints reads back through parse_ipqos to the value in
\* force, or to 0 when that is above 64.
THEOREM DscpReportedHolds == Spec => []DscpReported
<1>1. SetupInv => DscpReported
  <2> SUFFICES ASSUME Types, Reported, NEW k \in DOMAIN report
               PROVE  parse_ipqos(report[k].dscp) = IF o.diffserv <= 64 THEN o.diffserv ELSE 0
    BY DEF SetupInv, DscpReported
  <2>1. UintRange \in Nat /\ UintRange >= 256 /\ UintRange \div 2 \in Nat /\ UintRange \div 2 >= 128
    BY UintAssumption
  <2>2. PICK u \in 0 .. UintRange - 1 : u = o.diffserv
    BY DEF Types, OptionRecord
  <2>3. report[k].dscp = iptos2str(ToSigned(u))
    BY <2>2 DEF Reported
  <2>4. PICK v \in Int : v = ToSigned(u)
    BY <2>1, <2>2 DEF ToSigned
  <2>5. (IF v < 0 \/ v > 64 THEN 0 ELSE v) = IF u <= 64 THEN u ELSE 0
    BY <2>1, <2>2, <2>4 DEF ToSigned
  <2>6. parse_ipqos(iptos2str(v)) = IF v < 0 \/ v > 64 THEN 0 ELSE v
    BY <2>4, RoundTrip
  <2> QED
    BY <2>2, <2>3, <2>4, <2>5, <2>6
<1> QED
  BY SetupInvHolds, <1>1, PTL

\* Which words ask for the flags the property names.
LEMMA AskingWords == \A e \in no_argument :
    /\ "up" \in FlagsOf(e[2]) <=> e[1] \in {"-1", "-3", "--up", "--bidir"}
    /\ "dn" \in FlagsOf(e[2]) <=> e[1] \in {"-2", "-3", "--down", "--bidir"}
    /\ "server" \in FlagsOf(e[2]) <=> e[1] = "-S"
<1>1. \A c, f : f \in FlagsOf(c) <=> \E x \in Flags : x[1] = c /\ x[2] = f
  BY DEF FlagsOf
<1>2. \A x \in Flags : /\ x[2] = "up" <=> x[1] \in {"1", "3"} /\ x # <<"3", "dn">>
                       /\ x[2] = "dn" <=> x[1] \in {"2", "3"} /\ x # <<"3", "up">>
                       /\ x[2] = "server" <=> x[1] = "S"
  BY DEF Flags
<1>3. /\ <<"1", "up">> \in Flags /\ <<"3", "up">> \in Flags
      /\ <<"2", "dn">> \in Flags /\ <<"3", "dn">> \in Flags /\ <<"S", "server">> \in Flags
  BY DEF Flags
<1>4. \A c : "up" \in FlagsOf(c) <=> c \in {"1", "3"}
  <2>1. \A c : "up" \in FlagsOf(c) => c \in {"1", "3"}
    BY <1>1, <1>2
  <2>2. "up" \in FlagsOf("1") /\ "up" \in FlagsOf("3")
    BY <1>1, <1>3
  <2> QED
    BY <2>1, <2>2
<1>5. \A c : "dn" \in FlagsOf(c) <=> c \in {"2", "3"}
  <2>1. \A c : "dn" \in FlagsOf(c) => c \in {"2", "3"}
    BY <1>1, <1>2
  <2>2. "dn" \in FlagsOf("2") /\ "dn" \in FlagsOf("3")
    BY <1>1, <1>3
  <2> QED
    BY <2>1, <2>2
<1>6. \A c : "server" \in FlagsOf(c) <=> c = "S"
  <2>1. \A c : "server" \in FlagsOf(c) => c = "S"
    BY <1>1, <1>2
  <2>2. "server" \in FlagsOf("S")
    BY <1>1, <1>3
  <2> QED
    BY <2>1, <2>2
<1>7. \A e \in no_argument : /\ e[2] \in {"1", "3"} <=> e[1] \in {"-1", "-3", "--up", "--bidir"}
                             /\ e[2] \in {"2", "3"} <=> e[1] \in {"-2", "-3", "--down", "--bidir"}
                             /\ e[2] = "S" <=> e[1] = "-S"
  BY DEF no_argument
<1> QED
  BY <1>4, <1>5, <1>6, <1>7

LEMMA WordsAsking ==
    \A w \in {"-1", "-2", "-3", "-S", "--up", "--down", "--bidir"} : \E e \in no_argument : e[1] = w
  BY DEF no_argument

\* FlagsAsGiven: however options and addresses are mixed and repeated on a
\* command line of any length, a start that succeeds has in force, and reports
\* when debugging, exactly the flags some word of it asks for.
THEOREM FlagsAsGivenHolds == Spec => []FlagsAsGiven
<1>1. SetupInv => FlagsAsGiven
  <2> SUFFICES ASSUME Types, Hosts, Reported, Asked, Simple, pc = "success", operands # <<>>
               PROVE  LET flags == IF "-D" \in Given THEN report[1].flags ELSE o.flags
                      IN  /\ "up" \in flags <=> {"-1", "-3", "--up", "--bidir"} \cap Given # {}
                          /\ "dn" \in flags <=> {"-2", "-3", "--down", "--bidir"} \cap Given # {}
                          /\ "server" \in flags <=> "-S" \in Given
                          /\ "inetd" \notin flags
    BY DEF SetupInv, FlagsAsGiven
  <2>1. "inetd" \notin o.flags
    BY DEF Hosts
  <2>2. \A k \in DOMAIN argv : k < next
    <3>1. next = Len(argv) + 1
      BY DEF Types
    <3>2. \A k \in DOMAIN argv : k \in 1 .. Len(argv) /\ Len(argv) \in Nat
      BY LenProperties DEF Types
    <3> QED
      BY <3>1, <3>2
  <2>3. \A e \in no_argument : e[1] \in Given => FlagsOf(e[2]) \subseteq o.flags
    BY <2>2 DEF Asked, Given
  <2>4. \A f \in o.flags : \E e \in no_argument : e[1] \in Given /\ f \in FlagsOf(e[2])
    BY <2>1 DEF Asked
  <2>5. "-D" \in Given => report[1].flags = o.flags \ {"verbose"}
    <3>1. "-D" \in Given => o.debug # 0
      BY <2>2 DEF Asked, Given
    <3> QED
      BY <3>1 DEF Reported
  <2>6. "up" \in o.flags <=> {"-1", "-3", "--up", "--bidir"} \cap Given # {}
    BY <2>3, <2>4, AskingWords, WordsAsking
  <2>7. "dn" \in o.flags <=> {"-2", "-3", "--down", "--bidir"} \cap Given # {}
    BY <2>3, <2>4, AskingWords, WordsAsking
  <2>8. "server" \in o.flags <=> "-S" \in Given
    BY <2>3, <2>4, AskingWords, WordsAsking
  <2> QED
    BY <2>1, <2>5, <2>6, <2>7, <2>8
<1> QED
  BY SetupInvHolds, <1>1, PTL
=============================================================================
