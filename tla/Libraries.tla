----------------------------- MODULE Libraries -----------------------------
(***************************************************************************)
(* The sequential parts side by side: util.c, util.h and twd_time.h, the   *)
(* loggers, the socket helpers and the address parser with its test.  They *)
(* share no state, so a behaviour is a behaviour of one part, chosen at    *)
(* the start; the variables of the others keep a dummy value.              *)
(***************************************************************************)
EXTENDS Integers, Sequences

CONSTANTS
    USEC, MSECS, FarSecs, Secs, MaxDelay, MaxFolds,         \* UtilTime
    SeqSpace, MaxCount, MaxStep, Radix, OctRadix, HexRadix, \* UtilNumbers
    Word, MaxDigits,
    SmallBits, SmallBytes, SmallHead,                       \* UtilPrefix, all of the addresses
    SmallAddresses, SmallPlens,
    Ip6Addresses, Ip6Plens,                                 \* UtilPrefix, real width
    ByteBits, NBytes, V4Head, Addresses, Plens,             \* UtilFormat
    Lens, EuiTexts, MaxParses,
    Blocks, MaxSent,                                        \* Logger
    MaxAddresses, MaxFds, MaxCalls,                         \* Netlib
    Chars, HostLists                                        \* ParseAddrTest

VARIABLES
    unit,                                                   \* the part that runs
    d, folded, y, y0,                                       \* UtilTime
    count, seqno, numeral,                                  \* UtilNumbers
    one, two,                                               \* UtilPrefix
    who, net, eui, typed, parses, fbuf, fi, recent,         \* UtilFormat
    kind, priv, heap, counts, opened, exited,               \* Logger
    undefined, sent, stats,
    npc, type, rp, nret, s, addresses, failed, open,        \* Netlib
    nonblock, peer, handed, ip, asked, calls,
    apc, mode, hosts, atype, h, aret, lines                 \* ParseAddrTest

times == <<d, folded, y, y0>>
numbers == <<count, seqno, numeral>>
prefixes == <<one, two>>
texts == <<who, net, eui, typed, parses, fbuf, fi, recent>>
logger == <<kind, priv, heap, counts, opened, exited, undefined, sent, stats>>
sockets == <<npc, type, rp, nret, s, addresses, failed, open, nonblock, peer,
             handed, ip, asked, calls>>
addrtest == <<apc, mode, hosts, atype, h, aret, lines>>
vars == <<unit, times, numbers, prefixes, texts, logger, sockets, addrtest>>

Time == INSTANCE UtilTime
Num == INSTANCE UtilNumbers WITH line <- numeral
Small == INSTANCE UtilPrefix WITH
    ByteBits <- SmallBits, NBytes <- SmallBytes, V4Head <- SmallHead,
    Addresses <- SmallAddresses, Plens <- SmallPlens, p <- one, q <- two
Ip6 == INSTANCE UtilPrefix WITH
    ByteBits <- 8, NBytes <- 16, V4Head <- 12,
    Addresses <- Ip6Addresses, Plens <- Ip6Plens, p <- one, q <- two
Text == INSTANCE UtilFormat WITH buf <- fbuf, i <- fi
Log == INSTANCE Logger
Net == INSTANCE Netlib WITH pc <- npc, ret <- nret
Addr == INSTANCE ParseAddrTest WITH pc <- apc, i <- h, ret <- aret

----------------------------------------------------------------------------
NoTimes == d = 0 /\ folded = 0 /\ y = 0 /\ y0 = 0
NoNumbers == count = 0 /\ seqno = 0 /\ numeral = 0
NoPrefixes == one = 0 /\ two = 0
NoTexts ==
    /\ who = 0 /\ net = 0 /\ eui = 0 /\ typed = 0 /\ parses = 0 /\ fbuf = 0 /\ fi = 0
    /\ recent = 0
NoLogger ==
    /\ kind = 0 /\ priv = 0 /\ heap = 0 /\ counts = 0 /\ opened = 0 /\ exited = 0 /\ undefined = 0
    /\ sent = 0 /\ stats = 0
NoSockets ==
    /\ npc = 0 /\ type = 0 /\ rp = 0 /\ nret = 0 /\ s = 0 /\ addresses = 0 /\ failed = 0
    /\ open = 0 /\ nonblock = 0 /\ peer = 0 /\ handed = 0 /\ ip = 0 /\ asked = 0 /\ calls = 0
NoAddrTest == apc = 0 /\ mode = 0 /\ hosts = 0 /\ atype = 0 /\ h = 0 /\ aret = 0 /\ lines = 0

Init ==
    \/ /\ unit = "time" /\ Time!Init
       /\ NoNumbers /\ NoPrefixes /\ NoTexts /\ NoLogger /\ NoSockets /\ NoAddrTest
    \/ /\ unit = "numbers" /\ Num!Init
       /\ NoTimes /\ NoPrefixes /\ NoTexts /\ NoLogger /\ NoSockets /\ NoAddrTest
    \/ /\ unit = "small" /\ Small!Init
       /\ NoTimes /\ NoNumbers /\ NoTexts /\ NoLogger /\ NoSockets /\ NoAddrTest
    \/ /\ unit = "ip6" /\ Ip6!Init
       /\ NoTimes /\ NoNumbers /\ NoTexts /\ NoLogger /\ NoSockets /\ NoAddrTest
    \/ /\ unit = "text" /\ Text!Init
       /\ NoTimes /\ NoNumbers /\ NoPrefixes /\ NoLogger /\ NoSockets /\ NoAddrTest
    \/ /\ unit = "logger" /\ Log!Init
       /\ NoTimes /\ NoNumbers /\ NoPrefixes /\ NoTexts /\ NoSockets /\ NoAddrTest
    \/ /\ unit = "netlib" /\ Net!Init
       /\ NoTimes /\ NoNumbers /\ NoPrefixes /\ NoTexts /\ NoLogger /\ NoAddrTest
    \/ /\ unit = "addresses" /\ Addr!Init
       /\ NoTimes /\ NoNumbers /\ NoPrefixes /\ NoTexts /\ NoLogger /\ NoSockets

Next ==
    /\ UNCHANGED unit
    /\ \/ /\ unit = "time" /\ Time!Next
          /\ UNCHANGED <<numbers, prefixes, texts, logger, sockets, addrtest>>
       \/ /\ unit = "numbers" /\ Num!Next
          /\ UNCHANGED <<times, prefixes, texts, logger, sockets, addrtest>>
       \/ /\ unit = "small" /\ Small!Next
          /\ UNCHANGED <<times, numbers, texts, logger, sockets, addrtest>>
       \/ /\ unit = "ip6" /\ Ip6!Next
          /\ UNCHANGED <<times, numbers, texts, logger, sockets, addrtest>>
       \/ /\ unit = "text" /\ Text!Next
          /\ UNCHANGED <<times, numbers, prefixes, logger, sockets, addrtest>>
       \/ /\ unit = "logger" /\ Log!Next
          /\ UNCHANGED <<times, numbers, prefixes, texts, sockets, addrtest>>
       \/ /\ unit = "netlib" /\ Net!Next
          /\ UNCHANGED <<times, numbers, prefixes, texts, logger, addrtest>>
       \/ /\ unit = "addresses" /\ Addr!Next
          /\ UNCHANGED <<times, numbers, prefixes, texts, logger, sockets>>

Spec == Init /\ [][Next]_vars

----------------------------------------------------------------------------
\* The timeval arithmetic: a deadline kept with timeval_min and timeval_min_sec
\* is neither later than an event nor in a second without one; however often
\* timeval_subtract borrows from its second argument in place, that record
\* still stands for the same instant and later differences are true; milliseconds
\* are exact to within one and a jittered delay stays near the one asked for.
TimesSound == unit = "time" => Time!TimesSound

\* The numbers: seqno_plus, seqno_minus and seqno_compare give the true distance
\* and order of two counters up to half the space apart, across wraps, and
\* parse_nat and parse_msec are exact up to the overflow each one has.
NumbersSound == unit = "numbers" =>
    Num!SeqnoTracks /\ Num!SeqnoOrder /\ Num!MsecExact /\ Num!ParsersAgree

\* The prefixes: the byte-wise in_prefix, mask_prefix and prefixes_cmp mean what
\* the bits mean, prefixes_cmp is the relation of the sets of addresses, and no
\* prefix gets past martian_prefix by being more specific than a martian one.
PrefixesSound ==
    /\ unit = "small" => Small!InPrefixIsBits /\ Small!MaskIsBits /\ Small!CmpIsSetRelation
    /\ unit = "ip6" => Ip6!CmpIsBits /\ Ip6!MartianDownward /\ Ip6!AddressClasses

\* The texts: the last four results of a formatter stay intact while the static
\* buffers go round, what is shown can be read back, a route read is normalised
\* and an identifier read depends on nothing read before.
TextSound == unit = "text" => Text!TextSound

\* The loggers: dump_stats prints what was logged since init, also when init is
\* called again; no private block is lost when the program goes from one logger to
\* the other; and the syslog connection does not outlive the syslog logger.
LoggerSound ==
    /\ [](unit = "logger" => Log!NoBlockLost /\ Log!ConnectionFollowsLogger)
    /\ [][unit = "logger" => Log!Exact]_logger

\* The socket helpers: whichever step fails for whichever address, no descriptor
\* is left open that the caller was not given, the error returned is that of the
\* last address, and netlib_sock2ip never shows the peer of another socket.
NetlibSound == unit = "netlib" => Net!NetlibSound

\* The address parser: to_addr_port takes exactly the texts of the forms
\* address:port and [address]:port and splits them as the form says; the test
\* program reports every host and its exit status tells whether all resolved.
AddressesParsed == unit = "addresses" => Addr!AddressesParsed
============================================================================
