# Formal verification of twd

`twd` is a network test tool in the making: a command-line front end, a set of
packet tests, and the concurrent plumbing they are to be built on.  The parts
that exist and run are small, and the hard ones are the two lock-free buffers
through which threads pass results.  This directory models them, and the
start-up, the libraries and the smaller programs around them, in TLA+, checks
the models with TLC on small instances, and proves the main safety results about
the buffers, the programs, the start-up and most of the libraries with TLAPS for every
instance.

## 1. Inventory

| part | source | state | operations | hard behaviour |
|---|---|---|---|---|
| ring buffer | `ringbuffer.c`, `atomic.h` | `address` (one file mapped twice), `size`, `ridx`, `widx` | `init`, `avail`, `used`, `write`, `read`, `peek`, `reset`, `destroy` | index arithmetic on `size_t`; wrap; full ring; partial failure of `init` |
| ring shared by threads | `test_ringbuffer.c` (same threads in `test_simple.c`) | the ring plus the two threads' locals | `thread_writer`, `thread_reader` | no lock: every load and store interleaves |
| infinite buffer | `infbuffer.c`, `test_infbuffer.c` | `data[]`, `tidx`, `widx`, `ridx` | `add`, `rem` | tickets taken and published out of order; readers spin |
| timer loop | `test_simple.c`, `thread_timer.c` | three timer descriptors, `pselect` set, round counter | `create_timerfds` / `thread_timer` | time-outs, overruns, uninitialised intervals |
| DSCP / ECN / TOS test | `test_simple.c` | per-packet results, a collector ring | `send_dscp`, `recv_dscp`, `send_result_to` | UDP loss and reordering, a final packet that must arrive |
| packet I/O | `packet.c` | packet header, time stamp | `send_packet`, `recv_pbuffer`, `recv_setup`, `settos` | which ancillary data is present |
| wire protocol | `protocol.c` | cursor into a packet | `parse_packet` | lengths and termination |
| loggers | `log.c` | private counters behind a pointer | `init`, `warn`..`debug`, `dump_stats`, `destroy` | use after `destroy` |
| client threads | `client_thread.c` | a pointer queue (not in the repository) | `thread_writer`, `thread_reader`, `main` | queue replaced while threads run, dropped entries |
| start-up | `twd.c`, `options.c`, `parse_addr.c` | options, host table | `process_options`, `finish_setup`, `to_addr_port` | size of the host table, inetd mode, options and addresses in any order |
| DSCP names | `dscp.c` | table | `parse_ipqos`, `iptos2str` | out-of-range code points |
| utilities | `util.c`, `util.h`, `twd_time.h` | four rotating static buffers | time, sequence number and prefix arithmetic | overflow, zero as infinity |
| socket helpers | `network.c` | descriptors, a static buffer | `netlib_connectsock`, `netlib_sock2ip` | descriptor leaks and stale errors when an address of several fails |
| example server | `server_example.c` | one socket per port, descriptor sets | a `select` loop | blocking reads, errors, starvation |

How they interact.  `test_pthread1` starts one writer and one reader on one
`ringbuffer__s`; `recv_dscp` is meant to feed a `collector` ring the same way.
`test_infbuffer` starts any number of writers and readers on one
`infbuffer__s`.  `client_thread.c` starts two pairs of threads on a queue that main
replaces while they run.  Nothing else shares memory.  `twd.c` calls
`to_addr_port` for every address and the DSCP table for `--diffserv`.  The two buffers carry every result
from the thread that measures to the thread that reports, so a record lost,
torn, duplicated or reordered there falsifies a measurement without any other
sign.

What makes each part correct:

* ring buffer: it is a byte FIFO of capacity `size`; a short count means full
  or empty; indices stay where `size_t` arithmetic is meaningful;
* shared ring: records arrive whole, once, in order; the two `memcpy`s never
  touch the same byte; no copy leaves the mapping; both threads return;
* infinite buffer: each record goes to one reader at most, in each writer's
  order; a reader is never shown an empty slot; all threads return;
* client threads: no reader sees a record before it is filled in, final records
  are conserved, threads end;
* timer loop: every expiration of a watched timer is reported once, no read blocks,
  the watchdog speaks only when nothing can fire any more, the loop ends;
* example server: it never blocks outside `select`, prints each datagram once and
  in order, and serves both sockets;
* loggers: counts are exact, no private block or syslog connection is left behind;
* socket helpers: a failing address leaves no descriptor and the error returned is
  that of the last one;
* start-up: the flags in force are those asked for whatever the order of words; the
  host table and main's assertion fail in known cases only;
* utilities, address parser, DSCP names: they compute what a reference definition
  says, up to stated boundaries (wraps, half the sequence space, values above 64).

## 2. Modules

| module | role |
|---|---|
| `RingIndex` | index arithmetic of `ringbuffer.c`: `size_t` addition and subtraction, `min_size_t`, the double mapping (`Mapped`, `Cell`), `ringbuffer_used`, `ringbuffer_avail` |
| `ByteFifo` | abstract specification: a bounded FIFO of bytes |
| `RingBuffer` | the ring under exclusive access, one action per API call; implements `ByteFifo` |
| `RingInit` | setting the ring up and tearing it down, one action per system call, with failures and kills |
| `RingSpsc` | the ring under two unlocked threads, one action per shared access; implements `ByteFifo` when paced |
| `InfBuffer` | the infinite buffer under any number of writers and readers |
| `RingBufferProofs`, `RingInitProofs`, `RingSpscProofs`, `InfBufferProofs` | theorems about the two buffers and their proofs |
| `SetupProofs`, `LibraryProofs` | the same for the start-up and for the sequential libraries |
| `ProgramProofs`, `ProgramsSound` | the invariants of the programs with threads, timers or a `select` loop, and what follows for `Programs` |
| `Setup`, `MCSetup` | `twd.c` from the command line to the printed host table; the command lines tried |
| `AddrPort`, `ParseAddrTest` | `to_addr_port` of `parse_addr.c`; the test program of that file |
| `DscpNames` | the table, `parse_ipqos` and `iptos2str` of `dscp.c` |
| `UtilTime`, `UtilNumbers`, `UtilAddr`, `UtilPrefix`, `UtilFormat` | the functions of `util.c`, `util.h`, `twd_time.h` and callers of them |
| `Logger` | the console and syslog loggers of `log.c` |
| `Netlib` | `netlib_connectsock` and `netlib_sock2ip` of `network.c` |
| `Libraries`, `MCLibraries` | the sequential modules above side by side; small values for them |
| `ClientThreads`, `TimerLoop`, `ServerExample` | `client_thread.c`, `thread_timer.c` (and the copy in `test_simple.c`), `server_example.c` |
| `Programs` | the three side by side, each with two settings of its constants |

`Libraries` and `Programs` put modules that share no state side by side: a
behaviour picks one of them at the start (`unit`, `program`) and is a behaviour of
that one; the variables of the others keep their values.  Each property there is
the conjunction of the properties stated in the module it is about.

### RingBuffer

`mem`, `ridx` and `widx` are the file behind the two mappings and the fields of
`ringbuffer__s`.  `dest`, `accepted` and `call` record what the last call
returned; they exist to state properties.  `ringbuffer_write`, `_read`, `_peek`
and `_reset` are the functions of the same name; `Advanced` is the wrap at the
end of `ringbuffer_read`.  A unit of memory stands for the grain at which the
copies are told apart.  `size_t` has `WordSize` values; `SizeAssumption` only
asks that it can hold four times the size.  `ringbuffer_init` is represented by
the state it leaves on success; `RingInit` shows that it leaves it.

### RingInit

`Mkstemp`, `Unlink`, `Ftruncate`, `Reserve`, `MapLow` and `MapHigh` are the system
calls of `ringbuffer_init` in order.  Each but `unlink` has a failing
alternative that includes the clean-up and the error return; a failing `unlink`
is ignored, as in the code.  `at` says what backs each address of the double
range, `fh` which file the descriptor is open on, `names` which files can still
be seen in `/dev/shm`.  `Crash` may strike at any point: the kernel drops the
descriptor and the mappings, the name stays.  `Traffic` stands for the use of the
ring between init and destroy, bounded by the `IndexBounds` that
`RingBufferProofs` proves; it matters because a structure may be set up again.
How `close` and `munmap` behave is the kernel's business and is assumed: `close`
releases the descriptor even when it reports an error, `munmap` of a mapping made
by `mmap` succeeds.  `DoubleMapped` is the premise of the other ring models: address
`i` is memory cell `Cell(i)`.

### RingSpsc

The header of `ringbuffer.c` says sharing is not safe, and `test_ringbuffer.c`
shares it.  This module is that test: `thread_writer` (`wpc`) and
`thread_reader` (`rpc`), with the two library calls inlined.

| writer step | code | reader step | code |
|---|---|---|---|
| `WFirstLoad`, `WSecondLoad` | the two loads of `widx - ridx`, in either order; `len` | `RUsed` | `used`, `len` |
| `WAddress` | `&address[widx]` | `RCopy` | `memcpy`, one unit per step, any order |
| `WCopy`, `WStray` | `memcpy`, one unit per step, any order; leaving the mapping ends the run | `RInc` | `ridx += len` and the wrap test |
| `WAdd` | `atomic_add`, the retry test | `RLoad`, `RCas`, `RSub` | load, compare-and-swap, `ridx -= size` |
| | | `RCheck` | count, flags and seqnum tests |

The reader's two loads need no splitting: only the reader writes `ridx` and only
one load of `widx` remains.  The build compiles without optimisation, so each
access of the source is an access of the program.  Memory is sequentially
consistent in the model.  On x86 that leaves out one thing, a plain store that
becomes visible after a later load of the same thread: the writer's `memcpy` is
followed by a locked instruction before it publishes, and so is `ridx += len`
when the ring wraps; otherwise the writer may see a new `ridx` later than the
reader's next call has begun.

The stream has `Total` units in records of `Rec`.  A unit carries its place in
the stream as a label; the first unit of a record plays `seqnum`, the last one
`flags`.  `InFlight` bounds how far the writer may be ahead when it starts a
write.  `InFlight >= Total` is the code as it is: no pacing.  A smaller value is
a program that sizes the ring so large that the writer never fills it, which is
what `test_simple.c` says it intends for its collector ("We try to size the
collector ring so large that it will never block, but...", lines 593-594).

`wrote` and `took` count units put and taken; they and `exit` are history.

### InfBuffer

`AddTicket`, `AddStore`, `AddPublish` are the three shared accesses of
`infbuffer_add`, `RemTicket` and `RemLoad` those of `infbuffer_rem`; the spin is
the guard of `RemLoad`.  `Check` is the body of `thread_reader`: its asserts, the
highest seqno per writer, the loop condition.  A failed assert sets `aborted` and
stops everything, as `abort()` does.  `holder` (who took a slot) and `handed`
(who was given what) are history.  `calloc` of a payload never fails here, and
`free` is represented by `handed`: a record handed twice would be freed twice.

### Setup, AddrPort, DscpNames

A command line is a sequence of words.  `Plain`, `WithArgument`, `usage` and
`EndOptions` are the `getopt_long` loop of `process_options`: options are taken in
order, other words move behind them (`operands`), `used` is what `optind` counts.
`NeedAddress`, `NoMemory`, `Inetd`, `Allocate`, `StoreHost` and `HostsDone` are the
branches of `finish_setup`, `PrintHost` and `Exit` the loop of `main`.  A store past
the host table and the search of `output_type` that no NULL ends lead to the outcome
"undefined".  `Split` is `to_addr_port` on characters, brackets and colons apart from
the rest; `getaddrinfo` is external and may fail for any name.  `diffserv` is kept
as unsigned word and shown through an `int`, as in the code.

A word that begins with a dash is an option of one of the two tables, `--`, or one
`getopt_long` answers with `?` (`Unknown`), which ends in the usage text; only other words
(`Bare`) can be operands.  Left out, and excluded by `WordsAssumption`: letters joined in
one word (`-13`), an argument glued to its option (`-D1`, `--debug=1`), long names cut
short (`--bid`), and `POSIXLY_CORRECT`, with which options would end at the first address.

### Util*

Operators carry the names of the C functions.  `UtilTime` has a caller that folds
times into a deadline and subtracts from one record again and again;
`timeval_subtract` returns what it leaves in its second argument.  `UtilNumbers` runs
two counters across several wraps and types a line for the parsers: a sign, digits, an
x after a first 0, a point, anything else.  `parse_nat` calls `strtol` with base 0, so a
leading 0 means octal and 0x hexadecimal (`Base`; the `0b` of the latest C standard is left
out), and `strtol` stops at the first digit that is none of its base (`StopsEarly`);
`parse_msec` reads every line in base `Radix`.  A `long` is taken to hold every
`unsigned int`, as on 64-bit systems.  `UtilAddr` works
on bytes and masks as the code does; `UtilPrefix` states what that means in bits and in
sets of addresses.  `UtilFormat` has the four rotating buffers and the parsers; a
text is known by its parts.

### Logger

`priv` is the pointer, `heap` what became of each block.  `PrivCheckFails` is
`PRIV_CHECK`: NULL exits, a block already freed passes the check and the outcome is
undefined.  The program modelled calls in any order; it destroys a logger before it
assigns another one, and does not call `init` on a destroyed one before it has assigned
the variable again (`init` would keep the freed block and open syslog).

### Netlib

One action per system call of `netlib_connectsock`; each may fail.  `failed` records
where each address failed; `handed` the descriptors the caller was given.  Option
calls whose result the code ignores (type of service, `TCP_NODELAY`) are part of
`Found`.

### ClientThreads

Threads are split at each access of shared state: filling a record, looking up
`tinfo->ringbuf`, the queue call.  The queue's code is not in the repository; it is
external, a bounded FIFO with atomic calls.  `Fail` is any failing call of `main`,
`pthread_attr_destroy` (`DestroyAttr`) and `pthread_join` (`JoinFails`) included.

### TimerLoop

Time passes in instants of its own: `Tick` may come between any two calls of the thread
once the first timer is armed, so the thread may be held up between one
`timerfd_settime` and the next (`Settime1`, `Settime10`, `Settime100`) and be late by up to
`MaxBehind` unread expirations.  A timer first expires one instant after it is armed, then
every `Step` instants times 1, `Ratio` or `Ratio * Ratio`.  `Armings` is what the kernel
makes of the interval a timer is given; the uninitialised ones hold anything from
`Durations`, as first expiration and as period, or leave the timer unarmed.  `Create` hands
out descriptors in every order, as it may when another thread closes one.  `Watchdog` fires
when `pselect` has waited `Patience` instants with nothing to report.  `age` and `reports` are
history.

### ServerExample

`Select`, `Timeout`, `SelectError`, `Recvfrom`, `NotReady`, `RecvfromError` and
`Round` are the loop of `main`; `Send` is a client, `Discard` the kernel dropping a
damaged datagram after it was queued.

## 3. Runs

| run | instance | checks | outcome |
|---|---|---|---|
| `RingBuffer` | size 3, two byte values, amounts 1..4 | `TypeOK`, `IndexBounds`, `ShortCountMeansLimit`, refinement of `ByteFifo` | pass |
| `RingInit` | size 3, three files, any call failing, kills anywhere | `SetUpInv`, `NoLeak`, `DoubleMapped`, `OrphansAccounted`, `FreshRing` | pass |
| `RingSpscPaced` | size 8, records of 2, 20 records, at most 6 units in flight | `PacedInv`, `NeverStray`, `SeqnumInOrder`, `CopiesDisjoint`, refinement of `ByteFifo`, `BothDone` | pass |
| `RingSpscRacy` | size 6, records of 2, 9 records, no pacing | `RaceInv`, `NeverTruncated`, `Terminates` | pass |
| `RingSpscOverrun` | as `RingSpscRacy`, 10 records | `SeqnumInOrder` | violated |
| `RingSpscSplit` | size 8, records of 3, no pacing | `NeverTruncated` | violated |
| `InfBufferOne` | 1 writer, 2 readers, 5 records | `NeverNull`, `NothingSkipped`, `EveryoneReturns` | pass |
| `InfBufferMany` | 2 writers, 2 readers, 3 records each | `InfInv`, `SeqnoRises`, `HandedOnce`, `EveryoneReturns` | pass |
| `InfBufferNull` | 2 writers, 1 reader, 2 records each | `NeverNull` | violated |
| `Setup` | all command lines of up to 3 of 23 words and of up to 4 of 7 words; every name and the numbers -6..257 for `--diffserv`; `UintRange` 65536 for the 2^32 of the code | `SetupSafe`, `FlagsAsGiven`, `DscpReported` | pass |
| `Libraries` | see the comments of `MCLibraries` | `TimesSound`, `NumbersSound`, `PrefixesSound`, `TextSound`, `NetlibSound`, `AddressesParsed`, `LoggerSound` | pass |
| `Programs` | one pair of threads and a queue of 4 that 13 records fill three times, two pairs with 3 records on queues of 1; a timer loop of 2 rounds with periods of 2, 4 and 8 instants and a watchdog of 4, one of 2 rounds with intervals of 0, 1 or 4 and a watchdog of 3; two sockets, 4 datagrams on queues of 2, or 3, damaged or not, on queues of 1 | `TimersSound`, `ServerSound`, `ClientSound`, `ThreadsReturn`, `EveryoneServed` | pass |

Bounds.  `RingBuffer`: amounts go one beyond the size, so every call can be
clipped, and size 3 lets `ridx` rest at, before and after the wrap point.  The
reachable set is finite without any cap.  `RingInit`: `MaxFiles` bounds the
successful `mkstemp`s; three are enough for a structure to be set up, used, set
up again and killed, and every kill needs a file, so kills are bounded too.  `RingSpscPaced`: 20 records go round
the ring five times, and the bound 6 = 8 - 2 is the largest that is safe; with
8 the run fails, so the guard `InFlight + Rec <= Size` of the theorems is tight.
`RingSpscRacy`: nine records are enough for `widx` to reach twice the size, for
both windows of the wrap to be met and for the writer to leave the mapping
(`WStray` is reached).  `InfBuffer*`: three records per writer let a reader be
overtaken by another reader and by a slot that is filled late.

`Setup`: three words hold an option, its argument and an address, or three
addresses, which is what the host table needs to be outgrown; four words over the flags
put each option before, between and after addresses and repeat it; `-x` stands for the
words that are no option.  `Libraries`: a
second of four microseconds has every carry and borrow; a space of eight sequence
numbers is wrapped three times with steps of more than half; six digits of base three (of base two after a 0 and four after an x, in
the place of ten, eight and sixteen) overflow a word of eight bits; all pairs of prefixes over a four-bit address space give
the set relations, and 16-byte addresses either side of each constant of
`martian_prefix`, `linklocal` and `v4mapped` the rest; texts of five characters hold
every arrangement of two brackets and two colons; three addresses let the first, a
middle and the last fail at different calls; three heap blocks let a logger be
replaced twice.  `Programs`: one client pair with 13 records and a queue of 4 has a
reader that falls behind and a writer that drops; two pairs with queues of 1 meet
the change of queue at every step; in two rounds of the timer loop each timer expires up to
twice between two looks and the slowest again after it was read, whichever of the three
is armed late, in every order of three descriptors; an uninitialised timer may be sooner
than the 1 ms one, or so late that the watchdog comes first; the server gets more datagrams than its queues hold.

Fairness.  `RingSpsc` and `InfBuffer` assume weak fairness of each thread.  The threads
are ordinary runnable pthreads that never block; their waiting loops call
`sched_yield`.  The waits themselves are not fair steps: a poll that finds
nothing changes nothing.  With the writer finite, weak fairness of the reader is
enough to get it through the compare-and-swap loop, because the writer moves
`widx` finitely often while the reader retries.  `ClientThreads` assumes the same of
main and each thread, which yield and retry.  `TimerLoop` assumes it of the thread and
of time; nothing makes `pselect` fail.  `ServerExample` assumes that the process runs,
and strong fairness of `select` and of `recvfrom` on each socket: an error (a signal, a
refused peer) may come any number of times, but not every time.  Clients need not
send anything.

Deadlock is checked in the runs of the buffers: the only terminal states are those
`Finished` names.  The runs `Setup`, `Libraries` and `Programs` are of programs that
end and of calls bounded in number, so it is not checked there; what must not stop
is stated as liveness (`ThreadsReturn`, `EveryoneServed`) or as a state that must not be
waited in (no blocking read, in `TimersSound` and `ServerSound`).

## 4. Findings

1. **Overrun** (`RingSpscOverrun`).  Between the compare-and-swap that lowers
   `widx` (`ringbuffer.c:239`) and `ridx -= size` (line 240) the indices disagree by
   one size.  A write that looks then takes a full ring for one with a whole size
   free; one that loads one index before and one after may even compute a huge
   room.  Unread records are overwritten, and `test_ringbuffer.c` would print
   "missing seqno".  The window is a few instructions wide, which is why the test
   passes nearly always.  The header comment of `ringbuffer.c` warns that sharing is
   not safe; the test does it all the same.  `PacedInOrder` shows the condition
   under which it is safe.
2. **Split record** (`RingSpscSplit`).  A record that does not divide the ring is
   stored in part when the ring is nearly full, and sent again whole.
   `test_ringbuffer.c` has 16-byte records in 4096 bytes and escapes;
   `test_simple.c` has 12-byte records and would not.
3. **Null slot** (`InfBufferNull`).  `widx` counts finished adds; when they finish
   out of ticket order a reader loads an empty slot, leaves its loop, and the
   record stored there later is lost.

Observations.  Where the code of the other parts stops short of what one would expect,
the properties are stated up to that boundary and hold exactly there:

* `twd.c:258`: the host table has as many entries as there are words up to the first
  address.  `OverrunNeedsHosts` says when that is too few: `twd x:x y:y` is enough.
* `twd.c:87`: the long `--server` takes an argument and `-S` none, so `twd --server
  host:port` loses its address.  `twd.c:205`: `--random-data` of the usage text ends in
  the usage text.  `FlagsAsGiven` is about command lines without them.
* `dscp.c:155`: values above 64 are shown as `cs0`, so `--diffserv ef` is reported as
  `cs0` (`DscpReported`).
* `util.c:119`: any time in second 0 counts as infinity, not only {0, 0}, which the comment
  on line 115 names; `DeadlineNotLate` is checked for seconds from 1 on.
* `util.h:109`: at half the sequence space each number is greater than the other
  (`SeqnoOrder`).  `util.c:193`: `parse_msec` wraps where `parse_nat` refuses
  (`MsecExact`, `ParsersAgree`).
* `util.c:143`: for `parse_nat` a leading 0 means octal and 0x hexadecimal, for `parse_msec`
  neither does.  `010` is 8 to one and 10 seconds to the other, `08`, `0x` and a lone sign
  are -1 to `parse_nat`; `-0` is 0 to it and -1 to `parse_msec`.  `ParsersAgree` claims that
  they agree for lines in the usual base and how they differ for octal ones.
* `log.c:245`: the test main calls `dump_stats` after `destroy`, which leaves the pointer;
  in the model that outcome is `undefined`.
* `client_thread.c:148`: the queue is replaced for both pairs.  The first writer's final
  record may then stay in the first queue while both readers look at the second, and
  main waits in `pthread_join` for ever.  `ThreadsReturn` therefore claims main's exit for
  one pair only; that writers return, and that no final record is lost from the queues
  (`FinalsAccounted`), holds for two.
* `thread_timer.c:75`: the 10 ms and 100 ms timers are armed from uninitialised
  structures and may stay silent.  `TimersSound` claims the counts for the filled-in
  copy of `test_simple.c`.
* `thread_timer.c:104`: `highfd` is not the maximum when `ms100 > ms10` but `ms1` is higher than
  both; the 1 ms timer then goes unheard and the loop lasts for rounds of the 10 ms timer.
  `AllWatched` says this is the only such order.
* `thread_timer.c:58`: the watchdog is given nanoseconds as seconds; that it ends the
  loop (`LoopEnds`) holds, after a wait the model does not measure.
* `server_example.c:86`: the sockets block, so a damaged datagram that the kernel drops
  after `select` has reported it would hold up both ports; `NeverBlocks` is stated
  without such drops.

## 5. What is proved

All proofs are for every value of the constants that satisfies the assumptions of the
module (`SizeAssumption`, `CallAssumption`, `FilesAssumption`, `StreamAssumption`,
`InfAssumption`, and those of `Setup`), or, where a component is used through
instances, the hypotheses of the theorem.

**RingBufferProofs.**  `Inv` is `TypeOK`, `IndexBounds` and
`ShortCountMeansLimit`.  `IndexBounds` is inductive with the types: a write adds
at most `size - used`, a read removes at most `used`, and the wrap, taken when
`ridx > size`, lowers both by `size`.  It implies that neither subtraction on
`size_t` wraps, which turns `AddW` and `SubW` into plain arithmetic.
`RingBufferIsFifo` then shows each call to be one step of `ByteFifo` on the
sequence of cells from `ridx` to `widx`: the wrap leaves that sequence alone
because cells are taken modulo the size, and a write stores outside it.

**RingInitProofs.**  `SetUpInv` says for each system call that is due what is
mapped, open, sized and zeroed (`MappedSoFar`, `FileSoFar`).  `NoLeak`,
`DoubleMapped`, `FreshRing` and `OrphansAccounted` follow for any number of
files; the last one counts names: each `mkstemp` adds one, which `unlink` takes
away again unless it fails or a kill comes first.

**RingSpscProofs.**  `RaceInv` holds with no pacing: `Accounting` (the indices
differ by what was written and not read, up to one size during the wrap),
where the reader stands, and that the target of a copy in progress is `widx` or
`widx + size`.  It shows that the atomic operations lose nothing, so the only
flaw is the stale view of the room.  `PacedInv` adds, for `InFlight + Rec <=
Size`: any pair of loads, however stale, is off by nothing or by one size, and
either way yields room for a whole record, so `wlen = Rec`; and every unit in
the ring, being copied in or copied out carries its label.  From it follow
`PacedInOrder`, `PacedCopiesDisjoint`, `PacedNeverExits` and `PacedRingIsFifo`.

`WholeRecordsNeverTruncated` needs no pacing: when the record size divides the
ring size every index is a number of whole records (`WholeInv`), so the room a
write computes from any two loads, even a wrong one, is none or at least a
record, and the reader's `TRUNCATED READ` exit is unreachable.  Run
`RingSpscSplit` shows that the hypothesis cannot be dropped.

**InfBufferProofs.**  `InfInv`, for any finite set of writers and any set of
readers, has two halves.  `Tickets`: slots are taken without gaps, each by the
record `holder` names, a writer's records take rising slots, and `widx` lags
`tidx` by the number of writers inside `infbuffer_add`.  That every ticket is a
slot `infbuffer_init` allocated is a counting argument (`TicketLeft`): the
records that took slots `0 .. tidx - 1` differ, and the record asking for a
ticket is none of them, so `tidx` is below `Items`.  `Readings`: no two waiting
readers hold the same ticket; what was handed over came from a slot whose ticket
is used up; and a reader's highest seqno of a writer came from a lower slot than
the one it waits for.  The last conjunct is what makes the seqno assert hold:
lower slots hold lower seqnos of the same writer.  With a single writer
(`SoloInv`) `widx` is the length of the filled part (`Filled`) and a ticket that
is used up has handed its record over (`Served`), hence `OneWriterNeverNull` and
`OneWriterLosesNothing`.  Run `InfBufferNull` shows that two writers break it.

**ProgramProofs and ProgramsSound.**  `ProgramProofs` states the invariants over the modules'
constants, `ProgramsSound` takes them twice, once for each setting in `Programs`, and
derives the properties of its run.  `ServerSoundAll`: `ServerInv` follows each datagram (`Datagrams`:
what was received, what is queued and what was lost make up what was sent, without
overlap and in order), says that the sockets have descriptors of their own (`Handles`),
and carries `NeverBlocks`, which is inductive with these: a queue `select` found
something in keeps it until that socket is read, unless damaged datagrams are discarded.
`TimersSoundAll`: `TimerBase` holds whatever the intervals are, and gives that every round
watches the timers `highfd` covers and that no read blocks.  With the intervals filled in
`Timely` adds `Clocks` (what a timer reported and has pending is the number of its periods
begun since it was armed, and it was armed no earlier than the faster ones),
`Progress` (from the second round on each timer watched was reported) and `Prompt` (`pselect`
never waits longer than the 10 ms timer takes to expire).  It is proved for any `Ratio`
from 2 up, any `Step`, any number of rounds from 2 up and a watchdog of at least the period
of the second timer (`Loops`); the third timer need not be waited for.  `ClientSoundAll`: `ClientInv` keeps main's progress
(`MainOK`), the threads' (`ThreadsOK`), what of the shared array is filled in
(`DataOK`), the order in the first queue (`OrderOK`) and the count of final records
(`FinalsAccounted`), for any number of pairs, of records and any capacity.

**SetupProofs.**  `SetupInv` is `Types`, `Hosts` (how the table
stands to the operands and to what `optind` counted, and what an inherited socket needs), `Reported` (what
was printed is what is in force) and `Asked` (each flag in force comes from a word
already taken, and no word taken is forgotten).  `SetupSafeHolds`, `FlagsAsGivenHolds`
and `DscpReportedHolds` hold for every set of command lines, of any length, every
reading of numerals as words and every width of `uint32_t` that holds an octet.

**LibraryProofs.**

* `NetlibSoundHolds`, for any number of addresses, descriptors and calls: `NetInv` is
  `Descriptors` (what is open and not handed out is the socket of the address being
  tried), `Errors` (before address `rp` is tried `rp - 1` have failed, and `ret` is the
  error of the last) and `Buffer` (what the static buffer of `netlib_sock2ip` is up to
  date with).
* `LoggerSoundHolds`, for any set of blocks none of which is NULL: `LogInv` says which
  blocks live and that the counters of the live one agree with what was logged.
* `TimesSoundHolds`, for every second of `USEC` microseconds in `MSECS` milliseconds
  (`TimeUnits`: one divides the other): `TimeInv` bounds the folded deadline by what was
  folded into it and keeps the value of the record `timeval_subtract` rewrites.
  The arithmetic lemmas (`SubtractExact`, `RepayKeeps`, `CDivBounds`, `AddMsec`, ...) carry
  the proof: C division rounds towards zero, the carries and borrows undo each other.
* `AddressesParsedHolds`, for texts of any length over any set of characters without
  NUL: `SplitForm` shows that the scan for brackets and colons of `to_addr_port` finds a
  split exactly where the text has one of the two forms, and that a text has at most one.
  The first and last places the code looks for exist by `LeastNatural`.
* `NumbersSoundHolds`, for any space of at least two sequence numbers, any three bases that rise and any word
  (`NumberUnits`): `NumInv` says that a number is its counter modulo the space.  `ModTurns`
  (whole turns make no difference) gives `SeqnoOrder` across wraps.  `Value`, `WordValue` and
  `Power` are recursive functions; that they exist is shown with `LoopExists`, and what they
  compute with `Upward`, induction over a set instead of an operator.  Then `ValueIs` (an
  `unsigned int` keeps the value modulo the word) and `FractionScaled` (dividing or multiplying
  by the missing powers gives the truncated thousandths) give `MsecExact` and `ParsersAgree`; for the octal lines
  `OctalLess` compares the values of the same digits in two bases.
* `PrefixesSoundHolds`, for bytes of up to eight bits and any number of them, and for the
  real width (`PrefixUnits`; the small instance holds all addresses): `SamePrefixIsBits`, whole bytes
  and one mask compare the first bits, from `TopBits`, which goes down a byte bit by bit;
  `MaskFacts`; and `SetRelation`, where `Beyond` finds the address that a longer prefix
  leaves out.  `MartianInside` then looks only at the bytes two prefixes must share.
* `TextSoundHolds`, for bytes of up to eight bits, any number of bytes and any length of
  the mapped prefix: `TextInv` is `Results` (result `k` of `recent` lies `Len(recent) - k` slots
  behind the slot written last, so three more calls miss it), `Route` (what `parse_net` stores is
  masked, `MaskIsMasked`, and fits its family, `MaskKeepsMapped`) and `FromText`
  (`ScanEight`, `ScanSix`: a scan that succeeds overwrites what an earlier one left).
  `ShownPrefix` and `ShownAddress` then show that the text of a route is read back.

The theorems about `RingSpsc` and `InfBuffer` are about `Safe`, the specification
without fairness.  The hypotheses of the theorems hold for the values of
the code (8 bits, 16 bytes, mapped prefix of 12; 1000000 microseconds and 1000
milliseconds; 2^16 sequence numbers, bases 10, 8 and 16, words of 2^32; periods of 1, 10 and
100 ms and a watchdog of seconds) and for those of the runs.

## 6. Only model-checked

* `Terminates`, `BothDone`, `EveryoneReturns`, `ThreadsReturn` and `EveryoneServed` are
  liveness under fairness, which the prover does not handle.

Every safety property of the passing runs is proved.

## 7. Mutants

Every property of a passing run is paired with a plausible slip in the code that
breaks it (a dropped clip, a missing wrap, a store instead of a
compare-and-swap, a ticket taken after the increment, ...).  They are the
`Mutant_` definitions that precede the definitions they alter.

## 8. Plan

The parts with behaviour to model are modelled, and every safety property the runs check
is proved.  What could still be added:

1. The safety half of the liveness properties: that a state in which nothing can move is
   one where everyone has returned, for any number of threads (`InfBuffer`, `ClientThreads`).
2. A measure of the work left that no step of `RingSpsc` raises and each step of the writer
   lowers: the part of `Terminates` that does not need fairness.

## 9. Not modelled

Printing and layout.  Code that does not compile, so that there is no behaviour to be
faithful to: the DSCP, ECN and TOS senders and receivers of `test_simple.c`,
`packet.c`, `options.c`, `bitset.h`.  `network.c` does not compile as it stands either: the
repository defines neither the `NL_` codes nor `socket_t`, `sockaddr_t` and `BAD_SOCKET`.  Its
control flow does not depend on what they are, so `Netlib` models it, with the codes taken
to be different negative numbers and `BAD_SOCKET` to be -1.  `protocol.c`, whose `parse_packet` never enters its
loop and whose other functions return false.  `bits.h`, five macros and a
demonstration nothing includes.  `do_debugf`, `wait_for_fd`, `daemonise` and the
byte-order macros of `util.c` and `util.h`, wrappers round one call.  Disarming
and closing the timers at the end of `create_timerfds`.  The files that hold only comments or empty bodies
(`test_bw.c`, `test_call.c`, `test_diffserv.c`, `test_ecn.c`, `test_fq.c`,
`test_protocol.c`, `test_self.c`, `test_tos.c`, `twd-remote.c`), excerpts kept as
notes (`cmsg.c`, `recvmsg.c`, `useful_setsockopts.c`), `client.c`, which nothing
builds, `test_clock.c`, which has no state, and the draft under `rfc/`.
`infbuffer` instances in which readers must spin for ever are outside
`EveryoneReturns`: with one writer two readers at most can meet a record that
ends them, so `test_infbuffer -w 1 -r 3` does not return.
