------------------------------- MODULE Netlib -------------------------------
(***************************************************************************)
(* network.c: netlib_connectsock tries the addresses getaddrinfo returns   *)
(* until one can be bound (UDP) or connected (TCP); netlib_sock2ip writes  *)
(* the peer of a socket into a static buffer.  A process calls them one    *)
(* after the other and may close what it got.  The repository defines      *)
(* neither the NL_ codes nor socket_t, sockaddr_t and BAD_SOCKET: the      *)
(* codes are taken to be different negative numbers, BAD_SOCKET to be -1.  *)
(***************************************************************************)
EXTENDS Integers, Sequences, FiniteSets

CONSTANTS MaxAddresses,  \* bound: addresses a name resolves to
          MaxFds,        \* descriptors the process may open
          MaxCalls       \* bound: calls of netlib_connectsock

VARIABLES
    pc, type, rp, ret, s,  \* of the call under way; rp counts the addresses
    addresses,             \* how many there are
    failed,                \* history: the step each address tried failed at
    open, nonblock,        \* the open descriptors; those set to O_NONBLOCK
    peer,                  \* the address a descriptor is connected to, 0 for none
    handed,                \* the descriptors returned to the caller and not closed by it
    ip, asked,             \* the static buffer; the socket it was filled for, 0 when out of date
    calls

vars == <<pc, type, rp, ret, s, addresses, failed, open, nonblock, peer, handed, ip, asked, calls>>
call == <<type, addresses, calls>>
kernel == <<open, nonblock, peer>>
outside == <<handed, ip, asked>>

Fds == 1 .. MaxFds
NL_NOHOST == -2
NL_NOSOCK == -4
NL_NOSOCKOPT == -5
NL_NOCONNECT == -6
unknown == 0

Init ==
    /\ pc = "idle" /\ type = "none" /\ rp = 0 /\ ret = 0 /\ s = -1 /\ addresses = 0
    /\ failed = <<>> /\ open = {} /\ nonblock = {} /\ peer = [f \in Fds |-> 0]
    /\ handed = {} /\ ip = unknown /\ asked = 0 /\ calls = 0

\* The call up to getaddrinfo: no address, or a list of some.
Lookup ==
    /\ pc = "idle" /\ calls < MaxCalls /\ calls' = calls + 1
    /\ type' \in {"stream", "dgram"} /\ failed' = <<>>
    /\ \/ ret' = NL_NOHOST /\ addresses' = 0 /\ rp' = 0 /\ pc' = "idle"
       \/ addresses' \in 1 .. MaxAddresses /\ rp' = 1 /\ ret' = ret /\ pc' = "socket"
    /\ UNCHANGED <<s, kernel, outside>>

Fails(step) == failed' = Append(failed, step) /\ pc' = "close"
Goes(step) == pc' = step /\ UNCHANGED failed

socket ==
    /\ pc = "socket" /\ rp <= addresses
    /\ \/ s' = -1 /\ ret' = NL_NOSOCK /\ Fails("socket") /\ UNCHANGED open
       \/ \E f \in Fds \ open : /\ s' = f /\ open' = open \cup {f}
                                /\ ret' = NL_NOCONNECT /\ Goes("reuse")
    /\ UNCHANGED <<rp, nonblock, peer, call, outside>>

setsockopt ==
    /\ pc = "reuse"
    /\ \/ ret' = NL_NOSOCKOPT /\ Fails("reuse")
       \/ ret' = ret /\ Goes("attach")
    /\ UNCHANGED <<rp, s, kernel, call, outside>>

\* bind for a datagram socket, connect for a stream.
Attach ==
    /\ pc = "attach"
    /\ \/ /\ ret' = 0 /\ Goes("found")
          /\ peer' = [peer EXCEPT ![s] = IF type = "stream" THEN rp ELSE 0]
       \/ ret' = ret /\ Fails("attach") /\ UNCHANGED peer
    /\ UNCHANGED <<rp, s, open, nonblock, call, outside>>

Mutant_CloseLeaks ==
    /\ pc = "close"
    /\ open' = (IF ret = NL_NOSOCKOPT THEN open ELSE open \ {s})
    /\ rp' = rp + 1 /\ pc' = "socket"
    /\ UNCHANGED <<s, ret, failed, nonblock, peer, call, outside>>

\* An address that failed: its socket, if there is one, is closed.
close ==
    /\ pc = "close" /\ open' = open \ {s}
    /\ rp' = rp + 1 /\ pc' = "socket"
    /\ UNCHANGED <<s, ret, failed, nonblock, peer, call, outside>>

\* The list is exhausted: the error of its last address is returned.
GiveUp ==
    /\ pc = "socket" /\ rp > addresses
    /\ pc' = "idle" /\ UNCHANGED <<rp, s, ret, failed, kernel, call, outside>>

\* The type of service, TCP_NODELAY and, last, O_NONBLOCK; then the return.
Found ==
    /\ pc = "found" /\ nonblock' = nonblock \cup {s} /\ handed' = handed \cup {s}
    /\ pc' = "idle" /\ UNCHANGED <<rp, s, ret, failed, open, peer, call, ip, asked>>

\* netlib_sock2ip; getpeername fails for a socket that is not connected.  (Peers
\* are IPv4 or IPv6: an "unknown AF" does not come from netlib_connectsock.)
netlib_sock2ip(f) ==
    /\ pc = "idle" /\ f \in handed /\ asked' = f
    /\ ip' = IF peer[f] = 0 THEN unknown ELSE peer[f]
    /\ UNCHANGED <<pc, rp, s, ret, failed, kernel, call, handed>>

Outdated(f) == asked' = IF asked = f THEN 0 ELSE asked

\* The peer goes away; the caller closes a socket it was given.
Disconnect(f) ==
    /\ f \in handed /\ peer[f] # 0 /\ peer' = [peer EXCEPT ![f] = 0] /\ Outdated(f)
    /\ UNCHANGED <<pc, rp, s, ret, failed, open, nonblock, call, handed, ip>>

CallerCloses(f) ==
    /\ pc = "idle" /\ f \in handed /\ handed' = handed \ {f} /\ open' = open \ {f}
    /\ nonblock' = nonblock \ {f} /\ peer' = [peer EXCEPT ![f] = 0] /\ Outdated(f)
    /\ UNCHANGED <<pc, rp, s, ret, failed, call, ip>>

Next == \/ Lookup \/ socket \/ setsockopt \/ Attach \/ close \/ GiveUp \/ Found
        \/ \E f \in Fds : netlib_sock2ip(f) \/ Disconnect(f) \/ CallerCloses(f)

Spec == Init /\ [][Next]_vars

----------------------------------------------------------------------------
\* No call leaves a descriptor behind that its caller does not know of, however
\* many addresses failed and at whichever step.
NoLeak == pc = "idle" => open = handed

\* The error that stands for a step.
ErrorOf(step) == IF step = "socket" THEN NL_NOSOCK
                 ELSE IF step = "reuse" THEN NL_NOSOCKOPT ELSE NL_NOCONNECT

\* A call that fails returns the error of the last address, after trying all of
\* them; none of an earlier address shows through.
ErrorIsOfLast == pc = "idle" /\ ret \notin {0, NL_NOHOST} =>
    /\ Len(failed) = addresses
    /\ ret = ErrorOf(failed[addresses])

\* The buffer never shows the peer of a socket other than the one asked about,
\* also when that one has none.
BufferIsOfAsked == asked # 0 => ip = peer[asked]

\* What the socket helpers promise, in one.
NetlibSound == NoLeak /\ ErrorIsOfLast /\ BufferIsOfAsked
============================================================================
