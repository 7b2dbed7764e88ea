--------------------------- MODULE MCLibraries ---------------------------
(***************************************************************************)
(* Small values for Libraries.  A second has four microseconds and two     *)
(* milliseconds, and no time lies in second 0, which timeval_min takes for *)
(* "none".  A space of eight sequence numbers wraps three times; six       *)
(* digits of base three, of base two after a 0 and of base four after an   *)
(* x, are more than a word of eight bits holds.                            *)
(***************************************************************************)
EXTENDS Libraries

----------------------------------------------------------------------------
(* Every address and prefix of two bytes of two bits.                        *)

MCSmallAddresses == [1 .. 2 -> 0 .. 3]
MCSmallPlens == 0 .. 4

(* Addresses of the real width around the boundaries the code tests.         *)

V4(a, z) == [k \in 1 .. 16 |->
    CASE k \in {11, 12} -> 255 [] k = 13 -> a [] k = 16 -> z [] OTHER -> 0]
V6(a, b, c, z) == [k \in 1 .. 16 |->
    CASE k = 1 -> a [] k = 2 -> b [] k = 8 -> c [] k = 16 -> z [] OTHER -> 0]

MCIp6Addresses ==
    {V4(a, 1) : a \in {0, 10, 127, 223, 224, 240}}
        \cup {V6(0, 0, 0, z) : z \in {0, 1, 2}}
        \cup {V6(254, b, c, 1) : b \in {127, 128, 191, 192}, c \in {0, 1}}
        \cup {V6(255, 2, 0, 1), V6(32, 1, 0, 1)}

MCIp6Plens == {0, 7, 8, 10, 64, 96, 99, 100, 104, 127, 128}

(* One IPv4 byte behind the two bytes of the mapped prefix, of two bits each. *)

TextAddresses == {<<3, 3, 1>>, <<3, 3, 2>>, <<0, 2, 1>>}
MCLens == {-1, 0, 1, 2, 5, 6, 7}
MCEuiTexts == [sep : {":", "-"}, bytes : {[k \in 1 .. n |-> k] : n \in {0, 1, 5, 6, 7, 8, 9}}
                                          \cup {[k \in 1 .. 6 |-> 7]}]

(* One long host, or two short ones.                                         *)

MCChars == {"[", "]", ":", "x"}
Over(max) == UNION {[1 .. n -> MCChars] : n \in 0 .. max}
MCHostLists == {<<>>} \cup {<<t>> : t \in Over(5)} \cup (Over(2) \X Over(2))
============================================================================
