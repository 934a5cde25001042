----------------------------- MODULE MCFunctions -----------------------------
(***************************************************************************)
(* PureFunctions on small inputs: a line of 4 IPv4 and 8 IPv6 addresses,   *)
(* DHCP scopes in 3-bit addresses and 5-bit counts, int64 replaced by -64  *)
(* .. 63 so that products wrap around, more attempts than the shift has    *)
(* room for, and ints of -4 .. 3.                                          *)
(***************************************************************************)
EXTENDS PureFunctions, NetipLine

V4 == 2
V6 == 3

MCMaxAddr == LastAddr(V4, V6)
MCMaxBits == V6
MCWidth   == FamilyBits(V4, V6)
MCFirst   == BlockFirst(V4, V6)
MCLast    == BlockLast(V4, V6)
MCNames   == {"prod", "Prod", "lab"}
MCFold    == [s \in MCNames |-> IF s = "lab" THEN "lab" ELSE "prod"]

MCBlockSize  == [n \in 0 .. 3 |-> 2^(3 - n)]
MCPowerOfTwo == [k \in 0 .. 2 |-> 2^k]

MCRetries == -4 .. 3
MCRates   == {-1, 0, 1, 2, 3, 6, 7, 20}
MCPorts   == {0, 1, 5, 6}

MCEntries == {[addr |-> 2, bits |-> 1],        \* 2..3, IPv4
              [addr |-> 1, bits |-> 2],        \* 1..1, IPv4
              [addr |-> 1, bits |-> 3],        \* a length IPv4 does not have
              [addr |-> 7, bits |-> 2],        \* 6..7, IPv6, host bits set
              [addr |-> 9, bits |-> NoBits]}   \* a bare IPv6 address

-----------------------------------------------------------------------------
(* Three spaces with at most one network each at an address; the block of    *)
(* the IPv6 family is too large for its size to be computed.                 *)

Recorded(s, start) ==
    {{}} \cup {{[start |-> start, bits |-> n, space |-> s, sized |-> z, id |-> TRUE]} :
                  n \in 0 .. Width[start], z \in BOOLEAN}
         \cup {{[start |-> start, bits |-> Width[start], space |-> s, sized |-> TRUE, id |-> FALSE]}}

MCTables ==
    UNION {{x \cup y \cup z : x \in Recorded("a", start), y \in Recorded("b", start),
                              z \in Recorded("c", start)} : start \in {0, 4}}

-----------------------------------------------------------------------------
(* Environments that differ from one that works in any two variables.        *)

Working ==
    [Host |-> TRUE,
     TokenID |-> [file |-> "unnamed", env |-> "from env"],
     TokenSecret |-> [file |-> "from file", env |-> "from env"],
     Transport |-> "unix", ReadOnly |-> Unset, MaxRetries |-> Unset, RateLimit |-> Unset,
     HTTPTimeout |-> Unset, HTTPPort |-> Unset, Socket |-> Unset, RuntimeDir |-> Unset,
     ProtectedSubnets |-> {"prefix"}]

Settings(v) ==
    CASE v = "Host" -> BOOLEAN
      [] v \in {"TokenID", "TokenSecret"} -> Secret
      [] v = "Transport" -> {"", "stdio", "http", "unix", "other"}
      [] v = "ReadOnly" -> Text(BOOLEAN)
      [] v = "MaxRetries" -> Text(Retries)
      [] v = "RateLimit" -> Text(Rates)
      [] v = "HTTPTimeout" -> Text({-1, 0, 1})
      [] v = "HTTPPort" -> Text(Ports)
      [] v \in {"Socket", "RuntimeDir"} -> Text(Path) \ {Malformed}
      [] v = "ProtectedSubnets" -> SUBSET Entry

MCEnvironments ==
    UNION {{[Working EXCEPT ![v] = x, ![w] = y] : x \in Settings(v), y \in Settings(w)} :
              v, w \in DOMAIN Working}
=============================================================================
