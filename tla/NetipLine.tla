------------------------------ MODULE NetipLine ------------------------------
(***************************************************************************)
(* The netip arithmetic that gives Guardrails its constants on a small     *)
(* line: an IPv4 family of 2^v4 addresses followed by an IPv6 family of    *)
(* 2^v6. A prefix of length n keeps the n leading bits of an address.      *)
(***************************************************************************)
EXTENDS Integers

LastAddr(v4, v6) == 2^v4 + 2^v6 - 1

FamilyBits(v4, v6) == [a \in 0 .. LastAddr(v4, v6) |-> IF a < 2^v4 THEN v4 ELSE v6]

LOCAL Size(w, n) == 2^(IF n > w THEN 0 ELSE w - n)

BlockFirst(v4, v6) ==
    [a \in 0 .. LastAddr(v4, v6) |-> [n \in 0 .. v6 |->
        LET w    == FamilyBits(v4, v6)[a]
            base == IF a < 2^v4 THEN 0 ELSE 2^v4
        IN  base + ((a - base) \div Size(w, n)) * Size(w, n)]]

BlockLast(v4, v6) ==
    [a \in 0 .. LastAddr(v4, v6) |-> [n \in 0 .. v6 |->
        BlockFirst(v4, v6)[a][n] + Size(FamilyBits(v4, v6)[a], n) - 1]]
=============================================================================
