----------------------------- MODULE Guardrails -----------------------------
(***************************************************************************)
(* The guardrails of tools/guardrails.go: what a mutating tool may touch.  *)
(* Every Check... operator is TRUE when the Go method returns a nil error. *)
(*                                                                         *)
(* Addresses of both families lie on one line, IPv4 below IPv6, which is   *)
(* the order of netip.Addr.Compare; a prefix never leaves its family.      *)
(* The arithmetic of netip is a parameter: First[a][n] and Last[a][n] are  *)
(* the ends of the block a/n, and PrefixTree is all that is assumed of it. *)
(***************************************************************************)
EXTENDS Integers

CONSTANTS
    MaxAddr,  \* the last address of the line
    MaxBits,  \* the longest prefix length of any family (128 in the code)
    Width,    \* Width[a]: the prefix lengths of a's family are 0..Width[a]
    First,    \* First[a][n]: the lowest address of the block a/n
    Last,     \* Last[a][n]: its highest address
    Names,    \* spellings of space names
    Fold      \* Fold[s]: s trimmed and case-folded, itself a spelling

Address == 0 .. MaxAddr
Bits    == 0 .. MaxBits
NoAddr  == -1      \* an empty or unparseable address string
NoBits  == -1      \* no prefix length: a bare address, or an edit without one
NoName  == ""      \* an empty name

ASSUME LineAssumption ==
    /\ MaxAddr \in Nat /\ MaxBits \in Nat
    /\ Width \in [Address -> Bits]
    /\ First \in [Address -> [Bits -> Address]]
    /\ Last \in [Address -> [Bits -> Address]]

(* Blocks of one length partition a family, and longer prefixes refine them. *)
ASSUME PrefixTree ==
    \A a \in Address : \A m \in 0 .. Width[a] :
        /\ First[a][m] <= a /\ a <= Last[a][m]
        /\ \A b \in First[a][m] .. Last[a][m] :
              /\ Width[b] = Width[a]
              /\ First[b][m] = First[a][m]
              /\ Last[b][m] = Last[a][m]
        /\ \A n \in m .. Width[a] :
              /\ First[a][m] <= First[a][n]
              /\ Last[a][n] <= Last[a][m]

ASSUME NameAssumption ==
    /\ NoName \notin Names
    /\ Fold \in [Names -> Names]
    /\ \A s \in Names : Fold[Fold[s]] = Fold[s]

-----------------------------------------------------------------------------

(* A subject of the subnet guard, or an entry of the protected list: the     *)
(* string "addr" (bits = NoBits) or "addr/bits", addr spelled canonically.   *)
Subnet == [addr : Address, bits : Bits \cup {NoBits}]

Guard == [ReadOnly : BOOLEAN, ProtectedSpaces : SUBSET Names,
          ProtectedSubnets : SUBSET Subnet]

ParsePrefix(p) == p.bits # NoBits /\ p.bits <= Width[p.addr]

Contains(p, a) == First[p.addr][p.bits] <= a /\ a <= Last[p.addr][p.bits]

Overlaps(p, q) ==
    /\ First[p.addr][p.bits] <= Last[q.addr][q.bits]
    /\ First[q.addr][q.bits] <= Last[p.addr][p.bits]

CheckReadOnly(g) == ~g.ReadOnly

CheckProtectedSpace(g, space) ==
    space # NoName => \A p \in g.ProtectedSpaces : Fold[p] # Fold[space]

(* Mutant: only the endpoints are looked at, so an enclosed subnet is missed. *)
EndpointsOnly(g, start, end) ==
    /\ start # NoAddr /\ end # NoAddr
    /\ \E p \in g.ProtectedSubnets :
          ParsePrefix(p) /\ (Contains(p, start) \/ Contains(p, end))

(* The range guard looks at the two endpoints and the protected subnet's     *)
(* first address only; endpoints in the wrong order are swapped.             *)
overlappingProtectedSubnet(g, start, end) ==
    LET lo == IF end < start THEN end ELSE start
        hi == IF end < start THEN start ELSE end
    IN  /\ start # NoAddr /\ end # NoAddr
        /\ \E p \in g.ProtectedSubnets :
              /\ ParsePrefix(p)
              /\ LET first == First[p.addr][p.bits]
                 IN  \/ Contains(p, lo)
                     \/ Contains(p, hi)
                     \/ lo <= first /\ first <= hi

CheckProtectedRange(g, start, end) == ~overlappingProtectedSubnet(g, start, end)

(* Mutant: the entry's string is not compared, so a bare entry protects nothing. *)
NoStringMatch(g, s) ==
    s.addr # NoAddr =>
       \A p \in g.ProtectedSubnets :
          ParsePrefix(p) =>
             IF s.bits = NoBits THEN ~Contains(p, s.addr)
             ELSE ParsePrefix(s) => ~Overlaps(p, s)

(* The guard on an address or a CIDR string. s.addr = NoAddr stands for an   *)
(* empty or unparseable string, which the guard leaves to validation.        *)
CheckProtectedSubnet(g, s) ==
    s.addr # NoAddr =>
       \A p \in g.ProtectedSubnets :
          /\ p # s
          /\ ParsePrefix(p) =>
                IF s.bits = NoBits THEN ~Contains(p, s.addr)
                ELSE ParsePrefix(s) => ~Overlaps(p, s)

CheckProtectedAddr(g, a) == CheckProtectedSubnet(g, [addr |-> a, bits |-> NoBits])

(* canonicalCIDR fails on an unparseable address or on a length its family   *)
(* does not have; otherwise it yields the masked block.                      *)
canonicalCIDROk(a, n) == a # NoAddr /\ n # NoBits /\ n <= Width[a]
canonicalCIDR(a, n)   == [addr |-> First[a][n], bits |-> n]

(* Mutant: the block is judged by its start address alone. *)
StartAddressOnly(g, a, n) == CheckProtectedAddr(g, a)

CheckProtectedSubnetCIDR(g, a, n) ==
    IF canonicalCIDROk(a, n) THEN CheckProtectedSubnet(g, canonicalCIDR(a, n))
                             ELSE CheckProtectedAddr(g, a)

ValidateSubnetPrefix(a, n) == a # NoAddr /\ n # NoBits /\ n <= Width[a]

-----------------------------------------------------------------------------

(* What the guards are for: some address of lo..hi is in a protected subnet. *)
Fenced(g, lo, hi) ==
    \E p \in g.ProtectedSubnets :
        /\ ParsePrefix(p)
        /\ \E a \in First[p.addr][p.bits] .. Last[p.addr][p.bits] : lo <= a /\ a <= hi

SpaceProtected(g, space) == \E p \in g.ProtectedSpaces : Fold[p] = Fold[space]
=============================================================================
