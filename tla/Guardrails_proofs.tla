-------------------------- MODULE Guardrails_proofs --------------------------
(***************************************************************************)
(* What the guards promise, for every line of addresses and every          *)
(* protected list: what passes them shares no address with a protected     *)
(* subnet.                                                                 *)
(***************************************************************************)
EXTENDS Guardrails, TLAPS

LEMMA BlockTypes ==
    ASSUME NEW a \in Address, NEW n \in Bits
    PROVE  /\ a \in Int /\ n \in Nat /\ n # NoBits
           /\ Width[a] \in Nat /\ Width[a] \in Bits
           /\ First[a][n] \in Address /\ First[a][n] \in Int
           /\ Last[a][n] \in Address /\ Last[a][n] \in Int
<1>1. Width[a] \in Bits
  BY LineAssumption
<1>2. First[a] \in [Bits -> Address] /\ Last[a] \in [Bits -> Address]
  BY LineAssumption
<1>3. First[a][n] \in Address /\ Last[a][n] \in Address
  BY <1>2
<1>4. \A x \in Address : x \in Int
  BY DEF Address
<1>5. \A x \in Bits : x \in Nat /\ x # NoBits
  BY DEF Bits, NoBits
<1> QED
  BY <1>1, <1>3, <1>4, <1>5

LEMMA EntryTypes ==
    ASSUME NEW g, g.ProtectedSubnets \subseteq Subnet,
           NEW p \in g.ProtectedSubnets, ParsePrefix(p)
    PROVE  /\ p.addr \in Address /\ p.bits \in Bits /\ p.bits \in 0 .. Width[p.addr]
           /\ First[p.addr][p.bits] \in Int
           /\ Last[p.addr][p.bits] \in Int
           /\ First[p.addr][p.bits] <= Last[p.addr][p.bits]
<1>1. p \in Subnet
  OBVIOUS
<1>2. p.addr \in Address /\ p.bits \in Bits
  BY <1>1 DEF Subnet, ParsePrefix
<1>3. p.bits \in 0 .. Width[p.addr]
  BY <1>2, BlockTypes DEF ParsePrefix, Bits
<1>4. First[p.addr][p.bits] <= p.addr /\ p.addr <= Last[p.addr][p.bits]
  BY <1>2, <1>3, PrefixTree
<1> QED
  BY <1>2, <1>3, <1>4, BlockTypes

(* The range guard is exact on ordered ranges: two endpoints and one first   *)
(* address decide whether a range and a protected subnet intersect.          *)
THEOREM RangeGuardIsExact ==
    ASSUME NEW g, g.ProtectedSubnets \subseteq Subnet,
           NEW lo \in Address, NEW hi \in Address, lo <= hi
    PROVE  CheckProtectedRange(g, lo, hi) <=> ~Fenced(g, lo, hi)
<1>1. ASSUME NEW p \in g.ProtectedSubnets, ParsePrefix(p)
      PROVE  (\/ Contains(p, lo)
              \/ Contains(p, hi)
              \/ lo <= First[p.addr][p.bits] /\ First[p.addr][p.bits] <= hi)
             <=> \E a \in First[p.addr][p.bits] .. Last[p.addr][p.bits] : lo <= a /\ a <= hi
  <2> DEFINE f == First[p.addr][p.bits]
             l == Last[p.addr][p.bits]
  <2>2. f \in Int /\ l \in Int /\ f <= l
    BY <1>1, EntryTypes
  <2>3. lo \in Int /\ hi \in Int
    BY DEF Address
  <2>4. (\E a \in f .. l : lo <= a /\ a <= hi)
        => (f <= lo /\ lo <= l) \/ (f <= hi /\ hi <= l) \/ (lo <= f /\ f <= hi)
    BY <2>2, <2>3
  <2>5. ASSUME (f <= lo /\ lo <= l) \/ (f <= hi /\ hi <= l) \/ (lo <= f /\ f <= hi)
        PROVE  \E a \in f .. l : lo <= a /\ a <= hi
    <3>1. CASE f <= lo /\ lo <= l BY <3>1, <2>2, <2>3
    <3>2. CASE f <= hi /\ hi <= l BY <3>2, <2>2, <2>3
    <3>3. CASE lo <= f /\ f <= hi BY <3>3, <2>2, <2>3
    <3> QED BY <2>5, <3>1, <3>2, <3>3
  <2> QED BY <2>4, <2>5 DEF Contains
<1>2. lo # NoAddr /\ hi # NoAddr /\ ~(hi < lo)
  BY DEF Address, NoAddr
<1> QED
  BY <1>1, <1>2 DEF CheckProtectedRange, overlappingProtectedSubnet, Fenced

(* A range that passes the guard is clear of every protected subnet whatever *)
(* the order of its ends: a reversed one has no address at all.              *)
LEMMA RangeGuardClears ==
    ASSUME NEW g, g.ProtectedSubnets \subseteq Subnet,
           NEW lo \in Address, NEW hi \in Address,
           ~overlappingProtectedSubnet(g, lo, hi)
    PROVE  ~Fenced(g, lo, hi)
<1>1. CASE lo <= hi
  BY <1>1, RangeGuardIsExact DEF CheckProtectedRange
<1>2. CASE ~(lo <= hi)
  <2>1. ASSUME NEW p \in g.ProtectedSubnets, ParsePrefix(p)
        PROVE  First[p.addr][p.bits] \in Int /\ Last[p.addr][p.bits] \in Int
    BY <2>1, EntryTypes
  <2> QED BY <1>2, <2>1 DEF Fenced, Address
<1> QED BY <1>1, <1>2

(* An address that passes the address guard is in no protected subnet.       *)
LEMMA AddrGuardClears ==
    ASSUME NEW g, g.ProtectedSubnets \subseteq Subnet,
           NEW a \in Address, CheckProtectedAddr(g, a)
    PROVE  ~Fenced(g, a, a)
<1>1. ASSUME NEW p \in g.ProtectedSubnets, ParsePrefix(p)
      PROVE  ~Contains(p, a)
  BY <1>1 DEF CheckProtectedAddr, CheckProtectedSubnet, Address, NoAddr
<1>2. ASSUME NEW p \in g.ProtectedSubnets, ParsePrefix(p)
      PROVE  First[p.addr][p.bits] \in Int /\ Last[p.addr][p.bits] \in Int
  BY <1>2, EntryTypes
<1> QED BY <1>1, <1>2 DEF Fenced, Contains, Address

(* A block that passes the CIDR guard shares no address with a protected     *)
(* subnet: masking keeps the block, so the guard judges what will be edited. *)
LEMMA BlockGuardClears ==
    ASSUME NEW g, g.ProtectedSubnets \subseteq Subnet,
           NEW a \in Address, NEW n \in Bits, n <= Width[a],
           CheckProtectedSubnet(g, canonicalCIDR(a, n))
    PROVE  ~Fenced(g, First[a][n], Last[a][n])
<1> DEFINE b == First[a][n]
<1>1. n \in 0 .. Width[a] /\ Width[a] \in Nat /\ n \in Nat /\ n # NoBits
  BY BlockTypes
<1>2. b \in Address /\ b \in Int /\ b # NoAddr
  BY BlockTypes DEF Address, NoAddr
<1>3. b <= Last[a][n] /\ Last[a][n] \in Int
  <2>1. b <= a /\ a <= Last[a][n]
    BY <1>1, PrefixTree
  <2> QED BY <2>1, <1>2, BlockTypes
<1>4. Width[b] = Width[a] /\ First[b][n] = b /\ Last[b][n] = Last[a][n]
  <2>1. b \in First[a][n] .. Last[a][n]
    BY <1>2, <1>3 DEF Address
  <2> QED BY <2>1, <1>1, PrefixTree
<1>5. ASSUME NEW p \in g.ProtectedSubnets, ParsePrefix(p)
      PROVE  ~Overlaps(p, [addr |-> b, bits |-> n])
  BY <1>1, <1>2, <1>4, <1>5 DEF CheckProtectedSubnet, canonicalCIDR, ParsePrefix
<1>6. ASSUME NEW p \in g.ProtectedSubnets, ParsePrefix(p)
      PROVE  First[p.addr][p.bits] \in Int /\ Last[p.addr][p.bits] \in Int
  BY <1>6, EntryTypes
<1> QED BY <1>2, <1>3, <1>4, <1>5, <1>6 DEF Fenced, Overlaps, Address

(* A range inside one that is clear is clear.                                *)
LEMMA ClearIsHereditary ==
    ASSUME NEW g, g.ProtectedSubnets \subseteq Subnet,
           NEW lo \in Int, NEW hi \in Int, ~Fenced(g, lo, hi),
           NEW lo2 \in Int, NEW hi2 \in Int, lo <= lo2, hi2 <= hi
    PROVE  ~Fenced(g, lo2, hi2)
<1>1. ASSUME NEW p \in g.ProtectedSubnets, ParsePrefix(p)
      PROVE  First[p.addr][p.bits] \in Int /\ Last[p.addr][p.bits] \in Int
  BY <1>1, EntryTypes
<1> QED BY <1>1 DEF Fenced

(* After a resize to n1, a further resize to n2 stays within the blocks that *)
(* both resizes of the original start address would give.                    *)
LEMMA ResizesCompose ==
    ASSUME NEW a \in Address, NEW n1 \in Bits, NEW n2 \in Bits,
           n1 <= Width[a], n2 <= Width[First[a][n1]],
           NEW g, g.ProtectedSubnets \subseteq Subnet,
           ~Fenced(g, First[a][n1], Last[a][n1]), ~Fenced(g, First[a][n2], Last[a][n2])
    PROVE  /\ n2 <= Width[a]
           /\ ~Fenced(g, First[First[a][n1]][n2], Last[First[a][n1]][n2])
<1> DEFINE b == First[a][n1]
<1>1. Width[a] \in Nat /\ n1 \in 0 .. Width[a] /\ n1 \in Nat /\ n2 \in Nat /\ a \in Int
  BY BlockTypes
<1>2. b \in Address /\ b \in Int /\ Last[a][n1] \in Int /\ b <= a /\ a <= Last[a][n1]
  BY <1>1, BlockTypes, PrefixTree
<1>3. Width[b] = Width[a] /\ First[b][n1] = b /\ Last[b][n1] = Last[a][n1]
  <2>1. b \in First[a][n1] .. Last[a][n1]
    BY <1>1, <1>2
  <2> QED BY <2>1, <1>1, PrefixTree
<1>4. n2 \in 0 .. Width[a] /\ n2 \in 0 .. Width[b] /\ n1 \in 0 .. Width[b]
  BY <1>1, <1>3
<1>5. CASE n1 <= n2
  <2>1. n2 \in n1 .. Width[b]
    BY <1>4, <1>5, <1>1
  <2>2. First[b][n1] <= First[b][n2] /\ Last[b][n2] <= Last[b][n1]
    BY <2>1, <1>2, <1>4, PrefixTree
  <2>3. First[b][n2] \in Int /\ Last[b][n2] \in Int
    BY <1>2, BlockTypes
  <2> QED BY <2>2, <2>3, <1>2, <1>3, <1>4, ClearIsHereditary
<1>6. CASE n2 <= n1
  <2>1. n1 \in n2 .. Width[a]
    BY <1>1, <1>6
  <2>2. First[a][n2] <= First[a][n1] /\ Last[a][n1] <= Last[a][n2]
    BY <2>1, <1>4, PrefixTree
  <2>3. First[a][n2] \in Int /\ Last[a][n2] \in Int
    BY BlockTypes
  <2>4. b \in First[a][n2] .. Last[a][n2]
    BY <2>2, <2>3, <1>1, <1>2
  <2>5. First[b][n2] = First[a][n2] /\ Last[b][n2] = Last[a][n2]
    BY <2>4, <1>4, PrefixTree
  <2> QED BY <2>5, <1>4
<1> QED BY <1>5, <1>6, <1>1, <1>4
=============================================================================
