------------------------ MODULE PureFunctions_proofs ------------------------
(***************************************************************************)
(* PureFunctions for every line of addresses, every table of networks,     *)
(* every environment, every integer width and clauses of every length.     *)
(***************************************************************************)
EXTENDS PureFunctions, Guardrails_proofs, FiniteSetTheorems

-----------------------------------------------------------------------------
(* Guardrails. *)

LEMMA GuardInputs ==
    ASSUME Init, For("guard")
    PROVE  /\ input.g.ProtectedSubnets \subseteq Subnet
           /\ input.a \in Address /\ input.b \in Address /\ input.n \in Bits
<1>1. Guarded
  BY DEF Init, For, Extents, Retried, Resolved, Filtered, Started
<1>2. PICK P \in SUBSET Entries \ {{}}, a \in Address, b \in Address, n \in Bits :
         input = [kind |-> "guard", g |-> Protecting(P), a |-> a, b |-> b, n |-> n]
  BY <1>1 DEF Guarded
<1>3. P \subseteq Subnet
  BY <1>2, InputAssumption
<1> QED BY <1>2, <1>3 DEF Protecting

LEMMA EveryRangeExact ==
    ASSUME NEW g, g.ProtectedSubnets \subseteq Subnet,
           NEW a \in Address, NEW b \in Address
    PROVE  CheckProtectedRange(g, a, b) <=> ~Fenced(g, AtMost(a, b), AtLeast(a, b))
<1>1. a \in Int /\ b \in Int
  BY DEF Address
<1>2. CASE a <= b
  <2>1. AtMost(a, b) = a /\ AtLeast(a, b) = b
    BY <1>1, <1>2 DEF AtMost, AtLeast
  <2> QED BY <1>2, <2>1, RangeGuardIsExact
<1>3. CASE b < a
  <2>1. AtMost(a, b) = b /\ AtLeast(a, b) = a
    BY <1>1, <1>3 DEF AtMost, AtLeast
  <2>2. CheckProtectedRange(g, a, b) <=> CheckProtectedRange(g, b, a)
    BY <1>1, <1>3 DEF CheckProtectedRange, overlappingProtectedSubnet
  <2> QED BY <1>1, <1>3, <2>1, <2>2, RangeGuardIsExact
<1> QED BY <1>1, <1>2, <1>3

(* The reverse of BlockGuardClears and AddrGuardClears: what shares no       *)
(* address with a protected subnet, and is not an entry's own string, passes.*)
LEMMA ClearBlockPasses ==
    ASSUME NEW g, g.ProtectedSubnets \subseteq Subnet,
           NEW a \in Address, NEW n \in Bits, n <= Width[a],
           ~Fenced(g, First[a][n], Last[a][n]), canonicalCIDR(a, n) \notin g.ProtectedSubnets
    PROVE  CheckProtectedSubnet(g, canonicalCIDR(a, n))
<1> DEFINE b == First[a][n]
<1>1. /\ n \in 0 .. Width[a] /\ n # NoBits
      /\ b \in Address /\ b \in Int /\ Last[a][n] \in Int /\ a \in Int
  BY BlockTypes
<1>2. b <= a /\ a <= Last[a][n]
  BY <1>1, PrefixTree
<1>3. Width[b] = Width[a] /\ First[b][n] = b /\ Last[b][n] = Last[a][n]
  <2>1. b \in First[a][n] .. Last[a][n]
    BY <1>1, <1>2
  <2> QED BY <2>1, <1>1, PrefixTree
<1>4. ASSUME NEW p \in g.ProtectedSubnets, ParsePrefix(p), Overlaps(p, canonicalCIDR(a, n))
      PROVE  FALSE
  <2> DEFINE f == First[p.addr][p.bits]
             l == Last[p.addr][p.bits]
  <2>1. f \in Int /\ l \in Int /\ f <= l
    BY <1>4, EntryTypes
  <2>2. f <= Last[a][n] /\ b <= l
    BY <1>3, <1>4 DEF Overlaps, canonicalCIDR
  <2>3. \E x \in f .. l : b <= x /\ x <= Last[a][n]
    <3>1. CASE f <= b
      BY <1>1, <1>2, <2>1, <2>2, <3>1
    <3>2. CASE b < f
      BY <1>1, <1>2, <2>1, <2>2, <3>2
    <3> QED BY <1>1, <2>1, <3>1, <3>2
  <2> QED BY <1>4, <2>3 DEF Fenced
<1> QED BY <1>1, <1>4 DEF CheckProtectedSubnet, canonicalCIDR

(* The CIDR guard never falls open on a valid spelling, for every line of    *)
(* addresses and every protected list.                                       *)
LEMMA EveryBlockExact ==
    ASSUME NEW g, g.ProtectedSubnets \subseteq Subnet,
           NEW a \in Address, NEW n \in Bits, ValidateSubnetPrefix(a, n)
    PROVE  CheckProtectedSubnetCIDR(g, a, n)
              <=> /\ ~Fenced(g, First[a][n], Last[a][n])
                  /\ canonicalCIDR(a, n) \notin g.ProtectedSubnets
<1>1. canonicalCIDROk(a, n) /\ n <= Width[a]
  BY DEF ValidateSubnetPrefix, canonicalCIDROk
<1>2. CheckProtectedSubnetCIDR(g, a, n) <=> CheckProtectedSubnet(g, canonicalCIDR(a, n))
  BY <1>1 DEF CheckProtectedSubnetCIDR
<1>3. CheckProtectedSubnet(g, canonicalCIDR(a, n)) => canonicalCIDR(a, n) \notin g.ProtectedSubnets
  <2>1. canonicalCIDR(a, n).addr # NoAddr
    BY BlockTypes DEF canonicalCIDR, Address, NoAddr
  <2> QED BY <2>1 DEF CheckProtectedSubnet
<1> QED BY <1>1, <1>2, <1>3, BlockGuardClears, ClearBlockPasses

LEMMA EveryAddrExact ==
    ASSUME NEW g, g.ProtectedSubnets \subseteq Subnet, NEW a \in Address
    PROVE  CheckProtectedAddr(g, a)
              <=> /\ ~Fenced(g, a, a)
                  /\ [addr |-> a, bits |-> NoBits] \notin g.ProtectedSubnets
<1>1. a \in Int /\ a # NoAddr
  BY DEF Address, NoAddr
<1>2. CheckProtectedAddr(g, a) <=>
        \A p \in g.ProtectedSubnets :
           p # [addr |-> a, bits |-> NoBits] /\ (ParsePrefix(p) => ~Contains(p, a))
  BY <1>1 DEF CheckProtectedAddr, CheckProtectedSubnet
<1>3. ASSUME NEW p \in g.ProtectedSubnets, ParsePrefix(p)
      PROVE  Contains(p, a) <=>
                \E x \in First[p.addr][p.bits] .. Last[p.addr][p.bits] : a <= x /\ x <= a
  <2>1. First[p.addr][p.bits] \in Int /\ Last[p.addr][p.bits] \in Int
    BY <1>3, EntryTypes
  <2> QED BY <1>1, <2>1 DEF Contains
<1> QED BY <1>2, <1>3 DEF Fenced

(* The range guard refuses exactly the ranges with an address in a protected *)
(* subnet, in whichever order its ends come.                                 *)
THEOREM RangesExact == Spec => []RangeGuardExact
<1>1. Init => RangeGuardExact
  BY GuardInputs, EveryRangeExact DEF RangeGuardExact
<1>2. RangeGuardExact /\ [Next]_input => RangeGuardExact'
  BY DEF Next, RangeGuardExact, For
<1> QED BY <1>1, <1>2, PTL DEF Spec

(* The CIDR guard refuses exactly the valid blocks that share an address     *)
(* with a protected subnet or are the same string as an entry.               *)
THEOREM BlocksExact == Spec => []CIDRGuardExact
<1>1. Init => CIDRGuardExact
  BY GuardInputs, EveryBlockExact DEF CIDRGuardExact
<1>2. CIDRGuardExact /\ [Next]_input => CIDRGuardExact'
  BY DEF Next, CIDRGuardExact, For
<1> QED BY <1>1, <1>2, PTL DEF Spec

(* The address guard refuses exactly the addresses in a protected subnet and *)
(* the bare addresses of the list.                                           *)
THEOREM AddrsExact == Spec => []AddrGuardExact
<1>1. Init => AddrGuardExact
  BY GuardInputs, EveryAddrExact DEF AddrGuardExact
<1>2. AddrGuardExact /\ [Next]_input => AddrGuardExact'
  BY DEF Next, AddrGuardExact, For
<1> QED BY <1>1, <1>2, PTL DEF Spec

-----------------------------------------------------------------------------
(* Backoff. *)

LEMMA OptionsArePositive ==
    /\ initialBackoff \in Nat \ {0} /\ maxBackoff \in Nat \ {0} /\ MaxInt64 \in Nat \ {0}
    /\ jitterDivisor \in Nat \ {0}
  BY BackoffAssumption DEF initialBackoff, maxBackoff

(* The shift stays within the powers of two, and the jitter adds less than   *)
(* the backoff itself.                                                       *)
LEMMA ExponentialIsPositive ==
    ASSUME NEW attempt \in Int, NEW d \in exponential(attempt)
    PROVE  \E k \in 0 .. maxBackoffShift :
              /\ k = AtLeast(0, AtMost(attempt - 1, maxBackoffShift))
              /\ d \in Int /\ 0 < d
              /\ d >= AtMost(initialBackoff * PowerOfTwo[k], maxBackoff)
<1> DEFINE k == AtLeast(0, AtMost(attempt - 1, maxBackoffShift))
           backoff == AtMost(initialBackoff * PowerOfTwo[k], maxBackoff)
<1>1. k \in 0 .. maxBackoffShift
  BY BackoffAssumption DEF AtLeast, AtMost
<1>2. PowerOfTwo[k] \in Nat \ {0} /\ initialBackoff \in Nat \ {0} /\ maxBackoff \in Nat \ {0}
  BY <1>1, BackoffAssumption, OptionsArePositive
<1>3. initialBackoff * PowerOfTwo[k] \in Nat \ {0}
  BY <1>2
<1>4. backoff \in Nat \ {0}
  BY <1>2, <1>3 DEF AtMost
<1>5. PICK jitter \in 0 .. AtLeast(1, backoff \div jitterDivisor) - 1 : d = backoff + jitter
  BY DEF exponential
<1>6. jitter \in Nat
  <2>1. backoff \div jitterDivisor \in Int
    BY <1>4, OptionsArePositive
  <2> QED BY <1>5, <2>1 DEF AtLeast
<1> HIDE DEF k, backoff
<1>7. d \in Int /\ 0 < d /\ d >= backoff
  BY <1>4, <1>5, <1>6
<1> QED BY <1>1, <1>7 DEF k, backoff

LEMMA AskedIsAnInteger ==
    ASSUME NEW h \in Header
    PROVE  parseRetryAfter(h) \in Int
<1>1. h.value \in Int /\ MaxInt64 \in Nat /\ Second \in Nat
  BY BackoffAssumption DEF Header, Int64
<1>2. h.value * Second \in Int /\ 2 * (MaxInt64 + 1) \in Nat \ {0}
  BY <1>1
<1>3. Truncated(h.value * Second) \in Int
  <2> DEFINE x == h.value * Second
             w == 2 * (MaxInt64 + 1)
  <2>1. (x + MaxInt64 + 1) % w \in Int
    <3> HIDE DEF x, w
    <3>1. x \in Int /\ w \in Nat \ {0}
      BY <1>2 DEF x, w
    <3> QED BY <1>1, <3>1
  <2> QED BY <1>1, <1>2, <2>1 DEF Truncated
<1> QED BY <1>1, <1>3 DEF parseRetryAfter

(* However many seconds or attempts: the wait before a retry is positive and *)
(* within the cap.                                                           *)
THEOREM EveryWaitWithin ==
    ASSUME NEW attempt \in Int, NEW status, NEW h \in Header
    PROVE  WaitsWithin(attempt, status, h)
<1> DEFINE asked == IF status \in Headed THEN parseRetryAfter(h) ELSE 0
<1>1. asked \in Int
  BY AskedIsAnInteger
<1>2. ASSUME NEW d \in Int, 0 < d
      PROVE  0 < AtMost(d, maxBackoff) /\ AtMost(d, maxBackoff) <= maxBackoff
  BY <1>2, OptionsArePositive DEF AtMost
<1>3. \A d \in exponential(attempt) : d \in Int /\ 0 < d
  BY ExponentialIsPositive
<1>4. ASSUME NEW w \in calculateBackoff(attempt, status, h)
      PROVE  0 < w /\ w <= maxBackoff
  <2>1. PICK d \in IF asked > 0 THEN {asked} ELSE exponential(attempt) : w = AtMost(d, maxBackoff)
    BY DEF calculateBackoff
  <2>2. d \in Int /\ 0 < d
    BY <1>1, <1>3, <2>1
  <2> QED BY <1>2, <2>1, <2>2
<1> QED BY <1>4 DEF WaitsWithin

LEMMA WaitsGrow ==
    ASSUME NEW j \in 0 .. maxBackoffShift, NEW k \in 0 .. maxBackoffShift, j <= k
    PROVE  AtMost(initialBackoff * PowerOfTwo[j], maxBackoff)
              <= AtMost(initialBackoff * PowerOfTwo[k], maxBackoff)
<1>1. /\ PowerOfTwo[j] \in Nat /\ PowerOfTwo[k] \in Nat /\ PowerOfTwo[j] <= PowerOfTwo[k]
      /\ initialBackoff \in Nat /\ maxBackoff \in Nat
  BY BackoffAssumption, OptionsArePositive
<1>2. ASSUME NEW a \in Nat, NEW x \in Nat, NEW y \in Nat, x <= y
      PROVE  a * x <= a * y /\ a * x \in Nat /\ a * y \in Nat
  BY <1>2
<1>3. /\ initialBackoff * PowerOfTwo[j] <= initialBackoff * PowerOfTwo[k]
      /\ initialBackoff * PowerOfTwo[j] \in Nat /\ initialBackoff * PowerOfTwo[k] \in Nat
  BY <1>1, <1>2
<1> QED BY <1>1, <1>3 DEF AtMost

(* A wait the appliance asks for is kept when the cap allows it, and without *)
(* one no wait is shorter than the attempt's backoff.                        *)
THEOREM EveryWaitAsAsked ==
    ASSUME NEW attempt \in Int, NEW status, NEW h \in Header
    PROVE  WaitsAsAsked(attempt, status, h)
<1> DEFINE asked == IF status \in Headed THEN parseRetryAfter(h) ELSE 0
<1>0. h.value \in Int /\ Second \in Nat \ {0} /\ MaxInt64 \in Nat /\ maxBackoff \in Nat \ {0}
      /\ maxBackoff <= MaxInt64
  BY BackoffAssumption, OptionsArePositive DEF Header, Int64
<1>1. SUFFICES ASSUME NEW w \in calculateBackoff(attempt, status, h)
      PROVE  /\ (status \in Headed /\ h.kind = "seconds" /\ h.value > 0
                    /\ h.value * Second <= maxBackoff) => w = h.value * Second
             /\ (status \in Headed /\ h.kind = "date" /\ 0 < h.value
                    /\ h.value <= maxBackoff) => w = h.value
             /\ (status \notin Headed \/ h.value <= 0) => \A k \in 0 .. maxBackoffShift :
                   attempt > k => w >= AtMost(initialBackoff * PowerOfTwo[k], maxBackoff)
  BY DEF WaitsAsAsked
<1>2. PICK d \in IF asked > 0 THEN {asked} ELSE exponential(attempt) : w = AtMost(d, maxBackoff)
  BY DEF calculateBackoff
<1>3. ASSUME status \in Headed, h.kind = "seconds", h.value > 0, h.value * Second <= maxBackoff
      PROVE  w = h.value * Second
  <2> DEFINE x == h.value * Second
  <2>1. x \in Int /\ 0 < x
    BY <1>0, <1>3
  <2>2. asked = Truncated(x)
    BY <1>3 DEF parseRetryAfter
  <2> HIDE DEF x, asked
  <2>3. asked = x
    BY <1>0, <1>3, <2>1, <2>2 DEF Truncated, Int64, x
  <2> QED BY <1>0, <1>2, <1>3, <2>1, <2>3 DEF AtMost, x
<1>4. ASSUME status \in Headed, h.kind = "date", 0 < h.value, h.value <= maxBackoff
      PROVE  w = h.value
  BY <1>0, <1>2, <1>4 DEF parseRetryAfter, AtMost
<1>5. ASSUME status \notin Headed \/ h.value <= 0,
             NEW k \in 0 .. maxBackoffShift, attempt > k
      PROVE  w >= AtMost(initialBackoff * PowerOfTwo[k], maxBackoff)
  <2>1. d \in exponential(attempt)
    BY <1>0, <1>2, <1>5 DEF parseRetryAfter
  <2>2. PICK j \in 0 .. maxBackoffShift :
           /\ j = AtLeast(0, AtMost(attempt - 1, maxBackoffShift))
           /\ d \in Int /\ d >= AtMost(initialBackoff * PowerOfTwo[j], maxBackoff)
    BY <2>1, ExponentialIsPositive
  <2>3. k <= j
    BY <1>5, <2>2, BackoffAssumption DEF AtLeast, AtMost
  <2> DEFINE x == AtMost(initialBackoff * PowerOfTwo[k], maxBackoff)
             y == AtMost(initialBackoff * PowerOfTwo[j], maxBackoff)
  <2>4. x <= y
    BY <2>3, WaitsGrow
  <2>5. x \in Int /\ y \in Int /\ x <= maxBackoff
    <3>1. initialBackoff * PowerOfTwo[k] \in Int /\ initialBackoff * PowerOfTwo[j] \in Int
      <4>1. PowerOfTwo[k] \in Nat /\ PowerOfTwo[j] \in Nat
        BY BackoffAssumption
      <4>2. \A a \in Nat, b \in Nat : a * b \in Int
        OBVIOUS
      <4> QED BY <4>1, <4>2, OptionsArePositive
    <3> QED BY <1>0, <3>1 DEF AtMost
  <2> HIDE DEF x, y
  <2>6. d >= y
    BY <2>2 DEF y
  <2>7. w >= x
    BY <1>0, <1>2, <2>2, <2>4, <2>5, <2>6 DEF AtMost
  <2> QED BY <2>7 DEF x
<1> QED BY <1>3, <1>4, <1>5

LEMMA RetryInputs ==
    ASSUME Init, For("retry")
    PROVE  input.attempt \in Int /\ input.header \in Header
<1>1. Retried
  BY DEF Init, For, Guarded, Extents, Resolved, Filtered, Started
<1> QED BY <1>1, InputAssumption DEF Retried

(* No answer of the appliance makes the client wait for ever or not at all.  *)
THEOREM WaitsBounded == Spec => []WaitBounded
<1>1. Init => WaitBounded
  BY RetryInputs, EveryWaitWithin DEF WaitBounded
<1>2. WaitBounded /\ [Next]_input => WaitBounded'
  BY DEF Next, WaitBounded, For
<1> QED BY <1>1, <1>2, PTL DEF Spec

(* The wait is the one the appliance asks for, if the cap allows it.         *)
THEOREM WaitsHonoured == Spec => []WaitHonoured
<1>1. Init => WaitHonoured
  BY RetryInputs, EveryWaitAsAsked DEF WaitHonoured
<1>2. WaitHonoured /\ [Next]_input => WaitHonoured'
  BY DEF Next, WaitHonoured, For
<1> QED BY <1>1, <1>2, PTL DEF Spec

-----------------------------------------------------------------------------
(* DHCP scopes. *)

(* Arithmetic modulo n does not change what is below n.                      *)
LEMMA SmallModulo ==
    ASSUME NEW n \in Nat \ {0}, NEW x \in 0 .. n - 1
    PROVE  x % n = x
  OBVIOUS

LEMMA ScopeArithmetic ==
    /\ MaxIPv4 \in Nat /\ Wrap \in Nat \ {0}
    /\ 2 * MaxIPv4 < Wrap /\ MaskBits \in Nat
    /\ \A n \in 0 .. MaskBits : BlockSize[n] \in 1 .. MaxIPv4 + 1 /\ BlockSize[n] \in Nat \ {0}
  BY ArithmeticAssumption

(* The length of a mask is found when there is one, and no other is found.   *)
LEMMA MaskLength ==
    ASSUME NEW mask
    PROVE  /\ dottedMaskPrefixLen(mask) # Unknown =>
                 /\ dottedMaskPrefixLen(mask) \in 0 .. MaskBits
                 /\ mask = MaxIPv4 + 1 - BlockSize[dottedMaskPrefixLen(mask)]
           /\ \A n \in 0 .. MaskBits : mask = MaxIPv4 + 1 - BlockSize[n] =>
                 dottedMaskPrefixLen(mask) = n
<1> DEFINE S == {n \in 0 .. MaskBits : prefixToDottedMask(n) = mask}
<1>1. CASE S = {}
  BY <1>1 DEF dottedMaskPrefixLen, prefixToDottedMask
<1>2. CASE S # {}
  <2>1. PICK n \in 0 .. MaskBits : prefixToDottedMask(n) = mask
    BY <1>2
  <2>2. /\ dottedMaskPrefixLen(mask) \in 0 .. MaskBits
        /\ prefixToDottedMask(dottedMaskPrefixLen(mask)) = mask
    BY <2>1 DEF dottedMaskPrefixLen
  <2>3. ASSUME NEW k \in 0 .. MaskBits, mask = MaxIPv4 + 1 - BlockSize[k]
        PROVE  dottedMaskPrefixLen(mask) = k
    <3> DEFINE d == dottedMaskPrefixLen(mask)
    <3>1. MaxIPv4 + 1 - BlockSize[d] = MaxIPv4 + 1 - BlockSize[k]
      BY <2>2, <2>3 DEF prefixToDottedMask
    <3>2. BlockSize[d] \in Int /\ BlockSize[k] \in Int /\ MaxIPv4 \in Int
      BY <2>2, ScopeArithmetic
    <3> HIDE DEF d
    <3>3. BlockSize[d] = BlockSize[k]
      BY <3>1, <3>2
    <3> QED BY <2>2, <3>3, ArithmeticAssumption DEF d
  <2> QED BY <2>2, <2>3 DEF prefixToDottedMask
<1> QED BY <1>1, <1>2

(* The count that is used is the one the row describes, and it is used       *)
(* whenever the row describes one.                                           *)
LEMMA CountDescribed ==
    ASSUME NEW row \in ScopeColumns
    PROVE  LET size == scopeAddressCount(row)
           IN  /\ size \in Int
               /\ size # Unknown => size > 0 /\ size <= Wrap /\ Describes(row, size)
               /\ \A count \in Nat \ {0} : Describes(row, count) => size = count
<1> DEFINE ones == dottedMaskPrefixLen(row.ScopeNetMask)
<1>1. row.ScopeSize \in (0 .. Wrap - 1) \cup {-1} /\ Wrap \in Nat
  BY ArithmeticAssumption DEF ScopeColumns, Unknown
<1>2. /\ ones # Unknown => /\ ones \in 0 .. MaskBits
                           /\ row.ScopeNetMask = MaxIPv4 + 1 - BlockSize[ones]
      /\ \A n \in 0 .. MaskBits : row.ScopeNetMask = MaxIPv4 + 1 - BlockSize[n] => ones = n
  BY MaskLength
<1>3. \A n \in 0 .. MaskBits : n # Unknown
  BY DEF Unknown
<1> HIDE DEF ones
<1>4. CASE row.ScopeSize # Unknown /\ row.ScopeSize > 0
  BY <1>1, <1>4 DEF scopeAddressCount, Describes, Unknown
<1>5. CASE row.ScopeSize \in {Unknown, 0}
  <2>1. scopeAddressCount(row) = (IF ones # Unknown THEN BlockSize[ones] ELSE Unknown)
    BY <1>5 DEF scopeAddressCount, ones, Unknown
  <2>2. CASE ones = Unknown
    BY <1>2, <1>3, <1>5, <2>1, <2>2 DEF Describes, Unknown
  <2>3. CASE ones # Unknown
    <3>1. BlockSize[ones] \in Nat \ {0} /\ BlockSize[ones] <= Wrap
      BY <1>2, <2>3, ScopeArithmetic
    <3>2. Describes(row, BlockSize[ones])
      BY <1>2, <1>5, <2>3 DEF Describes
    <3>3. ASSUME NEW count \in Nat \ {0}, Describes(row, count) PROVE count = BlockSize[ones]
      <4>1. row.ScopeSize # count
        BY <1>5, <3>3 DEF Unknown
      <4>2. PICK n \in 0 .. MaskBits :
               count = BlockSize[n] /\ row.ScopeNetMask = MaxIPv4 + 1 - BlockSize[n]
        BY <3>3, <4>1 DEF Describes
      <4> QED BY <1>2, <4>2
    <3> QED BY <2>1, <2>3, <3>1, <3>2, <3>3
  <2> QED BY <2>2, <2>3
<1> QED BY <1>1, <1>4, <1>5 DEF Unknown

(* Nothing wraps around: the last address is the sum, or there is none.      *)
LEMMA LastAddressExact ==
    ASSUME NEW base \in IPv4, NEW size \in 1 .. Wrap
    PROVE  LET last == ipv4AddrPlus(base, (size - 1) % Wrap)
           IN  last = IF base + size - 1 <= MaxIPv4 THEN base + size - 1 ELSE Unknown
<1> DEFINE offset == size - 1
<1>1. /\ offset \in 0 .. Wrap - 1 /\ base \in 0 .. MaxIPv4 /\ MaxIPv4 \in Nat
      /\ Wrap \in Nat \ {0} /\ 2 * MaxIPv4 < Wrap /\ base + size - 1 = base + offset
  <2>1. base \in 0 .. MaxIPv4 /\ MaxIPv4 \in Nat /\ Wrap \in Nat \ {0} /\ 2 * MaxIPv4 < Wrap
    BY ScopeArithmetic DEF IPv4
  <2> QED BY <2>1
<1>2. (size - 1) % Wrap = offset
  BY <1>1, SmallModulo
<1> HIDE DEF offset
<1>3. CASE offset > MaxIPv4
  BY <1>1, <1>2, <1>3 DEF ipv4AddrPlus
<1>4. CASE offset <= MaxIPv4
  <2>1. (base + offset) % Wrap = base + offset
    BY <1>1, <1>4, SmallModulo
  <2> QED BY <1>1, <1>2, <1>4, <2>1 DEF ipv4AddrPlus
<1> QED BY <1>1, <1>3, <1>4

(* For every row and every width: the extent that is computed is the span    *)
(* the row describes, and there is one if the span stays within IPv4.        *)
LEMMA EveryExtentExact ==
    ASSUME NEW row \in ScopeColumns
    PROVE  ExtentIsTheSpan(row)
<1> DEFINE base == row.ScopeNetAddr
           size == scopeAddressCount(row)
           e == scopeRowExtent(row)
<1>1. /\ size \in Int
      /\ size # Unknown => size > 0 /\ size <= Wrap /\ Describes(row, size)
      /\ \A count \in Nat \ {0} : Describes(row, count) => size = count
  BY CountDescribed
<1>2. base \in IPv4 \cup {Unknown} /\ MaxIPv4 \in Nat
  BY ScopeArithmetic DEF ScopeColumns
<1> HIDE DEF size, base
<1>3. CASE base = Unknown \/ size = Unknown
  <2>1. e = NoExtent
    BY <1>3 DEF scopeRowExtent, size, base
  <2>2. ~parseable(e)
    BY <2>1 DEF parseable, NoExtent
  <2>3. \A count \in 1 .. MaxIPv4 + 1 : ~(base # Unknown /\ Describes(row, count))
    BY <1>1, <1>2, <1>3 DEF Unknown
  <2> QED BY <2>2, <2>3 DEF ExtentIsTheSpan, base
<1>4. CASE base # Unknown /\ size # Unknown
  <2>1. base \in IPv4 /\ base \in Nat /\ base # Unknown
    BY <1>2, <1>4 DEF IPv4
  <2>2. size \in 1 .. Wrap /\ size \in Nat \ {0} /\ Describes(row, size)
    BY <1>1, <1>4, ScopeArithmetic
  <2> DEFINE last == ipv4AddrPlus(base, (size - 1) % Wrap)
  <2>3. last = IF base + size - 1 <= MaxIPv4 THEN base + size - 1 ELSE Unknown
    BY <2>1, <2>2, LastAddressExact
  <2>4. e = IF last = Unknown THEN NoExtent ELSE [start |-> base, end |-> last]
    BY <1>4 DEF scopeRowExtent, size, base
  <2> HIDE DEF last, e
  <2>5. CASE base + size - 1 <= MaxIPv4
    <3>1. last = base + size - 1 /\ last # Unknown
      BY <2>1, <2>2, <2>3, <2>5 DEF Unknown
    <3>2. e.start = base /\ e.end = last /\ parseable(e)
      BY <2>1, <2>4, <3>1 DEF parseable
    <3>3. e.end - e.start + 1 = size
      BY <2>1, <2>2, <3>1, <3>2
    <3> QED BY <2>1, <2>2, <2>5, <3>1, <3>2, <3>3 DEF ExtentIsTheSpan, e, base
  <2>6. CASE ~(base + size - 1 <= MaxIPv4)
    <3>1. ~parseable(e)
      BY <2>3, <2>4, <2>6 DEF parseable, NoExtent
    <3>2. \A count \in 1 .. MaxIPv4 + 1 :
             ~(Describes(row, count) /\ base + count - 1 <= MaxIPv4)
      BY <1>1, <1>2, <2>6
    <3> QED BY <3>1, <3>2 DEF ExtentIsTheSpan, e, base
  <2> QED BY <2>5, <2>6
<1> QED BY <1>3, <1>4

(* No row of the appliance makes a scope's extent wrap around.               *)
THEOREM ExtentsExact == Spec => []ExtentExact
<1>1. Init => ExtentExact
  <2> SUFFICES ASSUME Init, For("extent") PROVE ExtentIsTheSpan(input.row)
    BY DEF ExtentExact
  <2>1. Extents
    BY DEF Init, For, Guarded, Retried, Resolved, Filtered, Started
  <2>2. input.row \in ScopeColumns
    BY <2>1 DEF Extents
  <2> QED BY <2>2, EveryExtentExact
<1>2. ExtentExact /\ [Next]_input => ExtentExact'
  BY DEF Next, ExtentExact, For
<1> QED BY <1>1, <1>2, PTL DEF Spec

-----------------------------------------------------------------------------
(* subnet_info. *)

LEMMA CountPositive ==
    ASSUME NEW p \in Prefix
    PROVE  /\ Count(p.addr, p.bits) \in Nat \ {0}
           /\ expectedNetworkSize(p) =
                 IF HostBits(p) <= MaxComputable THEN Count(p.addr, p.bits) ELSE NoSize
           /\ HostBits(p) <= MaxComputable <=> expectedNetworkSize(p) # NoSize
<1>1. p.addr \in Address /\ p.bits \in Bits /\ p.bits <= Width[p.addr]
  BY DEF Prefix
<1>2. /\ p.addr \in Int /\ p.bits \in 0 .. Width[p.addr]
      /\ First[p.addr][p.bits] \in Int /\ Last[p.addr][p.bits] \in Int
  BY <1>1, BlockTypes
<1>3. First[p.addr][p.bits] <= p.addr /\ p.addr <= Last[p.addr][p.bits]
  BY <1>1, <1>2, PrefixTree
<1>4. Count(p.addr, p.bits) \in Nat \ {0}
  BY <1>2, <1>3 DEF Count
<1> QED BY <1>4 DEF expectedNetworkSize, NoSize

LEMMA OnlyOne ==
    ASSUME NEW S, IsFiniteSet(S)
    PROVE  /\ Cardinality(S) \in Nat
           /\ Cardinality(S) = 1 <=> \E x : S = {x}
           /\ Cardinality(S) <= 1 => \A x, y \in S : x = y
           /\ (\A x, y \in S : x = y) => Cardinality(S) <= 1
<1>1. Cardinality(S) \in Nat /\ (Cardinality(S) = 0 <=> S = {})
  BY FS_CardinalityType, FS_EmptySet
<1>2. Cardinality(S) = 1 <=> \E x : S = {x}
  BY FS_Singleton
<1>3. Cardinality(S) <= 1 => Cardinality(S) = 0 \/ Cardinality(S) = 1
  BY <1>1
<1>4. ASSUME \A x, y \in S : x = y PROVE Cardinality(S) <= 1
  <2>1. CASE S = {}
    BY <1>1, <2>1
  <2>2. CASE S # {}
    <3>1. PICK x : x \in S
      BY <2>2
    <3>2. S = {x}
      BY <1>4, <3>1
    <3> QED BY <1>2, <3>2
  <2> QED BY <2>1, <2>2
<1> QED BY <1>1, <1>2, <1>3, <1>4

(* The rows that are left are all rows of the page, or those of the CIDR's   *)
(* size if there are several rows and one of them has it.                    *)
LEMMA RowsLeft ==
    ASSUME NEW page, NEW p \in Prefix
    PROVE  LET matched == disambiguateSubnetsBySize(page, p)
               want    == expectedNetworkSize(p)
           IN  /\ matched \subseteq page
               /\ Cardinality(page) <= 1 \/ want = NoSize => matched = page
               /\ \A r \in page : ~(Cardinality(page) <= 1) /\ want # NoSize
                                     /\ NetworkSize(r) = want
                      => matched = {s \in page : NetworkSize(s) = want}
  BY DEF disambiguateSubnetsBySize

LEMMA EveryFindIsTheBlock ==
    ASSUME NEW rows, NEW p \in Prefix, NEW space
    PROVE  FindsNoOther(rows, p, space)
<1> DEFINE S == InScope(rows, p, space)
<1>1. SUFFICES ASSUME NEW page \in Pages(S), NEW r \in resolveSubnetIDByCIDR(page, p)
               PROVE  /\ r \in S
                      /\ (r.sized /\ HostBits(p) <= MaxComputable) => IsBlock(r, p)
  BY DEF FindsNoOther
<1>2. page \subseteq S
  BY DEF Pages
<1>3. /\ r \in disambiguateSubnetsBySize(page, p)
      /\ (expectedNetworkSize(p) # NoSize /\ r.sized) => NetworkSize(r) = expectedNetworkSize(p)
  BY DEF resolveSubnetIDByCIDR
<1>4. r \in S
  BY <1>2, <1>3, RowsLeft
<1>5. r.start = First[p.addr][p.bits]
  BY <1>4 DEF InScope
<1>6. ASSUME r.sized, HostBits(p) <= MaxComputable PROVE IsBlock(r, p)
  <2>1. Size(r) = Count(p.addr, p.bits)
    BY <1>3, <1>6, CountPositive DEF NetworkSize
  <2> QED BY <1>5, <2>1 DEF IsBlock
<1> QED BY <1>4, <1>6

LEMMA EveryFindIsTheOnly ==
    ASSUME NEW rows, IsFiniteSet(rows), NEW p \in Prefix, NEW space
    PROVE  NeverGuesses(rows, p, space)
<1> DEFINE S == InScope(rows, p, space)
           matched == disambiguateSubnetsBySize(S, p)
           want == expectedNetworkSize(p)
<1>1. IsFiniteSet(S)
  <2>1. S \in SUBSET rows
    BY DEF InScope
  <2> QED BY <2>1, FS_Subset
<1> HIDE DEF S
<1>2. SUFFICES ASSUME NEW r \in resolveSubnetIDByCIDR(S, p), NEW s \in S \ {r},
                      s.sized, IsBlock(s, p)
               PROVE  FALSE
  BY DEF NeverGuesses, S
<1>3. r \in matched /\ Cardinality(matched) = 1
  BY DEF resolveSubnetIDByCIDR
<1>4. /\ matched \subseteq S
      /\ Cardinality(S) <= 1 \/ want = NoSize => matched = S
      /\ \A x \in S : ~(Cardinality(S) <= 1) /\ want # NoSize /\ NetworkSize(x) = want
             => matched = {y \in S : NetworkSize(y) = want}
  BY RowsLeft
<1> HIDE DEF matched, want
<1>5. IsFiniteSet(matched)
  BY <1>1, <1>4, FS_Subset
<1>6. s \notin matched
  BY <1>2, <1>3, <1>5, OnlyOne
<1>7. want # NoSize /\ ~(Cardinality(S) <= 1)
  BY <1>4, <1>6
<1>8. NetworkSize(s) = want
  BY <1>2, <1>7, CountPositive DEF NetworkSize, IsBlock, want
<1> QED BY <1>4, <1>6, <1>7, <1>8

LEMMA EveryBlockFound ==
    ASSUME NEW rows, IsFiniteSet(rows), NEW p \in Prefix, NEW space
    PROVE  FindsTheBlock(rows, p, space)
<1> DEFINE S == InScope(rows, p, space)
           matched == disambiguateSubnetsBySize(S, p)
           want == expectedNetworkSize(p)
<1>1. IsFiniteSet(S) /\ \A x \in S : x.start = First[p.addr][p.bits]
  <2>1. S \in SUBSET rows
    BY DEF InScope
  <2> QED BY <2>1, FS_Subset DEF InScope
<1> HIDE DEF S
<1>2. SUFFICES ASSUME NEW r \in S, HostBits(p) <= MaxComputable,
                      \A s \in S : s.sized /\ (IsBlock(s, p) => s = r),
                      IsBlock(r, p), r.id
               PROVE  resolveSubnetIDByCIDR(S, p) = {r}
  BY DEF FindsTheBlock, S
<1>3. want = Count(p.addr, p.bits) /\ want # NoSize
  BY <1>2, CountPositive DEF want
<1>4. NetworkSize(r) = want
  BY <1>2, <1>3 DEF NetworkSize, IsBlock
<1>5. \A s \in S : NetworkSize(s) = want => s = r
  BY <1>1, <1>2, <1>3 DEF NetworkSize, IsBlock
<1>6. /\ Cardinality(S) <= 1 => matched = S
      /\ ~(Cardinality(S) <= 1) => matched = {y \in S : NetworkSize(y) = want}
  BY <1>3, <1>4, RowsLeft
<1> HIDE DEF matched
<1>7. matched = {r}
  <2>1. CASE Cardinality(S) <= 1
    <3>1. S = {r}
      BY <1>1, <2>1, OnlyOne
    <3> QED BY <1>6, <2>1, <3>1
  <2>2. CASE ~(Cardinality(S) <= 1)
    BY <1>4, <1>5, <1>6, <2>2
  <2> QED BY <2>1, <2>2
<1>8. Cardinality(matched) = 1
  BY <1>7, FS_Singleton
<1>9. resolveSubnetIDByCIDR(S, p) =
        {x \in matched : /\ Cardinality(matched) = 1
                         /\ want # NoSize /\ x.sized => NetworkSize(x) = want
                         /\ x.id}
  BY DEF resolveSubnetIDByCIDR, matched, want
<1> HIDE DEF want
<1> QED BY <1>2, <1>4, <1>7, <1>8, <1>9

LEMMA ResolveInputs ==
    ASSUME Init, For("resolve")
    PROVE  IsFiniteSet(input.rows) /\ input.cidr \in Prefix
<1>1. Resolved
  BY DEF Init, For, Guarded, Extents, Retried, Filtered, Started
<1> QED BY <1>1, InputAssumption DEF Resolved

(* Whatever is recorded, the network subnet_info finds starts where the      *)
(* CIDR does in the space asked for, and is the CIDR's block if the row      *)
(* tells its size and the CIDR's size is computable.                         *)
THEOREM NoOther == Spec => []NoOtherFound
<1>1. Init => NoOtherFound
  BY ResolveInputs, EveryFindIsTheBlock DEF NoOtherFound
<1>2. NoOtherFound /\ [Next]_input => NoOtherFound'
  BY DEF Next, NoOtherFound, For
<1> QED BY <1>1, <1>2, PTL DEF Spec

(* Of several networks that are the CIDR's block it finds none.              *)
THEOREM NoGuess == Spec => []NothingGuessed
<1>1. Init => NothingGuessed
  BY ResolveInputs, EveryFindIsTheOnly DEF NothingGuessed
<1>2. NothingGuessed /\ [Next]_input => NothingGuessed'
  BY DEF Next, NothingGuessed, For
<1> QED BY <1>1, <1>2, PTL DEF Spec

(* The only network that is the block is found when every row has its size.  *)
THEOREM BlocksFound == Spec => []BlockFound
<1>1. Init => BlockFound
  BY ResolveInputs, EveryBlockFound DEF BlockFound
<1>2. BlockFound /\ [Next]_input => BlockFound'
  BY DEF Next, BlockFound, For
<1> QED BY <1>1, <1>2, PTL DEF Spec

-----------------------------------------------------------------------------
(* Where clauses: what the recursive functions of WhereClause compute. The   *)
(* induction is over the turns of their loops.                               *)

(* Induction, for a set in place of a predicate.                             *)
LEMMA EveryNat ==
    ASSUME NEW S, 0 \in S, \A n \in Nat : n \in S => n + 1 \in S
    PROVE  \A n \in Nat : n \in S
<1> SUFFICES ASSUME NEW n \in Nat, n \notin S PROVE FALSE
  OBVIOUS
<1> DEFINE T == {0 .. k : k \in (0 .. n) \ S}
<1>1. IsFiniteSet(0 .. n)
  BY FS_Interval
<1>2. T \subseteq FiniteSubsetsOf(0 .. n) /\ T # {}
  <2>1. \A k \in 0 .. n : 0 .. k \in SUBSET (0 .. n) /\ IsFiniteSet(0 .. k)
    BY FS_Interval
  <2>2. 0 .. n \in T
    OBVIOUS
  <2> QED BY <2>1, <2>2 DEF FiniteSubsetsOf
<1>3. PICK b \in T : \A a \in T : ~(<<a, b>> \in StrictSubsetOrdering(0 .. n))
  BY <1>2, FS_StrictSubsetOrderingWellFounded, WFMin
<1>4. PICK m \in (0 .. n) \ S : b = 0 .. m
  OBVIOUS
<1>5. m # 0 /\ m - 1 \in 0 .. n
  BY <1>4
<1>6. m - 1 \notin S
  BY <1>4, <1>5
<1>7. 0 .. m - 1 \in T
  BY <1>5, <1>6
<1>8. <<0 .. m - 1, 0 .. m>> \in StrictSubsetOrdering(0 .. n)
  <2>1. 0 .. m - 1 \in SUBSET (0 .. n) /\ 0 .. m \in SUBSET (0 .. n)
    BY <1>4, <1>5
  <2>2. 0 .. m - 1 \subseteq 0 .. m /\ 0 .. m - 1 # 0 .. m
    BY <1>4
  <2> QED BY <2>1, <2>2 DEF StrictSubsetOrdering
<1> QED BY <1>3, <1>4, <1>7, <1>8

(* The same up to a bound.                                                   *)
LEMMA EveryUpTo ==
    ASSUME NEW n \in Nat, NEW S, 0 \in S, \A k \in 0 .. n - 1 : k \in S => k + 1 \in S
    PROVE  \A k \in 0 .. n : k \in S
<1> DEFINE R == {k \in Nat : k <= n => k \in S}
<1>1. 0 \in R /\ \A k \in Nat : k \in R => k + 1 \in R
  OBVIOUS
<1>2. \A k \in Nat : k \in R
  <2> HIDE DEF R
  <2> QED BY <1>1, EveryNat
<1> QED BY <1>2

(* A loop over n turns has a run, whatever its turns do.                     *)
Runs(State, start, n, Turn) ==
    {f \in [0 .. n -> State] : f[0] = start /\ \A k \in 1 .. n : f[k] = Turn[<<f[k - 1], k>>]}

LEMMA RunExists ==
    ASSUME NEW State, NEW start \in State, NEW n \in Nat,
           NEW Turn \in [State \X (1 .. n) -> State]
    PROVE  \E f : f \in Runs(State, start, n, Turn)
<1> DEFINE S == {m \in Nat : \E f \in [0 .. m -> State] :
                    f[0] = start /\ \A k \in 1 .. m : f[k] = Turn[<<f[k - 1], k>>]}
<1>1. 0 \in S
  <2> DEFINE f == [k \in 0 .. 0 |-> start]
  <2>1. f \in [0 .. 0 -> State] /\ f[0] = start /\ \A k \in 1 .. 0 : f[k] = Turn[<<f[k - 1], k>>]
    OBVIOUS
  <2> QED BY <2>1
<1>2. ASSUME NEW m \in 0 .. n - 1, m \in S PROVE m + 1 \in S
  <2>1. PICK f \in [0 .. m -> State] :
            f[0] = start /\ \A k \in 1 .. m : f[k] = Turn[<<f[k - 1], k>>]
    BY <1>2
  <2> DEFINE h == [k \in 0 .. m + 1 |-> IF k <= m THEN f[k] ELSE Turn[<<f[m], m + 1>>]]
  <2>2. Turn[<<f[m], m + 1>>] \in State
    <3>1. <<f[m], m + 1>> \in State \X (1 .. n)
      OBVIOUS
    <3> QED BY <3>1
  <2>3. h \in [0 .. m + 1 -> State]
    BY <2>2
  <2>4. h[0] = start
    BY <2>1
  <2>5. \A k \in 1 .. m + 1 : h[k] = Turn[<<h[k - 1], k>>]
    <3> SUFFICES ASSUME NEW k \in 1 .. m + 1 PROVE h[k] = Turn[<<h[k - 1], k>>]
      OBVIOUS
    <3>1. h[k - 1] = f[k - 1]
      OBVIOUS
    <3>2. CASE k <= m
      <4>1. k \in 1 .. m /\ h[k] = f[k]
        BY <3>2
      <4> QED BY <3>1, <4>1, <2>1
    <3>3. CASE k = m + 1
      <4>1. k - 1 = m /\ h[k] = Turn[<<f[m], m + 1>>]
        BY <3>3
      <4> QED BY <3>1, <3>3, <4>1
    <3> QED BY <3>2, <3>3
  <2>6. m + 1 \in Nat /\ \E q \in [0 .. m + 1 -> State] :
            q[0] = start /\ \A k \in 1 .. m + 1 : q[k] = Turn[<<q[k - 1], k>>]
    <3> HIDE DEF h
    <3> QED BY <2>3, <2>4, <2>5
  <2> QED BY <2>6
<1>3. \A k \in 0 .. n : k \in S
  <2> HIDE DEF S
  <2> QED BY <1>1, <1>2, EveryUpTo
<1>4. n \in S
  <2> HIDE DEF S
  <2> QED BY <1>3
<1> QED BY <1>4 DEF Runs

(* Two states of the scanner with the same fields are the same.              *)
LEMMA SameState ==
    ASSUME NEW s \in Scan, NEW u \in Scan,
           s.escaped <=> u.escaped, s.inSingleQuote <=> u.inSingleQuote,
           s.parens = u.parens, s.failed <=> u.failed
    PROVE  s = u
BY DEF Scan

(* What a turn of the scanner does, field by field.                          *)
LEMMA SetEscaped ==
    ASSUME NEW s \in Scan, NEW b \in BOOLEAN, NEW u, u = [s EXCEPT !.escaped = b]
    PROVE  /\ u \in Scan /\ (u.escaped <=> b) /\ (u.inSingleQuote <=> s.inSingleQuote)
           /\ u.parens = s.parens /\ (u.failed <=> s.failed)
BY DEF Scan

LEMMA SetQuoted ==
    ASSUME NEW s \in Scan, NEW b \in BOOLEAN, NEW u, u = [s EXCEPT !.inSingleQuote = b]
    PROVE  /\ u \in Scan /\ (u.escaped <=> s.escaped) /\ (u.inSingleQuote <=> b)
           /\ u.parens = s.parens /\ (u.failed <=> s.failed)
BY DEF Scan

LEMMA SetParens ==
    ASSUME NEW s \in Scan, NEW p \in Int, NEW u, u = [s EXCEPT !.parens = p]
    PROVE  /\ u \in Scan /\ (u.escaped <=> s.escaped) /\ (u.inSingleQuote <=> s.inSingleQuote)
           /\ u.parens = p /\ (u.failed <=> s.failed)
BY DEF Scan

LEMMA ScannedFields ==
    ASSUME NEW s \in Scan, NEW ch, NEW u, u = Scanned(s, ch)
    PROVE  /\ u \in Scan
           /\ s.failed => u = s
           /\ ~s.failed /\ (s.escaped \/ ch # Close \/ s.inSingleQuote) => ~u.failed
           /\ ~s.failed =>
                 /\ u.escaped <=> ~s.escaped /\ ch = Back
                 /\ u.inSingleQuote <=> (s.inSingleQuote <=> (s.escaped \/ ch # Quote))
                 /\ s.escaped \/ s.inSingleQuote \/ ch \notin {Open, Close} => u.parens = s.parens
           /\ ~s.failed /\ ~s.escaped /\ ~s.inSingleQuote =>
                 /\ ch = Open => u.parens = s.parens + 1
                 /\ ch = Close => u.parens = s.parens - 1 /\ (u.failed <=> s.parens = 0)
<1>1. s.parens \in Int /\ s.parens + 1 \in Int /\ s.parens - 1 \in Int
  BY DEF Scan
<1>2. Back # Quote /\ Open \notin {Back, Quote} /\ Close \notin {Back, Quote, Open}
  BY DEF Back, Quote, Open, Close
<1>3. CASE s.failed
  BY <1>3 DEF Scanned
<1>4. CASE ~s.failed /\ s.escaped
  <2>1. u = [s EXCEPT !.escaped = FALSE]
    BY <1>4 DEF Scanned
  <2>2. FALSE \in BOOLEAN
    OBVIOUS
  <2>3. /\ u \in Scan /\ ~u.escaped /\ (u.inSingleQuote <=> s.inSingleQuote)
        /\ u.parens = s.parens /\ (u.failed <=> s.failed)
    BY <2>1, <2>2, SetEscaped
  <2> QED BY <1>4, <2>3
<1>5. CASE ~s.failed /\ ~s.escaped /\ ch = Back
  <2>1. u = [s EXCEPT !.escaped = TRUE]
    BY <1>5 DEF Scanned
  <2>2. TRUE \in BOOLEAN
    OBVIOUS
  <2>3. /\ u \in Scan /\ u.escaped /\ (u.inSingleQuote <=> s.inSingleQuote)
        /\ u.parens = s.parens /\ (u.failed <=> s.failed)
    BY <2>1, <2>2, SetEscaped
  <2> QED BY <1>2, <1>5, <2>3
<1>6. CASE ~s.failed /\ ~s.escaped /\ ch = Quote
  <2>1. u = [s EXCEPT !.inSingleQuote = ~s.inSingleQuote]
    BY <1>2, <1>6 DEF Scanned
  <2>2. (~s.inSingleQuote) \in BOOLEAN
    OBVIOUS
  <2>3. /\ u \in Scan /\ (u.escaped <=> s.escaped) /\ (u.inSingleQuote <=> ~s.inSingleQuote)
        /\ u.parens = s.parens /\ (u.failed <=> s.failed)
    BY <2>1, <2>2, SetQuoted
  <2> QED BY <1>2, <1>6, <2>3
<1>7. CASE ~s.failed /\ ~s.escaped /\ ch \notin {Back, Quote} /\ s.inSingleQuote
  <2>1. u = s
    BY <1>7 DEF Scanned
  <2> QED BY <1>7, <2>1
<1>8. CASE ~s.failed /\ ~s.escaped /\ ~s.inSingleQuote /\ ch = Open
  <2>1. u = [s EXCEPT !.parens = s.parens + 1]
    BY <1>2, <1>8 DEF Scanned
  <2>2. /\ u \in Scan /\ (u.escaped <=> s.escaped) /\ (u.inSingleQuote <=> s.inSingleQuote)
        /\ u.parens = s.parens + 1 /\ (u.failed <=> s.failed)
    BY <1>1, <2>1, SetParens
  <2> QED BY <1>2, <1>8, <2>2
<1>9. CASE ~s.failed /\ ~s.escaped /\ ~s.inSingleQuote /\ ch = Close
  <2>1. u = [s EXCEPT !.parens = s.parens - 1, !.failed = (s.parens = 0)]
    BY <1>2, <1>9 DEF Scanned
  <2>2. PICK b \in BOOLEAN : b = (s.parens = 0)
    OBVIOUS
  <2>3. PICK p \in Int : p = s.parens - 1
    BY <1>1
  <2>4. u = [s EXCEPT !.parens = p, !.failed = b]
    BY <2>1, <2>2, <2>3, Zenon
  <2>5. /\ u \in Scan /\ (u.escaped <=> s.escaped) /\ (u.inSingleQuote <=> s.inSingleQuote)
        /\ u.parens = p /\ (u.failed <=> b)
    BY <2>4 DEF Scan
  <2> QED BY <1>2, <1>9, <2>2, <2>3, <2>5
<1>10. CASE ~s.failed /\ ~s.escaped /\ ~s.inSingleQuote /\ ch \notin {Back, Quote, Open, Close}
  <2>1. u = s
    BY <1>10 DEF Scanned
  <2> QED BY <1>10, <2>1
<1> QED BY <1>3, <1>4, <1>5, <1>6, <1>7, <1>8, <1>9, <1>10

(* The scanner's states: what the loop of scanWhereClauseTokens computes.    *)
LEMMA ScannedType ==
    ASSUME NEW s \in Scan, NEW ch
    PROVE  Scanned(s, ch) \in Scan
BY ScannedFields

LEMMA TurnsAreARun ==
    ASSUME NEW where \in Seq(Char)
    PROVE  /\ turns(where) \in [0 .. Len(where) -> Scan]
           /\ turns(where)[0] = Fresh
           /\ \A k \in 1 .. Len(where) : turns(where)[k] = Scanned(turns(where)[k - 1], where[k])
<1> DEFINE n == Len(where)
           Turn == [p \in Scan \X (1 .. n) |-> Scanned(p[1], where[p[2]])]
           Is(f) == f = [k \in 0 .. n |-> IF k = 0 THEN Fresh ELSE Scanned(f[k - 1], where[k])]
<1>1. n \in Nat /\ Fresh \in Scan
  BY DEF Fresh, Scan
<1>2. Turn \in [Scan \X (1 .. n) -> Scan]
  BY ScannedType
<1>3. PICK f : f \in Runs(Scan, Fresh, n, Turn)
  <2> HIDE DEF Turn, n
  <2> QED BY <1>1, <1>2, RunExists
<1>4. f \in [0 .. n -> Scan] /\ f[0] = Fresh /\ \A k \in 1 .. n : f[k] = Turn[<<f[k - 1], k>>]
  BY <1>3 DEF Runs
<1>5. \A k \in 1 .. n : f[k] = Scanned(f[k - 1], where[k])
  <2> SUFFICES ASSUME NEW k \in 1 .. n PROVE f[k] = Scanned(f[k - 1], where[k])
    OBVIOUS
  <2>1. f[k - 1] \in Scan
    <3> HIDE DEF Turn, n
    <3> QED BY <1>1, <1>4
  <2>2. f[k] = Turn[<<f[k - 1], k>>]
    BY <1>4
  <2> QED BY <2>1, <2>2
<1>6. Is(f)
  <2> HIDE DEF n
  <2>1. \A k \in 0 .. n : f[k] = IF k = 0 THEN Fresh ELSE Scanned(f[k - 1], where[k])
    BY <1>1, <1>4, <1>5
  <2> QED BY <1>4, <2>1
<1>7. turns(where) = CHOOSE g : Is(g)
  BY DEF turns
<1>8. Is(turns(where))
  <2> HIDE DEF Is
  <2> QED BY <1>6, <1>7
<1> DEFINE t == turns(where)
<1>9. \A k \in 0 .. n : t[k] = IF k = 0 THEN Fresh ELSE Scanned(t[k - 1], where[k])
  <2> HIDE DEF t, n
  <2>1. t = [k \in 0 .. n |-> IF k = 0 THEN Fresh ELSE Scanned(t[k - 1], where[k])]
    BY <1>8 DEF t
  <2> QED BY <2>1, Zenon
<1> DEFINE S == {j \in 0 .. n : t[j] \in Scan}
<1>10. \A k \in 0 .. n : k \in S
  <2>1. 0 \in S /\ \A k \in 0 .. n - 1 : k \in S => k + 1 \in S
    <3> HIDE DEF t, n
    <3> QED BY <1>1, <1>9, ScannedType
  <2> HIDE DEF S, n
  <2> QED BY <1>1, <2>1, EveryUpTo
<1>11. t = [k \in 0 .. n |-> IF k = 0 THEN Fresh ELSE Scanned(t[k - 1], where[k])]
  BY <1>8
<1> HIDE DEF t, n
<1>12. t \in [0 .. n -> Scan] /\ t[0] = Fresh /\ \A k \in 1 .. n : t[k] = Scanned(t[k - 1], where[k])
  BY <1>1, <1>9, <1>10, <1>11
<1> QED BY <1>12 DEF t, n

-----------------------------------------------------------------------------
(* What strings.ReplaceAll computes.                                         *)

Piece(c, old, new) == IF c = old THEN new ELSE <<c>>

LEMMA ReplacedIsARun ==
    ASSUME NEW s \in Seq(Char), NEW old \in Char, NEW new \in Seq(Char)
    PROVE  \E r \in [0 .. Len(s) -> Seq(Char)] :
              /\ r[0] = <<>> /\ r[Len(s)] = Replaced(s, old, new)
              /\ \A k \in 1 .. Len(s) : r[k] = r[k - 1] \o Piece(s[k], old, new)
<1> DEFINE n == Len(s)
           Turn == [p \in Seq(Char) \X (1 .. n) |-> p[1] \o Piece(s[p[2]], old, new)]
           Is(f) == f = [k \in 0 .. n |-> IF k = 0 THEN <<>>
                                          ELSE f[k - 1] \o (IF s[k] = old THEN new ELSE <<s[k]>>)]
<1>1. n \in Nat /\ <<>> \in Seq(Char)
  OBVIOUS
<1>2. \A k \in 1 .. n : Piece(s[k], old, new) \in Seq(Char)
  <2> SUFFICES ASSUME NEW k \in 1 .. n PROVE Piece(s[k], old, new) \in Seq(Char)
    OBVIOUS
  <2>1. s[k] \in Char
    OBVIOUS
  <2>2. <<s[k]>> \in Seq(Char)
    BY <2>1
  <2> QED BY <2>2 DEF Piece
<1>3. Turn \in [Seq(Char) \X (1 .. n) -> Seq(Char)]
  <2>1. ASSUME NEW p \in Seq(Char) \X (1 .. n) PROVE p[1] \o Piece(s[p[2]], old, new) \in Seq(Char)
    <3>1. p[1] \in Seq(Char) /\ Piece(s[p[2]], old, new) \in Seq(Char)
      BY <1>2
    <3> QED BY <3>1
  <2> QED BY <2>1
<1>4. PICK f : f \in Runs(Seq(Char), <<>>, n, Turn)
  <2> HIDE DEF Turn, n
  <2> QED BY <1>1, <1>3, RunExists
<1>5. f \in [0 .. n -> Seq(Char)] /\ f[0] = <<>> /\ \A k \in 1 .. n : f[k] = Turn[<<f[k - 1], k>>]
  BY <1>4 DEF Runs
<1>6. \A k \in 1 .. n : f[k] = f[k - 1] \o Piece(s[k], old, new)
  <2> SUFFICES ASSUME NEW k \in 1 .. n PROVE f[k] = f[k - 1] \o Piece(s[k], old, new)
    OBVIOUS
  <2>1. f[k - 1] \in Seq(Char)
    <3> HIDE DEF Turn, n
    <3> QED BY <1>1, <1>5
  <2>2. f[k] = Turn[<<f[k - 1], k>>]
    BY <1>5
  <2> QED BY <2>1, <2>2
<1>7. Is(f)
  <2>1. \A k \in 0 .. n : f[k] = IF k = 0 THEN <<>>
                                 ELSE f[k - 1] \o (IF s[k] = old THEN new ELSE <<s[k]>>)
    <3> SUFFICES ASSUME NEW k \in 0 .. n
                 PROVE  f[k] = IF k = 0 THEN <<>>
                               ELSE f[k - 1] \o (IF s[k] = old THEN new ELSE <<s[k]>>)
      OBVIOUS
    <3>1. k = 0 \/ k \in 1 .. n
      OBVIOUS
    <3>2. k \in 1 .. n => f[k] = f[k - 1] \o (IF s[k] = old THEN new ELSE <<s[k]>>)
      BY <1>6 DEF Piece
    <3>3. f[0] = <<>>
      BY <1>5
    <3> HIDE DEF n
    <3> QED BY <3>1, <3>2, <3>3
  <2> HIDE DEF n
  <2> QED BY <1>5, <2>1
<1> DEFINE t == CHOOSE g : Is(g)
<1>8. Replaced(s, old, new) = t[n]
  BY DEF Replaced
<1>9. Is(t)
  <2> HIDE DEF Is
  <2> QED BY <1>7
<1>10. \A k \in 0 .. n : t[k] = IF k = 0 THEN <<>>
                                ELSE t[k - 1] \o (IF s[k] = old THEN new ELSE <<s[k]>>)
  <2> HIDE DEF t, n
  <2>1. t = [k \in 0 .. n |-> IF k = 0 THEN <<>>
                              ELSE t[k - 1] \o (IF s[k] = old THEN new ELSE <<s[k]>>)]
    BY <1>9
  <2> QED BY <2>1, Zenon
<1> DEFINE S == {j \in 0 .. n : t[j] = f[j]}
<1>11. \A k \in 0 .. n : k \in S
  <2>1. 0 \in S
    <3>1. 0 \in 0 .. n
      OBVIOUS
    <3>2. t[0] = <<>>
      <4> HIDE DEF t, n
      <4> QED BY <1>10, <3>1, Zenon
    <3>3. t[0] = f[0]
      BY <1>5, <3>2, Zenon
    <3> HIDE DEF t, n
    <3> QED BY <3>1, <3>3
  <2>2. ASSUME NEW k \in 0 .. n - 1, k \in S PROVE k + 1 \in S
    <3>1. t[k] = f[k] /\ k + 1 \in 1 .. n /\ (k + 1) - 1 = k
      BY <2>2
    <3>2. f[k + 1] = f[k] \o (IF s[k + 1] = old THEN new ELSE <<s[k + 1]>>)
      BY <1>6, <3>1 DEF Piece
    <3>3. t[k + 1] = t[k] \o (IF s[k + 1] = old THEN new ELSE <<s[k + 1]>>)
      <4> HIDE DEF t, n
      <4>1. k + 1 \in 0 .. n /\ k + 1 # 0
        BY <1>1, <3>1
      <4> QED BY <1>10, <3>1, <4>1
    <3>4. t[k + 1] = f[k + 1]
      <4> HIDE DEF t, n
      <4> QED BY <3>1, <3>2, <3>3
    <3>5. k + 1 \in 0 .. n
      BY <1>1, <3>1
    <3> HIDE DEF t, n
    <3> QED BY <3>4, <3>5
  <2> HIDE DEF S, n
  <2> QED BY <1>1, <2>1, <2>2, EveryUpTo
<1>12. f[n] = Replaced(s, old, new)
  <2> HIDE DEF t, n
  <2> QED BY <1>1, <1>8, <1>11
<1> QED BY <1>5, <1>6, <1>12

(* How a string with escapes is cut into the characters it stands for: the   *)
(* k-th ends at at[k], after a backslash if it needs one.                    *)
IsCut(s, Special, literal, at) ==
    /\ literal \in Seq(Char)
    /\ at \in [0 .. Len(s) -> 0 .. Len(literal)]
    /\ at[0] = 0 /\ at[Len(s)] = Len(literal)
    /\ \A k \in 1 .. Len(s) :
          /\ at[k] = at[k - 1] + (IF s[k] \in Special THEN 2 ELSE 1)
          /\ literal[at[k]] = s[k]
          /\ s[k] \in Special => literal[at[k] - 1] = Back

LEMMA ReplacedIsCut ==
    ASSUME NEW s \in Seq(Char), NEW old \in Char
    PROVE  \E at : IsCut(s, {old}, Replaced(s, old, <<Back, old>>), at)
<1> DEFINE n == Len(s)
           new == <<Back, old>>
           literal == Replaced(s, old, <<Back, old>>)
<1>1. new \in Seq(Char) /\ n \in Nat
  BY DEF Char
<1>2. PICK r \in [0 .. n -> Seq(Char)] :
         /\ r[0] = <<>> /\ r[n] = literal
         /\ \A k \in 1 .. n : r[k] = r[k - 1] \o Piece(s[k], old, new)
  BY <1>1, ReplacedIsARun
<1> HIDE DEF literal
<1>3. ASSUME NEW k \in 1 .. n
      PROVE  /\ r[k - 1] \in Seq(Char) /\ r[k] \in Seq(Char)
             /\ Len(r[k]) = Len(r[k - 1]) + (IF s[k] = old THEN 2 ELSE 1)
             /\ r[k][Len(r[k])] = s[k]
             /\ s[k] = old => r[k][Len(r[k]) - 1] = Back
             /\ \A j \in 1 .. Len(r[k - 1]) : r[k][j] = r[k - 1][j]
  <2>1. r[k - 1] \in Seq(Char) /\ r[k] \in Seq(Char) /\ s[k] \in Char
    <3>1. k \in 0 .. n /\ k - 1 \in 0 .. n /\ s[k] \in Char
      BY <1>1
    <3> HIDE DEF n, new
    <3> QED BY <1>2, <3>1
  <2>2. CASE s[k] = old
    <3>1. r[k] = r[k - 1] \o <<Back, old>>
      BY <1>2, <2>2 DEF Piece
    <3>2. <<Back, old>> \in Seq(Char) /\ Len(<<Back, old>>) = 2
      BY <1>1
    <3> QED BY <2>1, <2>2, <3>1, <3>2
  <2>3. CASE s[k] # old
    <3>1. r[k] = r[k - 1] \o <<s[k]>>
      BY <1>2, <2>3 DEF Piece
    <3> QED BY <2>1, <2>3, <3>1
  <2> QED BY <2>2, <2>3
<1>4. ASSUME NEW k \in 0 .. n
      PROVE  /\ Len(r[k]) <= Len(literal) /\ Len(r[k]) \in Nat
             /\ \A j \in 1 .. Len(r[k]) : literal[j] = r[k][j]
  <2> DEFINE Extends(m) == /\ Len(r[k]) <= Len(r[m])
                           /\ \A j \in 1 .. Len(r[k]) : r[m][j] = r[k][j]
             S == {m \in 0 .. n : m >= k => Extends(m)}
  <2>1. 0 \in S
    <3>1. 0 >= k => k = 0
      OBVIOUS
    <3> QED BY <1>1, <1>2, <3>1
  <2>2. ASSUME NEW m \in 0 .. n - 1, m \in S PROVE m + 1 \in S
    <3>1. CASE m >= k
      <4>1. Extends(m) /\ m + 1 \in 1 .. n /\ (m + 1) - 1 = m
        BY <2>2, <3>1
      <4>2. Len(r[m]) \in Nat /\ Len(r[m + 1]) \in Nat /\ Len(r[k]) \in Nat
        BY <1>2
      <4>3. Len(r[m]) <= Len(r[m + 1]) /\ \A j \in 1 .. Len(r[m]) : r[m + 1][j] = r[m][j]
        <5>1. /\ Len(r[m + 1]) = Len(r[m]) + (IF s[m + 1] = old THEN 2 ELSE 1)
              /\ \A j \in 1 .. Len(r[m]) : r[m + 1][j] = r[m][j]
          <6>1. /\ Len(r[m + 1]) = Len(r[(m + 1) - 1]) + (IF s[m + 1] = old THEN 2 ELSE 1)
                /\ \A j \in 1 .. Len(r[(m + 1) - 1]) : r[m + 1][j] = r[(m + 1) - 1][j]
            BY <1>3, <4>1
          <6> HIDE DEF n, Extends
          <6> QED BY <4>1, <6>1
        <5>2. (IF s[m + 1] = old THEN 2 ELSE 1) \in {1, 2}
          OBVIOUS
        <5>3. \A c \in {1, 2} : Len(r[m + 1]) = Len(r[m]) + c => Len(r[m]) <= Len(r[m + 1])
          <6> HIDE DEF n, Extends, S
          <6> QED BY <4>2
        <5> HIDE DEF n, Extends, S
        <5> QED BY <5>1, <5>2, <5>3
      <4>4. Extends(m + 1)
        BY <4>1, <4>2, <4>3
      <4> QED BY <4>1, <4>4
    <3>2. CASE m + 1 = k
      <4>1. Extends(m + 1)
        BY <1>2, <3>2
      <4> QED BY <4>1
    <3>3. CASE m + 1 < k
      BY <3>3
    <3> QED BY <3>1, <3>2, <3>3
  <2>3. \A m \in 0 .. n : m \in S
    <3> HIDE DEF S
    <3> QED BY <1>1, <2>1, <2>2, EveryUpTo
  <2>4. Extends(n)
    BY <2>3, <1>1
  <2> QED BY <1>2, <2>4
<1> DEFINE at == [k \in 0 .. n |-> Len(r[k])]
<1>5. literal \in Seq(Char) /\ at \in [0 .. n -> 0 .. Len(literal)]
  <2>1. n \in 0 .. n
    BY <1>1
  <2>2. literal \in Seq(Char)
    <3> HIDE DEF n
    <3> QED BY <1>2, <2>1
  <2>3. Len(literal) \in Nat
    BY <2>2
  <2>4. \A k \in 0 .. n : Len(r[k]) \in 0 .. Len(literal)
    <3> HIDE DEF n
    <3> QED BY <1>4, <2>3
  <2> QED BY <2>2, <2>4
<1>6. at[0] = 0 /\ at[n] = Len(literal)
  BY <1>1, <1>2
<1>7. ASSUME NEW k \in 1 .. n
      PROVE  /\ at[k] = at[k - 1] + (IF s[k] \in {old} THEN 2 ELSE 1)
             /\ literal[at[k]] = s[k]
             /\ s[k] \in {old} => literal[at[k] - 1] = Back
  <2>1. at[k] = Len(r[k]) /\ at[k - 1] = Len(r[k - 1]) /\ Len(r[k]) \in Nat /\ Len(r[k - 1]) \in Nat
    BY <1>4
  <2>2. \A j \in 1 .. Len(r[k]) : literal[j] = r[k][j]
    BY <1>4
  <2>3. /\ Len(r[k]) = Len(r[k - 1]) + (IF s[k] = old THEN 2 ELSE 1)
        /\ r[k][Len(r[k])] = s[k]
        /\ s[k] = old => r[k][Len(r[k]) - 1] = Back
    BY <1>3
  <2> HIDE DEF at, n
  <2>4. Len(r[k]) \in 1 .. Len(r[k]) /\ (s[k] = old => Len(r[k]) - 1 \in 1 .. Len(r[k]))
    <3>1. CASE s[k] = old
      <4>1. Len(r[k]) = Len(r[k - 1]) + 2
        BY <2>3, <3>1
      <4> QED BY <2>1, <4>1
    <3>2. CASE s[k] # old
      <4>1. Len(r[k]) = Len(r[k - 1]) + 1
        BY <2>3, <3>2
      <4> QED BY <2>1, <3>2, <4>1
    <3> QED BY <3>1, <3>2
  <2> QED BY <2>1, <2>2, <2>3, <2>4
<1> QED
  <2> HIDE DEF at
  <2> QED BY <1>5, <1>6, <1>7 DEF IsCut, literal

(* EscapeWhereValue puts a backslash before each backslash and each quote.   *)
LEMMA EscapeIsCut ==
    ASSUME NEW value \in Seq(Char)
    PROVE  \E at : IsCut(value, {Back, Quote}, EscapeWhereValue(value), at)
<1> DEFINE mid == Replaced(value, Back, <<Back, Back>>)
           literal == Replaced(mid, Quote, <<Back, Quote>>)
           n == Len(value)
<1>1. Back \in Char /\ Quote \in Char /\ Back # Quote /\ n \in Nat
  BY DEF Char, Back, Quote
<1>2. PICK a : IsCut(value, {Back}, mid, a)
  BY <1>1, ReplacedIsCut
<1>3. mid \in Seq(Char)
  BY <1>2 DEF IsCut
<1> HIDE DEF mid
<1>4. PICK b : IsCut(mid, {Quote}, literal, b)
  BY <1>1, <1>3, ReplacedIsCut
<1> HIDE DEF literal
<1>5. /\ a \in [0 .. n -> 0 .. Len(mid)] /\ a[0] = 0 /\ a[n] = Len(mid)
      /\ \A k \in 1 .. n : /\ a[k] = a[k - 1] + (IF value[k] = Back THEN 2 ELSE 1)
                           /\ mid[a[k]] = value[k]
                           /\ value[k] = Back => mid[a[k] - 1] = Back
  BY <1>2 DEF IsCut
<1>6. /\ literal \in Seq(Char)
      /\ b \in [0 .. Len(mid) -> 0 .. Len(literal)] /\ b[0] = 0 /\ b[Len(mid)] = Len(literal)
      /\ \A k \in 1 .. Len(mid) : /\ b[k] = b[k - 1] + (IF mid[k] = Quote THEN 2 ELSE 1)
                                  /\ literal[b[k]] = mid[k]
                                  /\ mid[k] = Quote => literal[b[k] - 1] = Back
  BY <1>4 DEF IsCut
<1> DEFINE at == [k \in 0 .. n |-> b[a[k]]]
<1>7. at \in [0 .. n -> 0 .. Len(literal)] /\ at[0] = 0 /\ at[n] = Len(literal)
  BY <1>1, <1>5, <1>6
<1>8. ASSUME NEW k \in 1 .. n
      PROVE  /\ at[k] = at[k - 1] + (IF value[k] \in {Back, Quote} THEN 2 ELSE 1)
             /\ literal[at[k]] = value[k]
             /\ value[k] \in {Back, Quote} => literal[at[k] - 1] = Back
  <2>1. k - 1 \in 0 .. n /\ k \in 0 .. n /\ Len(mid) \in Nat /\ Len(literal) \in Nat
    BY <1>1, <1>3, <1>6
  <2>2. at[k] = b[a[k]] /\ at[k - 1] = b[a[k - 1]]
    BY <2>1
  <2>3. a[k] \in 0 .. Len(mid) /\ a[k - 1] \in 0 .. Len(mid)
    BY <1>5, <2>1
  <2>4. b[a[k]] \in 0 .. Len(literal) /\ b[a[k - 1]] \in 0 .. Len(literal)
    BY <1>6, <2>3
  <2> HIDE DEF at, n
  <2>5. CASE value[k] = Back
    <3>1. /\ a[k] = a[k - 1] + 2 /\ mid[a[k]] = Back /\ mid[a[k] - 1] = Back
      BY <1>5, <2>5
    <3>2. /\ a[k] \in 1 .. Len(mid) /\ a[k] - 1 \in 1 .. Len(mid) /\ (a[k] - 1) - 1 = a[k - 1]
      <4>1. a[k] = a[k - 1] + 2 /\ a[k - 1] \in Nat /\ a[k] <= Len(mid)
        BY <2>1, <2>3, <3>1
      <4> QED BY <2>1, <4>1
    <3>3. /\ b[a[k]] = b[a[k] - 1] + 1 /\ literal[b[a[k]]] = Back
      BY <1>1, <1>6, <3>1, <3>2
    <3>4. /\ b[a[k] - 1] = b[a[k - 1]] + 1 /\ literal[b[a[k] - 1]] = Back
      BY <1>1, <1>6, <3>1, <3>2
    <3>5. b[a[k]] = b[a[k - 1]] + 2 /\ b[a[k]] - 1 = b[a[k] - 1]
      BY <2>1, <2>4, <3>3, <3>4
    <3> QED BY <2>2, <2>5, <3>3, <3>4, <3>5
  <2>6. CASE value[k] = Quote
    <3>1. a[k] = a[k - 1] + 1 /\ mid[a[k]] = Quote
      BY <1>1, <1>5, <2>6
    <3>2. a[k] \in 1 .. Len(mid) /\ a[k] - 1 = a[k - 1]
      BY <2>1, <2>3, <3>1
    <3>3. b[a[k]] = b[a[k - 1]] + 2 /\ literal[b[a[k]]] = Quote /\ literal[b[a[k]] - 1] = Back
      BY <1>6, <3>1, <3>2
    <3> QED BY <2>2, <2>6, <3>3
  <2>7. CASE value[k] \notin {Back, Quote}
    <3>1. a[k] = a[k - 1] + 1 /\ mid[a[k]] = value[k]
      BY <1>5, <2>7
    <3>2. a[k] \in 1 .. Len(mid) /\ a[k] - 1 = a[k - 1]
      BY <2>1, <2>3, <3>1
    <3>3. b[a[k]] = b[a[k - 1]] + 1 /\ literal[b[a[k]]] = value[k]
      BY <1>6, <2>7, <3>1, <3>2
    <3> QED BY <2>2, <2>7, <3>3
  <2> QED BY <2>5, <2>6, <2>7
<1>9. IsCut(value, {Back, Quote}, literal, at)
  <2> HIDE DEF at
  <2> QED BY <1>6, <1>7, <1>8 DEF IsCut
<1>10. literal = EscapeWhereValue(value)
  BY DEF literal, mid, EscapeWhereValue
<1> QED
  <2> HIDE DEF at
  <2> QED BY <1>9, <1>10

(* The scanner in a literal, inside p parentheses; after a backslash there;  *)
(* and outside of literals.                                                  *)
Inside(p) == [escaped |-> FALSE, inSingleQuote |-> TRUE, parens |-> p, failed |-> FALSE]
Skipping(p) == [escaped |-> TRUE, inSingleQuote |-> TRUE, parens |-> p, failed |-> FALSE]
Outside(p) == [escaped |-> FALSE, inSingleQuote |-> FALSE, parens |-> p, failed |-> FALSE]

LEMMA InsideFields ==
    ASSUME NEW p \in Int, NEW s, s = Inside(p)
    PROVE  s \in Scan /\ ~s.escaped /\ s.inSingleQuote /\ s.parens = p /\ ~s.failed
BY DEF Inside, Scan

LEMMA SkippingFields ==
    ASSUME NEW p \in Int, NEW s, s = Skipping(p)
    PROVE  s \in Scan /\ s.escaped /\ s.inSingleQuote /\ s.parens = p /\ ~s.failed
BY DEF Skipping, Scan

LEMMA OutsideFields ==
    ASSUME NEW p \in Int, NEW s, s = Outside(p)
    PROVE  s \in Scan /\ ~s.escaped /\ ~s.inSingleQuote /\ s.parens = p /\ ~s.failed
BY DEF Outside, Scan

LEMMA InsideTurns ==
    ASSUME NEW p \in Int, NEW ch
    PROVE  /\ Scanned(Inside(p), Back) = Skipping(p)
           /\ Scanned(Skipping(p), ch) = Inside(p)
           /\ ch \notin {Back, Quote} => Scanned(Inside(p), ch) = Inside(p)
           /\ Scanned(Inside(p), Quote) = Outside(p)
           /\ Scanned(Outside(p), Quote) = Inside(p)
           /\ Scanned(Outside(p), Plain) = Outside(p)
           /\ Scanned(Outside(p), Open) = Outside(p + 1)
           /\ p # 0 => Scanned(Outside(p), Close) = Outside(p - 1)
<1>1. p + 1 \in Int /\ p - 1 \in Int
  OBVIOUS
<1>2. /\ Back \notin {Quote, Open, Close} /\ Quote \notin {Open, Close} /\ Open # Close
      /\ Plain \notin {Back, Quote, Open, Close}
  BY DEF Back, Quote, Open, Close, Plain
<1>3. Scanned(Inside(p), Back) = Skipping(p)
  <2> SUFFICES ASSUME NEW s, s = Inside(p), NEW u, u = Scanned(s, Back),
                      NEW v, v = Skipping(p)
               PROVE  u = v
    OBVIOUS
  <2>1. s \in Scan /\ ~s.escaped /\ s.inSingleQuote /\ s.parens = p /\ ~s.failed
    BY InsideFields
  <2>2. v \in Scan /\ v.escaped /\ v.inSingleQuote /\ v.parens = p /\ ~v.failed
    BY <1>1, SkippingFields
  <2>3. u \in Scan /\ u.escaped /\ u.inSingleQuote /\ u.parens = p /\ ~u.failed
    BY <1>2, <2>1, ScannedFields
  <2> QED BY <2>2, <2>3, SameState
<1>4. Scanned(Skipping(p), ch) = Inside(p)
  <2> SUFFICES ASSUME NEW s, s = Skipping(p), NEW u, u = Scanned(s, ch),
                      NEW v, v = Inside(p)
               PROVE  u = v
    OBVIOUS
  <2>1. s \in Scan /\ s.escaped /\ s.inSingleQuote /\ s.parens = p /\ ~s.failed
    BY SkippingFields
  <2>2. v \in Scan /\ ~v.escaped /\ v.inSingleQuote /\ v.parens = p /\ ~v.failed
    BY <1>1, InsideFields
  <2>3. u \in Scan /\ ~u.escaped /\ u.inSingleQuote /\ u.parens = p /\ ~u.failed
    BY <1>2, <2>1, ScannedFields
  <2> QED BY <2>2, <2>3, SameState
<1>5. ch \notin {Back, Quote} => Scanned(Inside(p), ch) = Inside(p)
  <2> SUFFICES ASSUME ch \notin {Back, Quote}, NEW s, s = Inside(p), NEW u, u = Scanned(s, ch),
                      NEW v, v = Inside(p)
               PROVE  u = v
    OBVIOUS
  <2>1. s \in Scan /\ ~s.escaped /\ s.inSingleQuote /\ s.parens = p /\ ~s.failed
    BY InsideFields
  <2>2. v \in Scan /\ ~v.escaped /\ v.inSingleQuote /\ v.parens = p /\ ~v.failed
    BY <1>1, InsideFields
  <2>3. u \in Scan /\ ~u.escaped /\ u.inSingleQuote /\ u.parens = p /\ ~u.failed
    BY <1>2, <2>1, ScannedFields
  <2> QED BY <2>2, <2>3, SameState
<1>6. Scanned(Inside(p), Quote) = Outside(p)
  <2> SUFFICES ASSUME NEW s, s = Inside(p), NEW u, u = Scanned(s, Quote),
                      NEW v, v = Outside(p)
               PROVE  u = v
    OBVIOUS
  <2>1. s \in Scan /\ ~s.escaped /\ s.inSingleQuote /\ s.parens = p /\ ~s.failed
    BY InsideFields
  <2>2. v \in Scan /\ ~v.escaped /\ ~v.inSingleQuote /\ v.parens = p /\ ~v.failed
    BY <1>1, OutsideFields
  <2>3. u \in Scan /\ ~u.escaped /\ ~u.inSingleQuote /\ u.parens = p /\ ~u.failed
    BY <1>2, <2>1, ScannedFields
  <2> QED BY <2>2, <2>3, SameState
<1>7. Scanned(Outside(p), Quote) = Inside(p)
  <2> SUFFICES ASSUME NEW s, s = Outside(p), NEW u, u = Scanned(s, Quote),
                      NEW v, v = Inside(p)
               PROVE  u = v
    OBVIOUS
  <2>1. s \in Scan /\ ~s.escaped /\ ~s.inSingleQuote /\ s.parens = p /\ ~s.failed
    BY OutsideFields
  <2>2. v \in Scan /\ ~v.escaped /\ v.inSingleQuote /\ v.parens = p /\ ~v.failed
    BY <1>1, InsideFields
  <2>3. u \in Scan /\ ~u.escaped /\ u.inSingleQuote /\ u.parens = p /\ ~u.failed
    BY <1>2, <2>1, ScannedFields
  <2> QED BY <2>2, <2>3, SameState
<1>8. Scanned(Outside(p), Plain) = Outside(p)
  <2> SUFFICES ASSUME NEW s, s = Outside(p), NEW u, u = Scanned(s, Plain),
                      NEW v, v = Outside(p)
               PROVE  u = v
    OBVIOUS
  <2>1. s \in Scan /\ ~s.escaped /\ ~s.inSingleQuote /\ s.parens = p /\ ~s.failed
    BY OutsideFields
  <2>2. v \in Scan /\ ~v.escaped /\ ~v.inSingleQuote /\ v.parens = p /\ ~v.failed
    BY <1>1, OutsideFields
  <2>3. u \in Scan /\ ~u.escaped /\ ~u.inSingleQuote /\ u.parens = p /\ ~u.failed
    BY <1>2, <2>1, ScannedFields
  <2> QED BY <2>2, <2>3, SameState
<1>9. Scanned(Outside(p), Open) = Outside(p + 1)
  <2> SUFFICES ASSUME NEW s, s = Outside(p), NEW u, u = Scanned(s, Open),
                      NEW v, v = Outside(p + 1)
               PROVE  u = v
    OBVIOUS
  <2>1. s \in Scan /\ ~s.escaped /\ ~s.inSingleQuote /\ s.parens = p /\ ~s.failed
    BY OutsideFields
  <2>2. v \in Scan /\ ~v.escaped /\ ~v.inSingleQuote /\ v.parens = p + 1 /\ ~v.failed
    BY <1>1, OutsideFields
  <2>3. u \in Scan /\ ~u.escaped /\ ~u.inSingleQuote /\ u.parens = p + 1 /\ ~u.failed
    BY <1>2, <2>1, ScannedFields
  <2> QED BY <2>2, <2>3, SameState
<1>10. p # 0 => Scanned(Outside(p), Close) = Outside(p - 1)
  <2> SUFFICES ASSUME p # 0, NEW s, s = Outside(p), NEW u, u = Scanned(s, Close),
                      NEW v, v = Outside(p - 1)
               PROVE  u = v
    OBVIOUS
  <2>1. s \in Scan /\ ~s.escaped /\ ~s.inSingleQuote /\ s.parens = p /\ ~s.failed
    BY OutsideFields
  <2>2. v \in Scan /\ ~v.escaped /\ ~v.inSingleQuote /\ v.parens = p - 1 /\ ~v.failed
    BY <1>1, OutsideFields
  <2>3. u \in Scan /\ ~u.escaped /\ ~u.inSingleQuote /\ u.parens = p - 1 /\ ~u.failed
    BY <1>2, <2>1, ScannedFields
  <2> QED BY <2>2, <2>3, SameState
<1> QED BY <1>3, <1>4, <1>5, <1>6, <1>7, <1>8, <1>9, <1>10

(* Where a clause holds an escaped value inside a literal, from o on, the    *)
(* scanner is inside the literal again after every character of the value.   *)
LEMMA InsideLiteral ==
    ASSUME NEW value \in Seq(Char), NEW where \in Seq(Char), NEW literal, NEW at,
           IsCut(value, {Back, Quote}, literal, at),
           NEW o \in Nat, NEW p \in Int, o + Len(literal) <= Len(where),
           \A j \in 1 .. Len(literal) : where[o + j] = literal[j],
           turns(where)[o] = Inside(p)
    PROVE  /\ \A k \in 0 .. Len(value) : turns(where)[o + at[k]] = Inside(p)
           /\ \A k \in 1 .. Len(value) : value[k] \in {Back, Quote} =>
                  turns(where)[o + (at[k] - 1)] = Skipping(p)
           /\ \A j \in 0 .. Len(literal) : turns(where)[o + j] \in {Inside(p), Skipping(p)}
<1> DEFINE t == turns(where)
           n == Len(value)
           m == Len(literal)
<1>1. n \in Nat /\ m \in Nat /\ Len(where) \in Nat
  BY DEF IsCut
<1>2. \A k \in 1 .. Len(where) : t[k] = Scanned(t[k - 1], where[k])
  BY TurnsAreARun
<1>3. /\ at \in [0 .. n -> 0 .. m] /\ at[0] = 0 /\ at[n] = m
      /\ \A k \in 1 .. n : /\ at[k] = at[k - 1] + (IF value[k] \in {Back, Quote} THEN 2 ELSE 1)
                           /\ literal[at[k]] = value[k]
                           /\ value[k] \in {Back, Quote} => literal[at[k] - 1] = Back
  BY DEF IsCut
<1>4. ASSUME NEW j \in 1 .. m PROVE t[o + j] = Scanned(t[o + (j - 1)], literal[j])
  <2>1. o + j \in 1 .. Len(where) /\ (o + j) - 1 = o + (j - 1)
    BY <1>1
  <2>2. where[o + j] = literal[j]
    OBVIOUS
  <2> HIDE DEF t
  <2> QED BY <1>2, <2>1, <2>2
<1>5. ASSUME NEW k \in 1 .. n, t[o + at[k - 1]] = Inside(p)
      PROVE  /\ t[o + at[k]] = Inside(p)
             /\ value[k] \in {Back, Quote} => t[o + (at[k] - 1)] = Skipping(p)
  <2>1. at[k] \in 0 .. m /\ at[k - 1] \in 0 .. m
    <3>1. k \in 0 .. n /\ k - 1 \in 0 .. n
      BY <1>1
    <3> HIDE DEF n, m
    <3> QED BY <1>3, <3>1
  <2>2. CASE value[k] \in {Back, Quote}
    <3>1. at[k] = at[k - 1] + 2 /\ literal[at[k] - 1] = Back
      BY <1>3, <2>2
    <3> HIDE DEF t, n, m
    <3>2. at[k] \in 1 .. m /\ at[k] - 1 \in 1 .. m /\ (at[k] - 1) - 1 = at[k - 1]
      <4>1. \A x, y \in 0 .. m : x = y + 2 => x \in 1 .. m /\ x - 1 \in 1 .. m /\ (x - 1) - 1 = y
        BY <1>1
      <4> QED BY <2>1, <3>1, <4>1
    <3>3. t[o + (at[k] - 1)] = Scanned(t[o + ((at[k] - 1) - 1)], literal[at[k] - 1])
      BY <1>4, <3>2
    <3>4. t[o + (at[k] - 1)] = Skipping(p)
      BY <1>5, <3>1, <3>2, <3>3, InsideTurns
    <3>5. t[o + at[k]] = Scanned(t[o + (at[k] - 1)], literal[at[k]])
      BY <1>4, <3>2
    <3> QED BY <3>4, <3>5, InsideTurns
  <2>3. CASE value[k] \notin {Back, Quote}
    <3>1. at[k] = at[k - 1] + 1 /\ literal[at[k]] = value[k]
      BY <1>3, <2>3
    <3> HIDE DEF t, n, m
    <3>2. at[k] \in 1 .. m /\ at[k] - 1 = at[k - 1]
      <4>1. \A x, y \in 0 .. m : x = y + 1 => x \in 1 .. m /\ x - 1 = y
        BY <1>1
      <4> QED BY <2>1, <3>1, <4>1
    <3>3. t[o + at[k]] = Scanned(t[o + (at[k] - 1)], literal[at[k]])
      BY <1>4, <3>2
    <3> QED BY <1>5, <2>3, <3>1, <3>2, <3>3, InsideTurns
  <2> QED BY <2>2, <2>3
<1> DEFINE S == {k \in 0 .. n : /\ t[o + at[k]] = Inside(p)
                               /\ \A j \in 0 .. at[k] : t[o + j] \in {Inside(p), Skipping(p)}}
<1>6. 0 \in S
  <2>1. t[o + 0] = Inside(p) /\ 0 \in 0 .. n
    BY <1>1
  <2> HIDE DEF t, n
  <2> QED BY <1>3, <2>1
<1>7. ASSUME NEW k \in 0 .. n - 1, k \in S PROVE k + 1 \in S
  <2>1. k + 1 \in 1 .. n /\ k + 1 \in 0 .. n /\ (k + 1) - 1 = k
    BY <1>1
  <2>2. t[o + at[k]] = Inside(p) /\ \A j \in 0 .. at[k] : t[o + j] \in {Inside(p), Skipping(p)}
    BY <1>7
  <2> HIDE DEF t, n, m
  <2>3. /\ t[o + at[k + 1]] = Inside(p)
        /\ value[k + 1] \in {Back, Quote} => t[o + (at[k + 1] - 1)] = Skipping(p)
    BY <1>5, <2>1, <2>2
  <2>4. ASSUME NEW j \in 0 .. at[k + 1] PROVE t[o + j] \in {Inside(p), Skipping(p)}
    <3>1. at[k + 1] \in Nat /\ at[k] \in Nat
      BY <1>1, <1>3, <2>1
    <3>2. CASE value[k + 1] \in {Back, Quote}
      <4>1. at[k + 1] = at[k] + 2
        BY <1>3, <2>1, <3>2
      <4>2. j \in 0 .. at[k] \/ j = at[k + 1] - 1 \/ j = at[k + 1]
        BY <3>1, <4>1
      <4> QED BY <2>2, <2>3, <3>2, <4>2
    <3>3. CASE value[k + 1] \notin {Back, Quote}
      <4>1. at[k + 1] = at[k] + 1
        BY <1>3, <2>1, <3>3
      <4>2. j \in 0 .. at[k] \/ j = at[k + 1]
        BY <3>1, <4>1
      <4> QED BY <2>2, <2>3, <4>2
    <3> QED BY <3>2, <3>3
  <2> QED BY <2>1, <2>3, <2>4
<1>8. \A k \in 0 .. n : k \in S
  <2> HIDE DEF S, n
  <2> QED BY <1>1, <1>6, <1>7, EveryUpTo
<1>9. \A k \in 0 .. n : t[o + at[k]] = Inside(p)
  BY <1>8
<1>10. \A k \in 1 .. n : value[k] \in {Back, Quote} => t[o + (at[k] - 1)] = Skipping(p)
  <2>1. \A k \in 1 .. n : k - 1 \in 0 .. n
    BY <1>1
  <2> HIDE DEF t, n
  <2> QED BY <1>5, <1>9, <2>1
<1>11. \A j \in 0 .. m : t[o + j] \in {Inside(p), Skipping(p)}
  <2>1. n \in S
    <3> HIDE DEF S, n
    <3> QED BY <1>1, <1>8
  <2> QED BY <1>3, <2>1
<1> QED BY <1>9, <1>10, <1>11

(* What a reader of a literal has after each of its characters.              *)
LEMMA ReadBackIsARun ==
    ASSUME NEW literal \in Seq(Char)
    PROVE  LET before == turns(<<Quote>> \o literal)
           IN  \E r \in [0 .. Len(literal) -> Seq(Char)] :
                  /\ r[0] = <<>> /\ r[Len(literal)] = ReadBack(literal)
                  /\ \A k \in 1 .. Len(literal) :
                        /\ before[k].escaped \/ literal[k] # Back
                             => r[k] = Append(r[k - 1], literal[k])
                        /\ ~(before[k].escaped \/ literal[k] # Back) => r[k] = r[k - 1]
<1> DEFINE before == turns(<<Quote>> \o literal)
<1>0. before = turns(<<Quote>> \o literal)
  OBVIOUS
<1> USE <1>0
<1> HIDE DEF before
<1> DEFINE n == Len(literal)
           Turn == [p \in Seq(Char) \X (1 .. n) |->
                       IF before[p[2]].escaped \/ literal[p[2]] # Back
                       THEN Append(p[1], literal[p[2]]) ELSE p[1]]
           Is(f) == f = [k \in 0 .. n |->
                            IF k = 0 THEN <<>>
                            ELSE IF before[k].escaped \/ literal[k] # Back
                                 THEN Append(f[k - 1], literal[k])
                            ELSE f[k - 1]]
<1>1. n \in Nat /\ <<>> \in Seq(Char)
  OBVIOUS
<1>2. Turn \in [Seq(Char) \X (1 .. n) -> Seq(Char)]
  <2>1. ASSUME NEW p \in Seq(Char) \X (1 .. n)
        PROVE  p[1] \in Seq(Char) /\ Append(p[1], literal[p[2]]) \in Seq(Char)
    <3>1. p[1] \in Seq(Char) /\ literal[p[2]] \in Char
      OBVIOUS
    <3> QED BY <3>1
  <2> QED BY <2>1
<1>3. PICK f : f \in Runs(Seq(Char), <<>>, n, Turn)
  <2> HIDE DEF Turn, n
  <2> QED BY <1>1, <1>2, RunExists
<1>4. f \in [0 .. n -> Seq(Char)] /\ f[0] = <<>> /\ \A k \in 1 .. n : f[k] = Turn[<<f[k - 1], k>>]
  BY <1>3 DEF Runs
<1>5. ASSUME NEW k \in 1 .. n
      PROVE  f[k] = IF before[k].escaped \/ literal[k] # Back
                    THEN Append(f[k - 1], literal[k]) ELSE f[k - 1]
  <2>1. f[k - 1] \in Seq(Char)
    <3> HIDE DEF Turn, n
    <3> QED BY <1>1, <1>4
  <2>2. f[k] = Turn[<<f[k - 1], k>>]
    BY <1>4
  <2> QED BY <2>1, <2>2
<1>6. Is(f)
  <2>1. \A k \in 0 .. n : f[k] = IF k = 0 THEN <<>>
                                 ELSE IF before[k].escaped \/ literal[k] # Back
                                      THEN Append(f[k - 1], literal[k])
                                 ELSE f[k - 1]
    <3>1. \A k \in 0 .. n : k = 0 \/ k \in 1 .. n
      OBVIOUS
    <3>2. f[0] = <<>>
      BY <1>4
    <3> HIDE DEF n, Turn
    <3> QED BY <1>5, <3>1, <3>2
  <2> HIDE DEF n
  <2> QED BY <1>4, <2>1
<1> DEFINE t == CHOOSE g : Is(g)
<1>7. ReadBack(literal) = t[n]
  BY DEF ReadBack
<1>8. Is(t)
  <2> HIDE DEF Is
  <2> QED BY <1>6
<1>9. \A k \in 0 .. n : t[k] = IF k = 0 THEN <<>>
                               ELSE IF before[k].escaped \/ literal[k] # Back
                                    THEN Append(t[k - 1], literal[k])
                               ELSE t[k - 1]
  <2> HIDE DEF t, n
  <2>1. t = [k \in 0 .. n |-> IF k = 0 THEN <<>>
                             ELSE IF before[k].escaped \/ literal[k] # Back
                                  THEN Append(t[k - 1], literal[k])
                             ELSE t[k - 1]]
    BY <1>8
  <2> QED BY <2>1, Zenon
<1> DEFINE S == {j \in 0 .. n : t[j] = f[j]}
<1>10. \A k \in 0 .. n : k \in S
  <2>1. 0 \in S
    <3>1. 0 \in 0 .. n
      OBVIOUS
    <3>2. t[0] = <<>>
      <4> HIDE DEF t, n
      <4> QED BY <1>9, <3>1, Zenon
    <3>3. t[0] = f[0]
      BY <1>4, <3>2, Zenon
    <3> HIDE DEF t, n
    <3> QED BY <3>1, <3>3
  <2>2. ASSUME NEW k \in 0 .. n - 1, k \in S PROVE k + 1 \in S
    <3>1. t[k] = f[k] /\ k + 1 \in 1 .. n /\ (k + 1) - 1 = k
      BY <2>2
    <3>2. k + 1 \in 0 .. n /\ k + 1 # 0
      BY <1>1, <3>1
    <3> HIDE DEF t, n, Turn
    <3>3. f[k + 1] = IF before[k + 1].escaped \/ literal[k + 1] # Back
                     THEN Append(f[k], literal[k + 1]) ELSE f[k]
      BY <1>5, <3>1
    <3>4. t[k + 1] = IF before[k + 1].escaped \/ literal[k + 1] # Back
                     THEN Append(t[k], literal[k + 1]) ELSE t[k]
      BY <1>9, <3>1, <3>2
    <3> QED BY <3>1, <3>2, <3>3, <3>4
  <2> HIDE DEF S, n
  <2> QED BY <1>1, <2>1, <2>2, EveryUpTo
<1>11. f[n] = ReadBack(literal)
  <2> HIDE DEF t, n
  <2> QED BY <1>1, <1>7, <1>10
<1>12. \E r \in [0 .. Len(literal) -> Seq(Char)] :
          /\ r[0] = <<>> /\ r[Len(literal)] = ReadBack(literal)
          /\ \A k \in 1 .. Len(literal) :
                /\ before[k].escaped \/ literal[k] # Back => r[k] = Append(r[k - 1], literal[k])
                /\ ~(before[k].escaped \/ literal[k] # Back) => r[k] = r[k - 1]
  BY <1>4, <1>5, <1>11
<1> QED BY <1>12 DEF before

(* The literal of an escaped value, in quotes: the scanner is inside it from *)
(* the opening quote on.                                                     *)
LEMMA Quoted ==
    ASSUME NEW literal \in Seq(Char), NEW where, where = <<Quote>> \o literal
    PROVE  /\ where \in Seq(Char) /\ Len(where) = 1 + Len(literal)
           /\ \A j \in 1 .. Len(literal) : where[1 + j] = literal[j]
           /\ turns(where)[1] = Inside(0)
<1>1. <<Quote>> \in Seq(Char) /\ Len(<<Quote>>) = 1 /\ <<Quote>>[1] = Quote
  BY DEF Char
<1>2. where \in Seq(Char) /\ Len(where) = 1 + Len(literal) /\ where[1] = Quote
  BY <1>1
<1>3. \A j \in 1 .. Len(literal) : where[1 + j] = literal[j]
  BY <1>1
<1>4. 1 \in 1 .. Len(where) /\ 1 - 1 = 0
  BY <1>2
<1>5. turns(where)[1] = Scanned(Outside(0), Quote)
  BY <1>2, <1>4, TurnsAreARun DEF Fresh, Outside
<1>6. turns(where)[1] = Inside(0)
  <2>1. 0 \in Int
    OBVIOUS
  <2> QED BY <1>5, <2>1, InsideTurns, Zenon
<1> QED BY <1>2, <1>3, <1>6

LEMMA ValueReadBack ==
    ASSUME NEW value \in Seq(Char)
    PROVE  ReadBack(EscapeWhereValue(value)) = value
<1> DEFINE literal == EscapeWhereValue(value)
           where == <<Quote>> \o literal
           before == turns(where)
           n == Len(value)
<1>1. PICK at : IsCut(value, {Back, Quote}, literal, at)
  BY EscapeIsCut
<1> HIDE DEF literal
<1>2. /\ literal \in Seq(Char)
      /\ at \in [0 .. n -> 0 .. Len(literal)] /\ at[0] = 0 /\ at[n] = Len(literal)
      /\ \A k \in 1 .. n : /\ at[k] = at[k - 1] + (IF value[k] \in {Back, Quote} THEN 2 ELSE 1)
                           /\ literal[at[k]] = value[k]
                           /\ value[k] \in {Back, Quote} => literal[at[k] - 1] = Back
  BY <1>1 DEF IsCut
<1>3. /\ where \in Seq(Char) /\ Len(where) = 1 + Len(literal)
      /\ \A j \in 1 .. Len(literal) : where[1 + j] = literal[j]
      /\ before[1] = Inside(0)
  BY <1>2, Quoted
<1>4. PICK r \in [0 .. Len(literal) -> Seq(Char)] :
         /\ r[0] = <<>> /\ r[Len(literal)] = ReadBack(literal)
         /\ \A k \in 1 .. Len(literal) :
               /\ before[k].escaped \/ literal[k] # Back => r[k] = Append(r[k - 1], literal[k])
               /\ ~(before[k].escaped \/ literal[k] # Back) => r[k] = r[k - 1]
  <2>1. literal \in Seq(Char)
    BY <1>2
  <2> QED BY <2>1, ReadBackIsARun, Zenon
<1> HIDE DEF where
<1>5. /\ \A k \in 0 .. n : before[1 + at[k]] = Inside(0)
      /\ \A k \in 1 .. n : value[k] \in {Back, Quote} => before[1 + (at[k] - 1)] = Skipping(0)
  <2>1. 1 \in Nat /\ 0 \in Int /\ 1 + Len(literal) <= Len(where)
    BY <1>2, <1>3
  <2> QED BY <1>1, <1>3, <2>1, InsideLiteral
<1>6. n \in Nat /\ Len(literal) \in Nat
  BY <1>2
<1> HIDE DEF before, n
<1>7. ~Inside(0).escaped /\ Skipping(0).escaped
  BY InsideFields, SkippingFields
<1>8. ASSUME NEW k \in 1 .. n
      PROVE  r[at[k]] = Append(r[at[k - 1]], value[k])
  <2>1. k - 1 \in 0 .. n /\ k \in 0 .. n
    BY <1>6
  <2>2. at[k] \in 0 .. Len(literal) /\ at[k - 1] \in 0 .. Len(literal)
    BY <1>2, <2>1
  <2>3. before[1 + at[k - 1]] = Inside(0)
    BY <1>5, <2>1
  <2>4. CASE value[k] \in {Back, Quote}
    <3>1. at[k] = at[k - 1] + 2 /\ literal[at[k]] = value[k] /\ literal[at[k] - 1] = Back
      BY <1>2, <2>4
    <3>2. /\ at[k] \in 1 .. Len(literal) /\ at[k] - 1 \in 1 .. Len(literal)
          /\ (at[k] - 1) - 1 = at[k - 1] /\ 1 + at[k - 1] = at[k] - 1 /\ 1 + (at[k] - 1) = at[k]
      <4>1. \A x, y \in 0 .. Len(literal) : x = y + 2 =>
               /\ x \in 1 .. Len(literal) /\ x - 1 \in 1 .. Len(literal)
               /\ (x - 1) - 1 = y /\ 1 + y = x - 1 /\ 1 + (x - 1) = x
        BY <1>6
      <4> QED BY <2>2, <3>1, <4>1
    <3>3. ~before[at[k] - 1].escaped
      BY <1>7, <2>3, <3>2
    <3>4. r[at[k] - 1] = r[at[k - 1]]
      BY <1>4, <3>1, <3>2, <3>3
    <3>5. before[at[k]].escaped
      BY <1>5, <1>7, <2>4, <3>2
    <3>6. r[at[k]] = Append(r[at[k] - 1], literal[at[k]])
      BY <1>4, <3>2, <3>5
    <3> QED BY <3>1, <3>4, <3>6
  <2>5. CASE value[k] \notin {Back, Quote}
    <3>1. at[k] = at[k - 1] + 1 /\ literal[at[k]] = value[k]
      BY <1>2, <2>5
    <3>2. at[k] \in 1 .. Len(literal) /\ at[k] - 1 = at[k - 1]
      <4>1. \A x, y \in 0 .. Len(literal) : x = y + 1 => x \in 1 .. Len(literal) /\ x - 1 = y
        BY <1>6
      <4> QED BY <2>2, <3>1, <4>1
    <3> QED BY <1>4, <2>5, <3>1, <3>2
  <2> QED BY <2>4, <2>5
<1> DEFINE S == {k \in 0 .. n : r[at[k]] = SubSeq(value, 1, k)}
<1>9. 0 \in S
  <2>1. SubSeq(value, 1, 0) = <<>>
    OBVIOUS
  <2> QED BY <1>2, <1>4, <1>6, <2>1
<1>10. ASSUME NEW k \in 0 .. n - 1, k \in S PROVE k + 1 \in S
  <2>1. k + 1 \in 1 .. n /\ k + 1 \in 0 .. n /\ (k + 1) - 1 = k /\ k \in Nat
    BY <1>6
  <2>2. r[at[k + 1]] = Append(SubSeq(value, 1, k), value[k + 1])
    BY <1>8, <1>10, <2>1
  <2>3. Append(SubSeq(value, 1, k), value[k + 1]) = SubSeq(value, 1, k + 1)
    BY <2>1 DEF n
  <2> QED BY <2>1, <2>2, <2>3
<1>11. \A k \in 0 .. n : k \in S
  <2> HIDE DEF S
  <2> QED BY <1>6, <1>9, <1>10, EveryUpTo
<1>12. n \in S
  <2> HIDE DEF S
  <2> QED BY <1>6, <1>11
<1>13. ReadBack(literal) = SubSeq(value, 1, n)
  BY <1>2, <1>4, <1>12
<1>14. SubSeq(value, 1, n) = value
  BY DEF n
<1> QED BY <1>13, <1>14 DEF literal

(* A tool's own filter, from o on in a clause: the scanner is back outside of*)
(* literals at its end, and in the literal all the way between its quotes.   *)
LEMMA FixedTurns ==
    ASSUME NEW value \in Seq(Char), NEW where \in Seq(Char), NEW o \in Nat, NEW p \in Int,
           o + Len(Fixed(value)) <= Len(where),
           \A j \in 1 .. Len(Fixed(value)) : where[o + j] = Fixed(value)[j],
           turns(where)[o] = Outside(p)
    PROVE  /\ turns(where)[o + Len(Fixed(value))] = Outside(p)
           /\ \A j \in 2 .. Len(Fixed(value)) - 1 : turns(where)[o + j].inSingleQuote
<1> DEFINE fixed == Fixed(value)
           literal == EscapeWhereValue(value)
           e == Len(literal)
           t == turns(where)
<1>1. PICK at : IsCut(value, {Back, Quote}, literal, at)
  BY EscapeIsCut
<1>2. literal \in Seq(Char) /\ e \in Nat /\ at[Len(value)] = e /\ Len(value) \in 0 .. Len(value)
  BY <1>1 DEF IsCut
<1>3. fixed = <<Plain, Quote>> \o literal \o <<Quote>>
  BY DEF Fixed
<1> HIDE DEF literal
<1>4. /\ fixed \in Seq(Char) /\ Len(fixed) = e + 3
      /\ fixed[1] = Plain /\ fixed[2] = Quote /\ fixed[e + 3] = Quote
      /\ \A j \in 1 .. e : fixed[2 + j] = literal[j]
  <2>1. <<Plain, Quote>> \in Seq(Char) /\ <<Quote>> \in Seq(Char)
    BY DEF Char
  <2>2. Len(<<Plain, Quote>>) = 2 /\ Len(<<Quote>>) = 1
    OBVIOUS
  <2> QED BY <1>2, <1>3, <2>1, <2>2
<1> HIDE DEF e, t
<1>5. o + (e + 3) <= Len(where) /\ Len(where) \in Nat
  BY <1>4
<1>6. ASSUME NEW j \in 1 .. e + 3
      PROVE  t[o + j] = Scanned(t[o + (j - 1)], fixed[j])
  <2>1. o + j \in 1 .. Len(where) /\ (o + j) - 1 = o + (j - 1)
    BY <1>2, <1>5
  <2>2. where[o + j] = fixed[j]
    BY <1>4
  <2>3. t[o + j] = Scanned(t[(o + j) - 1], where[o + j])
    BY <2>1, TurnsAreARun DEF t
  <2> QED BY <2>1, <2>2, <2>3
<1>7. 1 \in 1 .. e + 3 /\ 2 \in 1 .. e + 3 /\ e + 3 \in 1 .. e + 3 /\ (e + 3) - 1 = e + 2
  BY <1>2
<1>8. t[o + 1] = Outside(p)
  <2>1. t[o + 1] = Scanned(t[o + (1 - 1)], fixed[1])
    BY <1>6, <1>7, Zenon
  <2>2. o + (1 - 1) = o
    OBVIOUS
  <2>3. t[o] = Outside(p)
    BY DEF t
  <2>4. t[o + 1] = Scanned(Outside(p), Plain)
    BY <1>4, <2>1, <2>2, <2>3
  <2> QED BY <2>4, InsideTurns
<1>9. t[o + 2] = Inside(p)
  <2>1. t[o + 2] = Scanned(t[o + (2 - 1)], fixed[2])
    BY <1>6, <1>7, Zenon
  <2>2. o + (2 - 1) = o + 1
    OBVIOUS
  <2>3. t[o + 2] = Scanned(Outside(p), Quote)
    BY <1>4, <1>8, <2>1, <2>2
  <2> QED BY <2>3, InsideTurns
<1>10. /\ \A k \in 0 .. Len(value) : t[(o + 2) + at[k]] = Inside(p)
       /\ \A j \in 0 .. e : t[(o + 2) + j] \in {Inside(p), Skipping(p)}
  <2>1. o + 2 \in Nat /\ (o + 2) + e <= Len(where)
    BY <1>2, <1>5
  <2>2. \A j \in 1 .. e : where[(o + 2) + j] = literal[j]
    <3> SUFFICES ASSUME NEW j \in 1 .. e PROVE where[(o + 2) + j] = literal[j]
      OBVIOUS
    <3>1. 2 + j \in 1 .. e + 3 /\ (o + 2) + j = o + (2 + j)
      BY <1>2
    <3> QED BY <1>4, <3>1
  <2> DEFINE w == o + 2
  <2>3. w \in Nat /\ w + Len(literal) <= Len(where)
    BY <2>1 DEF e
  <2>4. \A j \in 1 .. Len(literal) : where[w + j] = literal[j]
    BY <2>2 DEF e
  <2>5. turns(where)[w] = Inside(p)
    BY <1>9 DEF t
  <2>6. /\ \A k \in 0 .. Len(value) : turns(where)[w + at[k]] = Inside(p)
        /\ \A k \in 1 .. Len(value) : value[k] \in {Back, Quote} =>
              turns(where)[w + (at[k] - 1)] = Skipping(p)
        /\ \A j \in 0 .. Len(literal) : turns(where)[w + j] \in {Inside(p), Skipping(p)}
    <3> HIDE DEF w
    <3> QED BY <1>1, <2>3, <2>4, <2>5, InsideLiteral, Zenon
  <2> QED BY <2>6 DEF e, t
<1>11. t[o + (e + 3)] = Outside(p)
  <2>1. t[(o + 2) + e] = Inside(p)
    <3>1. t[(o + 2) + at[Len(value)]] = Inside(p)
      BY <1>2, <1>10
    <3> QED BY <1>2, <3>1
  <2>3. (o + 2) + e = o + (e + 2)
    BY <1>2
  <2>2. t[o + (e + 3)] = Scanned(t[o + (e + 2)], Quote)
    BY <1>4, <1>6, <1>7
  <2> QED BY <2>1, <2>2, <2>3, InsideTurns
<1>12. ASSUME NEW j \in 2 .. Len(fixed) - 1 PROVE t[o + j].inSingleQuote
  <2>1. j - 2 \in 0 .. e /\ o + j = (o + 2) + (j - 2)
    BY <1>2, <1>4
  <2>2. t[o + j] \in {Inside(p), Skipping(p)}
    BY <1>10, <2>1
  <2> QED BY <2>2, InsideFields, SkippingFields
<1> QED BY <1>4, <1>11, <1>12 DEF t

LEMMA FixedType ==
    ASSUME NEW value \in Seq(Char), NEW fixed, fixed = Fixed(value)
    PROVE  /\ fixed \in Seq(Char) /\ fixed # <<>> /\ Len(fixed) \in Nat
           /\ \A j \in 1 .. Len(fixed) : fixed[j] = Null => \E k \in DOMAIN value : value[k] = Null
<1> DEFINE literal == EscapeWhereValue(value)
           n == Len(value)
<1>1. PICK at : IsCut(value, {Back, Quote}, literal, at)
  BY EscapeIsCut
<1>2. /\ literal \in Seq(Char)
      /\ at \in [0 .. n -> 0 .. Len(literal)] /\ at[0] = 0 /\ at[n] = Len(literal)
      /\ \A k \in 1 .. n : /\ at[k] = at[k - 1] + (IF value[k] \in {Back, Quote} THEN 2 ELSE 1)
                           /\ literal[at[k]] = value[k]
                           /\ value[k] \in {Back, Quote} => literal[at[k] - 1] = Back
  BY <1>1 DEF IsCut
<1>3. fixed = <<Plain, Quote>> \o literal \o <<Quote>>
  BY DEF Fixed
<1> HIDE DEF literal
<1>4. Null \notin {Back, Quote, Plain} /\ n \in Nat /\ Len(literal) \in Nat
  BY <1>2 DEF Null, Back, Quote, Plain
<1> DEFINE S == {k \in 0 .. n : \A j \in 1 .. at[k] :
                    literal[j] = Null => \E i \in 1 .. n : value[i] = Null}
<1>5. 0 \in S
  BY <1>2, <1>4
<1>6. ASSUME NEW k \in 0 .. n - 1, k \in S PROVE k + 1 \in S
  <2>1. k + 1 \in 1 .. n /\ k + 1 \in 0 .. n /\ (k + 1) - 1 = k
    BY <1>4
  <2>2. \A j \in 1 .. at[k] : literal[j] = Null => \E i \in 1 .. n : value[i] = Null
    BY <1>6
  <2> HIDE DEF n
  <2>3. at[k] \in Nat /\ at[k + 1] \in Nat
    BY <1>2, <1>4, <2>1
  <2>4. ASSUME NEW j \in 1 .. at[k + 1], literal[j] = Null
        PROVE  \E i \in 1 .. n : value[i] = Null
    <3>1. CASE value[k + 1] \in {Back, Quote}
      <4>1. /\ at[k + 1] = at[k] + 2 /\ literal[at[k + 1]] = value[k + 1]
            /\ literal[at[k + 1] - 1] = Back
        BY <1>2, <2>1, <3>1
      <4>2. j \in 1 .. at[k] \/ j = at[k + 1] - 1 \/ j = at[k + 1]
        <5>1. \A x, y, i \in Nat : (y = x + 2 /\ 1 <= i /\ i <= y)
                                      => (i \in 1 .. x \/ i = y - 1 \/ i = y)
          OBVIOUS
        <5>2. at[k + 1] = at[k] + 2 /\ j \in Nat /\ 1 <= j /\ j <= at[k + 1]
          BY <2>3, <4>1
        <5> HIDE DEF S
        <5> QED BY <2>3, <5>1, <5>2
      <4> QED BY <1>4, <2>2, <2>4, <3>1, <4>1, <4>2
    <3>2. CASE value[k + 1] \notin {Back, Quote}
      <4>1. /\ at[k + 1] = at[k] + 1 /\ literal[at[k + 1]] = value[k + 1]
        BY <1>2, <2>1, <3>2
      <4>2. j \in 1 .. at[k] \/ j = at[k + 1]
        BY <2>3, <4>1
      <4> QED BY <2>1, <2>2, <2>4, <4>1, <4>2
    <3> QED BY <3>1, <3>2
  <2> QED BY <2>1, <2>4
<1>7. \A k \in 0 .. n : k \in S
  <2> HIDE DEF S, n
  <2> QED BY <1>4, <1>5, <1>6, EveryUpTo
<1>8. \A j \in 1 .. Len(literal) : literal[j] = Null => \E k \in DOMAIN value : value[k] = Null
  <2>1. n \in S
    <3> HIDE DEF S, n
    <3> QED BY <1>4, <1>7
  <2> QED BY <1>2, <2>1
<1>9. <<Plain, Quote>> \in Seq(Char) /\ <<Quote>> \in Seq(Char)
  BY DEF Char
<1>10. Len(<<Plain, Quote>>) = 2 /\ Len(<<Quote>>) = 1
  OBVIOUS
<1>11. /\ fixed \in Seq(Char) /\ Len(fixed) = Len(literal) + 3
       /\ fixed[1] = Plain /\ fixed[2] = Quote /\ fixed[Len(literal) + 3] = Quote
       /\ \A j \in 1 .. Len(literal) : fixed[2 + j] = literal[j]
  BY <1>2, <1>3, <1>9, <1>10
<1>12. fixed # <<>> /\ Len(fixed) \in Nat
  BY <1>4, <1>11
<1>13. ASSUME NEW j \in 1 .. Len(fixed), fixed[j] = Null
       PROVE  \E k \in DOMAIN value : value[k] = Null
  <2>1. j = 1 \/ j = 2 \/ j = Len(literal) + 3 \/ (j - 2 \in 1 .. Len(literal) /\ j = 2 + (j - 2))
    BY <1>4, <1>11
  <2>2. j - 2 \in 1 .. Len(literal) /\ j = 2 + (j - 2)
    BY <1>4, <1>11, <1>13, <2>1
  <2>3. fixed[j] = literal[j - 2]
    BY <1>11, <2>2
  <2> QED BY <1>8, <1>13, <2>2, <2>3
<1> QED BY <1>11, <1>12, <1>13

LEMMA EveryValueKept ==
    ASSUME NEW value \in Seq(Char)
    PROVE  ValueKept(value)
<1> DEFINE fixed == Fixed(value)
<1>1. fixed \in Seq(Char) /\ Len(fixed) \in Nat
  BY FixedType
<1>2. turns(fixed)[0] = Outside(0)
  BY <1>1, TurnsAreARun DEF Fresh, Outside
<1> HIDE DEF fixed
<1>3. /\ turns(fixed)[0 + Len(fixed)] = Outside(0)
      /\ \A j \in 2 .. Len(fixed) - 1 : turns(fixed)[0 + j].inSingleQuote
  <2>1. 0 \in Nat /\ 0 \in Int /\ 0 + Len(fixed) <= Len(fixed)
    BY <1>1
  <2>2. \A j \in 1 .. Len(fixed) : fixed[0 + j] = fixed[j]
    BY <1>1
  <2>3. fixed = Fixed(value)
    BY DEF fixed
  <2> QED BY <1>1, <1>2, <2>1, <2>2, <2>3, FixedTurns
<1>4. turns(fixed)[Len(fixed)] = Outside(0)
  <2>1. 0 + Len(fixed) = Len(fixed)
    BY <1>1
  <2> QED BY <1>3, <2>1
<1>5. \A j \in 2 .. Len(fixed) - 1 : turns(fixed)[j].inSingleQuote
  <2>1. \A j \in 2 .. Len(fixed) - 1 : 0 + j = j
    BY <1>1
  <2> QED BY <1>3, <2>1
<1>6. scanWhereClauseTokens(fixed) = Fresh
  BY <1>4 DEF scanWhereClauseTokens, Fresh, Outside
<1> QED BY <1>5, <1>6, ValueReadBack DEF ValueKept, fixed

(* The scanner of a clause inside one more pair of parentheses: it is in the *)
(* state of the clause's own scanner, at one more level.                     *)
Ahead(u, s) ==
    /\ ~s.failed /\ ~u.failed
    /\ (u.escaped <=> s.escaped) /\ (u.inSingleQuote <=> s.inSingleQuote)
    /\ s.parens >= 0 /\ u.parens = s.parens + 1

LEMMA AheadTurn ==
    ASSUME NEW s \in Scan, NEW u \in Scan, Ahead(u, s), NEW ch, ~Scanned(s, ch).failed
    PROVE  Ahead(Scanned(u, ch), Scanned(s, ch))
<1> DEFINE s1 == Scanned(s, ch)
           u1 == Scanned(u, ch)
<1>1. /\ s1 \in Scan
      /\ ~s.failed =>
            /\ s1.escaped <=> ~s.escaped /\ ch = Back
            /\ s1.inSingleQuote <=> (s.inSingleQuote <=> (s.escaped \/ ch # Quote))
            /\ s.escaped \/ s.inSingleQuote \/ ch \notin {Open, Close} => s1.parens = s.parens
      /\ ~s.failed /\ ~s.escaped /\ ~s.inSingleQuote =>
            /\ ch = Open => s1.parens = s.parens + 1
            /\ ch = Close => s1.parens = s.parens - 1 /\ (s1.failed <=> s.parens = 0)
  BY ScannedFields
<1>2. /\ u1 \in Scan
      /\ ~u.failed /\ (u.escaped \/ ch # Close \/ u.inSingleQuote) => ~u1.failed
      /\ ~u.failed =>
            /\ u1.escaped <=> ~u.escaped /\ ch = Back
            /\ u1.inSingleQuote <=> (u.inSingleQuote <=> (u.escaped \/ ch # Quote))
            /\ u.escaped \/ u.inSingleQuote \/ ch \notin {Open, Close} => u1.parens = u.parens
      /\ ~u.failed /\ ~u.escaped /\ ~u.inSingleQuote =>
            /\ ch = Open => u1.parens = u.parens + 1
            /\ ch = Close => u1.parens = u.parens - 1 /\ (u1.failed <=> u.parens = 0)
  BY ScannedFields
<1>3. s.parens \in Int /\ u.parens \in Int /\ ~s1.failed
  BY DEF Scan
<1> HIDE DEF s1, u1
<1>4. (u1.escaped <=> s1.escaped) /\ (u1.inSingleQuote <=> s1.inSingleQuote)
  BY <1>1, <1>2 DEF Ahead
<1>5. ~u1.failed /\ s1.parens >= 0 /\ u1.parens = s1.parens + 1
  <2>1. CASE s.escaped \/ s.inSingleQuote \/ ch \notin {Open, Close}
    <3>1. s1.parens = s.parens /\ u1.parens = u.parens
      BY <1>1, <1>2, <2>1 DEF Ahead
    <3>2. ~u1.failed
      BY <1>2, <2>1 DEF Ahead
    <3> QED BY <1>3, <3>1, <3>2 DEF Ahead
  <2>2. CASE ~s.escaped /\ ~s.inSingleQuote /\ ch = Open
    <3>1. s1.parens = s.parens + 1 /\ u1.parens = u.parens + 1
      BY <1>1, <1>2, <2>2 DEF Ahead
    <3>2. ~u1.failed
      BY <1>2, <2>2 DEF Ahead, Open, Close
    <3> QED BY <1>3, <3>1, <3>2 DEF Ahead
  <2>3. CASE ~s.escaped /\ ~s.inSingleQuote /\ ch = Close
    <3>1. s1.parens = s.parens - 1 /\ s.parens # 0
      BY <1>1, <1>3, <2>3 DEF Ahead
    <3>2. u1.parens = u.parens - 1 /\ (u1.failed <=> u.parens = 0)
      BY <1>2, <2>3 DEF Ahead
    <3>3. s.parens >= 0 /\ u.parens = s.parens + 1
      BY DEF Ahead
    <3>4. s1.parens >= 0 /\ u1.parens = s1.parens + 1 /\ u.parens # 0
      BY <1>3, <3>1, <3>2, <3>3
    <3> QED BY <3>2, <3>4
  <2> QED BY <2>1, <2>2, <2>3
<1>6. Ahead(u1, s1)
  BY <1>3, <1>4, <1>5 DEF Ahead
<1> QED BY <1>6 DEF s1, u1

(* A clause that is accepted is never found to close a parenthesis too many. *)
LEMMA NeverFailed ==
    ASSUME NEW user \in Seq(Char), ~turns(user)[Len(user)].failed
    PROVE  \A k \in 0 .. Len(user) : ~turns(user)[k].failed
<1> DEFINE t == turns(user)
           n == Len(user)
<1> SUFFICES ASSUME NEW k \in 0 .. n, t[k].failed PROVE FALSE
  OBVIOUS
<1>1. /\ t \in [0 .. n -> Scan] /\ n \in Nat
      /\ \A j \in 1 .. n : t[j] = Scanned(t[j - 1], user[j])
  BY TurnsAreARun
<1>2. ~t[n].failed
  OBVIOUS
<1> HIDE DEF t, n
<1> DEFINE S == {m \in 0 .. n : m >= k => t[m].failed}
<1>3. 0 \in S
  <2>1. 0 >= k => k = 0
    BY <1>1
  <2> QED BY <1>1, <2>1
<1>4. ASSUME NEW m \in 0 .. n - 1, m \in S PROVE m + 1 \in S
  <2>1. m + 1 \in 1 .. n /\ m + 1 \in 0 .. n /\ (m + 1) - 1 = m /\ m \in 0 .. n
    BY <1>1
  <2>2. CASE m >= k
    <3>1. t[m].failed
      BY <1>4, <2>2
    <3>2. t[m + 1] = Scanned(t[m], user[m + 1]) /\ t[m] \in Scan
      BY <1>1, <2>1
    <3>3. t[m + 1].failed
      BY <3>1, <3>2, ScannedFields
    <3> QED BY <2>1, <3>3
  <2>3. CASE m + 1 = k
    BY <2>1, <2>3
  <2>4. CASE m + 1 < k
    BY <2>1, <2>4
  <2> QED BY <1>1, <2>2, <2>3, <2>4
<1>5. \A m \in 0 .. n : m \in S
  <2> HIDE DEF S
  <2> QED BY <1>1, <1>3, <1>4, EveryUpTo
<1>6. n \in S /\ n >= k
  <2> HIDE DEF S
  <2> QED BY <1>1, <1>5
<1> QED BY <1>2, <1>6

(* A caller's clause, from o on in a clause, inside one pair of parentheses. *)
LEMMA NestedTurns ==
    ASSUME NEW user \in Seq(Char), ~turns(user)[Len(user)].failed,
           NEW where \in Seq(Char), NEW o \in Nat, o + Len(user) <= Len(where),
           \A j \in 1 .. Len(user) : where[o + j] = user[j],
           turns(where)[o] = Outside(1)
    PROVE  \A k \in 0 .. Len(user) : Ahead(turns(where)[o + k], turns(user)[k])
<1> DEFINE t == turns(user)
           w == turns(where)
           n == Len(user)
           S == {k \in 0 .. n : Ahead(w[o + k], t[k])}
<1>1. /\ t \in [0 .. n -> Scan] /\ n \in Nat /\ t[0] = Fresh
      /\ \A j \in 1 .. n : t[j] = Scanned(t[j - 1], user[j])
  BY TurnsAreARun
<1>2. /\ w \in [0 .. Len(where) -> Scan] /\ Len(where) \in Nat
      /\ \A j \in 1 .. Len(where) : w[j] = Scanned(w[j - 1], where[j])
  BY TurnsAreARun
<1>3. \A k \in 0 .. n : ~t[k].failed
  BY NeverFailed
<1>4. w[o] = Outside(1) /\ o + n <= Len(where) /\ \A j \in 1 .. n : where[o + j] = user[j]
  OBVIOUS
<1> HIDE DEF t, w, n
<1>5. 0 \in S
  <2>1. o + 0 = o /\ 0 \in 0 .. n
    BY <1>1
  <2>2. Fresh = Outside(0) /\ 0 \in Int /\ 1 \in Int
    BY DEF Fresh, Outside
  <2>3. ~t[0].escaped /\ ~t[0].inSingleQuote /\ t[0].parens = 0 /\ ~t[0].failed
    BY <1>1, <2>2, OutsideFields
  <2>4. ~w[o].escaped /\ ~w[o].inSingleQuote /\ w[o].parens = 1 /\ ~w[o].failed
    BY <1>4, <2>2, OutsideFields
  <2> QED BY <2>1, <2>3, <2>4 DEF Ahead
<1>6. ASSUME NEW k \in 0 .. n - 1, k \in S PROVE k + 1 \in S
  <2>1. /\ k + 1 \in 1 .. n /\ k + 1 \in 0 .. n /\ (k + 1) - 1 = k /\ k \in 0 .. n
        /\ o + (k + 1) \in 1 .. Len(where) /\ (o + (k + 1)) - 1 = o + k /\ o + k \in 0 .. Len(where)
    BY <1>1, <1>2, <1>4
  <2>2. t[k + 1] = Scanned(t[k], user[k + 1]) /\ t[k] \in Scan
    BY <1>1, <2>1
  <2>3. w[o + (k + 1)] = Scanned(w[o + k], user[k + 1]) /\ w[o + k] \in Scan
    BY <1>2, <1>4, <2>1
  <2>4. ~t[k + 1].failed
    BY <1>3, <2>1
  <2>5. Ahead(w[o + k], t[k])
    BY <1>6
  <2>6. Ahead(w[o + (k + 1)], t[k + 1])
    BY <2>2, <2>3, <2>4, <2>5, AheadTurn
  <2> QED BY <2>1, <2>6
<1>7. \A k \in 0 .. n : k \in S
  <2> HIDE DEF S
  <2> QED BY <1>1, <1>5, <1>6, EveryUpTo
<1>8. \A k \in 0 .. n : Ahead(w[o + k], t[k])
  BY <1>7
<1> QED BY <1>8 DEF t, w, n

LEMMA Joined ==
    ASSUME NEW a \in Seq(Char), NEW b \in Seq(Char)
    PROVE  /\ a \o b \in Seq(Char) /\ Len(a \o b) = Len(a) + Len(b)
           /\ \A j \in 1 .. Len(a) : (a \o b)[j] = a[j]
           /\ \A j \in 1 .. Len(b) : (a \o b)[Len(a) + j] = b[j]
OBVIOUS

(* Where the parts of a combined clause are.                                 *)
LEMMA CombinedParts ==
    ASSUME NEW fixed \in Seq(Char), NEW user \in Seq(Char), fixed # <<>>, user # <<>>
    PROVE  LET whole == CombineWhereClause(fixed, user)
               n == Len(fixed)
               m == Len(user)
           IN  /\ whole \in Seq(Char) /\ Len(whole) = n + m + 5
               /\ whole[1] = Open /\ whole[n + 2] = Close /\ whole[n + 3] = Plain
               /\ whole[n + 4] = Open /\ whole[n + m + 5] = Close
               /\ \A j \in 1 .. n : whole[1 + j] = fixed[j]
               /\ \A j \in 1 .. m : whole[(n + 4) + j] = user[j]
<1> DEFINE whole == CombineWhereClause(fixed, user)
           n == Len(fixed)
           m == Len(user)
           first == <<Open>> \o fixed
           middle == <<Close, Plain, Open>>
           second == first \o middle
           third == second \o user
<1>1. whole = third \o <<Close>>
  <2>1. fixed # <<>> /\ user # <<>>
    OBVIOUS
  <2> QED BY <2>1 DEF CombineWhereClause
<1>2. /\ <<Open>> \in Seq(Char) /\ middle \in Seq(Char) /\ <<Close>> \in Seq(Char)
      /\ n \in Nat /\ m \in Nat
  BY DEF Char
<1>3. /\ first \in Seq(Char) /\ Len(first) = n + 1 /\ first[1] = Open
      /\ \A j \in 1 .. n : first[1 + j] = fixed[j]
  <2>1. Len(<<Open>>) = 1
    OBVIOUS
  <2> QED BY <1>2, <2>1
<1> HIDE DEF first
<1>4. /\ second \in Seq(Char) /\ Len(second) = n + 4
      /\ \A j \in 1 .. n + 1 : second[j] = first[j]
      /\ second[n + 2] = Close /\ second[n + 3] = Plain /\ second[n + 4] = Open
  <2>1. Len(middle) = 3 /\ middle[1] = Close /\ middle[2] = Plain /\ middle[3] = Open
    OBVIOUS
  <2>2. second = first \o middle
    OBVIOUS
  <2>3. first \in Seq(Char) /\ middle \in Seq(Char)
    BY <1>2, <1>3
  <2> HIDE DEF middle, second
  <2>4. /\ second \in Seq(Char) /\ Len(second) = Len(first) + Len(middle)
        /\ \A j \in 1 .. Len(first) : second[j] = first[j]
        /\ \A j \in 1 .. Len(middle) : second[Len(first) + j] = middle[j]
    BY <2>2, <2>3, Joined
  <2>5. /\ 1 \in 1 .. 3 /\ 2 \in 1 .. 3 /\ 3 \in 1 .. 3
        /\ (n + 1) + 1 = n + 2 /\ (n + 1) + 2 = n + 3 /\ (n + 1) + 3 = n + 4
    BY <1>2
  <2>6. second[n + 2] = Close /\ second[n + 3] = Plain /\ second[n + 4] = Open
    BY <1>3, <2>1, <2>4, <2>5
  <2> QED BY <1>3, <2>1, <2>4, <2>5, <2>6
<1>5. /\ third \in Seq(Char) /\ Len(third) = (n + 4) + m
      /\ \A j \in 1 .. n + 4 : third[j] = second[j]
      /\ \A j \in 1 .. m : third[(n + 4) + j] = user[j]
  <2>1. third = second \o user
    OBVIOUS
  <2>2. second \in Seq(Char)
    BY <1>4
  <2> HIDE DEF second, middle, third
  <2>3. /\ third \in Seq(Char) /\ Len(third) = Len(second) + Len(user)
        /\ \A j \in 1 .. Len(second) : third[j] = second[j]
        /\ \A j \in 1 .. Len(user) : third[Len(second) + j] = user[j]
    BY <2>1, <2>2, Joined
  <2> QED BY <1>4, <2>3
<1> HIDE DEF second, middle, third, whole
<1>6. /\ whole \in Seq(Char) /\ Len(whole) = ((n + 4) + m) + 1
      /\ \A j \in 1 .. (n + 4) + m : whole[j] = third[j]
      /\ whole[((n + 4) + m) + 1] = Close
  <2> DEFINE last == <<Close>>
  <2>1. Len(last) = 1 /\ last[1] = Close
    OBVIOUS
  <2>2. whole = third \o last
    BY <1>1
  <2>3. third \in Seq(Char) /\ last \in Seq(Char)
    BY <1>2, <1>5
  <2> HIDE DEF last
  <2>4. /\ whole \in Seq(Char) /\ Len(whole) = Len(third) + Len(last)
        /\ \A j \in 1 .. Len(third) : whole[j] = third[j]
        /\ \A j \in 1 .. Len(last) : whole[Len(third) + j] = last[j]
    BY <2>2, <2>3, Joined
  <2> QED BY <1>5, <2>1, <2>4
<1>7. ((n + 4) + m) + 1 = n + m + 5
  BY <1>2
<1>8. \A j \in 1 .. n + 4 : whole[j] = second[j]
  <2>1. \A j \in 1 .. n + 4 : j \in 1 .. (n + 4) + m
    BY <1>2
  <2> QED BY <1>5, <1>6, <2>1
<1>9. \A j \in 1 .. n + 1 : whole[j] = first[j]
  <2>1. \A j \in 1 .. n + 1 : j \in 1 .. n + 4
    BY <1>2
  <2> QED BY <1>4, <1>8, <2>1
<1>10. whole[1] = Open /\ \A j \in 1 .. n : whole[1 + j] = fixed[j]
  <2>1. 1 \in 1 .. n + 1 /\ \A j \in 1 .. n : 1 + j \in 1 .. n + 1
    BY <1>2
  <2> QED BY <1>3, <1>9, <2>1
<1>11. whole[n + 2] = Close /\ whole[n + 3] = Plain /\ whole[n + 4] = Open
  <2>1. n + 2 \in 1 .. n + 4 /\ n + 3 \in 1 .. n + 4 /\ n + 4 \in 1 .. n + 4
    BY <1>2
  <2> QED BY <1>4, <1>8, <2>1
<1>12. \A j \in 1 .. m : whole[(n + 4) + j] = user[j]
  <2>1. \A j \in 1 .. m : (n + 4) + j \in 1 .. (n + 4) + m
    BY <1>2
  <2> QED BY <1>5, <1>6, <2>1
<1> QED BY <1>6, <1>7, <1>10, <1>11, <1>12 DEF whole

LEMMA EveryUserClauseNested ==
    ASSUME NEW value \in Seq(Char), NEW user \in Seq(Char)
    PROVE  UserClauseNested(value, user)
<1> DEFINE fixed == Fixed(value)
           whole == CombineWhereClause(fixed, user)
           t == turns(whole)
           n == Len(fixed)
           m == Len(user)
<1> SUFFICES ASSUME user # <<>>, ValidateWhereClause(user), ~scanWhereClauseTokens(user).escaped
             PROVE  /\ ValidateWhereClause(whole) \/ \E k \in DOMAIN value : value[k] = Null
                    /\ \A k \in n + 4 .. (n + 4) + m : t[k].parens > 0
  BY DEF UserClauseNested
<1>1. /\ fixed \in Seq(Char) /\ fixed # <<>> /\ n \in Nat /\ m \in Nat
      /\ \A j \in 1 .. n : fixed[j] = Null => \E k \in DOMAIN value : value[k] = Null
  BY FixedType
<1> HIDE DEF fixed
<1>3. /\ whole \in Seq(Char) /\ Len(whole) = n + m + 5
      /\ whole[1] = Open /\ whole[n + 2] = Close /\ whole[n + 3] = Plain
      /\ whole[n + 4] = Open /\ whole[n + m + 5] = Close
      /\ \A j \in 1 .. n : whole[1 + j] = fixed[j]
      /\ \A j \in 1 .. m : whole[(n + 4) + j] = user[j]
  <2>2. fixed \in Seq(Char) /\ fixed # <<>>
    BY <1>1
  <2>3. user \in Seq(Char) /\ user # <<>>
    OBVIOUS
  <2> QED BY <2>2, <2>3, CombinedParts, Zenon
<1> HIDE DEF whole
<1>4. \A k \in 1 .. Len(whole) : t[k] = Scanned(t[k - 1], whole[k])
  BY <1>3, TurnsAreARun
<1>5. t[0] = Outside(0)
  BY <1>3, TurnsAreARun DEF Fresh, Outside
<1>6. /\ \A k \in 1 .. Len(user) : user[k] # Null
      /\ ~turns(user)[m].failed /\ ~turns(user)[m].inSingleQuote /\ turns(user)[m].parens = 0
      /\ ~turns(user)[m].escaped
  <2>1. /\ \A k \in DOMAIN user : user[k] # Null
        /\ ~scanWhereClauseTokens(user).failed /\ ~scanWhereClauseTokens(user).inSingleQuote
        /\ scanWhereClauseTokens(user).parens = 0
    BY DEF ValidateWhereClause
  <2>2. DOMAIN user = 1 .. Len(user)
    OBVIOUS
  <2> QED BY <2>1, <2>2 DEF scanWhereClauseTokens
<1>7. turns(user)[m] \in Scan
  <2>1. m \in 0 .. m
    BY <1>1
  <2> QED BY <2>1, TurnsAreARun
<1> HIDE DEF t, n, m
<1>8. /\ 1 \in 1 .. Len(whole) /\ 1 - 1 = 0
      /\ n + 2 \in 1 .. Len(whole) /\ (n + 2) - 1 = 1 + n
      /\ n + 3 \in 1 .. Len(whole) /\ (n + 3) - 1 = n + 2
      /\ n + 4 \in 1 .. Len(whole) /\ (n + 4) - 1 = n + 3
      /\ n + m + 5 \in 1 .. Len(whole) /\ (n + m + 5) - 1 = (n + 4) + m
      /\ 1 + n <= Len(whole) /\ (n + 4) + m <= Len(whole) /\ n + 4 \in Nat /\ n + m + 5 = Len(whole)
  <2>1. n \in Nat /\ m \in Nat /\ Len(whole) = n + m + 5
    BY <1>1, <1>3
  <2>2. 1 \in 1 .. Len(whole) /\ n + 2 \in 1 .. Len(whole) /\ n + 3 \in 1 .. Len(whole)
    BY <2>1
  <2>3. n + 4 \in 1 .. Len(whole) /\ n + m + 5 \in 1 .. Len(whole)
    BY <2>1
  <2>4. /\ (n + 2) - 1 = 1 + n /\ (n + 3) - 1 = n + 2 /\ (n + 4) - 1 = n + 3
        /\ (n + m + 5) - 1 = (n + 4) + m
    BY <2>1
  <2>5. 1 + n <= Len(whole) /\ (n + 4) + m <= Len(whole) /\ n + 4 \in Nat
    BY <2>1
  <2> QED BY <2>1, <2>2, <2>3, <2>4, <2>5
<1>9. 0 \in Int /\ 1 \in Int /\ 1 \in Nat /\ 0 + 1 = 1 /\ 1 - 1 = 0 /\ 1 # 0
  OBVIOUS
<1>10. t[1] = Outside(1)
  <2>1. t[1] = Scanned(Outside(0), Open)
    BY <1>3, <1>4, <1>5, <1>8
  <2>2. Scanned(Outside(0), Open) = Outside(0 + 1)
    BY <1>9, InsideTurns, Zenon
  <2> QED BY <1>9, <2>1, <2>2
<1>11. t[1 + n] = Outside(1)
  <2>1. turns(whole)[1] = Outside(1)
    BY <1>10 DEF t
  <2>2. 1 + Len(fixed) <= Len(whole)
    BY <1>8 DEF n
  <2>3. \A j \in 1 .. Len(fixed) : whole[1 + j] = fixed[j]
    BY <1>3 DEF n
  <2>4. /\ turns(whole)[1 + Len(fixed)] = Outside(1)
        /\ \A j \in 2 .. Len(fixed) - 1 : turns(whole)[1 + j].inSingleQuote
    <3>1. whole \in Seq(Char) /\ 1 \in Nat /\ 1 \in Int
      BY <1>3
    <3> QED BY <2>1, <2>2, <2>3, <3>1, FixedTurns, Zenon DEF fixed
  <2> QED BY <2>4 DEF t, n
<1>12. t[n + 2] = Outside(0)
  <2>1. t[n + 2] = Scanned(Outside(1), Close)
    BY <1>3, <1>4, <1>8, <1>11
  <2>2. Scanned(Outside(1), Close) = Outside(1 - 1)
    BY <1>9, InsideTurns, Zenon
  <2> QED BY <1>9, <2>1, <2>2
<1>13. t[n + 3] = Outside(0)
  <2>1. t[n + 3] = Scanned(Outside(0), Plain)
    BY <1>3, <1>4, <1>8, <1>12
  <2> QED BY <1>9, <2>1, InsideTurns, Zenon
<1>14. t[n + 4] = Outside(1)
  <2>1. t[n + 4] = Scanned(Outside(0), Open)
    BY <1>3, <1>4, <1>8, <1>13
  <2>2. Scanned(Outside(0), Open) = Outside(0 + 1)
    BY <1>9, InsideTurns, Zenon
  <2> QED BY <1>9, <2>1, <2>2
<1>15. \A k \in 0 .. m : Ahead(t[(n + 4) + k], turns(user)[k])
  <2> DEFINE o == n + 4
  <2>1. o \in Nat /\ o + Len(user) <= Len(whole)
    BY <1>8 DEF m
  <2>2. \A j \in 1 .. Len(user) : whole[o + j] = user[j]
    BY <1>3 DEF m
  <2>3. turns(whole)[o] = Outside(1)
    BY <1>14 DEF t
  <2>4. ~turns(user)[Len(user)].failed
    BY <1>6 DEF m
  <2>5. \A k \in 0 .. Len(user) : Ahead(turns(whole)[o + k], turns(user)[k])
    <3> HIDE DEF o
    <3> QED BY <1>3, <2>1, <2>2, <2>3, <2>4, NestedTurns
  <2> QED BY <2>5 DEF t, m
<1>16. \A k \in n + 4 .. (n + 4) + m : t[k].parens > 0
  <2> SUFFICES ASSUME NEW k \in n + 4 .. (n + 4) + m PROVE t[k].parens > 0
    OBVIOUS
  <2>1. k - (n + 4) \in 0 .. m /\ (n + 4) + (k - (n + 4)) = k
    BY <1>1
  <2>2. Ahead(t[k], turns(user)[k - (n + 4)])
    BY <1>15, <2>1
  <2>3. turns(user)[k - (n + 4)].parens \in Int
    <3>1. turns(user)[k - (n + 4)] \in Scan
      BY <2>1, TurnsAreARun DEF m
    <3> QED BY <3>1 DEF Scan
  <2> QED BY <2>2, <2>3 DEF Ahead
<1>17. t[(n + 4) + m] = Outside(1)
  <2> DEFINE u == t[(n + 4) + m]
             v == Outside(1)
  <2>1. Ahead(u, turns(user)[m])
    BY <1>1, <1>15
  <2>2. u \in Scan
    <3>1. (n + 4) + m \in 0 .. Len(whole)
      BY <1>1, <1>8
    <3> QED BY <1>3, <3>1, TurnsAreARun DEF t
  <2> HIDE DEF u
  <2>3. ~u.escaped /\ ~u.inSingleQuote /\ u.parens = 1 /\ ~u.failed
    BY <1>6, <2>1 DEF Ahead
  <2> HIDE DEF v
  <2>4. v \in Scan /\ ~v.escaped /\ ~v.inSingleQuote /\ v.parens = 1 /\ ~v.failed
    BY <1>9, OutsideFields DEF v
  <2>5. u = v
    BY <2>2, <2>3, <2>4, SameState
  <2> QED BY <2>5 DEF u, v
<1>18. t[Len(whole)] = Outside(0)
  <2>1. t[n + m + 5] = Scanned(Outside(1), Close)
    BY <1>3, <1>4, <1>8, <1>17
  <2>2. Scanned(Outside(1), Close) = Outside(1 - 1)
    BY <1>9, InsideTurns, Zenon
  <2> QED BY <1>8, <1>9, <2>1, <2>2
<1>19. ASSUME NEW k \in DOMAIN whole, whole[k] = Null PROVE \E i \in DOMAIN value : value[i] = Null
  <2>1. k \in Int /\ 1 <= k /\ k <= n + m + 5 /\ Null \notin {Open, Close, Plain}
    BY <1>3 DEF Null, Open, Close, Plain
  <2>2. \/ k \in {1, n + 2, n + 3, n + 4, n + m + 5}
        \/ k - 1 \in 1 .. n /\ k = 1 + (k - 1)
        \/ k - (n + 4) \in 1 .. m /\ k = (n + 4) + (k - (n + 4))
    <3>0. n \in Nat /\ m \in Nat /\ k \in Int /\ 1 <= k /\ k <= n + m + 5
      BY <1>1, <2>1
    <3>1. k = 1 \/ (2 <= k /\ k <= n + 1) \/ k = n + 2 \/ k = n + 3 \/ k = n + 4
            \/ (n + 5 <= k /\ k <= n + 4 + m) \/ k = n + m + 5
      BY <3>0
    <3>2. 2 <= k /\ k <= n + 1 => k - 1 \in 1 .. n /\ k = 1 + (k - 1)
      BY <1>1, <2>1
    <3>3. n + 5 <= k /\ k <= n + 4 + m => k - (n + 4) \in 1 .. m /\ k = (n + 4) + (k - (n + 4))
      BY <1>1, <2>1
    <3> QED BY <3>1, <3>2, <3>3
  <2>3. CASE k \in {1, n + 2, n + 3, n + 4, n + m + 5}
    BY <1>3, <1>19, <2>1, <2>3
  <2>4. CASE k - 1 \in 1 .. n /\ k = 1 + (k - 1)
    <3>1. fixed[k - 1] = Null
      BY <1>3, <1>19, <2>4
    <3> QED BY <1>1, <2>4, <3>1
  <2>5. CASE k - (n + 4) \in 1 .. m /\ k = (n + 4) + (k - (n + 4))
    <3>1. user[k - (n + 4)] = Null
      BY <1>3, <1>19, <2>5
    <3> QED BY <1>6, <2>5, <3>1 DEF m
  <2> QED BY <2>2, <2>3, <2>4, <2>5
<1>20. ASSUME ~\E i \in DOMAIN value : value[i] = Null PROVE ValidateWhereClause(whole)
  <2>1. \A k \in DOMAIN whole : whole[k] # Null
    BY <1>19, <1>20
  <2>2. scanWhereClauseTokens(whole) = Outside(0)
    BY <1>18 DEF scanWhereClauseTokens, t
  <2>3. ~Outside(0).failed /\ ~Outside(0).inSingleQuote /\ Outside(0).parens = 0
    BY <1>9, OutsideFields
  <2> QED BY <2>1, <2>2, <2>3 DEF ValidateWhereClause
<1> QED BY <1>16, <1>20

LEMMA WhereInputs ==
    ASSUME Init, For("where")
    PROVE  input.value \in Seq(Char) /\ input.user \in Seq(Char)
<1>1. Filtered
  BY DEF Init, For, Guarded, Extents, Retried, Resolved, Started
<1>2. PICK value \in Strings(MaxValue), user \in Strings(MaxClause) :
         input = [kind |-> "where", value |-> value, user |-> user]
  BY <1>1 DEF Filtered
<1>3. value \in Seq(Char) /\ user \in Seq(Char)
  BY DEF Strings
<1> QED BY <1>2, <1>3

(* A filter's value is read back as it was given, however long it is.        *)
THEOREM EveryFilterKept == Spec => []ValuesKept
<1>1. Init => ValuesKept
  BY WhereInputs, EveryValueKept DEF ValuesKept
<1>2. ValuesKept /\ [Next]_input => ValuesKept'
  BY DEF Next, ValuesKept, For
<1> QED BY <1>1, <1>2, PTL DEF Spec

(* A caller's clause that leaves no escape open only narrows what the tool's *)
(* filter selects, however long the two are.                                 *)
THEOREM EveryClauseNested == Spec => []ClausesNested
<1>1. Init => ClausesNested
  BY WhereInputs, EveryUserClauseNested DEF ClausesNested
<1>2. ClausesNested /\ [Next]_input => ClausesNested'
  BY DEF Next, ClausesNested, For
<1> QED BY <1>1, <1>2, PTL DEF Spec

-----------------------------------------------------------------------------
(* Starting up. *)

LEMMA ParsedAsSet ==
    ASSUME NEW text, NEW default, NEW accepted, NEW used \in Parsed(text, default, accepted)
    PROVE  /\ Uses(text, used)
           /\ \/ used = default
              \/ text.set /\ text.parses /\ used = text.value /\ used \in accepted
<1>1. CASE text.set
  <2>1. used \in IF text.parses /\ text.value \in accepted THEN {text.value} ELSE {}
    BY <1>1 DEF Parsed
  <2> QED BY <1>1, <2>1 DEF Uses
<1>2. CASE ~text.set
  BY <1>2 DEF Parsed, Uses
<1> QED BY <1>1, <1>2

LEMMA SecretAsSet ==
    ASSUME NEW s \in Secret, NEW x \in readSecret(s)
    PROVE  x = IF s.file = "unnamed" THEN s.env ELSE "from file"
  BY DEF Secret, SecretFile, readSecret

LEMMA Loaded ==
    ASSUME NEW env \in Env, NEW cfg \in LoadConfig(env)
    PROVE  /\ cfg.TokenID \in readSecret(env.TokenID)
           /\ cfg.TokenSecret \in readSecret(env.TokenSecret)
           /\ cfg.Transport \in parseTransport(env.Transport)
           /\ cfg.ReadOnly \in Parsed(env.ReadOnly, FALSE, BOOLEAN)
           /\ cfg.resilience.MaxRetries \in Parsed(env.MaxRetries, defaultMaxRetries, Nat)
           /\ cfg.resilience.RateLimit \in Parsed(env.RateLimit, 0, Nat)
           /\ cfg.resilience.HTTPTimeout \in Parsed(env.HTTPTimeout, 1, Nat \ {0})
           /\ cfg.HTTPPort \in Parsed(env.HTTPPort, defaultHTTPPort, 1 .. maxPort)
           /\ cfg.SocketPath \in parseSocket(env)
<1>1. cfg.resilience \in parseResilience(env)
  BY DEF LoadConfig
<1>2. env.Host
  BY DEF LoadConfig
<1>3. cfg.Transport \in parseTransport(env.Transport)
  BY <1>2 DEF LoadConfig
<1> QED BY <1>1, <1>3 DEF LoadConfig, parseResilience, parseBools, parseHTTPPort

LEMMA EveryStartAsSet ==
    ASSUME NEW env \in Env
    PROVE  RunsAsSet(env)
<1> SUFFICES ASSUME NEW cfg \in LoadConfig(env)
             PROVE  /\ \A s \in {"TokenID", "TokenSecret"} :
                          cfg[s] = IF env[s].file = "unnamed" THEN env[s].env ELSE "from file"
                    /\ Uses(env.ReadOnly, cfg.ReadOnly)
                    /\ Uses(env.MaxRetries, cfg.resilience.MaxRetries)
                    /\ Uses(env.RateLimit, cfg.resilience.RateLimit)
                    /\ Uses(env.HTTPTimeout, cfg.resilience.HTTPTimeout)
                    /\ Uses(env.HTTPPort, cfg.HTTPPort)
                    /\ cfg.Transport = "unix" => cfg.SocketPath.absolute /\ cfg.SocketPath.short
  BY DEF RunsAsSet
<1>1. \A s \in {"TokenID", "TokenSecret"} :
         cfg[s] = IF env[s].file = "unnamed" THEN env[s].env ELSE "from file"
  <2>1. env.TokenID \in Secret /\ env.TokenSecret \in Secret
    BY DEF Env
  <2>2. cfg.TokenID = IF env.TokenID.file = "unnamed" THEN env.TokenID.env ELSE "from file"
    BY <2>1, Loaded, SecretAsSet
  <2>3. cfg.TokenSecret =
           IF env.TokenSecret.file = "unnamed" THEN env.TokenSecret.env ELSE "from file"
    BY <2>1, Loaded, SecretAsSet
  <2> QED BY <2>2, <2>3
<1>2. ASSUME cfg.Transport = "unix" PROVE cfg.SocketPath.absolute /\ cfg.SocketPath.short
  <2>1. env.Transport = "unix"
    BY <1>2, Loaded DEF parseTransport, Env
  <2> QED BY <2>1, Loaded DEF parseSocket
<1>3. /\ Uses(env.ReadOnly, cfg.ReadOnly)
      /\ Uses(env.MaxRetries, cfg.resilience.MaxRetries)
      /\ Uses(env.RateLimit, cfg.resilience.RateLimit)
      /\ Uses(env.HTTPTimeout, cfg.resilience.HTTPTimeout)
      /\ Uses(env.HTTPPort, cfg.HTTPPort)
  <2>1. /\ cfg.ReadOnly \in Parsed(env.ReadOnly, FALSE, BOOLEAN)
        /\ cfg.resilience.MaxRetries \in Parsed(env.MaxRetries, defaultMaxRetries, Nat)
        /\ cfg.resilience.RateLimit \in Parsed(env.RateLimit, 0, Nat)
        /\ cfg.resilience.HTTPTimeout \in Parsed(env.HTTPTimeout, 1, Nat \ {0})
        /\ cfg.HTTPPort \in Parsed(env.HTTPPort, defaultHTTPPort, 1 .. maxPort)
    BY Loaded
  <2>2. Uses(env.ReadOnly, cfg.ReadOnly)
    <3>1. cfg.ReadOnly \in Parsed(env.ReadOnly, FALSE, BOOLEAN)
      BY <2>1
    <3> QED BY <3>1, Zenon DEF Parsed, Uses
  <2>3. /\ Uses(env.MaxRetries, cfg.resilience.MaxRetries)
        /\ Uses(env.RateLimit, cfg.resilience.RateLimit)
    <3>1. Uses(env.MaxRetries, cfg.resilience.MaxRetries)
      BY <2>1, ParsedAsSet
    <3>2. Uses(env.RateLimit, cfg.resilience.RateLimit)
      BY <2>1, ParsedAsSet
    <3> QED BY <3>1, <3>2
  <2>4. Uses(env.HTTPTimeout, cfg.resilience.HTTPTimeout)
    BY <2>1, ParsedAsSet
  <2>5. Uses(env.HTTPPort, cfg.HTTPPort)
    BY <2>1, ParsedAsSet
  <2> QED BY <2>2, <2>3, <2>4, <2>5
<1> QED BY <1>1, <1>2, <1>3

(* An int that is not too large does not wrap around, and the one after the  *)
(* largest is the smallest.                                                  *)
LEMMA IntsWrap ==
    /\ \A i \in -MaxInt - 1 .. MaxInt : Wrapped(i) = i
    /\ Wrapped(MaxInt + 1) = -MaxInt - 1
    /\ MaxInt \in Nat
<1>1. MaxInt \in Nat
  BY StartupAssumption
<1> DEFINE n == 2 * (MaxInt + 1)
<1>2. n \in Nat \ {0}
  BY <1>1
<1>3. ASSUME NEW i \in -MaxInt - 1 .. MaxInt PROVE Wrapped(i) = i
  <2>1. i + MaxInt + 1 \in 0 .. n - 1
    BY <1>1
  <2> HIDE DEF n
  <2>2. (i + MaxInt + 1) % n = i + MaxInt + 1
    BY <1>2, <2>1, SmallModulo
  <2> QED BY <1>1, <2>2 DEF Wrapped, n
<1>4. Wrapped(MaxInt + 1) = -MaxInt - 1
  <2>1. MaxInt + 1 + MaxInt + 1 = n
    BY <1>1
  <2> HIDE DEF n
  <2>2. n % n = 0
    BY <1>2
  <2> QED BY <1>1, <2>1, <2>2 DEF Wrapped, n
<1> QED BY <1>1, <1>3, <1>4

LEMMA RetriesAccepted ==
    ASSUME NEW env \in Env, NEW cfg \in LoadConfig(env)
    PROVE  /\ cfg.resilience.MaxRetries \in 0 .. MaxInt
           /\ cfg.resilience.RateLimit \in Nat
<1>1. cfg.resilience.MaxRetries \in Parsed(env.MaxRetries, defaultMaxRetries, Nat)
  BY Loaded
<1>2. env.MaxRetries \in Text(Retries)
  BY DEF Env
<1>3. MaxInt \in Nat /\ Retries \subseteq -MaxInt - 1 .. MaxInt /\ defaultMaxRetries \in 0 .. MaxInt
  BY StartupAssumption
<1>4. cfg.resilience.MaxRetries \in 0 .. MaxInt
  <2>1. CASE cfg.resilience.MaxRetries = defaultMaxRetries
    BY <1>3, <2>1
  <2>2. CASE /\ env.MaxRetries.set /\ env.MaxRetries.parses
             /\ cfg.resilience.MaxRetries = env.MaxRetries.value
             /\ cfg.resilience.MaxRetries \in Nat
    <3>1. env.MaxRetries.value \in Retries
      <4>1. Unset.parses = FALSE /\ Malformed.parses = FALSE
        BY DEF Unset, Malformed
      <4>2. env.MaxRetries \in [set : {TRUE}, parses : {TRUE}, value : Retries]
        BY <1>2, <2>2, <4>1 DEF Text
      <4> QED BY <4>2
    <3> QED BY <1>3, <2>2, <3>1
  <2> QED BY <1>1, <2>1, <2>2, ParsedAsSet
<1>5. cfg.resilience.RateLimit \in Nat
  <2>1. cfg.resilience.RateLimit \in Parsed(env.RateLimit, 0, Nat)
    BY Loaded
  <2> QED BY <2>1, ParsedAsSet
<1> QED BY <1>4, <1>5

LEMMA EveryStartSends ==
    ASSUME NEW env \in Env
    PROVE  SendsEnough(env) /\ LimiterLetsPass(env)
<1> SUFFICES ASSUME NEW cfg \in LoadConfig(env),
                    NEW tr \in NewSolidServerClientWithOptions(cfg.resilience)
             PROVE  /\ 1 <= tr.attempts /\ tr.attempts - 1 <= cfg.resilience.MaxRetries
                    /\ (tr.limit > 0 /\ tr.limit \div 2 < MaxInt) => tr.burst >= 1
  BY DEF SendsEnough, LimiterLetsPass
<1> DEFINE re == cfg.resilience
<1>1. re.MaxRetries \in 0 .. MaxInt /\ re.RateLimit \in Nat /\ MaxInt \in Nat
  BY RetriesAccepted, StartupAssumption
<1> HIDE DEF re
<1>2. PICK b \in IF re.RateLimit > 0 THEN Bursts(re.RateLimit) ELSE {Unlimited} :
         tr = [limit |-> re.RateLimit, burst |-> b, attempts |-> maxAttempts(re.MaxRetries)]
  BY DEF NewSolidServerClientWithOptions, re
<1>3. 1 <= tr.attempts /\ tr.attempts - 1 <= re.MaxRetries
  <2>1. CASE re.MaxRetries < MaxInt
    <3>1. Wrapped(re.MaxRetries + 1) = re.MaxRetries + 1
      BY <1>1, <2>1, IntsWrap
    <3> QED BY <1>1, <1>2, <3>1 DEF maxAttempts
  <2>2. CASE re.MaxRetries = MaxInt
    <3>1. Wrapped(re.MaxRetries + 1) = -MaxInt - 1
      BY <2>2, IntsWrap
    <3> QED BY <1>1, <1>2, <3>1 DEF maxAttempts
  <2> QED BY <1>1, <2>1, <2>2
<1>4. ASSUME tr.limit > 0, tr.limit \div 2 < MaxInt PROVE tr.burst >= 1
  <2> DEFINE i == re.RateLimit \div 2
  <2>1. i \in Nat /\ i < MaxInt /\ re.RateLimit > 0
    BY <1>1, <1>2, <1>4
  <2>2. Converted(re.RateLimit) = {i}
    BY <1>1, <2>1 DEF Converted
  <2> HIDE DEF i
  <2>3. tr.burst = Wrapped(i + 1)
    BY <1>2, <2>1, <2>2 DEF Bursts
  <2>4. Wrapped(i + 1) = i + 1
    BY <1>1, <2>1, IntsWrap
  <2> QED BY <2>1, <2>3, <2>4
<1> QED BY <1>3, <1>4 DEF re

LEMMA StartInputs ==
    ASSUME Init, For("start")
    PROVE  input.env \in Env
<1>1. Started
  BY DEF Init, For, Guarded, Extents, Retried, Filtered, Resolved
<1> QED BY <1>1, InputAssumption DEF Started

(* A server that starts runs with what its environment says.                 *)
THEOREM StartedAsSet == Spec => []StartsAsSet
<1>1. Init => StartsAsSet
  BY StartInputs, EveryStartAsSet DEF StartsAsSet
<1>2. StartsAsSet /\ [Next]_input => StartsAsSet'
  BY DEF Next, StartsAsSet, For
<1> QED BY <1>1, <1>2, PTL DEF Spec

(* However large the number of retries, a request is sent at least once.     *)
THEOREM EveryRequestSent == Spec => []AttemptsMade
<1>1. Init => AttemptsMade
  BY StartInputs, EveryStartSends DEF AttemptsMade
<1>2. AttemptsMade /\ [Next]_input => AttemptsMade'
  BY DEF Next, AttemptsMade, For
<1> QED BY <1>1, <1>2, PTL DEF Spec

(* However small the rate, the limiter lets a first request pass; rates from *)
(* the largest int on are excepted.                                          *)
THEOREM EveryLimiterPasses == Spec => []FirstRequestPasses
<1>1. Init => FirstRequestPasses
  BY StartInputs, EveryStartSends DEF FirstRequestPasses
<1>2. FirstRequestPasses /\ [Next]_input => FirstRequestPasses'
  BY DEF Next, FirstRequestPasses, For
<1> QED BY <1>1, <1>2, PTL DEF Spec

=============================================================================
