-------------------------- MODULE ToolServer_proofs --------------------------
(***************************************************************************)
(* The DHCP tools, and the server that has the DHCP, the DNS and the VLAN  *)
(* tools, for any number of concurrent calls, any inputs and guardrails,   *)
(* with restarts of the server and administrators who change rows          *)
(* meanwhile.                                                              *)
(***************************************************************************)
EXTENDS ToolServer, Guardrails_proofs

-----------------------------------------------------------------------------
(* What the steps of ToolCalls do, for any set R of requests.                *)

(* The requests of calls in progress, of which Checked has those past their  *)
(* lookups, and what an earlier server has sent.                             *)
Active == {req[c] : c \in {d \in Calls : pc[d] # "idle"}}

LEMMA EnterStep ==
    ASSUME NEW R, NoReq \notin R, CallsTypeOK(R), NEW c \in Calls, NEW r \in R,
           NEW stage \in {"lookup", "send"}, Enter(c, r, stage)
    PROVE  /\ CallsTypeOK(R)' /\ g' = g /\ Settle
           /\ wire' = wire /\ Active' \subseteq Active \cup {r}
           /\ Checked' \subseteq Checked \cup (IF stage = "send" THEN {r} ELSE {})
<1>1. \A d \in Calls : /\ pc'[d] = IF d = c THEN stage ELSE pc[d]
                       /\ req'[d] = IF d = c THEN r ELSE req[d]
  BY DEF Enter, CallsTypeOK
<1>2. CallsTypeOK(R)'
  BY <1>1 DEF Enter, CallsTypeOK, Settle
<1> QED BY <1>1, <1>2 DEF Enter, Active, Checked

LEMMA PassStep ==
    ASSUME NEW R, NoReq \notin R, CallsTypeOK(R), NEW c \in Calls, Pass(c)
    PROVE  /\ CallsTypeOK(R)' /\ g' = g /\ Settle
           /\ wire' = wire /\ Active' \subseteq Active
           /\ req[c] \in R /\ req[c] \in Active
           /\ Checked' \subseteq Checked \cup {req[c]}
<1>1. \A d \in Calls : pc'[d] = IF d = c THEN "send" ELSE pc[d]
  BY DEF Pass, CallsTypeOK
<1>2. CallsTypeOK(R)'
  BY <1>1 DEF Pass, CallsTypeOK, Settle
<1> QED BY <1>1, <1>2 DEF Pass, Active, Checked, CallsTypeOK

LEMMA SendStep ==
    ASSUME NEW R, NoReq \notin R, CallsTypeOK(R), NEW c \in Calls, Send(c)
    PROVE  /\ CallsTypeOK(R)' /\ g' = g /\ Settle
           /\ wire' \subseteq wire \cup Active /\ Active' \subseteq Active
           /\ Checked' \subseteq Checked
<1>1. \A d \in Calls : pc'[d] = IF d = c THEN "wait" ELSE pc[d]
  BY DEF Send, CallsTypeOK
<1>2. CallsTypeOK(R)'
  BY <1>1 DEF Send, CallsTypeOK, Settle
<1> QED BY <1>1, <1>2 DEF Send, Active, Checked, CallsTypeOK

LEMMA ReturnStep ==
    ASSUME NEW R, NoReq \notin R, CallsTypeOK(R), NEW c \in Calls, Return(c)
    PROVE  /\ CallsTypeOK(R)' /\ g' = g /\ Settle
           /\ wire' = wire /\ Active' \subseteq Active
           /\ Checked' \subseteq Checked
<1>1. \A d \in Calls : /\ pc'[d] = IF d = c THEN "idle" ELSE pc[d]
                       /\ req'[d] = IF d = c THEN NoReq ELSE req[d]
  BY DEF Return, CallsTypeOK
<1>2. CallsTypeOK(R)'
  BY <1>1 DEF Return, CallsTypeOK, Settle
<1> QED BY <1>1, <1>2 DEF Return, Active, Checked, CallsTypeOK

LEMMA ExecuteStep ==
    ASSUME NEW R, CallsTypeOK(R), NEW m \in wire, Execute(m)
    PROVE  /\ CallsTypeOK(R)' /\ g' = g /\ Settle
           /\ wire' \subseteq wire /\ Active' = Active
           /\ Checked' \subseteq Checked
  BY DEF Execute, Active, Checked, CallsTypeOK, Settle

LEMMA SettledRaces == Settle /\ ~raced' => ~raced \/ Checked' = {}
  BY DEF Settle

-----------------------------------------------------------------------------
(* The extents the DHCP tools compute, and the rows they belong to.          *)

LEMMA GuardTypes ==
    ASSUME g \in Guards
    PROVE  g.ProtectedSubnets \subseteq Subnet
  BY DhcpAssumption

LEMMA AddressTypes ==
    /\ \A a \in IPv4 : a \in Address /\ a \in Int /\ a # NoAddr /\ a # Unknown
    /\ \A a \in Address : a \in Int /\ a # NoAddr
    /\ \A n \in 0 .. MaskBits : n \in Bits /\ n \in Int /\ n # NoBits
<1>1. MaxIPv4 \in Nat /\ MaxAddr \in Nat /\ MaxIPv4 <= MaxAddr
  BY IPv4Assumption, ArithmeticAssumption, LineAssumption
<1>2. MaskBits \in Nat /\ MaxBits \in Nat /\ MaskBits <= MaxBits
  BY IPv4Assumption, ArithmeticAssumption, LineAssumption
<1>3. \A a \in IPv4 : a \in Address /\ a \in Int /\ a # NoAddr /\ a # Unknown
  BY <1>1 DEF IPv4, Address, NoAddr, Unknown
<1>4. \A a \in Address : a \in Int /\ a # NoAddr
  BY <1>1 DEF Address, NoAddr
<1>5. \A n \in 0 .. MaskBits : n \in Bits /\ n \in Int /\ n # NoBits
  BY <1>2 DEF Bits, NoBits
<1> QED BY <1>3, <1>4, <1>5

LEMMA ScopeTypes ==
    ASSUME NEW s \in Scope
    PROVE  /\ s.addr \in IPv4 /\ s.addr \in Address /\ s.addr \in Int
           /\ s.bits \in 0 .. MaskBits /\ s.bits \in Bits
           /\ BlockSize[s.bits] \in 1 .. MaxIPv4 + 1
           /\ Last[s.addr][s.bits] = First[s.addr][s.bits] + BlockSize[s.bits] - 1
           /\ Last[s.addr][s.bits] \in Address /\ Last[s.addr][s.bits] \in Int
<1>1. s.addr \in IPv4 /\ s.bits \in 0 .. MaskBits
  BY DEF Scope
<1>2. s.addr \in Address /\ s.bits \in Bits
  BY <1>1, AddressTypes
<1> QED BY <1>1, <1>2, AddressTypes, BlockTypes, IPv4Assumption, ArithmeticAssumption

(* A mask is the mask of one length only.                                    *)
LEMMA MaskGivesLength ==
    ASSUME NEW n \in 0 .. MaskBits
    PROVE  dottedMaskPrefixLen(prefixToDottedMask(n)) = n
<1> DEFINE mask == prefixToDottedMask(n)
           k == CHOOSE k \in 0 .. MaskBits : prefixToDottedMask(k) = mask
<1>1. k \in 0 .. MaskBits /\ prefixToDottedMask(k) = mask
  OBVIOUS
<1>2. BlockSize[k] \in Int /\ BlockSize[n] \in Int /\ MaxIPv4 \in Int
  BY <1>1, ArithmeticAssumption
<1>3. BlockSize[k] = BlockSize[n]
  BY <1>1, <1>2 DEF prefixToDottedMask
<1>4. k = n
  BY <1>1, <1>3, ArithmeticAssumption
<1> QED BY <1>4 DEF dottedMaskPrefixLen

(* An extent that can be worked out of what the appliance sent of a scope's  *)
(* row is the scope's: 64-bit sums do not wrap around.                       *)
LEMMA ExtentIsTheScope ==
    ASSUME NEW s \in Scope, s.addr = First[s.addr][s.bits],
           NEW row \in ColumnsOf(s), parseable(scopeRowExtent(row))
    PROVE  scopeRowExtent(row) = [start |-> s.addr, end |-> Last[s.addr][s.bits]]
<1> DEFINE size == BlockSize[s.bits]
           count == scopeAddressCount(row)
           last == ipv4AddrPlus(s.addr, size - 1)
<1>1. s.addr \in 0 .. MaxIPv4 /\ size \in 1 .. MaxIPv4 + 1 /\ MaxIPv4 \in Nat
      /\ Wrap \in Nat /\ 2 * MaxIPv4 < Wrap
  BY ScopeTypes, ArithmeticAssumption DEF IPv4
<1>2. Last[s.addr][s.bits] = s.addr + size - 1
  BY ScopeTypes
<1>3. /\ row.ScopeNetAddr \in {s.addr, Unknown}
      /\ row.ScopeSize \in {size, Unknown}
      /\ row.ScopeNetMask \in {prefixToDottedMask(s.bits), Unknown}
  BY <1>1, <1>2 DEF ColumnsOf
<1>4. row.ScopeNetAddr = s.addr /\ count # Unknown
  BY <1>3 DEF parseable, scopeRowExtent, NoExtent
<1>5. count = size
  <2>1. CASE row.ScopeSize # Unknown
    BY <1>1, <1>3, <2>1 DEF scopeAddressCount
  <2>2. CASE row.ScopeSize = Unknown /\ row.ScopeNetMask # Unknown
    <3>1. s.bits \in 0 .. MaskBits /\ s.bits # Unknown
      BY ScopeTypes, ArithmeticAssumption DEF Unknown
    <3>2. dottedMaskPrefixLen(row.ScopeNetMask) = s.bits
      BY <1>3, <2>2, <3>1, MaskGivesLength
    <3> QED BY <2>2, <3>1, <3>2 DEF scopeAddressCount
  <2>3. CASE row.ScopeSize = Unknown /\ row.ScopeNetMask = Unknown
    <3>1. \A n \in 0 .. MaskBits : prefixToDottedMask(n) # Unknown
      <4> SUFFICES ASSUME NEW n \in 0 .. MaskBits PROVE prefixToDottedMask(n) # Unknown
        OBVIOUS
      <4>1. BlockSize[n] \in 1 .. MaxIPv4 + 1
        BY ArithmeticAssumption
      <4> QED BY <1>1, <4>1 DEF prefixToDottedMask, Unknown
    <3> QED BY <1>4, <2>3, <3>1 DEF scopeAddressCount, dottedMaskPrefixLen
  <2> QED BY <2>1, <2>2, <2>3
<1> HIDE DEF size, count
<1>6. (size - 1) % Wrap = size - 1 /\ (s.addr + (size - 1)) % Wrap = s.addr + (size - 1)
  <2>1. size - 1 \in 0 .. Wrap - 1 /\ s.addr + (size - 1) \in 0 .. Wrap - 1
    BY <1>1
  <2>2. ASSUME NEW x \in 0 .. Wrap - 1 PROVE x % Wrap = x
    BY <1>1
  <2> QED BY <2>1, <2>2
<1>7. last \in {Unknown, s.addr + (size - 1)}
  BY <1>6 DEF ipv4AddrPlus
<1>8. scopeRowExtent(row) = IF last = Unknown THEN NoExtent ELSE [start |-> s.addr, end |-> last]
  <2>1. size # Unknown /\ s.addr # Unknown
    BY <1>1 DEF Unknown
  <2> QED BY <1>4, <1>5, <1>6, <2>1 DEF scopeRowExtent, count
<1>9. last = s.addr + size - 1
  <2>1. last # Unknown
    BY <1>8 DEF parseable, NoExtent
  <2> QED BY <1>1, <1>7, <2>1
<1> QED BY <1>1, <1>2, <1>8, <1>9 DEF Unknown

(* A scope whose row the lookup lets pass is clear of protected subnets.     *)
LEMMA ExtentClears ==
    ASSUME g \in Guards, NEW s \in Scope, s.addr = First[s.addr][s.bits], extentClears(s)
    PROVE  ~ScopeFenced(s)
<1>1. PICK row \in ColumnsOf(s) :
         LET e == scopeRowExtent(row)
         IN  parseable(e) /\ ~overlappingProtectedSubnet(g, e.start, e.end)
  BY DEF extentClears
<1>2. ~overlappingProtectedSubnet(g, s.addr, Last[s.addr][s.bits])
  BY <1>1, ExtentIsTheScope
<1> QED BY <1>2, GuardTypes, ScopeTypes, RangeGuardClears DEF ScopeFenced

-----------------------------------------------------------------------------
(* The DHCP tools: what the checks on their inputs establish. *)

LEMMA RequestShapes ==
    ASSUME NEW m \in Request
    PROVE  /\ m # NoReq
           /\ m.op \in {"static_add", "static_delete"} => m \in StaticEdit
           /\ m.op = "scope_create" => m \in ScopeCreate
           /\ m.op = "scope_delete" => m \in ScopeDelete
           /\ m.op \in {"range_create", "range_delete"} => m \in RangeEdit
           /\ m.op \in {"shared_network_create", "shared_network_delete",
                        "group_create", "group_delete"} => m \in ContainerEdit
  BY DEF Request, StaticEdit, ScopeCreate, ScopeDelete, RangeEdit, ContainerEdit, NoReq

LEMMA NoReqIsNoRequest == NoReq \notin Request
  BY RequestShapes

Operation(c, r) ==
    \/ dhcpStaticAdd(c, r) \/ dhcpStaticDelete(c, r)
    \/ dhcpScopeCreate(c, r) \/ dhcpScopeDelete(c, r)
    \/ dhcpRangeCreate(c, r) \/ dhcpRangeDelete(c, r)
    \/ dhcpSharedNetworkCreate(c, r) \/ dhcpSharedNetworkDelete(c, r)
    \/ dhcpGroupCreate(c, r) \/ dhcpGroupDelete(c, r)

Lookup(c) ==
    \/ applyDhcpScopeDeleteExtentProtection(c)
    \/ applyDhcpSharedNetworkDeleteExtentProtection(c)
    \/ applyDhcpGroupDeleteStaticProtection(c)

(* A new scope's block: validation lets through only a length of the         *)
(* family's, and then it is the masked block that the guard has judged.      *)
LEMMA NewScopeIsClear ==
    ASSUME g \in Guards, NEW r \in ScopeCreate,
           CheckProtectedSubnetCIDR(g, r.addr, r.bits),
           ValidateSubnetPrefix(r.addr, r.bits), r.addr \in IPv4
    PROVE  /\ r.bits \in 0 .. MaskBits
           /\ ~Fenced(g, First[r.addr][r.bits], Last[r.addr][r.bits])
<1>1. r.addr \in Address /\ r.bits \in Bits /\ r.bits <= Width[r.addr]
  BY AddressTypes DEF ScopeCreate, ValidateSubnetPrefix
<1>2. r.bits \in 0 .. MaskBits
  BY <1>1, IPv4Assumption, ArithmeticAssumption, BlockTypes
<1>3. CheckProtectedSubnet(g, canonicalCIDR(r.addr, r.bits))
  BY DEF CheckProtectedSubnetCIDR, canonicalCIDROk, ValidateSubnetPrefix
<1> QED BY <1>1, <1>2, <1>3, GuardTypes, BlockGuardClears

(* No input gets past a tool's checks unless it keeps clear of everything    *)
(* protected that the input alone can name; and what can only be told from   *)
(* the rows is looked up unless nothing is protected.                        *)
LEMMA InputsAreChecked ==
    ASSUME g \in Guards, NEW c \in Calls, NEW r \in Request, Operation(c, r)
    PROVE  /\ Entered(r)
           /\ \E stage \in {"lookup", "send"} :
                 Enter(c, r, stage) /\ (stage = "send" => Verified(r))
<1>1. CheckReadOnly(g)
  BY DEF Operation, dhcpStaticAdd, dhcpStaticDelete, dhcpScopeCreate, dhcpScopeDelete,
         dhcpRangeCreate, dhcpRangeDelete, dhcpSharedNetworkCreate, dhcpSharedNetworkDelete,
         dhcpGroupCreate, dhcpGroupDelete
<1>2. ~g.ReadOnly
  BY <1>1 DEF CheckReadOnly
<1>3. CASE dhcpStaticAdd(c, r) \/ dhcpStaticDelete(c, r)
  <2>1. r \in StaticEdit /\ CheckProtectedAddr(g, r.ip) /\ r.ip # NoAddr /\ Enter(c, r, "send")
    BY <1>3, RequestShapes DEF dhcpStaticAdd, dhcpStaticDelete
  <2>2. r.ip \in Address
    BY <2>1 DEF StaticEdit, OptAddr
  <2>3. ~Fenced(g, r.ip, r.ip)
    BY <2>1, <2>2, GuardTypes, AddrGuardClears
  <2>4. r.op \in {"static_add", "static_delete"}
    BY <2>1 DEF StaticEdit
  <2> QED BY <1>2, <2>1, <2>3, <2>4 DEF Entered, Shaped, Verified
<1>4. CASE dhcpScopeCreate(c, r)
  <2>1. r \in ScopeCreate
    BY <1>4, RequestShapes DEF dhcpScopeCreate
  <2>2. /\ r.addr \in IPv4 /\ r.bits \in 0 .. MaskBits
        /\ ~Fenced(g, First[r.addr][r.bits], Last[r.addr][r.bits])
    BY <1>4, <2>1, NewScopeIsClear DEF dhcpScopeCreate
  <2> QED BY <1>2, <1>4, <2>2 DEF dhcpScopeCreate, Entered, Shaped, Verified
<1>5. CASE dhcpScopeDelete(c, r)
  <2>1. r.op = "scope_delete" /\ Enter(c, r, FirstStage)
    BY <1>5 DEF dhcpScopeDelete
  <2>2. FirstStage = "send" => Verified(r)
    BY DEF FirstStage, Verified, ScopeFenced, Fenced
  <2> QED BY <1>2, <2>1, <2>2 DEF FirstStage, Entered, Shaped
<1>6. CASE dhcpRangeCreate(c, r) \/ dhcpRangeDelete(c, r)
  <2>1. /\ r \in RangeEdit /\ ~overlappingProtectedSubnet(g, r.start, r.end)
        /\ r.start # NoAddr /\ r.end # NoAddr /\ Enter(c, r, "send")
    BY <1>6, RequestShapes
       DEF dhcpRangeCreate, dhcpRangeDelete, CheckProtectedRange, validateDhcpRangeEndpoints
  <2>2. r.start \in Address /\ r.end \in Address
    BY <2>1 DEF RangeEdit, OptAddr
  <2>3. ~Fenced(g, r.start, r.end)
    BY <2>1, <2>2, GuardTypes, RangeGuardClears
  <2>4. r.op \in {"range_create", "range_delete"}
    BY <2>1 DEF RangeEdit
  <2> QED BY <1>2, <2>1, <2>3, <2>4 DEF Entered, Shaped, Verified
<1>7. CASE dhcpSharedNetworkCreate(c, r) \/ dhcpGroupCreate(c, r)
  BY <1>2, <1>7 DEF dhcpSharedNetworkCreate, dhcpGroupCreate, Entered, Shaped, Verified
<1>8. CASE dhcpSharedNetworkDelete(c, r) \/ dhcpGroupDelete(c, r)
  <2>1. r.op \in {"shared_network_delete", "group_delete"} /\ Enter(c, r, FirstStage)
    BY <1>8 DEF dhcpSharedNetworkDelete, dhcpGroupDelete
  <2>2. FirstStage = "send" => Verified(r)
    BY DEF FirstStage, Verified, ScopeFenced, Fenced
  <2> QED BY <1>2, <2>1, <2>2 DEF FirstStage, Entered, Shaped
<1> QED BY <1>3, <1>4, <1>5, <1>6, <1>7, <1>8 DEF Operation

(* A page that is not full is all there is, as long as the appliance lets a  *)
(* page be as long as the lookups ask for.                                   *)
LEMMA ShortPageIsAll ==
    ASSUME PageCap >= maxListLimit, NEW rows, NEW page \in Pages(rows),
           Cardinality(page) < maxListLimit
    PROVE  page = rows
<1>1. PageSize = maxListLimit
  BY DhcpAssumption DEF PageSize
<1>2. ~(Cardinality(page) = PageSize)
  BY <1>1, DhcpAssumption
<1> QED BY <1>2 DEF Pages

(* A lookup that passes has seen every row the deletion may reach, and none  *)
(* is protected.                                                             *)
LEMMA LookupVerifies ==
    ASSUME PageCap >= maxListLimit, g \in Guards, RowsOK, NEW c \in Calls, Lookup(c)
    PROVE  Pass(c) /\ Verified(req[c])
<1> DEFINE r == req[c]
<1>1. ASSUME NEW found \in SUBSET scopes, runDhcpScopeExtentQuery(found)
      PROVE  \A s \in found : ~ScopeFenced(s)
  <2>1. \A s \in found : extentClears(s)
    BY <1>1, ShortPageIsAll DEF runDhcpScopeExtentQuery
  <2> QED BY <2>1, ExtentClears DEF RowsOK
<1>2. CASE applyDhcpScopeDeleteExtentProtection(c)
  <2>1. ScopesAt(r) \in SUBSET scopes
    BY DEF ScopesAt
  <2> QED BY <1>1, <1>2, <2>1 DEF applyDhcpScopeDeleteExtentProtection, Verified
<1>3. CASE applyDhcpSharedNetworkDeleteExtentProtection(c)
  <2>1. MemberScopes(r) \in SUBSET scopes
    BY DEF MemberScopes
  <2> QED BY <1>1, <1>3, <2>1 DEF applyDhcpSharedNetworkDeleteExtentProtection, Verified
<1>4. CASE applyDhcpGroupDeleteStaticProtection(c)
  <2>1. \A s \in MemberStatics(r) :
           \E a \in {s.ip, NoAddr} : a # NoAddr /\ CheckProtectedAddr(g, a)
    BY <1>4, ShortPageIsAll DEF applyDhcpGroupDeleteStaticProtection, lookupDhcpGroupStaticAddrs
  <2>2. \A s \in MemberStatics(r) : s.ip \in Address /\ CheckProtectedAddr(g, s.ip)
    BY <2>1 DEF MemberStatics, RowsOK, Static
  <2>3. \A s \in MemberStatics(r) : ~Fenced(g, s.ip, s.ip)
    BY <2>2, GuardTypes, AddrGuardClears
  <2> QED BY <1>4, <2>3 DEF applyDhcpGroupDeleteStaticProtection, Verified
<1> QED BY <1>2, <1>3, <1>4 DEF Lookup

-----------------------------------------------------------------------------
(* The DHCP tools: what the appliance does with a mutation. *)

LEMMA AllExecute ==
    ASSUME NEW m \in wire, Appliance(m)
    PROVE  Execute(m)
  BY DEF Appliance, Drop, DhcpStaticAdd, DhcpStaticDelete, DhcpScopeAdd, DhcpScopeDelete,
         DhcpRangeAdd, DhcpRangeDelete, DhcpContainerAdd, DhcpSharednetworkDelete, DhcpGroupDelete

(* The row of a new scope starts at its block's first address.               *)
LEMMA NewScope ==
    ASSUME NEW m \in ScopeCreate, m.addr \in IPv4, m.bits \in 0 .. MaskBits
    PROVE  LET s == [server |-> m.server, addr |-> First[m.addr][m.bits],
                     bits |-> m.bits, shared |-> NoName]
           IN  /\ s \in Scope /\ s.addr = First[s.addr][s.bits]
               /\ Last[s.addr][s.bits] = Last[m.addr][m.bits]
<1> DEFINE a == m.addr
           b == First[m.addr][m.bits]
           n == m.bits
<1>1. a \in Address /\ n \in Bits /\ b \in IPv4 /\ Width[a] = MaskBits
  BY AddressTypes, IPv4Assumption
<1>2. b \in Int /\ Last[a][n] \in Int /\ a \in Int /\ b \in Address
  BY <1>1, BlockTypes
<1>3. n \in 0 .. Width[a] /\ b <= a /\ a <= Last[a][n]
  BY <1>1, PrefixTree
<1>4. b \in b .. Last[a][n]
  BY <1>2, <1>3
<1>5. First[b][n] = b /\ Last[b][n] = Last[a][n]
  BY <1>1, <1>3, <1>4, PrefixTree
<1>6. [server |-> m.server, addr |-> b, bits |-> n, shared |-> NoName] \in Scope
  BY <1>1 DEF ScopeCreate, Scope
<1> HIDE DEF a, b, n
<1> QED BY <1>5, <1>6 DEF a, b, n

(* A scope that leaves its shared network stays where it is.                 *)
LEMMA ScopeLeaves ==
    ASSUME NEW s \in Scope
    PROVE  LET t == [s EXCEPT !.shared = NoName]
           IN  t \in Scope /\ t.addr = s.addr /\ t.bits = s.bits
  BY DEF Scope

LEMMA StaticLeaves ==
    ASSUME NEW s \in Static
    PROVE  LET t == [s EXCEPT !.group = NoName]
           IN  t \in Static /\ t.ip = s.ip
  BY DEF Static

(* The rows keep their shape; this uses nothing of the guards.               *)
LEMMA RowsAreKept ==
    ASSUME RowsOK, NEW m \in Request, Shaped(m), Appliance(m)
    PROVE  RowsOK'
<1>1. CASE Drop(m)
  BY <1>1 DEF Drop, store, RowsOK
<1>2. CASE DhcpStaticAdd(m)
  <2>1. m \in StaticEdit /\ m.ip # NoAddr
    BY <1>2, RequestShapes DEF DhcpStaticAdd, Shaped
  <2>2. [server |-> m.server, ip |-> m.ip, group |-> NoName] \in Static
    BY <2>1 DEF StaticEdit, OptAddr, Static
  <2> QED BY <1>2, <2>2 DEF DhcpStaticAdd, RowsOK
<1>3. CASE DhcpStaticDelete(m)
  BY <1>3 DEF DhcpStaticDelete, RowsOK
<1>4. CASE DhcpScopeAdd(m)
  <2>1. m \in ScopeCreate /\ m.addr \in IPv4 /\ m.bits \in 0 .. MaskBits
    BY <1>4, RequestShapes DEF DhcpScopeAdd, Shaped
  <2> QED BY <1>4, <2>1, NewScope DEF DhcpScopeAdd, RowsOK
<1>5. CASE DhcpScopeDelete(m)
  BY <1>5 DEF DhcpScopeDelete, RangesWithout, RowsOK
<1>6. CASE DhcpRangeAdd(m)
  <2>1. m \in RangeEdit /\ m.start # NoAddr /\ m.end # NoAddr
    BY <1>6, RequestShapes DEF DhcpRangeAdd, Shaped
  <2>2. [server |-> m.server, first |-> m.start, last |-> m.end] \in DhcpRange
    BY <2>1 DEF RangeEdit, OptAddr, DhcpRange
  <2> QED BY <1>6, <2>2 DEF DhcpRangeAdd, RowsOK
<1>7. CASE DhcpRangeDelete(m)
  BY <1>7 DEF DhcpRangeDelete, RowsOK
<1>8. CASE DhcpContainerAdd(m)
  <2>1. m \in ContainerEdit /\ m.op \in {"shared_network_create", "group_create"}
    BY <1>8, RequestShapes DEF DhcpContainerAdd
  <2>2. ContainerOf(m) \in Container
    BY <2>1 DEF ContainerEdit, ContainerOf, Container
  <2> QED BY <1>8, <2>2 DEF DhcpContainerAdd, RowsOK
<1>9. CASE DhcpSharednetworkDelete(m)
  <2> DEFINE members == MemberScopes(m)
             left(s) == [s EXCEPT !.shared = NoName]
  <2>1. PICK gone \in SUBSET members :
           /\ scopes' = (scopes \ members) \cup {left(s) : s \in members \ gone}
           /\ ranges' = RangesWithout(gone)
    BY <1>9 DEF DhcpSharednetworkDelete
  <2>2. ASSUME NEW s \in members
        PROVE  left(s) \in Scope /\ left(s).addr = First[left(s).addr][left(s).bits]
    <3>1. s \in Scope /\ s.addr = First[s.addr][s.bits]
      BY DEF MemberScopes, RowsOK
    <3> QED BY <3>1, ScopeLeaves
  <2> HIDE DEF members, left
  <2>3. \A s \in scopes' : s \in Scope /\ s.addr = First[s.addr][s.bits]
    BY <2>1, <2>2 DEF RowsOK
  <2>4. ranges' \subseteq DhcpRange
    BY <2>1 DEF RangesWithout, RowsOK
  <2>5. statics' \subseteq Static /\ containers' \subseteq Container
    BY <1>9 DEF DhcpSharednetworkDelete, RowsOK
  <2>6. scopes' \subseteq Scope /\ \A s \in scopes' : s.addr = First[s.addr][s.bits]
    BY <2>3
  <2> QED BY <2>4, <2>5, <2>6 DEF RowsOK
<1>10. CASE DhcpGroupDelete(m)
  <2>1. PICK gone \in SUBSET MemberStatics(m) :
           statics' = (statics \ MemberStatics(m))
                        \cup {[s EXCEPT !.group = NoName] : s \in MemberStatics(m) \ gone}
    BY <1>10 DEF DhcpGroupDelete
  <2>2. \A s \in statics' : s \in Static
    BY <2>1, StaticLeaves DEF MemberStatics, RowsOK
  <2> QED BY <1>10, <2>2 DEF DhcpGroupDelete, RowsOK
<1> QED BY <1>1, <1>2, <1>3, <1>4, <1>5, <1>6, <1>7, <1>8, <1>9, <1>10 DEF Appliance

(* A range that goes with a scope that is not protected is not protected.    *)
LEMMA RangesInsideAreClear ==
    ASSUME g \in Guards, RowsOK, NEW gone \in SUBSET scopes,
           \A s \in gone : ~ScopeFenced(s), NEW r \in ranges \ RangesWithout(gone)
    PROVE  ~Fenced(g, r.first, r.last)
<1>1. PICK s \in gone : Inside(r, s)
  BY DEF RangesWithout
<1>2. s \in Scope /\ r.first \in Int /\ r.last \in Int
  BY AddressTypes DEF RowsOK, DhcpRange
<1> QED BY <1>1, <1>2, GuardTypes, ScopeTypes, ClearIsHereditary DEF Inside, ScopeFenced

(* A mutation that was checked, and whose rows nobody has put under a        *)
(* protected subnet since, changes nothing that is protected.                *)
LEMMA CheckedHonours ==
    ASSUME g \in Guards, RowsOK, NEW m \in Request, Entered(m), Verified(m), Appliance(m)
    PROVE  FencesHonoured
<1>1. CASE Drop(m)
  BY <1>1 DEF Drop, store, FencesHonoured, Changed
<1>2. CASE DhcpStaticAdd(m)
  BY <1>2 DEF DhcpStaticAdd, Entered, FencesHonoured, Changed
<1>3. CASE DhcpStaticDelete(m)
  BY <1>3 DEF DhcpStaticDelete, Entered, FencesHonoured, Changed
<1>4. CASE DhcpScopeAdd(m)
  <2>1. m \in ScopeCreate /\ m.addr \in IPv4 /\ m.bits \in 0 .. MaskBits
        /\ ~Fenced(g, First[m.addr][m.bits], Last[m.addr][m.bits])
    BY <1>4, RequestShapes DEF DhcpScopeAdd, Entered, Shaped
  <2>2. \A s \in Changed(scopes, scopes') : ~ScopeFenced(s)
    BY <1>4, <2>1, NewScope DEF DhcpScopeAdd, Changed, ScopeFenced
  <2> QED BY <1>4, <2>2 DEF DhcpScopeAdd, FencesHonoured, Changed
<1>5. CASE DhcpScopeDelete(m)
  <2>1. PICK gone \in SUBSET ScopesAt(m) :
           scopes' = scopes \ gone /\ ranges' = RangesWithout(gone)
    BY <1>5 DEF DhcpScopeDelete
  <2>2. gone \in SUBSET scopes /\ \A s \in gone : ~ScopeFenced(s)
    BY <1>5 DEF DhcpScopeDelete, Verified, ScopesAt
  <2>3. \A s \in Changed(scopes, scopes') : ~ScopeFenced(s)
    BY <2>1, <2>2 DEF Changed
  <2>4. \A r \in Changed(ranges, ranges') : ~Fenced(g, r.first, r.last)
    <3>1. ranges' \subseteq ranges
      BY <2>1 DEF RangesWithout
    <3> QED BY <2>1, <2>2, <3>1, RangesInsideAreClear DEF Changed
  <2> QED BY <1>5, <2>3, <2>4 DEF DhcpScopeDelete, FencesHonoured, Changed
<1>6. CASE DhcpRangeAdd(m) \/ DhcpRangeDelete(m)
  BY <1>6 DEF DhcpRangeAdd, DhcpRangeDelete, Entered, FencesHonoured, Changed
<1>7. CASE DhcpContainerAdd(m)
  BY <1>7 DEF DhcpContainerAdd, FencesHonoured, Changed
<1>8. CASE DhcpSharednetworkDelete(m)
  <2> DEFINE members == MemberScopes(m)
  <2>1. PICK gone \in SUBSET members :
           /\ scopes' = (scopes \ members)
                          \cup {[s EXCEPT !.shared = NoName] : s \in members \ gone}
           /\ ranges' = RangesWithout(gone)
    BY <1>8 DEF DhcpSharednetworkDelete
  <2>2. members \in SUBSET scopes /\ \A s \in members : ~ScopeFenced(s)
    BY <1>8 DEF DhcpSharednetworkDelete, Verified, MemberScopes
  <2>3. \A s \in members : ~ScopeFenced([s EXCEPT !.shared = NoName])
    BY <2>2, ScopeLeaves DEF ScopeFenced, RowsOK
  <2> HIDE DEF members
  <2>4. \A s \in Changed(scopes, scopes') : ~ScopeFenced(s)
    BY <2>1, <2>2, <2>3 DEF Changed
  <2>5. \A r \in Changed(ranges, ranges') : ~Fenced(g, r.first, r.last)
    <3>1. ranges' \subseteq ranges /\ gone \in SUBSET scopes
      BY <2>1, <2>2 DEF RangesWithout
    <3> QED BY <2>1, <2>2, <3>1, RangesInsideAreClear DEF Changed
  <2> QED BY <1>8, <2>4, <2>5 DEF DhcpSharednetworkDelete, FencesHonoured, Changed
<1>9. CASE DhcpGroupDelete(m)
  <2> DEFINE members == MemberStatics(m)
  <2>1. PICK gone \in SUBSET members :
           statics' = (statics \ members)
                        \cup {[s EXCEPT !.group = NoName] : s \in members \ gone}
    BY <1>9 DEF DhcpGroupDelete
  <2>2. members \in SUBSET statics /\ \A s \in members : ~Fenced(g, s.ip, s.ip)
    BY <1>9 DEF DhcpGroupDelete, Verified, MemberStatics
  <2>3. \A s \in members : [s EXCEPT !.group = NoName].ip = s.ip
    BY <2>2, StaticLeaves DEF RowsOK
  <2> HIDE DEF members
  <2>4. \A s \in Changed(statics, statics') : ~Fenced(g, s.ip, s.ip)
    BY <2>1, <2>2, <2>3 DEF Changed
  <2> QED BY <1>9, <2>4 DEF DhcpGroupDelete, FencesHonoured, Changed
<1> QED BY <1>1, <1>2, <1>3, <1>4, <1>5, <1>6, <1>7, <1>8, <1>9 DEF Appliance

(* What the lookups established stays true of a mutation as long as nothing  *)
(* protected changes.                                                        *)
LEMMA VerifiedIsKept ==
    ASSUME g' = g, FencesHonoured, NEW m, Verified(m)
    PROVE  Verified(m)'
<1>1. ASSUME NEW s \in scopes', ~ScopeFenced(s) \/ s \notin scopes
      PROVE  ~ScopeFenced(s)'
  BY <1>1 DEF FencesHonoured, Changed, ScopeFenced
<1>2. ASSUME NEW s \in statics', ~Fenced(g, s.ip, s.ip) \/ s \notin statics
      PROVE  ~Fenced(g', s.ip, s.ip)
  BY <1>2 DEF FencesHonoured, Changed
<1>3. m.op = "scope_delete" => \A s \in ScopesAt(m)' : ~ScopeFenced(s)'
  BY <1>1 DEF Verified, ScopesAt
<1>4. m.op = "shared_network_delete" => \A s \in MemberScopes(m)' : ~ScopeFenced(s)'
  BY <1>1 DEF Verified, MemberScopes
<1>5. m.op = "group_delete" => \A s \in MemberStatics(m)' : ~Fenced(g', s.ip, s.ip)
  BY <1>2 DEF Verified, MemberStatics
<1> QED BY <1>3, <1>4, <1>5 DEF Verified

LEMMA EnteredIsKept ==
    ASSUME g' = g, NEW m
    PROVE  Entered(m)' <=> Entered(m)
  BY DEF Entered

LEMMA AdministrationKeepsRows ==
    ASSUME RowsOK, Administration
    PROVE  RowsOK'
<1>1. /\ Placeable.scopes \subseteq Scope
      /\ \A s \in Placeable.scopes : s.addr = First[s.addr][s.bits]
      /\ Placeable.ranges \subseteq DhcpRange
      /\ Placeable.statics \subseteq Static
      /\ Placeable.containers \subseteq Container
  BY DhcpAssumption DEF Rows
<1> QED BY <1>1 DEF Administration, Toggled, RowsOK

-----------------------------------------------------------------------------
(* The DHCP tools: the inductive invariant. *)

LEMMA ActiveCalls ==
    /\ \A m \in Active : \E c \in Calls : pc[c] # "idle" /\ m = req[c]
    /\ \A c \in Calls : pc[c] # "idle" => req[c] \in Active
  BY DEF Active

(* A step of a call leaves the rows alone, and makes no request pending but  *)
(* one that was checked.                                                     *)
LEMMA ToolSteps ==
    ASSUME PageCap >= maxListLimit, Inv, NEW c \in Calls, Tool(c)
    PROVE  /\ CallsTypeOK(Request)' /\ g' = g /\ store' = store /\ Settle
           /\ wire' \subseteq wire \cup Active
           /\ \A m \in Active' : m \in Active \/ Entered(m)
           /\ \A m \in Checked' : m \in Checked \/ (Entered(m) /\ Verified(m))
<1>1. CallsTypeOK(Request) /\ g \in Guards /\ RowsOK /\ store' = store
  BY DEF Inv, TypeOK, CallsTypeOK, Tool
<1>2. ASSUME NEW r \in Requests, Operation(c, r)
      PROVE  /\ CallsTypeOK(Request)' /\ g' = g /\ Settle
             /\ wire' = wire /\ Active' \subseteq Active \cup {r} /\ Entered(r)
             /\ \A m \in Checked' : m \in Checked \/ (Entered(m) /\ Verified(m))
  <2>1. r \in Request
    BY DhcpAssumption
  <2>2. Entered(r)
    BY <1>1, <1>2, <2>1, InputsAreChecked
  <2>3. PICK stage \in {"lookup", "send"} :
           Enter(c, r, stage) /\ (stage = "send" => Verified(r))
    BY <1>1, <1>2, <2>1, InputsAreChecked
  <2>4. /\ CallsTypeOK(Request)' /\ g' = g /\ Settle
        /\ wire' = wire /\ Active' \subseteq Active \cup {r}
        /\ Checked' \subseteq Checked \cup (IF stage = "send" THEN {r} ELSE {})
    BY <1>1, <2>1, <2>3, NoReqIsNoRequest, EnterStep
  <2> QED BY <2>2, <2>3, <2>4
<1>3. ASSUME Lookup(c)
      PROVE  /\ CallsTypeOK(Request)' /\ g' = g /\ Settle
             /\ wire' = wire /\ Active' \subseteq Active
             /\ \A m \in Checked' : m \in Checked \/ (Entered(m) /\ Verified(m))
  <2>1. Pass(c) /\ Verified(req[c])
    BY <1>1, <1>3, LookupVerifies
  <2>2. /\ CallsTypeOK(Request)' /\ g' = g /\ Settle
        /\ wire' = wire /\ Active' \subseteq Active /\ req[c] \in Active
        /\ Checked' \subseteq Checked \cup {req[c]}
    BY <1>1, <2>1, NoReqIsNoRequest, PassStep
  <2>3. Entered(req[c])
    BY <2>2, ActiveCalls DEF Inv
  <2> QED BY <2>1, <2>2, <2>3
<1>4. ASSUME Send(c)
      PROVE  /\ CallsTypeOK(Request)' /\ g' = g /\ Settle
             /\ wire' \subseteq wire \cup Active /\ Active' \subseteq Active
             /\ Checked' \subseteq Checked
  BY <1>1, <1>4, NoReqIsNoRequest, SendStep
<1>5. ASSUME Return(c)
      PROVE  /\ CallsTypeOK(Request)' /\ g' = g /\ Settle
             /\ wire' = wire /\ Active' \subseteq Active
             /\ Checked' \subseteq Checked
  BY <1>1, <1>5, NoReqIsNoRequest, ReturnStep
<1>6. CASE \E r \in Requests : Operation(c, r)
  BY <1>1, <1>2, <1>6
<1>7. CASE Lookup(c) \/ Send(c) \/ Return(c)
  BY <1>1, <1>3, <1>4, <1>5, <1>7
<1> QED BY <1>6, <1>7 DEF Tool, Operation, Lookup

LEMMA InvTool ==
    ASSUME PageCap >= maxListLimit, Inv, NEW c \in Calls, Tool(c)
    PROVE  Inv'
<1>1. /\ CallsTypeOK(Request)' /\ g' = g /\ store' = store /\ Settle
      /\ wire' \subseteq wire \cup Active
      /\ \A m \in Active' : m \in Active \/ Entered(m)
      /\ \A m \in Checked' : m \in Checked \/ (Entered(m) /\ Verified(m))
  BY ToolSteps
<1>2. TypeOK'
  BY <1>1 DEF Inv, TypeOK, RowsOK, store
<1>3. \A m \in Active : Entered(m)
  BY ActiveCalls DEF Inv
<1>4. ASSUME NEW m \in wire' PROVE Shaped(m)
  BY <1>1, <1>3 DEF Inv, Entered
<1>5. ASSUME NEW m \in Active' PROVE Entered(m)'
  BY <1>1, <1>3, EnteredIsKept
<1>6. ASSUME ~raced', NEW m \in Checked' PROVE Entered(m)' /\ Verified(m)'
  <2>1. Entered(m) /\ Verified(m)
    BY <1>1, <1>6, SettledRaces DEF Inv
  <2> QED BY <1>1, <2>1, EnteredIsKept
          DEF Verified, ScopesAt, MemberScopes, MemberStatics, ScopeFenced, store
<1>7. (\A d \in Calls : pc[d] # "idle" => Entered(req[d]))'
  <2>1. \A d \in Calls : pc'[d] # "idle" => req'[d] \in Active'
    BY DEF Active
  <2> QED BY <1>5, <2>1 DEF Entered, Shaped
<1> QED BY <1>2, <1>4, <1>6, <1>7 DEF Inv, Shaped

LEMMA InvAppliance ==
    ASSUME Inv, NEW m \in wire, Appliance(m)
    PROVE  Inv'
<1>1. CallsTypeOK(Request) /\ g \in Guards /\ RowsOK /\ m \in Request /\ Shaped(m)
  BY DEF Inv, TypeOK, CallsTypeOK
<1>2. /\ CallsTypeOK(Request)' /\ g' = g /\ Settle
      /\ wire' \subseteq wire /\ Active' = Active
      /\ Checked' \subseteq Checked
  BY <1>1, AllExecute, ExecuteStep
<1>3. TypeOK'
  BY <1>1, <1>2, RowsAreKept DEF TypeOK
<1>4. ASSUME NEW k \in wire' PROVE Shaped(k)
  BY <1>2 DEF Inv
<1>5. ASSUME NEW k \in Active' PROVE Entered(k)'
  BY <1>2, ActiveCalls, EnteredIsKept DEF Inv
<1>6. ASSUME ~raced', NEW k \in Checked' PROVE Entered(k)' /\ Verified(k)'
  <2>1. ~raced
    BY <1>2, <1>6, SettledRaces
  <2>2. Entered(k) /\ Verified(k) /\ Entered(m) /\ Verified(m)
    BY <1>2, <2>1 DEF Inv, Checked
  <2>3. FencesHonoured
    BY <1>1, <2>2, CheckedHonours
  <2> QED BY <1>2, <2>2, <2>3, VerifiedIsKept, EnteredIsKept
<1>7. (\A d \in Calls : pc[d] # "idle" => Entered(req[d]))'
  <2>1. \A d \in Calls : pc'[d] # "idle" => req'[d] \in Active'
    BY DEF Active
  <2> QED BY <1>5, <2>1 DEF Entered, Shaped
<1> QED BY <1>3, <1>4, <1>6, <1>7 DEF Inv, Shaped

LEMMA InvAdministration ==
    ASSUME Inv, Administration
    PROVE  Inv'
<1>1. /\ g' = g /\ pc' = pc /\ req' = req /\ wire' = wire
      /\ raced' = (Checked # {}) /\ Checked' = Checked
  BY DEF Administration, Overtake, Checked
<1>2. TypeOK'
  BY <1>1, AdministrationKeepsRows DEF Inv, TypeOK, CallsTypeOK
<1>3. \A m : Shaped(m)' <=> Shaped(m)
  BY DEF Shaped
<1>4. \A m : Entered(m)' <=> Entered(m)
  BY <1>1, EnteredIsKept
<1>5. ~raced' => Checked' = {}
  BY <1>1
<1> QED BY <1>1, <1>2, <1>3, <1>4, <1>5 DEF Inv

(* The wire outlives the server, the calls do not; with a mutation left on   *)
(* the wire the new guardrails may not have been asked.                      *)
LEMMA InvRestart ==
    ASSUME Inv, Restart, UNCHANGED store
    PROVE  Inv'
<1>1. TypeOK'
  BY DEF Restart, Inv, TypeOK, CallsTypeOK, RowsOK, store
<1>2. ~raced' => Checked' = {}
  BY DEF Restart
<1>3. \A m \in wire' : Shaped(m)'
  BY DEF Restart, Inv, Shaped
<1> QED BY <1>1, <1>2, <1>3 DEF Inv, Restart

LEMMA InvInit == Init => Inv
<1> SUFFICES ASSUME Init PROVE Inv
  OBVIOUS
<1>1. PICK d \in Deployments : /\ scopes = d.scopes /\ ranges = d.ranges
                               /\ statics = d.statics /\ containers = d.containers
  BY DEF Init
<1>2. RowsOK
  BY <1>1, DhcpAssumption DEF Rows, RowsOK
<1>3. CallsTypeOK(Request) /\ wire = {} /\ Checked = {} /\ \A c \in Calls : pc[c] = "idle"
  BY DEF Init, CallsInit, CallsTypeOK, Checked
<1> QED BY <1>2, <1>3 DEF Inv, TypeOK

(* Every reachable state is well typed, every call in progress has passed    *)
(* its server's guards, and a pending mutation that nothing raced reaches no *)
(* protected subnet: for any number of calls, as long as the appliance does  *)
(* not bound a page below what the lookups ask for.                          *)
THEOREM DhcpInvariance == PageCap >= maxListLimit => (Spec => []Inv)
<1> SUFFICES ASSUME PageCap >= maxListLimit PROVE Spec => []Inv
  OBVIOUS
<1>1. Inv /\ [Next]_vars => Inv'
  <2> SUFFICES ASSUME Inv, [Next]_vars PROVE Inv'
    OBVIOUS
  <2>1. ASSUME NEW c \in Calls, Tool(c) PROVE Inv'
    BY <2>1, InvTool
  <2>2. ASSUME NEW m \in wire, Appliance(m) PROVE Inv'
    BY <2>2, InvAppliance
  <2>3. CASE Administration
    BY <2>3, InvAdministration
  <2>4. CASE Restart /\ UNCHANGED store
    BY <2>4, InvRestart
  <2>5. CASE UNCHANGED vars
    BY <2>5 DEF vars, callVars, store, Inv, TypeOK, CallsTypeOK, RowsOK, Checked, Shaped, Entered,
                Verified, ScopesAt, MemberScopes, MemberStatics, ScopeFenced
  <2> QED BY <2>1, <2>2, <2>3, <2>4, <2>5 DEF Next, CallStep
<1> QED BY <1>1, InvInit, PTL DEF Spec

LEMMA CallsKeepStore ==
    ASSUME NEW c \in Calls, Tool(c)
    PROVE  FencesHonoured
  BY DEF Tool, store, FencesHonoured, Changed

LEMMA WireHonours ==
    ASSUME Inv, ~raced, NEW m \in wire, Appliance(m)
    PROVE  FencesHonoured
<1>1. g \in Guards /\ RowsOK /\ m \in Request /\ Entered(m) /\ Verified(m)
  BY DEF Inv, TypeOK, CallsTypeOK, Checked
<1> QED BY <1>1, CheckedHonours

(* However calls interleave, and however late or often a mutation runs, a    *)
(* DHCP tool changes nothing in a protected subnet, unless an administrator  *)
(* or a restart with other guardrails came between check and execution.      *)
THEOREM DhcpProtection == PageCap >= maxListLimit => (Spec => ProtectedUntouched)
<1> SUFFICES ASSUME PageCap >= maxListLimit PROVE Spec => ProtectedUntouched
  OBVIOUS
<1>1. Inv /\ [Next]_vars => [(ToolStep /\ ~raced) => FencesHonoured]_vars
  <2> SUFFICES ASSUME Inv, Next, ToolStep, ~raced PROVE FencesHonoured
    OBVIOUS
  <2>1. ASSUME NEW c \in Calls, Tool(c) PROVE FencesHonoured
    BY <2>1, CallsKeepStore
  <2>2. ASSUME NEW m \in wire, Appliance(m) PROVE FencesHonoured
    BY <2>2, WireHonours
  <2>3. ~Administration
    BY DEF Administration, Overtake, ToolStep
  <2>4. CASE Restart /\ UNCHANGED store
    BY <2>4 DEF store, FencesHonoured, Changed
  <2> QED BY <2>1, <2>2, <2>3, <2>4 DEF Next, CallStep
<1> QED BY <1>1, DhcpInvariance, PTL DEF Spec, ProtectedUntouched

(* The same of a server that stays up and has the appliance to itself.       *)
THEOREM DhcpCalls == PageCap >= maxListLimit => (CallsSpec => []Inv /\ ProtectedUntouched)
<1>1. CallsSpec => Spec
  <2>1. [CallStep]_vars => [Next]_vars
    BY DEF Next
  <2> QED BY <2>1, PTL DEF CallsSpec, Spec
<1> QED BY <1>1, DhcpInvariance, DhcpProtection, PTL

(* dhcp_tools.go:323 is right of an appliance that sends pages as long as    *)
(* the lookups ask for: no pending deletion of a shared network reaches a    *)
(* member scope in a protected subnet.                                       *)
THEOREM MembersAreRefused == PageCap >= maxListLimit => (Spec => []MembersRefused)
<1>1. Inv => MembersRefused
  BY DEF Inv, MembersRefused, Verified, Checked
<1> QED BY <1>1, DhcpInvariance, PTL

-----------------------------------------------------------------------------
(* The server with all its tools. What DnsTools_proofs shows of DnsTools     *)
(* holds of the server's copy of it: the lemmas that follow say that the     *)
(* names that P, Dns and Vlan give to one definition mean the same.          *)

P == INSTANCE DnsTools_proofs WITH Names <- ZoneNames, Fold <- FoldZone,
                                   Requests <- ZoneRequests, Deployments <- ZoneDeployments

LEMMA SameNames ==
    /\ P!Request = Dns!Request /\ P!Zone = Dns!Zone /\ P!Record = Dns!Record
    /\ P!NoName = NoName /\ Dns!NoName = NoName /\ P!NoView = Dns!NoView
    /\ P!Unused = Dns!Unused /\ P!Gone = Dns!Gone
  BY DEF NoName, Dns!NoName, P!NoName, Dns!NoView, P!NoView, Dns!Request, P!Request,
         Dns!RecordUpdate, P!RecordUpdate, Dns!RecordCreateDelete, P!RecordCreateDelete,
         Dns!ZoneCreateDelete, P!ZoneCreateDelete, Dns!OptName, P!OptName, Dns!OptView, P!OptView,
         Dns!Zone, P!Zone, Dns!Record, P!Record, Dns!Folded, P!Folded,
         Dns!Unused, P!Unused, Dns!Gone, P!Gone

LEMMA SameAssumptions == P!NameAssumption /\ P!DnsAssumption /\ P!CallsAssumption
  BY ServerAssumption, SameNames, CallsAssumption
     DEF P!NameAssumption, P!DnsAssumption, Dns!NameAssumption, Dns!DnsAssumption, P!CallsAssumption

LEMMA SameRows ==
    /\ P!RowsOK <=> Dns!RowsOK
    /\ P!RowsOK' <=> Dns!RowsOK'
  BY SameNames DEF P!RowsOK, Dns!RowsOK

LEMMA SameChecks ==
    ASSUME NEW m
    PROVE  /\ P!Entered(m) <=> Dns!Entered(m)
           /\ P!Verified(m) <=> Dns!Verified(m)
           /\ P!Entered(m)' <=> Dns!Entered(m)'
           /\ P!Verified(m)' <=> Dns!Verified(m)'
  BY SameNames
     DEF P!Entered, Dns!Entered, P!Verified, Dns!Verified, P!RrIn, Dns!RrIn, P!ZoneProtected,
         Dns!ZoneProtected, P!guardrailsNeedZoneLookup, Dns!guardrailsNeedZoneLookup

LEMMA SameCalls ==
    ASSUME NEW c, NEW r, NEW stage
    PROVE  /\ Dns!Enter(c, r, stage) <=> Enter(c, r, stage)
           /\ P!Enter(c, r, stage) <=> Enter(c, r, stage)
           /\ Vlan!Enter(c, r, stage) <=> Enter(c, r, stage)
           /\ P!Pass(c) <=> Pass(c)
           /\ Dns!Pass(c) <=> Pass(c)
           /\ Dns!Send(c) <=> Send(c)
           /\ Vlan!Send(c) <=> Send(c)
           /\ Dns!Return(c) <=> Return(c)
           /\ Vlan!Return(c) <=> Return(c)
           /\ P!Execute(r) <=> Execute(r)
           /\ Dns!Execute(r) <=> Execute(r)
           /\ Vlan!Execute(r) <=> Execute(r)
           /\ Dns!Overtake <=> Overtake
           /\ P!Overtake <=> Overtake
<1>1. /\ Dns!Settle <=> Settle
      /\ P!Settle <=> Settle
      /\ Vlan!Settle <=> Settle
  BY DEF Dns!Settle, P!Settle, Vlan!Settle, Settle, Dns!Checked, P!Checked, Vlan!Checked, Checked
<1>2. /\ Dns!Enter(c, r, stage) <=> Enter(c, r, stage)
      /\ P!Enter(c, r, stage) <=> Enter(c, r, stage)
      /\ Vlan!Enter(c, r, stage) <=> Enter(c, r, stage)
  BY <1>1 DEF Dns!Enter, P!Enter, Vlan!Enter, Enter
<1>3. /\ P!Pass(c) <=> Pass(c)
      /\ Dns!Pass(c) <=> Pass(c)
  BY <1>1 DEF P!Pass, Dns!Pass, Pass
<1>4. /\ Dns!Send(c) <=> Send(c)
      /\ Vlan!Send(c) <=> Send(c)
  BY <1>1 DEF Dns!Send, Vlan!Send, Send, Dns!Cardinality, Vlan!Cardinality, Cardinality
<1>5. /\ Dns!Return(c) <=> Return(c)
      /\ Vlan!Return(c) <=> Return(c)
  BY <1>1 DEF Dns!Return, Vlan!Return, Return, Dns!NoReq, Vlan!NoReq, NoReq
<1>6. /\ P!Execute(r) <=> Execute(r)
      /\ Dns!Execute(r) <=> Execute(r)
      /\ Vlan!Execute(r) <=> Execute(r)
  BY <1>1 DEF P!Execute, Dns!Execute, Vlan!Execute, Execute
<1>7. /\ Dns!Overtake <=> Overtake
      /\ P!Overtake <=> Overtake
  BY DEF Dns!Overtake, P!Overtake, Overtake, Dns!Checked, P!Checked, Checked
<1> QED BY <1>2, <1>3, <1>4, <1>5, <1>6, <1>7

LEMMA SameOperations ==
    ASSUME NEW c, NEW r
    PROVE  /\ P!Operation(c, r) <=> (\/ Dns!dnsRecordCreate(c, r) \/ Dns!dnsRecordDelete(c, r)
                                     \/ Dns!dnsRecordUpdate(c, r)
                                     \/ Dns!dnsZoneCreate(c, r) \/ Dns!dnsZoneDelete(c, r))
           /\ P!applyDNSRecordUpdateProtections(c) <=> Dns!applyDNSRecordUpdateProtections(c)
<1>1. /\ P!Enter(c, r, "send") <=> Dns!Enter(c, r, "send")
      /\ P!Enter(c, r, "lookup") <=> Dns!Enter(c, r, "lookup")
      /\ P!Pass(c) <=> Dns!Pass(c)
  BY SameCalls
<1>2. /\ P!CheckReadOnly(g) <=> Dns!CheckReadOnly(g)
      /\ \A z : P!CheckProtectedZone(g, z) <=> Dns!CheckProtectedZone(g, z)
      /\ P!guardrailsNeedZoneLookup <=> Dns!guardrailsNeedZoneLookup
      /\ \A i : P!RrIn(i) <=> Dns!RrIn(i)
  BY SameNames DEF P!CheckReadOnly, Dns!CheckReadOnly, P!CheckProtectedZone, Dns!CheckProtectedZone,
                   P!guardrailsNeedZoneLookup, Dns!guardrailsNeedZoneLookup, P!RrIn, Dns!RrIn
<1>3. P!applyDNSRecordUpdateProtections(c) <=> Dns!applyDNSRecordUpdateProtections(c)
  BY <1>1, <1>2, SameNames
     DEF P!applyDNSRecordUpdateProtections, Dns!applyDNSRecordUpdateProtections
<1>4. P!Operation(c, r) <=> (\/ Dns!dnsRecordCreate(c, r) \/ Dns!dnsRecordDelete(c, r)
                             \/ Dns!dnsRecordUpdate(c, r)
                             \/ Dns!dnsZoneCreate(c, r) \/ Dns!dnsZoneDelete(c, r))
  BY <1>1, <1>2, SameNames
     DEF P!Operation, P!dnsRecordCreate, P!dnsRecordDelete, P!dnsRecordUpdate, P!dnsZoneCreate,
         P!dnsZoneDelete, Dns!dnsRecordCreate, Dns!dnsRecordDelete, Dns!dnsRecordUpdate,
         Dns!dnsZoneCreate, Dns!dnsZoneDelete
<1> QED BY <1>3, <1>4

LEMMA SameAppliance ==
    ASSUME NEW m
    PROVE  /\ P!Appliance(m) <=> Dns!Appliance(m)
           /\ P!Administration <=> Dns!Administration
<1>1. P!Execute(m) <=> Dns!Execute(m)
  BY SameCalls
<1>2. P!Drop(m) <=> Dns!Drop(m)
  BY <1>1 DEF P!Drop, Dns!Drop, P!store, Dns!store
<1>3. P!DnsRrAdd(m) <=> Dns!DnsRrAdd(m)
  BY <1>1, SameNames DEF P!DnsRrAdd, Dns!DnsRrAdd, P!In, Dns!In
<1>4. P!DnsRrDelete(m) <=> Dns!DnsRrDelete(m)
  BY <1>1, SameNames DEF P!DnsRrDelete, Dns!DnsRrDelete, P!In, Dns!In, P!RrIn, Dns!RrIn
<1>5. P!DnsRrEdit(m) <=> Dns!DnsRrEdit(m)
  BY <1>1, SameNames DEF P!DnsRrEdit, Dns!DnsRrEdit, P!RrIn, Dns!RrIn
<1>6. P!DnsZoneAdd(m) <=> Dns!DnsZoneAdd(m)
  BY <1>1, SameNames DEF P!DnsZoneAdd, Dns!DnsZoneAdd, P!In, Dns!In
<1>7. P!DnsZoneDelete(m) <=> Dns!DnsZoneDelete(m)
  BY <1>1, SameNames DEF P!DnsZoneDelete, Dns!DnsZoneDelete, P!In, Dns!In, P!RrIn, Dns!RrIn
<1>8. P!Administration <=> Dns!Administration
  BY SameNames, SameCalls DEF P!Administration, Dns!Administration, P!RrIn, Dns!RrIn
<1> QED BY <1>2, <1>3, <1>4, <1>5, <1>6, <1>7, <1>8 DEF P!Appliance, Dns!Appliance

-----------------------------------------------------------------------------
(* The server with all its tools: no request is of two families.             *)

DhcpOps == {"static_add", "static_delete", "scope_create", "scope_delete",
            "range_create", "range_delete", "shared_network_create", "shared_network_delete",
            "group_create", "group_delete"}
DnsOps  == {"record_create", "record_delete", "record_update", "zone_create", "zone_delete"}
VlanOps == {"domain_create", "domain_delete", "vlan_create", "vlan_delete"}

LEMMA FamiliesAreApart ==
    /\ \A m \in Request : m.op \in DhcpOps
    /\ \A m \in Dns!Request : m.op \in DnsOps
    /\ \A m \in Vlan!Request : m.op \in VlanOps
    /\ NoReq \notin AllRequests
<1>1. \A m \in Request : m.op \in DhcpOps
  BY DEF Request, StaticEdit, ScopeCreate, ScopeDelete, RangeEdit, ContainerEdit, DhcpOps
<1>2. \A m \in Dns!Request : m.op \in DnsOps
  BY DEF Dns!Request, Dns!RecordCreateDelete, Dns!RecordUpdate, Dns!ZoneCreateDelete, DnsOps
<1>3. \A m \in Vlan!Request : m.op \in VlanOps
  BY DEF Vlan!Request, Vlan!DomainEdit, Vlan!VlanCreate, Vlan!VlanDelete, VlanOps
<1>4. NoReq.op \notin DhcpOps \cup DnsOps \cup VlanOps
  BY DEF NoReq, DhcpOps, DnsOps, VlanOps
<1> QED BY <1>1, <1>2, <1>3, <1>4 DEF AllRequests

(* The checks of the DHCP tools ask nothing of another family's request      *)
(* except that the server is not read-only.                                  *)
LEMMA OtherFamilies ==
    ASSUME NEW m, m.op \notin DhcpOps
    PROVE  /\ Entered(m) <=> ~g.ReadOnly
           /\ Shaped(m)
           /\ Verified(m)
  BY DEF Entered, Shaped, Verified, DhcpOps

LEMMA VlanRequestsApart ==
    ASSUME NEW m \in Vlan!Request
    PROVE  m \in AllRequests /\ m \notin Dns!Request /\ m.op \notin DhcpOps
  BY FamiliesAreApart DEF AllRequests, DnsOps, VlanOps, DhcpOps

LEMMA DnsRequestsApart ==
    ASSUME NEW m \in Dns!Request
    PROVE  m \in AllRequests /\ m.op \notin DhcpOps
  BY FamiliesAreApart DEF AllRequests, DnsOps, DhcpOps

LEMMA DhcpRequestsApart ==
    ASSUME NEW m \in Request
    PROVE  m \in AllRequests /\ m \notin Dns!Request
  BY FamiliesAreApart DEF AllRequests, DnsOps, DhcpOps

-----------------------------------------------------------------------------
(* The server with all its tools: what their calls do. *)

(* A call moves, and a request that becomes pending by it is checked.        *)
Guarded(c) ==
    \/ \E r \in AllRequests, stage \in {"lookup", "send"} :
          Enter(c, r, stage) /\ EnteredAsAny(r) /\ (stage = "send" => VerifiedAsAny(r))
    \/ Pass(c) /\ VerifiedAsAny(req[c])
    \/ Send(c)
    \/ Return(c)

LEMMA DhcpToolsAreGuarded ==
    ASSUME PageCap >= maxListLimit, ServerInv, NEW c \in Calls, Tool(c)
    PROVE  Guarded(c) /\ UNCHANGED store
<1>1. g \in Guards /\ RowsOK
  BY DEF ServerInv, CallsTypeOK
<1>2. ASSUME NEW r \in Requests, Operation(c, r) PROVE Guarded(c)
  <2>1. r \in Request
    BY DhcpAssumption
  <2>2. r \in AllRequests /\ r \notin Dns!Request
    BY <2>1, DhcpRequestsApart
  <2>3. Entered(r) /\ \E stage \in {"lookup", "send"} :
           Enter(c, r, stage) /\ (stage = "send" => Verified(r))
    BY <1>1, <1>2, <2>1, InputsAreChecked
  <2> QED BY <2>2, <2>3 DEF Guarded, EnteredAsAny, VerifiedAsAny
<1>3. ASSUME Lookup(c) PROVE Guarded(c)
  <2>1. Pass(c) /\ Verified(req[c])
    BY <1>1, <1>3, LookupVerifies
  <2>2. req[c].op \in DhcpOps
    BY <1>3 DEF Lookup, applyDhcpScopeDeleteExtentProtection,
                applyDhcpSharedNetworkDeleteExtentProtection,
                applyDhcpGroupDeleteStaticProtection, DhcpOps
  <2>3. req[c] \notin Dns!Request
    BY <2>2, DnsRequestsApart
  <2> QED BY <2>1, <2>3 DEF Guarded, VerifiedAsAny
<1> QED BY <1>2, <1>3 DEF Tool, Operation, Lookup, Guarded

LEMMA DnsToolsAreGuarded ==
    ASSUME ServerInv, NEW c \in Calls, Dns!Tool(c)
    PROVE  Guarded(c) /\ UNCHANGED zoneRows
<1>1. UNCHANGED zoneRows
  BY DEF Dns!Tool, Dns!store, zoneRows
<1>2. ASSUME NEW r \in ZoneRequests,
             \/ Dns!dnsRecordCreate(c, r) \/ Dns!dnsRecordDelete(c, r)
             \/ Dns!dnsRecordUpdate(c, r)
             \/ Dns!dnsZoneCreate(c, r) \/ Dns!dnsZoneDelete(c, r)
      PROVE  Guarded(c)
  <2>1. r \in Dns!Request
    BY ServerAssumption DEF Dns!DnsAssumption
  <2>2. P!Operation(c, r) /\ r \in P!Request
    BY <1>2, <2>1, SameOperations, SameNames
  <2>3. P!Entered(r) /\ \E stage \in {"lookup", "send"} :
           P!Enter(c, r, stage) /\ (stage = "send" => P!Verified(r))
    BY <2>2, P!InputsAreChecked, SameAssumptions
  <2>4. Dns!Entered(r) /\ \E stage \in {"lookup", "send"} :
           Enter(c, r, stage) /\ (stage = "send" => Dns!Verified(r))
    BY <2>3, SameChecks, SameCalls
  <2>5. ~g.ReadOnly
    BY <2>4 DEF Dns!Entered
  <2>6. r \in AllRequests /\ Entered(r) /\ Verified(r)
    BY <2>1, <2>5, DnsRequestsApart, OtherFamilies
  <2> QED BY <2>4, <2>6 DEF Guarded, EnteredAsAny, VerifiedAsAny
<1>3. ASSUME Dns!applyDNSRecordUpdateProtections(c) PROVE Guarded(c)
  <2>1. Pass(c) /\ req[c].op = "record_update"
    BY <1>3, SameCalls DEF Dns!applyDNSRecordUpdateProtections
  <2>2. Verified(req[c])
    BY <2>1, OtherFamilies DEF DhcpOps
  <2>3. ASSUME req[c] \in Dns!Request PROVE Dns!Verified(req[c])
    <3>1. P!RowsOK /\ req[c] \in P!Request /\ P!applyDNSRecordUpdateProtections(c)
      BY <1>3, <2>3, SameRows, SameNames, SameOperations DEF ServerInv
    <3>2. P!Verified(req[c])
      BY <3>1, P!LookupVerifies, SameAssumptions
    <3> QED BY <3>2, SameChecks
  <2> QED BY <2>1, <2>2, <2>3 DEF Guarded, VerifiedAsAny
<1>4. CASE Dns!Send(c) \/ Dns!Return(c)
  BY <1>1, <1>4, SameCalls DEF Guarded
<1> QED BY <1>1, <1>2, <1>3, <1>4 DEF Dns!Tool

LEMMA VlanToolsAreGuarded ==
    ASSUME ServerInv, NEW c \in Calls, Vlan!Tool(c)
    PROVE  Guarded(c) /\ UNCHANGED vlanRows
<1>1. UNCHANGED vlanRows
  BY DEF Vlan!Tool, Vlan!store, vlanRows
<1>2. ASSUME NEW r \in Vlan!Request,
             \/ Vlan!vlanDomainCreate(c, r) \/ Vlan!vlanDomainDelete(c, r)
             \/ Vlan!vlanCreate(c, r) \/ Vlan!vlanDelete(c, r)
      PROVE  Guarded(c)
  <2>1. ~g.ReadOnly /\ Enter(c, r, "send")
    BY <1>2, SameCalls DEF Vlan!vlanDomainCreate, Vlan!vlanDomainDelete, Vlan!vlanCreate,
                           Vlan!vlanDelete, Vlan!CheckReadOnly
  <2>2. r \in AllRequests /\ r \notin Dns!Request /\ Entered(r) /\ Verified(r)
    BY <2>1, VlanRequestsApart, OtherFamilies
  <2> QED BY <2>1, <2>2 DEF Guarded, EnteredAsAny, VerifiedAsAny
<1>3. CASE Vlan!Send(c) \/ Vlan!Return(c)
  BY <1>1, <1>3, SameCalls DEF Guarded
<1> QED BY <1>1, <1>2, <1>3 DEF Vlan!Tool

-----------------------------------------------------------------------------
(* The server with all its tools: the inductive invariant. *)

LEMMA EnteredAsAnyIsKept ==
    ASSUME g' = g, NEW m
    PROVE  EnteredAsAny(m)' <=> EnteredAsAny(m)
  BY DEF EnteredAsAny, Entered, Dns!Entered, Dns!ZoneProtected

LEMMA DnsVerifiedIsKept ==
    ASSUME g' = g, zoneRows' = zoneRows, NEW m, Dns!Verified(m)
    PROVE  Dns!Verified(m)'
  BY DEF Dns!Verified, Dns!RrIn, Dns!ZoneProtected, Dns!guardrailsNeedZoneLookup, zoneRows

LEMMA SameStoreHonours ==
    ASSUME store' = store
    PROVE  FencesHonoured
  BY DEF store, FencesHonoured, Changed

LEMMA SameZonesHonour ==
    ASSUME zoneRows' = zoneRows
    PROVE  Dns!FencesHonoured
  BY DEF zoneRows, Dns!FencesHonoured

LEMMA SameRowsOK ==
    /\ RowsOK /\ store' = store => RowsOK'
    /\ Dns!RowsOK /\ zoneRows' = zoneRows => Dns!RowsOK'
    /\ Vlan!RowsOK /\ vlanRows' = vlanRows => Vlan!RowsOK'
  BY DEF RowsOK, store, Dns!RowsOK, zoneRows, Vlan!RowsOK, vlanRows

LEMMA GuardedSteps ==
    ASSUME ServerInv, NEW c \in Calls, Guarded(c)
    PROVE  /\ CallsTypeOK(AllRequests)' /\ g' = g /\ Settle
           /\ wire' \subseteq wire \cup Active
           /\ \A m \in Active' : m \in Active \/ EnteredAsAny(m)
           /\ \A m \in Checked' : m \in Checked \/ (EnteredAsAny(m) /\ VerifiedAsAny(m))
<1>1. CallsTypeOK(AllRequests) /\ NoReq \notin AllRequests
  BY FamiliesAreApart DEF ServerInv
<1>2. CASE \E r \in AllRequests, stage \in {"lookup", "send"} :
              Enter(c, r, stage) /\ EnteredAsAny(r) /\ (stage = "send" => VerifiedAsAny(r))
  <2>1. PICK r \in AllRequests, stage \in {"lookup", "send"} :
           Enter(c, r, stage) /\ EnteredAsAny(r) /\ (stage = "send" => VerifiedAsAny(r))
    BY <1>2
  <2>2. /\ CallsTypeOK(AllRequests)' /\ g' = g /\ Settle
        /\ wire' = wire /\ Active' \subseteq Active \cup {r}
        /\ Checked' \subseteq Checked \cup (IF stage = "send" THEN {r} ELSE {})
    BY <1>1, <2>1, EnterStep
  <2> QED BY <2>1, <2>2
<1>3. CASE Pass(c) /\ VerifiedAsAny(req[c])
  <2>1. /\ CallsTypeOK(AllRequests)' /\ g' = g /\ Settle
        /\ wire' = wire /\ Active' \subseteq Active /\ req[c] \in Active
        /\ Checked' \subseteq Checked \cup {req[c]}
    BY <1>1, <1>3, PassStep
  <2>2. EnteredAsAny(req[c])
    BY <2>1, ActiveCalls DEF ServerInv
  <2> QED BY <1>3, <2>1, <2>2
<1>4. CASE Send(c)
  BY <1>1, <1>4, SendStep
<1>5. CASE Return(c)
  BY <1>1, <1>5, ReturnStep
<1> QED BY <1>2, <1>3, <1>4, <1>5 DEF Guarded

LEMMA ServerInvTool ==
    ASSUME ServerInv, NEW c \in Calls, Guarded(c), appliance' = appliance
    PROVE  ServerInv'
<1>1. /\ CallsTypeOK(AllRequests)' /\ g' = g /\ Settle
      /\ wire' \subseteq wire \cup Active
      /\ \A m \in Active' : m \in Active \/ EnteredAsAny(m)
      /\ \A m \in Checked' : m \in Checked \/ (EnteredAsAny(m) /\ VerifiedAsAny(m))
  BY GuardedSteps
<1>2. store' = store /\ zoneRows' = zoneRows /\ vlanRows' = vlanRows
  BY DEF appliance
<1>3. RowsOK' /\ Dns!RowsOK' /\ Vlan!RowsOK'
  BY <1>2, SameRowsOK DEF ServerInv
<1>4. \A m \in Active : EnteredAsAny(m)
  BY ActiveCalls DEF ServerInv
<1>5. ASSUME NEW m \in wire'
      PROVE  /\ Shaped(m)
             /\ (m \in Dns!Request /\ m.op # "record_update") => m.zone # NoName
  <2>1. CASE m \in wire
    BY <2>1 DEF ServerInv
  <2>2. CASE m \in Active
    <3>1. EnteredAsAny(m)
      BY <1>4, <2>2
    <3> QED BY <3>1, SameNames DEF EnteredAsAny, Entered, Dns!Entered
  <2> QED BY <1>1, <2>1, <2>2
<1>6. ASSUME NEW m \in Active' PROVE EnteredAsAny(m)'
  BY <1>1, <1>4, EnteredAsAnyIsKept
<1>7. ASSUME ~raced', NEW m \in Checked' PROVE EnteredAsAny(m)' /\ VerifiedAsAny(m)'
  <2>1. EnteredAsAny(m) /\ VerifiedAsAny(m)
    BY <1>1, <1>7, SettledRaces DEF ServerInv
  <2>2. Verified(m)'
    BY <1>1, <1>2, <2>1, SameStoreHonours, VerifiedIsKept DEF VerifiedAsAny
  <2>3. m \in Dns!Request => Dns!Verified(m)'
    BY <1>1, <1>2, <2>1, DnsVerifiedIsKept DEF VerifiedAsAny
  <2> QED BY <1>1, <2>1, <2>2, <2>3, EnteredAsAnyIsKept DEF VerifiedAsAny
<1>8. (\A d \in Calls : pc[d] # "idle" => EnteredAsAny(req[d]))'
  <2>1. \A d \in Calls : pc'[d] # "idle" => req'[d] \in Active'
    BY DEF Active
  <2> QED BY <1>6, <2>1
          DEF EnteredAsAny, Entered, Shaped, Dns!Entered, Dns!ZoneProtected
<1> QED BY <1>1, <1>3, <1>5, <1>7, <1>8 DEF ServerInv, Shaped

(* A mutation that its family's rows survive, and that touches nothing       *)
(* protected unless it is raced, keeps the invariant.                        *)
LEMMA ServerInvExecute ==
    ASSUME ServerInv, NEW m \in wire, Execute(m), RowsOK', Dns!RowsOK', Vlan!RowsOK',
           ~raced => /\ FencesHonoured
                     /\ \A k \in Dns!Request : Dns!Verified(k) => Dns!Verified(k)'
    PROVE  ServerInv'
<1>1. /\ CallsTypeOK(AllRequests)' /\ g' = g /\ Settle
      /\ wire' \subseteq wire /\ Active' = Active
      /\ Checked' \subseteq Checked
  BY ExecuteStep DEF ServerInv
<1>2. ASSUME NEW k \in wire'
      PROVE  /\ Shaped(k)
             /\ (k \in Dns!Request /\ k.op # "record_update") => k.zone # NoName
  BY <1>1 DEF ServerInv
<1>3. ASSUME NEW k \in Active' PROVE EnteredAsAny(k)'
  BY <1>1, ActiveCalls, EnteredAsAnyIsKept DEF ServerInv
<1>4. ASSUME ~raced', NEW k \in Checked' PROVE EnteredAsAny(k)' /\ VerifiedAsAny(k)'
  <2>1. ~raced
    BY <1>1, <1>4, SettledRaces
  <2>2. EnteredAsAny(k) /\ VerifiedAsAny(k)
    BY <1>1, <1>4, <2>1 DEF ServerInv
  <2>3. Verified(k)'
    BY <1>1, <2>1, <2>2, VerifiedIsKept DEF VerifiedAsAny
  <2> QED BY <1>1, <2>1, <2>2, <2>3, EnteredAsAnyIsKept DEF VerifiedAsAny
<1>5. (\A d \in Calls : pc[d] # "idle" => EnteredAsAny(req[d]))'
  <2>1. \A d \in Calls : pc'[d] # "idle" => req'[d] \in Active'
    BY DEF Active
  <2> QED BY <1>3, <2>1
          DEF EnteredAsAny, Entered, Shaped, Dns!Entered, Dns!ZoneProtected
<1> QED BY <1>1, <1>2, <1>4, <1>5 DEF ServerInv, Shaped

LEMMA OnTheWire ==
    ASSUME ServerInv, NEW m \in wire
    PROVE  /\ g \in Guards /\ m \in AllRequests /\ Shaped(m)
           /\ (m \in Dns!Request /\ m.op # "record_update") => m.zone # NoName
           /\ ~raced => EnteredAsAny(m) /\ VerifiedAsAny(m)
  BY DEF ServerInv, CallsTypeOK, Checked

LEMMA ServerInvDhcp ==
    ASSUME ServerInv, NEW m \in wire, Appliance(m), UNCHANGED <<zoneRows, vlanRows>>
    PROVE  ServerInv' /\ (~raced => FencesHonoured)
<1>1. Execute(m) /\ g' = g /\ zoneRows' = zoneRows /\ vlanRows' = vlanRows
  BY AllExecute DEF Execute
<1>2. Dns!RowsOK' /\ Vlan!RowsOK'
  BY <1>1, SameRowsOK DEF ServerInv
<1>3. \A k \in Dns!Request : Dns!Verified(k) => Dns!Verified(k)'
  BY <1>1, DnsVerifiedIsKept
<1>4. CASE m \in Request
  <2>1. RowsOK'
    BY <1>4, OnTheWire, RowsAreKept DEF ServerInv
  <2>2. ~raced => FencesHonoured
    BY <1>4, OnTheWire, CheckedHonours DEF ServerInv, EnteredAsAny, VerifiedAsAny
  <2> QED BY <1>1, <1>2, <1>3, <2>1, <2>2, ServerInvExecute
<1>5. CASE m \notin Request
  <2>1. m.op \notin DhcpOps
    BY <1>5, OnTheWire, DnsRequestsApart, VlanRequestsApart DEF AllRequests
  <2>2. Drop(m)
    BY <2>1 DEF Appliance, DhcpOps, DhcpStaticAdd, DhcpStaticDelete, DhcpScopeAdd, DhcpScopeDelete,
                DhcpRangeAdd, DhcpRangeDelete, DhcpContainerAdd, DhcpSharednetworkDelete,
                DhcpGroupDelete
  <2>3. store' = store
    BY <2>2 DEF Drop
  <2>4. RowsOK' /\ FencesHonoured
    BY <2>3, SameRowsOK, SameStoreHonours DEF ServerInv
  <2> QED BY <1>1, <1>2, <1>3, <2>4, ServerInvExecute
<1> QED BY <1>4, <1>5

LEMMA DnsAllExecute ==
    ASSUME NEW m, Dns!Appliance(m)
    PROVE  Execute(m)
  BY SameCalls DEF Dns!Appliance, Dns!Drop, Dns!DnsRrAdd, Dns!DnsRrDelete, Dns!DnsRrEdit,
                   Dns!DnsZoneAdd, Dns!DnsZoneDelete

LEMMA ServerInvDns ==
    ASSUME ServerInv, NEW m \in wire, Dns!Appliance(m), UNCHANGED <<store, vlanRows>>
    PROVE  ServerInv' /\ (~raced => Dns!FencesHonoured)
<1>1. Execute(m) /\ g' = g /\ store' = store /\ vlanRows' = vlanRows
  BY DnsAllExecute DEF Execute
<1>2. RowsOK' /\ Vlan!RowsOK' /\ FencesHonoured
  BY <1>1, SameRowsOK, SameStoreHonours DEF ServerInv
<1>3. CASE m \in Dns!Request
  <2>1. P!RowsOK /\ m \in P!Request /\ P!Appliance(m)
        /\ (m.op # "record_update" => m.zone # P!NoName)
    BY <1>3, SameRows, SameNames, SameAppliance, OnTheWire DEF ServerInv
  <2>2. Dns!RowsOK'
    BY <2>1, P!RowsAreKept, SameAssumptions, SameRows
  <2>3. ASSUME ~raced
        PROVE  /\ \A i \in RrIds : P!RowStep(i)
               /\ \A z \in (zones \ zones') \cup (zones' \ zones) : ~P!ZoneProtected(z.name)
    <3>1. P!Entered(m) /\ P!Verified(m)
      BY <1>3, <2>3, OnTheWire, SameChecks DEF EnteredAsAny, VerifiedAsAny
    <3> QED BY <1>1, <2>1, <3>1, P!RowSteps, SameAssumptions
  <2>4. ASSUME ~raced, NEW k \in Dns!Request, Dns!Verified(k) PROVE Dns!Verified(k)'
    <3>1. k.op = "record_update" => k.id \in RrIds
      BY <2>4 DEF Dns!Request, Dns!RecordCreateDelete, Dns!RecordUpdate, Dns!ZoneCreateDelete
    <3>2. P!Verified(k) /\ k \in P!Request
      BY <2>4, SameChecks, SameNames
    <3>3. P!Verified(k)'
      BY <1>1, <2>3, <2>4, <3>1, <3>2, P!VerifiedIsKept, SameAssumptions
    <3> QED BY <3>3, SameChecks
  <2>5. ~raced => Dns!FencesHonoured
    BY <2>3, SameNames DEF P!RowStep, Dns!FencesHonoured, P!RrIn, Dns!RrIn,
                           P!ZoneProtected, Dns!ZoneProtected
  <2> QED BY <1>1, <1>2, <2>2, <2>4, <2>5, ServerInvExecute
<1>4. CASE m \notin Dns!Request
  <2>1. m.op \notin DnsOps
    BY <1>4, OnTheWire, FamiliesAreApart DEF AllRequests, DhcpOps, DnsOps, VlanOps
  <2>2. Dns!Drop(m)
    BY <2>1 DEF Dns!Appliance, DnsOps, Dns!DnsRrAdd, Dns!DnsRrDelete, Dns!DnsRrEdit,
                Dns!DnsZoneAdd, Dns!DnsZoneDelete
  <2>3. zoneRows' = zoneRows
    BY <2>2 DEF Dns!Drop, Dns!store, zoneRows
  <2>4. Dns!RowsOK' /\ Dns!FencesHonoured
    BY <2>3, SameRowsOK, SameZonesHonour DEF ServerInv
  <2>5. \A k \in Dns!Request : Dns!Verified(k) => Dns!Verified(k)'
    BY <1>1, <2>3, DnsVerifiedIsKept
  <2> QED BY <1>1, <1>2, <2>4, <2>5, ServerInvExecute
<1> QED BY <1>3, <1>4

LEMMA VlanAllExecute ==
    ASSUME NEW m, Vlan!Appliance(m)
    PROVE  Execute(m)
  BY SameCalls DEF Vlan!Appliance, Vlan!Drop, Vlan!VlanDomainAdd, Vlan!VlanDomainDelete,
                   Vlan!VlanVlanAdd, Vlan!VlanVlanDelete

LEMMA VlanRowsAreKept ==
    ASSUME Vlan!RowsOK, NEW m \in AllRequests, Vlan!Appliance(m)
    PROVE  Vlan!RowsOK'
<1>1. m.op \in {"domain_create", "domain_delete"} => m \in Vlan!DomainEdit
  BY FamiliesAreApart
     DEF AllRequests, DhcpOps, DnsOps, Vlan!Request, Vlan!VlanCreate, Vlan!VlanDelete
<1>2. m.op = "vlan_create" => m \in Vlan!VlanCreate
  BY FamiliesAreApart
     DEF AllRequests, DhcpOps, DnsOps, Vlan!Request, Vlan!DomainEdit, Vlan!VlanDelete
<1>3. CASE Vlan!Drop(m)
  BY <1>3 DEF Vlan!Drop, Vlan!store, Vlan!RowsOK
<1>4. CASE Vlan!VlanDomainAdd(m)
  <2>1. m.name \in VlanNames
    BY <1>1, <1>4 DEF Vlan!VlanDomainAdd, Vlan!DomainEdit
  <2> QED BY <1>4, <2>1 DEF Vlan!VlanDomainAdd, Vlan!RowsOK
<1>5. CASE Vlan!VlanDomainDelete(m)
  BY <1>5 DEF Vlan!VlanDomainDelete, Vlan!RowsOK
<1>6. CASE Vlan!VlanVlanAdd(m)
  <2>1. [domain |-> m.domain, name |-> m.name, id |-> m.id] \in Vlan!Vlan
    BY <1>2, <1>6 DEF Vlan!VlanVlanAdd, Vlan!VlanCreate, Vlan!Vlan
  <2> QED BY <1>6, <2>1 DEF Vlan!VlanVlanAdd, Vlan!RowsOK
<1>7. CASE Vlan!VlanVlanDelete(m)
  BY <1>7 DEF Vlan!VlanVlanDelete, Vlan!RowsOK
<1> QED BY <1>3, <1>4, <1>5, <1>6, <1>7 DEF Vlan!Appliance

LEMMA ServerInvVlan ==
    ASSUME ServerInv, NEW m \in wire, Vlan!Appliance(m), UNCHANGED <<store, zoneRows>>
    PROVE  ServerInv'
<1>1. Execute(m) /\ g' = g /\ store' = store /\ zoneRows' = zoneRows
  BY VlanAllExecute DEF Execute
<1>2. RowsOK' /\ Dns!RowsOK' /\ FencesHonoured
  BY <1>1, SameRowsOK, SameStoreHonours DEF ServerInv
<1>3. Vlan!RowsOK'
  BY OnTheWire, VlanRowsAreKept DEF ServerInv
<1>4. \A k \in Dns!Request : Dns!Verified(k) => Dns!Verified(k)'
  BY <1>1, DnsVerifiedIsKept
<1> QED BY <1>1, <1>2, <1>3, <1>4, ServerInvExecute

(* Administrators change rows of one family; whatever is pending is raced.   *)
LEMMA ServerInvOvertake ==
    ASSUME ServerInv, Overtake, RowsOK', Dns!RowsOK', Vlan!RowsOK'
    PROVE  ServerInv'
<1>1. /\ g' = g /\ pc' = pc /\ req' = req /\ wire' = wire
      /\ raced' = (Checked # {}) /\ Checked' = Checked
  BY DEF Overtake, Checked
<1>2. CallsTypeOK(AllRequests)'
  BY <1>1 DEF ServerInv, CallsTypeOK
<1>3. \A m : EnteredAsAny(m)' <=> EnteredAsAny(m)
  BY <1>1, EnteredAsAnyIsKept
<1>4. ~raced' => Checked' = {}
  BY <1>1
<1> QED BY <1>1, <1>2, <1>3, <1>4 DEF ServerInv, Shaped

LEMMA ServerInvAdministration ==
    ASSUME ServerInv,
           \/ Administration /\ UNCHANGED <<zoneRows, vlanRows>>
           \/ Dns!Administration /\ UNCHANGED <<store, vlanRows>>
    PROVE  ServerInv'
<1>1. CASE Administration /\ UNCHANGED <<zoneRows, vlanRows>>
  <2>1. RowsOK' /\ Dns!RowsOK' /\ Vlan!RowsOK'
    BY <1>1, AdministrationKeepsRows, SameRowsOK DEF ServerInv
  <2>2. Overtake
    BY <1>1 DEF Administration
  <2> QED BY <2>1, <2>2, ServerInvOvertake
<1>2. CASE Dns!Administration /\ UNCHANGED <<store, vlanRows>>
  <2>1. Dns!RowsOK'
    <3>1. P!RowsOK /\ P!Administration
      BY <1>2, SameRows, SameAppliance DEF ServerInv
    <3> QED BY <3>1, P!AdministrationKeepsRows, SameAssumptions, SameRows
  <2>2. RowsOK' /\ Vlan!RowsOK'
    BY <1>2, SameRowsOK DEF ServerInv
  <2>3. Overtake
    BY <1>2, SameCalls DEF Dns!Administration
  <2> QED BY <2>1, <2>2, <2>3, ServerInvOvertake
<1> QED BY <1>1, <1>2

LEMMA ServerInvRestart ==
    ASSUME ServerInv, Restart, UNCHANGED appliance
    PROVE  ServerInv'
<1>1. RowsOK' /\ Dns!RowsOK' /\ Vlan!RowsOK'
  BY SameRowsOK DEF ServerInv, appliance
<1>2. CallsTypeOK(AllRequests)' /\ wire' = wire /\ \A c \in Calls : pc'[c] = "idle"
  BY DEF Restart, ServerInv, CallsTypeOK
<1>3. ~raced' => Checked' = {}
  BY DEF Restart
<1> QED BY <1>1, <1>2, <1>3 DEF ServerInv, Shaped

LEMMA ServerInvInit == ServerInit => ServerInv
<1> SUFFICES ASSUME ServerInit PROVE ServerInv
  OBVIOUS
<1>1. RowsOK
  BY InvInit DEF ServerInit, Inv, TypeOK
<1>2. Dns!RowsOK
  BY ServerAssumption DEF ServerInit, Dns!Init, Dns!DnsAssumption, Dns!RowsOK
<1>3. Vlan!RowsOK
  BY DEF ServerInit, Vlan!Init, Vlan!RowsOK
<1>4. CallsTypeOK(AllRequests) /\ wire = {} /\ Checked = {} /\ \A c \in Calls : pc[c] = "idle"
  BY DEF ServerInit, Init, CallsInit, CallsTypeOK, Checked
<1> QED BY <1>1, <1>2, <1>3, <1>4 DEF ServerInv

(* Whatever family a call or a mutation is of, it passed the guards of that  *)
(* family, and unless it is raced every row it may reach is clear of what is *)
(* protected, whatever the tools of the other families do meanwhile.         *)
THEOREM ServerInvariance == PageCap >= maxListLimit => (ServerSpec => []ServerInv)
<1> SUFFICES ASSUME PageCap >= maxListLimit PROVE ServerSpec => []ServerInv
  OBVIOUS
<1>1. ServerInv /\ [ServerNext]_serverVars => ServerInv'
  <2> SUFFICES ASSUME ServerInv, [ServerNext]_serverVars PROVE ServerInv'
    OBVIOUS
  <2>1. ASSUME NEW c \in Calls, Tool(c), UNCHANGED <<zoneRows, vlanRows>> PROVE ServerInv'
    BY <2>1, DhcpToolsAreGuarded, ServerInvTool DEF appliance
  <2>2. ASSUME NEW c \in Calls, Dns!Tool(c), UNCHANGED <<store, vlanRows>> PROVE ServerInv'
    BY <2>2, DnsToolsAreGuarded, ServerInvTool DEF appliance
  <2>3. ASSUME NEW c \in Calls, Vlan!Tool(c), UNCHANGED <<store, zoneRows>> PROVE ServerInv'
    BY <2>3, VlanToolsAreGuarded, ServerInvTool DEF appliance
  <2>4. ASSUME NEW m \in wire, Appliance(m), UNCHANGED <<zoneRows, vlanRows>> PROVE ServerInv'
    BY <2>4, ServerInvDhcp
  <2>5. ASSUME NEW m \in wire, Dns!Appliance(m), UNCHANGED <<store, vlanRows>> PROVE ServerInv'
    BY <2>5, ServerInvDns
  <2>6. ASSUME NEW m \in wire, Vlan!Appliance(m), UNCHANGED <<store, zoneRows>> PROVE ServerInv'
    BY <2>6, ServerInvVlan
  <2>7. CASE \/ Administration /\ UNCHANGED <<zoneRows, vlanRows>>
             \/ Dns!Administration /\ UNCHANGED <<store, vlanRows>>
    BY <2>7, ServerInvAdministration
  <2>8. CASE Restart /\ UNCHANGED appliance
    BY <2>8, ServerInvRestart
  <2>9. CASE UNCHANGED serverVars
    <3>1. /\ g' = g /\ pc' = pc /\ req' = req /\ wire' = wire /\ raced' = raced
          /\ store' = store /\ zoneRows' = zoneRows /\ vlanRows' = vlanRows /\ Checked' = Checked
      BY <2>9 DEF serverVars, callVars, appliance, Checked
    <3>2. RowsOK' /\ Dns!RowsOK' /\ Vlan!RowsOK' /\ CallsTypeOK(AllRequests)'
      BY <3>1, SameRowsOK DEF ServerInv, CallsTypeOK
    <3>3. \A m : EnteredAsAny(m)' <=> EnteredAsAny(m)
      BY <3>1, EnteredAsAnyIsKept
    <3>4. \A m : VerifiedAsAny(m) => VerifiedAsAny(m)'
      BY <3>1, SameStoreHonours, VerifiedIsKept, DnsVerifiedIsKept DEF VerifiedAsAny
    <3> QED BY <3>1, <3>2, <3>3, <3>4 DEF ServerInv, Shaped
  <2> QED BY <2>1, <2>2, <2>3, <2>4, <2>5, <2>6, <2>7, <2>8, <2>9
          DEF ServerNext, CallStep, Dns!CallStep, Vlan!CallStep
<1> QED BY <1>1, ServerInvInit, PTL DEF ServerSpec

(* The server as a whole: no tool touches what the guardrails in force       *)
(* protect, and under read-only mode none changes anything, once what was    *)
(* pending when an administrator or a restart intervened is through.         *)
THEOREM ServerGuardsHold == PageCap >= maxListLimit => (ServerSpec => GuardsHold)
<1> SUFFICES ASSUME PageCap >= maxListLimit PROVE ServerSpec => GuardsHold
  OBVIOUS
<1> DEFINE Held == /\ FencesHonoured
                   /\ Dns!FencesHonoured
                   /\ g.ReadOnly => UNCHANGED appliance
<1>1. ServerInv /\ [ServerNext]_serverVars => [(ToolStep /\ ~raced) => Held]_serverVars
  <2> SUFFICES ASSUME ServerInv, ServerNext, ToolStep, ~raced PROVE Held
    OBVIOUS
  <2>1. ASSUME UNCHANGED appliance PROVE Held
    BY <2>1, SameStoreHonours, SameZonesHonour DEF appliance
  <2>2. ASSUME NEW m \in wire PROVE ~g.ReadOnly
    BY <2>2, OnTheWire DEF EnteredAsAny, Entered
  <2>3. ASSUME NEW c \in Calls, \/ Tool(c) /\ UNCHANGED <<zoneRows, vlanRows>>
                                \/ Dns!Tool(c) /\ UNCHANGED <<store, vlanRows>>
                                \/ Vlan!Tool(c) /\ UNCHANGED <<store, zoneRows>>
        PROVE  Held
    BY <2>1, <2>3, DhcpToolsAreGuarded, DnsToolsAreGuarded, VlanToolsAreGuarded DEF appliance
  <2>4. ASSUME NEW m \in wire, Appliance(m), UNCHANGED <<zoneRows, vlanRows>> PROVE Held
    BY <2>2, <2>4, ServerInvDhcp, SameZonesHonour
  <2>5. ASSUME NEW m \in wire, Dns!Appliance(m), UNCHANGED <<store, vlanRows>> PROVE Held
    BY <2>2, <2>5, ServerInvDns, SameStoreHonours
  <2>6. ASSUME NEW m \in wire, Vlan!Appliance(m), UNCHANGED <<store, zoneRows>> PROVE Held
    BY <2>2, <2>6, SameStoreHonours, SameZonesHonour
  <2>7. ~Administration /\ ~Dns!Administration
    BY SameCalls DEF Administration, Dns!Administration, Overtake, ToolStep
  <2> QED BY <2>1, <2>3, <2>4, <2>5, <2>6, <2>7
          DEF ServerNext, CallStep, Dns!CallStep, Vlan!CallStep
<1> QED BY <1>1, ServerInvariance, PTL DEF ServerSpec, GuardsHold
=============================================================================
