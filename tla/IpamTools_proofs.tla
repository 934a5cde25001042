-------------------------- MODULE IpamTools_proofs --------------------------
(***************************************************************************)
(* IpamTools for any number of concurrent calls, any inputs, any protected *)
(* lists, any inventory and any line of addresses.                         *)
(***************************************************************************)
EXTENDS IpamTools, Guardrails_proofs

-----------------------------------------------------------------------------
(* Type correctness. *)

LEMMA RequestShapes ==
    ASSUME NEW m \in Request
    PROVE  /\ m.op = "ip_create" => m \in IPCreate
           /\ m.op = "ip_delete" => m \in IPDelete
           /\ m.op = "ip_update" => m \in IPUpdate
           /\ m.op = "subnet_create" => m \in SubnetCreate
           /\ m.op = "subnet_delete" => m \in SubnetDelete
           /\ m.op = "subnet_update" => m \in SubnetUpdate
           /\ m.op \in {"space_create", "space_delete"} => m \in SpaceEdit
  BY DEF Request, IPCreate, IPDelete, IPUpdate, SubnetCreate, SubnetDelete,
         SubnetUpdate, SpaceEdit

LEMMA SpacesAreFolded ==
    ASSUME NEW s \in Names
    PROVE  Fold[s] \in Space /\ Fold[s] \in Names
  BY NameAssumption DEF Space

LEMMA SettleTypes == raced \in BOOLEAN /\ Settle => raced' \in BOOLEAN
  BY DEF Settle

LEMMA TypeInit == Init => TypeOK
<1> SUFFICES ASSUME Init PROVE TypeOK
  OBVIOUS
<1>1. PICK inv \in Inventories :
          /\ spaces = inv.spaces
          /\ nets = [i \in NetIds |-> inv.nets[i]]
          /\ addrs = [i \in AddrIds |-> inv.addrs[i]]
  BY DEF Init
<1>2. nets \in [NetIds -> NetRow \cup {Unused, Gone}]
  BY <1>1, InventoryAssumption
<1>3. addrs \in [AddrIds -> AddrRow \cup {Unused, Gone}]
  BY <1>1, InventoryAssumption
<1>4. spaces \subseteq Space
  BY <1>1, InventoryAssumption
<1> QED
  BY <1>2, <1>3, <1>4 DEF Init, TypeOK

(* A call's own steps: only pc, req and wire change.                         *)
LEMMA TypeTool ==
    ASSUME TypeOK, NEW c \in Calls, Tool(c)
    PROVE  TypeOK'
<1>1. ASSUME NEW r \in Request, NEW stage \in {"lookup", "send"}, Enter(c, r, stage)
      PROVE  TypeOK'
  BY <1>1, SettleTypes DEF TypeOK, Enter, inventory
<1>2. ASSUME NEW r \in Request, Pass(c, r)
      PROVE  TypeOK'
  BY <1>2, SettleTypes DEF TypeOK, Pass, inventory
<1>3. ASSUME NEW r \in Requests,
             \/ ipCreate(c, r) \/ ipDelete(c, r) \/ ipUpdate(c, r)
             \/ subnetCreate(c, r) \/ subnetDelete(c, r) \/ subnetUpdate(c, r)
             \/ spaceCreate(c, r) \/ spaceDelete(c, r)
      PROVE  TypeOK'
  <2>1. r \in Request
    BY RequestAssumption
  <2>2. \E stage \in {"lookup", "send"} : Enter(c, r, stage)
    BY <1>3 DEF ipCreate, ipDelete, ipUpdate, subnetCreate, subnetDelete, subnetUpdate,
                spaceCreate, spaceDelete
  <2> QED BY <2>1, <2>2, <1>1
<1>5. CASE findFirstFreeIP(c)
  <2>1. PICK a \in Address : Pass(c, [req[c] EXCEPT !.host = a])
    BY <1>5 DEF findFirstFreeIP
  <2>2. req[c] # NoReq /\ req[c].op = "ip_create"
    BY <1>5 DEF findFirstFreeIP, NoReq
  <2>3. req[c] \in IPCreate
    BY <2>2, RequestShapes DEF TypeOK
  <2>4. [req[c] EXCEPT !.host = a] \in IPCreate
    BY <2>3 DEF IPCreate, OptAddr
  <2>5. [req[c] EXCEPT !.host = a] \in Request
    BY <2>4 DEF Request
  <2> QED BY <2>1, <2>5, <1>2
<1>6. CASE \/ applyIPUpdateProtections(c)
           \/ applySubnetDeleteExtentProtection(c)
           \/ applySubnetUpdateProtections(c)
  <2>1. Pass(c, req[c]) /\ req[c] # NoReq
    BY <1>6 DEF applyIPUpdateProtections, applySubnetDeleteExtentProtection,
                applySubnetUpdateProtections, NoReq
  <2>2. req[c] \in Request
    BY <2>1 DEF TypeOK
  <2> QED BY <2>1, <2>2, <1>2
<1>7. CASE Send(c)
  <2>1. req[c] \in Request
    BY <1>7 DEF Send, TypeOK
  <2> QED BY <1>7, <2>1, SettleTypes DEF TypeOK, Send, inventory
<1>8. CASE Return(c)
  BY <1>8, SettleTypes DEF TypeOK, Return, inventory
<1> QED
  BY <1>3, <1>5, <1>6, <1>7, <1>8 DEF Tool

-----------------------------------------------------------------------------
(* What the checks on a call's input establish. *)

LEMMA SpaceGuardClears ==
    ASSUME NEW gg \in Guard, NEW s \in Names, CheckProtectedSpace(gg, s)
    PROVE  ~SpaceProtected(gg, Fold[s]) /\ ~SpaceProtected(gg, s)
<1>1. s # NoName /\ Fold[Fold[s]] = Fold[s]
  BY NameAssumption
<1> QED BY <1>1 DEF CheckProtectedSpace, SpaceProtected

(* No input gets past a tool's guards and validation unless it keeps clear   *)
(* of everything protected that the input alone can name.                    *)
LEMMA InputsAreChecked ==
    ASSUME TypeOK, NEW c \in Calls, NEW r \in Request,
           \/ ipCreate(c, r) \/ ipDelete(c, r) \/ ipUpdate(c, r)
           \/ subnetCreate(c, r) \/ subnetDelete(c, r) \/ subnetUpdate(c, r)
           \/ spaceCreate(c, r) \/ spaceDelete(c, r)
    PROVE  Entered(r) /\ \E stage \in {"lookup", "send"} :
                            /\ Enter(c, r, stage)
                            /\ (stage = "send" /\ r.op = "ip_create") => r.host # NoAddr
                            /\ (stage = "send" /\ r.op \in {"ip_update", "subnet_update"})
                                  => ~guardrailsNeedAddressLookup
                            /\ (stage = "send" /\ r.op = "subnet_delete")
                                  => g.ProtectedSubnets = {}
<1>g. g \in Guard /\ g.ProtectedSubnets \subseteq Subnet
  BY GuardAssumption DEF TypeOK, Guard
<1>s. ASSUME r.space \in OptName, CheckProtectedSpace(g, r.space), r.space # NoName
      PROVE  r.space \in Names /\ ~SpaceProtected(g, Fold[r.space])
  BY <1>s, <1>g, SpaceGuardClears DEF OptName
<1>1. CASE ipCreate(c, r)
  <2>1. r \in IPCreate
    BY <1>1, RequestShapes DEF ipCreate
  <2>2. r.space \in Names /\ ~SpaceProtected(g, Fold[r.space])
    BY <1>1, <1>s, <2>1 DEF ipCreate, checkIPCreateGuardrails, IPCreate
  <2>3. r.host = NoAddr \/ ~Fenced(g, r.host, r.host)
    BY <1>1, <1>g, <2>1, AddrGuardClears DEF ipCreate, checkIPCreateGuardrails, IPCreate, OptAddr
  <2> QED BY <1>1, <2>2, <2>3 DEF ipCreate, checkIPCreateGuardrails, Entered, CheckReadOnly
<1>2. CASE ipDelete(c, r)
  <2>1. r \in IPDelete
    BY <1>2, RequestShapes DEF ipDelete
  <2>2. r.space \in Names /\ ~SpaceProtected(g, Fold[r.space])
    BY <1>2, <1>s, <2>1 DEF ipDelete, IPDelete
  <2>3. ~Fenced(g, r.ip, r.ip)
    BY <1>2, <1>g, <2>1, AddrGuardClears DEF ipDelete, IPDelete, OptAddr
  <2> QED BY <1>2, <2>2, <2>3 DEF ipDelete, Entered, CheckReadOnly
<1>3. CASE ipUpdate(c, r)
  BY <1>3 DEF ipUpdate, Entered, CheckReadOnly
<1>4. CASE subnetCreate(c, r)
  <2>1. r \in SubnetCreate
    BY <1>4, RequestShapes DEF subnetCreate
  <2>2. r.space \in Names /\ ~SpaceProtected(g, Fold[r.space])
    BY <1>4, <1>s, <2>1 DEF subnetCreate, checkSubnetCreateGuardrails, SubnetCreate
  <2>3. ValidateSubnetPrefix(r.addr, r.bits)
    BY <1>4 DEF subnetCreate
  <2>4. r.addr \in Address /\ r.bits \in Bits /\ r.bits <= Width[r.addr]
    BY <2>1, <2>3 DEF SubnetCreate, ValidateSubnetPrefix, OptAddr, OptBits
  <2>5. CheckProtectedSubnet(g, canonicalCIDR(r.addr, r.bits))
    BY <1>4, <2>3 DEF subnetCreate, checkSubnetCreateGuardrails, CheckProtectedSubnetCIDR,
                      canonicalCIDROk, ValidateSubnetPrefix
  <2>6. ~Fenced(g, First[r.addr][r.bits], Last[r.addr][r.bits])
    BY <1>g, <2>4, <2>5, BlockGuardClears
  <2> QED BY <1>4, <2>2, <2>3, <2>6
          DEF subnetCreate, checkSubnetCreateGuardrails, Entered, CheckReadOnly
<1>5. CASE subnetDelete(c, r)
  <2>1. r \in SubnetDelete
    BY <1>5, RequestShapes DEF subnetDelete
  <2>2. r.space \in Names /\ ~SpaceProtected(g, Fold[r.space])
    BY <1>5, <1>s, <2>1 DEF subnetDelete, SubnetDelete
  <2> QED BY <1>5, <2>2 DEF subnetDelete, Entered, CheckReadOnly
<1>6. CASE subnetUpdate(c, r)
  BY <1>6 DEF subnetUpdate, Entered, CheckReadOnly
<1>7. CASE spaceCreate(c, r) \/ spaceDelete(c, r)
  <2>1. r \in SpaceEdit
    BY <1>7, RequestShapes DEF spaceCreate, spaceDelete
  <2>2. r.space \in Names /\ ~SpaceProtected(g, Fold[r.space])
    BY <1>7, <1>s, <2>1 DEF spaceCreate, spaceDelete, SpaceEdit
  <2> QED BY <1>7, <2>2 DEF spaceCreate, spaceDelete, Entered, CheckReadOnly
<1> QED BY <1>1, <1>2, <1>3, <1>4, <1>5, <1>6, <1>7

(* Entered speaks of the guardrails only, which never change.                *)
LEMMA EnteredIsStable ==
    ASSUME g' = g, NEW m
    PROVE  Entered(m)' <=> Entered(m)
  BY DEF Entered, SpaceProtected, Fenced, ValidateSubnetPrefix, ParsePrefix

(* The only request a call's step can add to the checked ones is its own.    *)
LEMMA OnlyOwnRequest ==
    ASSUME TypeOK, NEW c \in Calls,
           \/ \E r \in Request, stage \in {"lookup", "send"} : Enter(c, r, stage)
           \/ \E r \in Request : Pass(c, r)
           \/ Send(c) \/ Return(c)
    PROVE  /\ g' = g /\ inventory' = inventory /\ raced' = (raced /\ Checked' # {})
           /\ \A d \in Calls \ {c} : pc'[d] = pc[d] /\ req'[d] = req[d]
           /\ \A m \in Checked' : m \in Checked \/ (pc'[c] \in {"send", "wait"} /\ m = req'[c])
<1>1. g' = g /\ inventory' = inventory /\ raced' = (raced /\ Checked' # {})
  BY DEF Enter, Pass, Send, Return, Settle, inventory
<1>2. \A d \in Calls \ {c} : pc'[d] = pc[d] /\ req'[d] = req[d]
  BY DEF Enter, Pass, Send, Return, TypeOK
<1>3. \A m \in wire' : m \in wire \/ (pc'[c] \in {"send", "wait"} /\ m = req'[c])
  BY DEF Enter, Pass, Send, Return, TypeOK
<1> QED BY <1>1, <1>2, <1>3 DEF Checked

LEMMA EntryTool ==
    ASSUME TypeOK, EntryInv, NEW c \in Calls, Tool(c)
    PROVE  EntryInv'
<1>1. ASSUME NEW r \in Request, Entered(r), NEW stage \in {"lookup", "send"}, Enter(c, r, stage),
             (stage = "send" /\ r.op = "ip_create") => r.host # NoAddr
      PROVE  EntryInv'
  <2>1. pc'[c] = stage /\ req'[c] = r
    BY <1>1 DEF Enter, TypeOK
  <2> QED BY <1>1, <2>1, OnlyOwnRequest, EnteredIsStable DEF EntryInv
<1>2. ASSUME NEW r \in Request, Entered(r), Pass(c, r), r.op = "ip_create" => r.host # NoAddr
      PROVE  EntryInv'
  <2>1. pc'[c] = "send" /\ req'[c] = r
    BY <1>2 DEF Pass, TypeOK
  <2> QED BY <1>2, <2>1, OnlyOwnRequest, EnteredIsStable DEF EntryInv
<1>3. ASSUME NEW r \in Requests,
             \/ ipCreate(c, r) \/ ipDelete(c, r) \/ ipUpdate(c, r)
             \/ subnetCreate(c, r) \/ subnetDelete(c, r) \/ subnetUpdate(c, r)
             \/ spaceCreate(c, r) \/ spaceDelete(c, r)
      PROVE  EntryInv'
  BY <1>1, <1>3, InputsAreChecked, RequestAssumption
<1>5. CASE findFirstFreeIP(c)
  <2>1. PICK a \in Address : CheckProtectedAddr(g, a) /\ Pass(c, [req[c] EXCEPT !.host = a])
    BY <1>5 DEF findFirstFreeIP
  <2>2. pc[c] # "idle" /\ req[c] \in IPCreate /\ req[c].op = "ip_create"
    BY <1>5, <2>1, RequestShapes DEF findFirstFreeIP, Pass, TypeOK
  <2> DEFINE r == [req[c] EXCEPT !.host = a]
  <2>3. r \in IPCreate /\ r.host = a /\ r.op = "ip_create" /\ r.space = req[c].space
    BY <2>2 DEF IPCreate, OptAddr
  <2>4. r \in Request /\ r.host # NoAddr
    BY <2>3 DEF Request, Address, NoAddr
  <2>5. ~Fenced(g, a, a)
    BY <2>1, AddrGuardClears, GuardAssumption DEF TypeOK, Guard
  <2>6. Entered(r)
    BY <2>2, <2>3, <2>5 DEF EntryInv, Entered
  <2> QED BY <2>1, <2>4, <2>6, <1>2
<1>6. CASE \/ applyIPUpdateProtections(c)
           \/ applySubnetDeleteExtentProtection(c)
           \/ applySubnetUpdateProtections(c)
  <2>1. Pass(c, req[c]) /\ req[c].op # "ip_create"
    BY <1>6 DEF applyIPUpdateProtections, applySubnetDeleteExtentProtection,
                applySubnetUpdateProtections
  <2>2. req[c] \in Request /\ Entered(req[c])
    BY <2>1 DEF Pass, TypeOK, EntryInv
  <2> QED BY <2>1, <2>2, <1>2
<1>7. CASE Send(c)
  <2>1. pc'[c] = "wait" /\ req'[c] = req[c] /\ pc[c] \in {"send", "wait"}
    BY <1>7 DEF Send, TypeOK
  <2>2. req[c] \in Checked
    BY <2>1 DEF Checked
  <2> QED BY <1>7, <2>1, <2>2, OnlyOwnRequest, EnteredIsStable DEF EntryInv
<1>8. CASE Return(c)
  <2>1. pc'[c] = "idle"
    BY <1>8 DEF Return, TypeOK
  <2> QED BY <1>8, <2>1, OnlyOwnRequest, EnteredIsStable DEF EntryInv
<1> QED
  BY <1>3, <1>5, <1>6, <1>7, <1>8 DEF Tool

(* Neither the appliance nor an administrator adds a request.                *)
LEMMA EntryElsewhere ==
    ASSUME EntryInv, g' = g, pc' = pc, req' = req, wire' \subseteq wire
    PROVE  EntryInv' /\ Checked' \subseteq Checked
<1>1. Checked' \subseteq Checked
  BY DEF Checked
<1> QED BY <1>1, EnteredIsStable DEF EntryInv

-----------------------------------------------------------------------------
(* The appliance's and the administrators' steps: rows stay rows.            *)
LEMMA WireTypes ==
    ASSUME TypeOK, NEW m \in wire, Execute(m)
    PROVE  /\ m \in Request
           /\ g' \in Guards /\ pc' = pc /\ req' = req
           /\ wire' \subseteq Request /\ raced' \in BOOLEAN
  BY SettleTypes DEF TypeOK, Execute

LEMMA TypeAppliance ==
    ASSUME TypeOK, EntryInv, NEW m \in wire, Appliance(m)
    PROVE  TypeOK'
<1>1. Execute(m)
  BY DEF Appliance, Drop, IpamAddressAdd, IpamAddressDelete, IpamAddressEdit, IpamNetworkAdd,
         IpamNetworkDelete, IpamNetworkEdit, IpamSpaceAdd, IpamSpaceDelete
<1>2. m \in Request /\ g' \in Guards /\ pc' = pc /\ req' = req
      /\ wire' \subseteq Request /\ raced' \in BOOLEAN
  BY <1>1, WireTypes
<1>3. SUFFICES /\ spaces' \subseteq Space
               /\ nets' \in [NetIds -> NetRow \cup {Unused, Gone}]
               /\ addrs' \in [AddrIds -> AddrRow \cup {Unused, Gone}]
  BY <1>2 DEF TypeOK
<1>e. m \in Checked /\ Entered(m) /\ (m.op = "ip_create" => m.host # NoAddr)
  BY DEF Checked, EntryInv
<1>4. CASE Drop(m)
  BY <1>4 DEF Drop, TypeOK, inventory
<1>5. CASE IpamAddressAdd(m)
  <2>1. m \in IPCreate /\ Fold[m.space] \in Space
    BY <1>2, <1>5, RequestShapes DEF IpamAddressAdd, TypeOK
  <2>2. PICK i \in AddrIds : addrs' = [addrs EXCEPT ![i] =
                [space |-> Fold[m.space], ip |-> m.host, edited |-> FALSE]]
    BY <1>5 DEF IpamAddressAdd
  <2>3. m.host \in Address
    BY <2>1, <1>e, <1>5 DEF IPCreate, OptAddr, IpamAddressAdd
  <2> QED BY <1>5, <2>1, <2>2, <2>3 DEF IpamAddressAdd, TypeOK, AddrRow
<1>6. CASE IpamAddressDelete(m)
  BY <1>6 DEF IpamAddressDelete, TypeOK
<1>7. CASE IpamAddressEdit(m)
  <2>1. m.id \in AddrIds
    BY <1>2, <1>7, RequestShapes DEF IpamAddressEdit, IPUpdate
  <2>2. [addrs[m.id] EXCEPT !.edited = TRUE] \in AddrRow
    BY <1>7, <2>1 DEF IpamAddressEdit, AddrIn, TypeOK, AddrRow
  <2> QED BY <1>7, <2>1, <2>2 DEF IpamAddressEdit, TypeOK
<1>8. CASE IpamNetworkAdd(m)
  <2>1. m \in SubnetCreate /\ Fold[m.space] \in Space
    BY <1>2, <1>8, RequestShapes DEF IpamNetworkAdd, TypeOK
  <2>2. m.addr \in Address /\ m.bits \in Bits
    BY <2>1, <1>e, <1>8 DEF IpamNetworkAdd, Entered, ValidateSubnetPrefix, SubnetCreate,
                            OptAddr, OptBits
  <2> DEFINE row == [space |-> Fold[m.space], first |-> First[m.addr][m.bits],
                     last |-> Last[m.addr][m.bits], edited |-> FALSE]
  <2>3. row \in NetRow
    BY <2>1, <2>2, BlockTypes DEF NetRow
  <2>4. PICK i \in NetIds : nets' = [nets EXCEPT ![i] = row]
    BY <1>8 DEF IpamNetworkAdd
  <2> QED BY <1>8, <2>3, <2>4 DEF IpamNetworkAdd, TypeOK
<1>9. CASE IpamNetworkDelete(m)
  BY <1>9 DEF IpamNetworkDelete, TypeOK
<1>10. CASE IpamNetworkEdit(m)
  <2>1. m.id \in NetIds /\ m.bits \in OptBits /\ m.rename \in BOOLEAN
    BY <1>2, <1>10, RequestShapes DEF IpamNetworkEdit, SubnetUpdate
  <2>2. nets[m.id] \in NetRow
    BY <1>10, <2>1 DEF IpamNetworkEdit, NetIn, TypeOK
  <2>3. PICK row \in NetRow : nets' = [nets EXCEPT ![m.id] = row]
    BY <1>10, <2>1, <2>2, BlockTypes DEF IpamNetworkEdit, NetRow, OptBits
  <2> QED BY <1>10, <2>1, <2>3 DEF IpamNetworkEdit, TypeOK
<1>11. CASE IpamSpaceAdd(m)
  <2>1. m \in SpaceEdit /\ m.space \in Names
    BY <1>2, <1>e, <1>11, RequestShapes DEF IpamSpaceAdd, Entered
  <2> QED BY <1>11, <2>1, SpacesAreFolded DEF IpamSpaceAdd, TypeOK
<1>12. CASE IpamSpaceDelete(m)
  BY <1>12 DEF IpamSpaceDelete, TypeOK
<1> QED
  BY <1>4, <1>5, <1>6, <1>7, <1>8, <1>9, <1>10, <1>11, <1>12 DEF Appliance

LEMMA TypeAdministration ==
    ASSUME TypeOK, Administration
    PROVE  TypeOK'
<1>1. \A b \in Blocks : b.first \in Address /\ b.last \in Address
  BY BlockTypes DEF Blocks
<1>2. nets' \in [NetIds -> NetRow \cup {Unused, Gone}]
  <2>1. ASSUME NEW i \in NetIds, NEW s \in spaces, NEW b \in Blocks
        PROVE  [space |-> s, first |-> b.first, last |-> b.last, edited |-> FALSE] \in NetRow
    BY <1>1 DEF NetRow, TypeOK
  <2> QED BY <2>1 DEF Administration, TypeOK
<1>3. addrs' \in [AddrIds -> AddrRow \cup {Unused, Gone}]
  <2>1. ASSUME NEW s \in spaces, NEW a \in Address
        PROVE  [space |-> s, ip |-> a, edited |-> FALSE] \in AddrRow
    BY DEF AddrRow, TypeOK
  <2> QED BY <2>1 DEF Administration, TypeOK
<1> QED BY <1>2, <1>3 DEF Administration, TypeOK

(* Every reachable state is well typed, and a request past its first checks  *)
(* names nothing protected, not even after the lookup of ip_create.          *)
THEOREM TypeCorrect == Spec => [](TypeOK /\ EntryInv)
<1>1. Init => TypeOK /\ EntryInv
  <2>1. Init => Checked = {} /\ \A c \in Calls : pc[c] = "idle"
    BY DEF Init, Checked
  <2> QED BY <2>1, TypeInit DEF EntryInv
<1>2. TypeOK /\ EntryInv /\ [Next]_vars => (TypeOK /\ EntryInv)'
  <2> SUFFICES ASSUME TypeOK, EntryInv, [Next]_vars PROVE (TypeOK /\ EntryInv)'
    OBVIOUS
  <2>1. ASSUME NEW c \in Calls, Tool(c) PROVE (TypeOK /\ EntryInv)'
    BY <2>1, TypeTool, EntryTool
  <2>2. ASSUME NEW m \in wire, Appliance(m) PROVE (TypeOK /\ EntryInv)'
    <3>1. Execute(m)
      BY <2>2 DEF Appliance, Drop, IpamAddressAdd, IpamAddressDelete, IpamAddressEdit,
                  IpamNetworkAdd, IpamNetworkDelete, IpamNetworkEdit, IpamSpaceAdd, IpamSpaceDelete
    <3>2. g' = g /\ pc' = pc /\ req' = req /\ wire' \subseteq wire
      BY <3>1 DEF Execute
    <3> QED BY <2>2, <3>2, TypeAppliance, EntryElsewhere
  <2>3. CASE Administration
    <3>1. g' = g /\ pc' = pc /\ req' = req /\ wire' \subseteq wire
      BY <2>3 DEF Administration
    <3> QED BY <2>3, <3>1, TypeAdministration, EntryElsewhere
  <2>4. CASE UNCHANGED vars
    <3>1. g' = g /\ pc' = pc /\ req' = req /\ wire' \subseteq wire
      BY <2>4 DEF vars
    <3>2. TypeOK'
      BY <2>4 DEF vars, inventory, TypeOK
    <3> QED BY <3>1, <3>2, EntryElsewhere
  <2> QED BY <2>1, <2>2, <2>3, <2>4 DEF Next
<1> QED BY <1>1, <1>2, PTL DEF Spec

-----------------------------------------------------------------------------
(* What the lookups establish. *)

LEMMA NothingToProtect ==
    ASSUME ~guardrailsNeedAddressLookup
    PROVE  /\ \A s, lo, hi : ~SpaceProtected(g, s) /\ ~Fenced(g, lo, hi)
           /\ \A row : ~NetProtected(row) /\ ~AddrProtected(row)
  BY DEF guardrailsNeedAddressLookup, SpaceProtected, Fenced, NetProtected, AddrProtected

LEMMA AddressLookupVerifies ==
    ASSUME TypeOK, NEW c \in Calls, applyIPUpdateProtections(c)
    PROVE  Verified(req[c])
<1>g. g \in Guard /\ g.ProtectedSubnets \subseteq Subnet
  BY GuardAssumption DEF TypeOK, Guard
<1>1. req[c].op = "ip_update" /\ AddrIn(req[c].id) /\ req[c] \in IPUpdate
  BY RequestShapes DEF applyIPUpdateProtections, Pass, TypeOK
<1> DEFINE row == addrs[req[c].id]
<1>2. row \in AddrRow
  BY <1>1 DEF AddrIn, TypeOK, IPUpdate
<1>3. PICK hostaddr \in Seen(row.ip, NoAddr), space \in Seen(row.space, NoName) :
          /\ ~(g.ProtectedSubnets # {} /\ hostaddr = NoAddr)
          /\ CheckProtectedAddr(g, hostaddr)
          /\ ~(g.ProtectedSpaces # {} /\ space = NoName)
          /\ CheckProtectedSpace(g, space)
  BY DEF applyIPUpdateProtections
<1>4. ~Fenced(g, row.ip, row.ip)
  <2>1. CASE g.ProtectedSubnets = {}
    BY <2>1 DEF Fenced
  <2>2. CASE hostaddr = row.ip
    BY <2>2, <1>g, <1>2, <1>3, AddrGuardClears DEF AddrRow
  <2> QED BY <1>3, <2>1, <2>2 DEF Seen
<1>5. ~SpaceProtected(g, row.space)
  <2>1. CASE g.ProtectedSpaces = {}
    BY <2>1 DEF SpaceProtected
  <2>2. CASE space = row.space
    BY <2>2, <1>g, <1>2, <1>3, SpaceGuardClears, SpacesAreFolded DEF AddrRow, Space
  <2> QED BY <1>3, <2>1, <2>2 DEF Seen
<1> QED BY <1>1, <1>4, <1>5 DEF Verified, AddrProtected

LEMMA DeleteLookupVerifies ==
    ASSUME TypeOK, EntryInv, NEW c \in Calls, applySubnetDeleteExtentProtection(c)
    PROVE  Verified(req[c])
<1>g. g \in Guard /\ g.ProtectedSubnets \subseteq Subnet
  BY GuardAssumption DEF TypeOK, Guard
<1>1. req[c].op = "subnet_delete" /\ ~SpaceProtected(g, Fold[req[c].space])
  BY DEF applySubnetDeleteExtentProtection, Pass, EntryInv, Entered
<1>2. ASSUME NEW i \in NetIds, NetIn(i), nets[i].space = Fold[req[c].space],
             nets[i].first = req[c].addr
      PROVE  ~NetProtected(nets[i])
  <2>1. nets[i] \in NetRow
    BY <1>2 DEF NetIn, TypeOK
  <2>2. ~overlappingProtectedSubnet(g, nets[i].first, nets[i].last)
    BY <1>2 DEF applySubnetDeleteExtentProtection, Seen
  <2>3. ~Fenced(g, nets[i].first, nets[i].last)
    BY <1>g, <2>1, <2>2, RangeGuardClears DEF NetRow
  <2> QED BY <1>1, <1>2, <2>3 DEF NetProtected
<1> QED BY <1>1, <1>2 DEF Verified

LEMMA UpdateLookupVerifies ==
    ASSUME TypeOK, NEW c \in Calls, applySubnetUpdateProtections(c)
    PROVE  Verified(req[c])
<1>g. g \in Guard /\ g.ProtectedSubnets \subseteq Subnet
  BY GuardAssumption DEF TypeOK, Guard
<1>1. req[c].op = "subnet_update" /\ NetIn(req[c].id) /\ req[c] \in SubnetUpdate
  BY RequestShapes DEF applySubnetUpdateProtections, Pass, TypeOK
<1> DEFINE row == nets[req[c].id]
           n   == req[c].bits
<1>2. row \in NetRow /\ row # Unused /\ n \in OptBits
  BY <1>1 DEF NetIn, TypeOK, SubnetUpdate
<1>3. PICK start \in Seen(row.first, NoAddr), end \in Seen(row.last, NoAddr),
           space \in Seen(row.space, NoName) :
          /\ ~(g.ProtectedSubnets # {} /\ (start = NoAddr \/ end = NoAddr))
          /\ ~overlappingProtectedSubnet(g, start, end)
          /\ (n # NoBits /\ start # NoAddr) =>
                /\ canonicalCIDROk(start, n)
                /\ CheckProtectedSubnet(g, canonicalCIDR(start, n))
          /\ ~(g.ProtectedSpaces # {} /\ space = NoName)
          /\ CheckProtectedSpace(g, space)
  BY DEF applySubnetUpdateProtections
<1>4. /\ ~Fenced(g, row.first, row.last)
      /\ (n # NoBits /\ n <= Width[row.first]) => ~Fenced(g, First[row.first][n], Last[row.first][n])
  <2>1. CASE g.ProtectedSubnets = {}
    BY <2>1 DEF Fenced
  <2>2. CASE start = row.first /\ end = row.last
    <3>1. ~Fenced(g, row.first, row.last)
      BY <2>2, <1>g, <1>2, <1>3, RangeGuardClears DEF NetRow
    <3>2. row.first \in Address /\ row.first # NoAddr
      BY <1>2 DEF NetRow, Address, NoAddr
    <3>3. ASSUME n # NoBits, n <= Width[row.first]
          PROVE  ~Fenced(g, First[row.first][n], Last[row.first][n])
      BY <3>2, <3>3, <2>2, <1>g, <1>2, <1>3, BlockGuardClears DEF OptBits
    <3> QED BY <3>1, <3>3
  <2> QED BY <1>3, <2>1, <2>2 DEF Seen
<1>5. ~SpaceProtected(g, row.space)
  <2>1. CASE g.ProtectedSpaces = {}
    BY <2>1 DEF SpaceProtected
  <2>2. CASE space = row.space
    BY <2>2, <1>g, <1>2, <1>3, SpaceGuardClears, SpacesAreFolded DEF NetRow, Space
  <2> QED BY <1>3, <2>1, <2>2 DEF Seen
<1> QED BY <1>1, <1>2, <1>4, <1>5 DEF Verified, NetProtected

LEMMA VerifiedIsStable ==
    ASSUME g' = g, inventory' = inventory, NEW m
    PROVE  Verified(m)' <=> Verified(m)
  BY DEF inventory, Verified, NetIn, AddrIn, NetProtected, AddrProtected, SpaceProtected, Fenced,
         guardrailsNeedAddressLookup, ParsePrefix

LEMMA VerifyTool ==
    ASSUME TypeOK, EntryInv, VerifyInv, NEW c \in Calls, Tool(c)
    PROVE  VerifyInv'
<1>1. ASSUME NEW r \in Request, NEW stage \in {"lookup", "send"}, Enter(c, r, stage),
             stage = "send" => Verified(r)
      PROVE  VerifyInv'
  <2>1. pc'[c] = stage /\ req'[c] = r
    BY <1>1 DEF Enter, TypeOK
  <2> QED BY <1>1, <2>1, OnlyOwnRequest, VerifiedIsStable DEF VerifyInv
<1>2. ASSUME NEW r \in Request, Verified(r), Pass(c, r)
      PROVE  VerifyInv'
  <2>1. pc'[c] = "send" /\ req'[c] = r
    BY <1>2 DEF Pass, TypeOK
  <2> QED BY <1>2, <2>1, OnlyOwnRequest, VerifiedIsStable DEF VerifyInv
<1>3. ASSUME NEW r \in Requests,
             \/ ipCreate(c, r) \/ ipDelete(c, r) \/ ipUpdate(c, r)
             \/ subnetCreate(c, r) \/ subnetDelete(c, r) \/ subnetUpdate(c, r)
             \/ spaceCreate(c, r) \/ spaceDelete(c, r)
      PROVE  VerifyInv'
  <2>1. r \in Request
    BY RequestAssumption
  <2>2. Entered(r)
    BY <1>3, <2>1, InputsAreChecked
  <2>3. PICK stage \in {"lookup", "send"} :
            /\ Enter(c, r, stage)
            /\ (stage = "send" /\ r.op \in {"ip_update", "subnet_update"})
                  => ~guardrailsNeedAddressLookup
            /\ (stage = "send" /\ r.op = "subnet_delete") => g.ProtectedSubnets = {}
    BY <1>3, <2>1, InputsAreChecked
  <2>4. ASSUME stage = "send" PROVE Verified(r)
    <3>1. r.op \in {"ip_update", "subnet_update"} => Verified(r)
      BY <2>3, <2>4, NothingToProtect DEF Verified
    <3>2. r.op = "subnet_delete" => Verified(r)
      BY <2>2, <2>3, <2>4 DEF Verified, Entered, NetProtected, Fenced
    <3>3. r.op \notin {"ip_update", "subnet_update", "subnet_delete"} => Verified(r)
      BY DEF Verified
    <3> QED BY <3>1, <3>2, <3>3
  <2> QED BY <2>1, <2>3, <2>4, <1>1
<1>4. CASE findFirstFreeIP(c)
  <2>1. PICK a \in Address : Pass(c, [req[c] EXCEPT !.host = a])
    BY <1>4 DEF findFirstFreeIP
  <2>2. req[c] \in IPCreate
    BY <1>4, <2>1, RequestShapes DEF findFirstFreeIP, Pass, TypeOK
  <2>3. [req[c] EXCEPT !.host = a] \in IPCreate
    BY <2>2 DEF IPCreate, OptAddr
  <2>4. [req[c] EXCEPT !.host = a] \in Request
    BY <2>3 DEF Request
  <2>5. Verified([req[c] EXCEPT !.host = a])
    BY <2>3 DEF IPCreate, Verified
  <2> QED BY <2>1, <2>4, <2>5, <1>2
<1>5. CASE \/ applyIPUpdateProtections(c)
           \/ applySubnetDeleteExtentProtection(c)
           \/ applySubnetUpdateProtections(c)
  <2>1. Pass(c, req[c])
    BY <1>5 DEF applyIPUpdateProtections, applySubnetDeleteExtentProtection,
                applySubnetUpdateProtections
  <2>2. req[c] \in Request
    BY <2>1 DEF Pass, TypeOK
  <2>3. Verified(req[c])
    BY <1>5, AddressLookupVerifies, DeleteLookupVerifies, UpdateLookupVerifies
  <2> QED BY <2>1, <2>2, <2>3, <1>2
<1>6. CASE Send(c)
  <2>1. pc'[c] = "wait" /\ req'[c] = req[c] /\ pc[c] \in {"send", "wait"}
    BY <1>6 DEF Send, TypeOK
  <2>2. req[c] \in Checked
    BY <2>1 DEF Checked
  <2> QED BY <1>6, <2>1, <2>2, OnlyOwnRequest, VerifiedIsStable DEF VerifyInv
<1>7. CASE Return(c)
  <2>1. pc'[c] = "idle"
    BY <1>7 DEF Return, TypeOK
  <2> QED BY <1>7, <2>1, OnlyOwnRequest, VerifiedIsStable DEF VerifyInv
<1> QED
  BY <1>3, <1>4, <1>5, <1>6, <1>7 DEF Tool

-----------------------------------------------------------------------------
(* What a verified mutation does to a row when the appliance executes it. *)

NetStep(i) ==
    \/ nets'[i] = nets[i]
    \/ /\ NetIn(i) /\ nets'[i] = Gone
       /\ ~NetProtected(nets[i]) \/ LostWithSpace(nets[i].space)
    \/ nets[i] = Unused /\ nets'[i] \in NetRow /\ ~NetProtected(nets'[i])
    \/ /\ NetIn(i) /\ ~NetProtected(nets[i])
       /\ nets'[i] \in NetRow /\ nets'[i].space = nets[i].space
       /\ \/ nets'[i].first = nets[i].first /\ nets'[i].last = nets[i].last
          \/ \E n \in Bits :
                /\ n <= Width[nets[i].first]
                /\ nets'[i].first = First[nets[i].first][n]
                /\ nets'[i].last = Last[nets[i].first][n]
                /\ ~Fenced(g, nets'[i].first, nets'[i].last)

AddrStep(i) ==
    \/ addrs'[i] = addrs[i]
    \/ /\ AddrIn(i) /\ addrs'[i] = Gone
       /\ ~AddrProtected(addrs[i]) \/ LostWithSpace(addrs[i].space)
    \/ addrs[i] = Unused /\ addrs'[i] \in AddrRow /\ ~AddrProtected(addrs'[i])
    \/ /\ AddrIn(i) /\ ~AddrProtected(addrs[i])
       /\ addrs'[i] \in AddrRow
       /\ addrs'[i].space = addrs[i].space /\ addrs'[i].ip = addrs[i].ip

LEMMA RowSteps ==
    ASSUME Inv, ~raced, NEW m \in wire, Appliance(m)
    PROVE  /\ \A i \in NetIds : NetStep(i)
           /\ \A i \in AddrIds : AddrStep(i)
           /\ g' = g
           /\ \A s \in Space : (s \in spaces /\ s \notin spaces') => ~SpaceProtected(g, s)
           /\ \A s \in Space : (s \in spaces' /\ s \notin spaces) => ~SpaceProtected(g, s)
<1>e. /\ m \in Checked /\ Entered(m) /\ Verified(m) /\ m \in Request
      /\ m.op = "ip_create" => m.host # NoAddr
      /\ g \in Guard /\ g.ProtectedSubnets \subseteq Subnet
  BY GuardAssumption DEF Inv, Checked, EntryInv, VerifyInv, TypeOK, Guard
<1>f. g' = g
  BY DEF Appliance, Execute, Drop, IpamAddressAdd, IpamAddressDelete, IpamAddressEdit,
         IpamNetworkAdd, IpamNetworkDelete, IpamNetworkEdit, IpamSpaceAdd, IpamSpaceDelete
<1>n. ASSUME nets' = nets PROVE \A i \in NetIds : NetStep(i)
  BY <1>n DEF NetStep
<1>a. ASSUME addrs' = addrs PROVE \A i \in AddrIds : AddrStep(i)
  BY <1>a DEF AddrStep
<1>t. /\ \A i \in NetIds : NetIn(i) => nets[i] \in NetRow
      /\ \A i \in AddrIds : AddrIn(i) => addrs[i] \in AddrRow
      /\ nets \in [NetIds -> NetRow \cup {Unused, Gone}]
      /\ addrs \in [AddrIds -> AddrRow \cup {Unused, Gone}]
  BY DEF Inv, TypeOK, NetIn, AddrIn
<1>1. CASE Drop(m)
  BY <1>1, <1>f, <1>n, <1>a DEF Drop, inventory
<1>2. CASE IpamAddressAdd(m)
  <2> DEFINE row == [space |-> Fold[m.space], ip |-> m.host, edited |-> FALSE]
  <2>1. m \in IPCreate /\ m.space \in Names /\ ~SpaceProtected(g, Fold[m.space])
    BY <1>2, <1>e, RequestShapes DEF IpamAddressAdd, Entered
  <2>2. row \in AddrRow
    BY <1>2, <1>e, <2>1, SpacesAreFolded DEF IpamAddressAdd, AddrRow, IPCreate, OptAddr
  <2>3. ~AddrProtected(row)
    BY <1>2, <1>e, <2>1 DEF IpamAddressAdd, Entered, AddrProtected
  <2>4. PICK i \in AddrIds : addrs[i] = Unused /\ addrs' = [addrs EXCEPT ![i] = row]
    BY <1>2 DEF IpamAddressAdd
  <2>5. \A j \in AddrIds : AddrStep(j)
    BY <2>2, <2>3, <2>4, <1>t DEF AddrStep
  <2> QED BY <1>2, <1>f, <1>n, <2>5 DEF IpamAddressAdd
<1>3. CASE IpamAddressDelete(m)
  <2>1. ~Fenced(g, m.ip, m.ip) /\ ~SpaceProtected(g, Fold[m.space])
    BY <1>3, <1>e DEF IpamAddressDelete, Entered
  <2>2. \A j \in AddrIds : AddrStep(j)
    BY <1>3, <2>1 DEF IpamAddressDelete, AddrStep, AddrProtected
  <2> QED BY <1>3, <1>f, <1>n, <2>2 DEF IpamAddressDelete
<1>4. CASE IpamAddressEdit(m)
  <2> DEFINE row == [addrs[m.id] EXCEPT !.edited = TRUE]
  <2>1. m.id \in AddrIds /\ AddrIn(m.id) /\ addrs[m.id] \in AddrRow
    BY <1>4, <1>e, <1>t, RequestShapes DEF IpamAddressEdit, IPUpdate
  <2>2. ~AddrProtected(addrs[m.id])
    BY <1>4, <1>e, <2>1 DEF IpamAddressEdit, Verified
  <2>3. row \in AddrRow /\ row.space = addrs[m.id].space /\ row.ip = addrs[m.id].ip
    BY <2>1 DEF AddrRow
  <2>4. addrs' = [addrs EXCEPT ![m.id] = row]
    BY <1>4 DEF IpamAddressEdit
  <2>5. \A j \in AddrIds : AddrStep(j)
    BY <1>t, <2>1, <2>2, <2>3, <2>4 DEF AddrStep
  <2> QED BY <1>4, <1>f, <1>n, <2>5 DEF IpamAddressEdit
<1>5. CASE IpamNetworkAdd(m)
  <2> DEFINE row == [space |-> Fold[m.space], first |-> First[m.addr][m.bits],
                     last |-> Last[m.addr][m.bits], edited |-> FALSE]
  <2>1. m \in SubnetCreate /\ m.space \in Names /\ ~SpaceProtected(g, Fold[m.space])
    BY <1>5, <1>e, RequestShapes DEF IpamNetworkAdd, Entered
  <2>2. m.addr \in Address /\ m.bits \in Bits
    BY <1>5, <1>e, <2>1 DEF IpamNetworkAdd, Entered, ValidateSubnetPrefix, SubnetCreate,
                            OptAddr, OptBits
  <2>3. row \in NetRow
    BY <2>1, <2>2, BlockTypes, SpacesAreFolded DEF NetRow
  <2>4. ~NetProtected(row)
    BY <1>5, <1>e, <2>1 DEF IpamNetworkAdd, Entered, NetProtected
  <2>5. PICK i \in NetIds : nets[i] = Unused /\ nets' = [nets EXCEPT ![i] = row]
    BY <1>5 DEF IpamNetworkAdd
  <2>6. \A j \in NetIds : NetStep(j)
    BY <2>3, <2>4, <2>5, <1>t DEF NetStep
  <2> QED BY <1>5, <1>f, <1>a, <2>6 DEF IpamNetworkAdd
<1>6. CASE IpamNetworkDelete(m)
  <2>1. PICK i \in NetIds :
          /\ NetIn(i) /\ nets[i].space = Fold[m.space] /\ nets[i].first = m.addr
          /\ \E nested \in SUBSET {j \in NetIds :
                    /\ NetIn(j) /\ nets[j].space = nets[i].space
                    /\ nets[i].first <= nets[j].first /\ nets[j].last <= nets[i].last} :
                nets' = [j \in NetIds |-> IF j = i \/ j \in nested THEN Gone ELSE nets[j]]
          /\ addrs' = [j \in AddrIds |->
                IF /\ AddrIn(j) /\ addrs[j].space = nets[i].space
                   /\ nets[i].first <= addrs[j].ip /\ addrs[j].ip <= nets[i].last
                  THEN Gone ELSE addrs[j]]
    BY <1>6 DEF IpamNetworkDelete
  <2>2. ~SpaceProtected(g, nets[i].space) /\ ~Fenced(g, nets[i].first, nets[i].last)
    BY <1>6, <1>e, <2>1 DEF IpamNetworkDelete, Verified, NetProtected
  <2>3. nets[i].first \in Int /\ nets[i].last \in Int
    BY <1>t, <2>1 DEF NetRow, Address
  <2>4. ASSUME NEW j \in NetIds, NetIn(j), nets[j].space = nets[i].space,
               nets[i].first <= nets[j].first, nets[j].last <= nets[i].last
        PROVE  ~NetProtected(nets[j])
    <3>1. nets[j].first \in Int /\ nets[j].last \in Int
      BY <1>t, <2>4 DEF NetRow, Address
    <3> QED BY <1>e, <2>2, <2>3, <2>4, <3>1, ClearIsHereditary DEF NetProtected
  <2>5. ASSUME NEW j \in AddrIds, AddrIn(j), addrs[j].space = nets[i].space,
               nets[i].first <= addrs[j].ip, addrs[j].ip <= nets[i].last
        PROVE  ~AddrProtected(addrs[j])
    <3>1. addrs[j].ip \in Int
      BY <1>t, <2>5 DEF AddrRow, Address
    <3> QED BY <1>e, <2>2, <2>3, <2>5, <3>1, ClearIsHereditary DEF AddrProtected
  <2>6. \A j \in NetIds : NetStep(j)
    BY <2>1, <2>2, <2>4 DEF NetStep, NetProtected
  <2>7. \A j \in AddrIds : AddrStep(j)
    BY <2>1, <2>5 DEF AddrStep
  <2> QED BY <1>6, <1>f, <2>6, <2>7 DEF IpamNetworkDelete
<1>7. CASE IpamNetworkEdit(m)
  <2> DEFINE row == nets[m.id]
  <2>1. m \in SubnetUpdate /\ m.id \in NetIds /\ NetIn(m.id) /\ row \in NetRow
    BY <1>7, <1>e, <1>t, RequestShapes DEF IpamNetworkEdit, SubnetUpdate
  <2>2. ~NetProtected(row)
    BY <1>7, <1>e, <2>1 DEF IpamNetworkEdit, Verified
  <2>3. CASE m.bits = NoBits
    <3>1. PICK e \in BOOLEAN : nets' = [nets EXCEPT ![m.id] = [row EXCEPT !.edited = e]]
      BY <1>7, <2>1, <2>3 DEF IpamNetworkEdit, SubnetUpdate, NetRow
    <3>2. /\ [row EXCEPT !.edited = e] \in NetRow
          /\ [row EXCEPT !.edited = e].space = row.space
          /\ [row EXCEPT !.edited = e].first = row.first
          /\ [row EXCEPT !.edited = e].last = row.last
      BY <2>1 DEF NetRow
    <3>3. \A j \in NetIds : NetStep(j)
      BY <1>t, <2>1, <2>2, <3>1, <3>2 DEF NetStep
    <3> QED BY <1>7, <1>f, <1>a, <3>3 DEF IpamNetworkEdit
  <2>4. CASE m.bits # NoBits
    <3>1. m.bits \in Bits /\ m.bits <= Width[row.first] /\ row.first \in Address
      BY <1>7, <2>1, <2>4 DEF IpamNetworkEdit, SubnetUpdate, OptBits, NetRow
    <3>2. PICK e \in BOOLEAN : nets' = [nets EXCEPT ![m.id] =
                [space |-> row.space, edited |-> e, first |-> First[row.first][m.bits],
                 last |-> Last[row.first][m.bits]]]
      BY <1>7, <2>1, <2>4 DEF IpamNetworkEdit, SubnetUpdate, NetRow
    <3> DEFINE new == [space |-> row.space, edited |-> e, first |-> First[row.first][m.bits],
                       last |-> Last[row.first][m.bits]]
    <3>3. new \in NetRow
      BY <2>1, <3>1, BlockTypes DEF NetRow
    <3>4. ~Fenced(g, new.first, new.last)
      BY <1>7, <1>e, <2>1, <2>4, <3>1 DEF IpamNetworkEdit, Verified
    <3>5. \A j \in NetIds : NetStep(j)
      <4>1. nets'[m.id] = new /\ \A j \in NetIds : j # m.id => nets'[j] = nets[j]
        BY <1>t, <2>1, <3>2
      <4>2. /\ new.space = row.space
            /\ new.first = First[row.first][m.bits] /\ new.last = Last[row.first][m.bits]
        OBVIOUS
      <4>3. \E n \in Bits :
                /\ n <= Width[row.first]
                /\ nets'[m.id].first = First[row.first][n]
                /\ nets'[m.id].last = Last[row.first][n]
                /\ ~Fenced(g, nets'[m.id].first, nets'[m.id].last)
        <5> HIDE DEF new, row
        <5> QED BY <4>1, <4>2, <3>1, <3>4
      <4>4. nets'[m.id].space = row.space /\ nets'[m.id] \in NetRow
        BY <4>1, <4>2, <3>3
      <4>5. NetStep(m.id)
        BY <4>3, <4>4, <2>1, <2>2 DEF NetStep
      <4> QED BY <4>1, <4>5 DEF NetStep
    <3> QED BY <1>7, <1>f, <1>a, <3>5 DEF IpamNetworkEdit
  <2> QED BY <2>3, <2>4
<1>8. CASE IpamSpaceAdd(m)
  <2>1. ~SpaceProtected(g, Fold[m.space])
    BY <1>8, <1>e DEF IpamSpaceAdd, Entered
  <2> QED BY <1>8, <1>f, <1>n, <1>a, <2>1 DEF IpamSpaceAdd
<1>9. CASE IpamSpaceDelete(m)
  <2>1. ~SpaceProtected(g, Fold[m.space])
    BY <1>9, <1>e DEF IpamSpaceDelete, Entered
  <2>2. \A j \in NetIds : NetStep(j)
    BY <1>9 DEF IpamSpaceDelete, NetStep, LostWithSpace
  <2>3. \A j \in AddrIds : AddrStep(j)
    BY <1>9 DEF IpamSpaceDelete, AddrStep, LostWithSpace
  <2> QED BY <1>9, <1>f, <2>1, <2>2, <2>3 DEF IpamSpaceDelete
<1> QED
  BY <1>1, <1>2, <1>3, <1>4, <1>5, <1>6, <1>7, <1>8, <1>9 DEF Appliance

-----------------------------------------------------------------------------
(* The other checked mutations stay verified. *)

LEMMA VerifyAppliance ==
    ASSUME Inv, NEW m \in wire, Appliance(m)
    PROVE  VerifyInv'
<1>1. /\ Execute(m) /\ wire' \subseteq wire /\ pc' = pc /\ req' = req
      /\ raced' = (raced /\ Checked' # {})
  BY DEF Appliance, Execute, Settle, Drop, IpamAddressAdd, IpamAddressDelete, IpamAddressEdit,
         IpamNetworkAdd, IpamNetworkDelete, IpamNetworkEdit, IpamSpaceAdd, IpamSpaceDelete
<1>2. Checked' \subseteq Checked
  BY <1>1 DEF Checked
<1>3. SUFFICES ASSUME NEW k \in Checked', ~raced' PROVE Verified(k)'
  BY DEF VerifyInv
<1>4. ~raced /\ k \in Checked /\ Verified(k) /\ k \in Request /\ g.ProtectedSubnets \subseteq Subnet
  BY <1>1, <1>2, <1>3, GuardAssumption DEF Inv, VerifyInv, Checked, TypeOK, Guard
<1>5. /\ \A i \in NetIds : NetStep(i)
      /\ \A i \in AddrIds : AddrStep(i)
      /\ g' = g
  BY <1>4, RowSteps
<1>6. /\ \A row : NetProtected(row)' = NetProtected(row) /\ AddrProtected(row)' = AddrProtected(row)
      /\ \A lo, hi : Fenced(g, lo, hi)' = Fenced(g, lo, hi)
      /\ guardrailsNeedAddressLookup' = guardrailsNeedAddressLookup
  BY <1>5 DEF NetProtected, AddrProtected, SpaceProtected, Fenced, ParsePrefix,
              guardrailsNeedAddressLookup
<1>t. /\ \A i \in NetIds : NetIn(i) => nets[i] \in NetRow
      /\ \A i \in NetIds : nets[i] = Unused => ~NetIn(i)
      /\ \A i \in NetIds : NetIn(i) => nets[i] # Unused /\ nets[i] # Gone
  BY DEF Inv, TypeOK, NetIn
<1>7. CASE k.op = "ip_update"
  <2>1. k.id \in AddrIds
    BY <1>4, <1>7, RequestShapes DEF IPUpdate
  <2>2. AddrIn(k.id)' => ~AddrProtected(addrs'[k.id])
    BY <1>4, <1>5, <1>7, <2>1 DEF AddrStep, AddrIn, Verified, AddrProtected
  <2> QED BY <1>6, <1>7, <2>2 DEF Verified
<1>8. CASE k.op = "subnet_delete"
  <2>1. ASSUME NEW i \in NetIds, NetIn(i)', nets'[i].space = Fold[k.space],
               nets'[i].first = k.addr
        PROVE  ~NetProtected(nets'[i])
    <3>1. CASE nets'[i] = nets[i]
      BY <3>1, <2>1, <1>4, <1>8 DEF Verified, NetIn
    <3>2. CASE NetIn(i) /\ nets'[i] = Gone
      BY <3>2, <2>1 DEF NetIn
    <3>3. CASE nets[i] = Unused /\ ~NetProtected(nets'[i])
      BY <3>3
    <3>4. CASE /\ NetIn(i) /\ ~NetProtected(nets[i])
               /\ nets'[i].space = nets[i].space
               /\ \/ nets'[i].first = nets[i].first /\ nets'[i].last = nets[i].last
                  \/ ~Fenced(g, nets'[i].first, nets'[i].last)
      BY <3>4 DEF NetProtected
    <3> QED BY <1>5, <3>1, <3>2, <3>3, <3>4 DEF NetStep
  <2> QED BY <1>6, <1>8, <2>1 DEF Verified
<1>9. CASE k.op = "subnet_update"
  <2> DEFINE old == nets[k.id]
             new == nets'[k.id]
  <2>1. k \in SubnetUpdate /\ k.id \in NetIds /\ k.bits \in OptBits
    BY <1>4, <1>9, RequestShapes DEF SubnetUpdate
  <2>2. guardrailsNeedAddressLookup => old # Unused
    BY <1>4, <1>9 DEF Verified
  <2>3. guardrailsNeedAddressLookup => new # Unused
    BY <1>5, <2>1, <2>2 DEF NetStep, NetRow, Unused, Gone
  <2>4. ASSUME NetIn(k.id)'
        PROVE  /\ ~NetProtected(new)
               /\ (k.bits # NoBits /\ k.bits <= Width[new.first]) =>
                     ~Fenced(g, First[new.first][k.bits], Last[new.first][k.bits])
    <3>1. CASE new = old
      BY <3>1, <2>4, <1>4, <1>9 DEF Verified, NetIn
    <3>2. CASE NetIn(k.id) /\ new = Gone
      BY <3>2, <2>4 DEF NetIn
    <3>3. CASE old = Unused
      BY <3>3, <2>2, NothingToProtect
    <3>4. CASE /\ NetIn(k.id) /\ ~NetProtected(old) /\ new \in NetRow /\ new.space = old.space
               /\ new.first = old.first /\ new.last = old.last
      BY <3>4, <1>4, <1>9 DEF Verified, NetProtected
    <3>5. ASSUME NetIn(k.id), ~NetProtected(old), new \in NetRow, new.space = old.space,
                 NEW n \in Bits, n <= Width[old.first], new.first = First[old.first][n],
                 new.last = Last[old.first][n], ~Fenced(g, new.first, new.last)
          PROVE  /\ ~NetProtected(new)
                 /\ (k.bits # NoBits /\ k.bits <= Width[new.first]) =>
                       ~Fenced(g, First[new.first][k.bits], Last[new.first][k.bits])
      <4>1. ~NetProtected(new)
        BY <3>5 DEF NetProtected
      <4>2. ASSUME k.bits # NoBits, k.bits <= Width[new.first]
            PROVE  ~Fenced(g, First[new.first][k.bits], Last[new.first][k.bits])
        <5>1. old.first \in Address /\ k.bits \in Bits
          BY <1>t, <2>1, <3>5, <4>2 DEF NetRow, OptBits
        <5>2. Width[First[old.first][n]] = Width[old.first]
          <6>1. n \in 0 .. Width[old.first] /\ First[old.first][n] \in Int
                /\ Last[old.first][n] \in Int
            BY <5>1, <3>5, BlockTypes
          <6>2. First[old.first][n] <= old.first /\ old.first <= Last[old.first][n]
            BY <5>1, <6>1, PrefixTree
          <6>3. First[old.first][n] \in First[old.first][n] .. Last[old.first][n]
            BY <5>1, <6>1, <6>2, BlockTypes
          <6> QED BY <5>1, <6>1, <6>3, PrefixTree
        <5>3. ~Fenced(g, First[old.first][k.bits], Last[old.first][k.bits])
          BY <1>4, <1>9, <3>5, <4>2, <5>2 DEF Verified
        <5> QED BY <1>4, <3>5, <4>2, <5>1, <5>3, ResizesCompose
      <4> QED BY <4>1, <4>2
    <3> QED BY <1>5, <2>1, <3>1, <3>2, <3>3, <3>4, <3>5 DEF NetStep
  <2> QED BY <1>6, <1>9, <2>3, <2>4 DEF Verified
<1> QED BY <1>7, <1>8, <1>9 DEF Verified

LEMMA VerifyAdministration ==
    ASSUME Administration
    PROVE  VerifyInv'
<1>1. Checked' = Checked /\ raced' = (Checked # {})
  BY DEF Administration, Checked
<1> QED BY <1>1 DEF VerifyInv

(* The inductive invariant: while no administrator interferes, every pending *)
(* mutation that passed its checks still reaches nothing protected.          *)
THEOREM Invariance == Spec => []Inv
<1>1. Init => VerifyInv
  <2>1. Init => Checked = {}
    BY DEF Init, Checked
  <2> QED BY <2>1 DEF VerifyInv
<1>2. (TypeOK /\ EntryInv) /\ VerifyInv /\ [Next]_vars => VerifyInv'
  <2> SUFFICES ASSUME TypeOK, EntryInv, VerifyInv, [Next]_vars PROVE VerifyInv'
    OBVIOUS
  <2>1. ASSUME NEW c \in Calls, Tool(c) PROVE VerifyInv'
    BY <2>1, VerifyTool
  <2>2. ASSUME NEW m \in wire, Appliance(m) PROVE VerifyInv'
    BY <2>2, VerifyAppliance DEF Inv
  <2>3. CASE Administration
    BY <2>3, VerifyAdministration
  <2>4. CASE UNCHANGED vars
    <3>1. Checked' = Checked /\ raced' = raced /\ g' = g /\ inventory' = inventory
      BY <2>4 DEF vars, inventory, Checked
    <3> QED BY <3>1, VerifiedIsStable DEF VerifyInv
  <2> QED BY <2>1, <2>2, <2>3, <2>4 DEF Next
<1> QED BY <1>1, <1>2, TypeCorrect, PTL DEF Spec, Inv

-----------------------------------------------------------------------------
(* The action properties. *)

LEMMA CallsKeepInventory ==
    ASSUME NEW c \in Calls, Tool(c)
    PROVE  g' = g /\ inventory' = inventory /\ (~raced => ~raced')
  BY DEF Tool, ipCreate, ipDelete, ipUpdate, subnetCreate, subnetDelete, subnetUpdate,
         spaceCreate, spaceDelete, findFirstFreeIP, applyIPUpdateProtections,
         applySubnetDeleteExtentProtection, applySubnetUpdateProtections, Send, Return,
         Enter, Pass, Settle, inventory

LEMMA AllExecute ==
    ASSUME NEW m \in wire, Appliance(m)
    PROVE  Execute(m)
  BY DEF Appliance, Drop, IpamAddressAdd, IpamAddressDelete, IpamAddressEdit, IpamNetworkAdd,
         IpamNetworkDelete, IpamNetworkEdit, IpamSpaceAdd, IpamSpaceDelete

(* No interleaving of calls, lost replies, late or repeated executions lets  *)
(* a tool place, change or remove anything the protection lists cover, short *)
(* of deleting the unprotected space it is in or an administrator's race.    *)
THEOREM Protection == Spec => ProtectedUntouched
<1>1. Inv /\ [Next]_vars => [(ToolStep /\ ~raced) => FencesHonoured]_vars
  <2> SUFFICES ASSUME Inv, Next, ToolStep, ~raced PROVE FencesHonoured
    OBVIOUS
  <2>1. ASSUME NEW c \in Calls, Tool(c) PROVE FencesHonoured
    BY <2>1, CallsKeepInventory DEF FencesHonoured, inventory
  <2>2. ASSUME NEW m \in wire, Appliance(m) PROVE FencesHonoured
    <3>1. /\ \A i \in NetIds : NetStep(i)
          /\ \A i \in AddrIds : AddrStep(i)
          /\ \A s \in Space : SpaceProtected(g, s) => (s \in spaces <=> s \in spaces')
      BY <2>2, RowSteps
    <3>2. ASSUME NEW i \in NetIds, nets'[i] # nets[i]
          PROVE  /\ NetIn(i) => (~NetProtected(nets[i]) \/ LostWithSpace(nets[i].space))
                 /\ NetIn(i)' => ~NetProtected(nets'[i])
      BY <3>1, <3>2 DEF NetStep, NetIn, NetProtected
    <3>3. ASSUME NEW i \in AddrIds, addrs'[i] # addrs[i]
          PROVE  /\ AddrIn(i) => (~AddrProtected(addrs[i]) \/ LostWithSpace(addrs[i].space))
                 /\ AddrIn(i)' => ~AddrProtected(addrs'[i])
      BY <3>1, <3>3 DEF AddrStep, AddrIn, AddrProtected
    <3> QED BY <3>1, <3>2, <3>3 DEF FencesHonoured
  <2>3. ~Administration
    BY DEF Administration, ToolStep
  <2> QED BY <2>1, <2>2, <2>3 DEF Next
<1> QED BY <1>1, Invariance, PTL DEF Spec, ProtectedUntouched

(* Under SOLIDSERVER_READ_ONLY no tool changes the inventory, whatever       *)
(* administrators do meanwhile.                                              *)
THEOREM ReadOnlyHolds == Spec => ReadOnlyFreezes
<1>1. Inv /\ [Next]_vars => [(g.ReadOnly /\ ToolStep) => UNCHANGED inventory]_vars
  <2> SUFFICES ASSUME Inv, Next, ToolStep, g.ReadOnly PROVE inventory' = inventory
    OBVIOUS
  <2>1. ASSUME NEW c \in Calls, Tool(c) PROVE inventory' = inventory
    BY <2>1, CallsKeepInventory
  <2>2. wire = {}
    BY DEF Inv, EntryInv, Entered, Checked
  <2>3. ~Administration
    BY DEF Administration, ToolStep
  <2> QED BY <2>1, <2>2, <2>3 DEF Next
<1> QED BY <1>1, Invariance, PTL DEF Spec, ReadOnlyFreezes

-----------------------------------------------------------------------------
(* Refinement: without administrators, IpamTools implements FencedInventory. *)

LEMMA HeldInStays ==
    ASSUME Inv, ~raced, NEW m \in wire, Appliance(m), NEW s \in Space, ~LostWithSpace(s)
    PROVE  HeldIn(s)' = HeldIn(s)
<1>1. /\ \A i \in NetIds : NetStep(i)
      /\ \A i \in AddrIds : AddrStep(i)
      /\ g' = g
  BY RowSteps
<1>2. \A row : NetProtected(row)' = NetProtected(row) /\ AddrProtected(row)' = AddrProtected(row)
  BY <1>1 DEF NetProtected, AddrProtected, SpaceProtected, Fenced, ParsePrefix
<1>3. ASSUME NEW i \in NetIds
      PROVE  /\ (NetIn(i) /\ nets[i].space = s /\ NetProtected(nets[i]))
                    => nets'[i] = nets[i]
             /\ (NetIn(i)' /\ nets'[i].space = s /\ NetProtected(nets'[i]))
                    => nets'[i] = nets[i]
  BY <1>1 DEF NetStep, NetIn, NetProtected
<1>4. ASSUME NEW i \in AddrIds
      PROVE  /\ (AddrIn(i) /\ addrs[i].space = s /\ AddrProtected(addrs[i]))
                    => addrs'[i] = addrs[i]
             /\ (AddrIn(i)' /\ addrs'[i].space = s /\ AddrProtected(addrs'[i]))
                    => addrs'[i] = addrs[i]
  BY <1>1 DEF AddrStep, AddrIn, AddrProtected
<1> DEFINE N == {j \in NetIds : NetIn(j) /\ nets[j].space = s /\ NetProtected(nets[j])}
           A == {j \in AddrIds : AddrIn(j) /\ addrs[j].space = s /\ AddrProtected(addrs[j])}
<1>5. N' = N /\ \A i \in N : nets'[i] = nets[i]
  BY <1>2, <1>3 DEF NetIn
<1>6. A' = A /\ \A i \in A : addrs'[i] = addrs[i]
  BY <1>2, <1>4 DEF AddrIn
<1>7. HeldIn(s) = {<<"network", i, nets[i]>> : i \in N} \cup {<<"address", i, addrs[i]>> : i \in A}
  BY DEF HeldIn
<1>8. HeldIn(s)' = {<<"network", i, nets'[i]>> : i \in N'}
                      \cup {<<"address", i, addrs'[i]>> : i \in A'}
  BY DEF HeldIn
<1> HIDE DEF N, A
<1>9. /\ {<<"network", i, nets'[i]>> : i \in N'} = {<<"network", i, nets[i]>> : i \in N}
      /\ {<<"address", i, addrs'[i]>> : i \in A'} = {<<"address", i, addrs[i]>> : i \in A}
  BY <1>5, <1>6
<1> QED BY <1>7, <1>8, <1>9

LEMMA SpaceGoesWhole ==
    ASSUME Inv, ~raced, NEW m \in wire, IpamSpaceDelete(m)
    PROVE  Promise!Lose(Fold[m.space])
<1> DEFINE s == Fold[m.space]
<1>1. m \in Checked /\ Entered(m) /\ m.op = "space_delete" /\ Appliance(m)
  BY DEF Inv, EntryInv, Checked, IpamSpaceDelete, Appliance
<1>2. s \in Space /\ ~SpaceProtected(g, s)
  BY <1>1, SpacesAreFolded DEF Entered
<1>3. \A t \in Space : t # s => HeldIn(t)' = HeldIn(t)
  BY <1>1, HeldInStays DEF IpamSpaceDelete, LostWithSpace
<1>4. HeldIn(s)' = {}
  <2>1. \A i \in NetIds : NetIn(i)' => nets'[i].space # s
    BY DEF IpamSpaceDelete, NetIn
  <2>2. \A i \in AddrIds : AddrIn(i)' => addrs'[i].space # s
    BY DEF IpamSpaceDelete, AddrIn
  <2> QED BY <2>1, <2>2 DEF HeldIn
<1>5. g' = g
  BY <1>1, RowSteps
<1>6. [t \in Space |-> HeldIn(t)]' = [[t \in Space |-> HeldIn(t)] EXCEPT ![s] = {}]
  BY <1>2, <1>3, <1>4
<1>7. {t \in Space : SpaceProtected(g, t)}' = {t \in Space : SpaceProtected(g, t)}
  BY <1>5 DEF SpaceProtected, Space
<1> QED BY <1>2, <1>6, <1>7 DEF Promise!Lose, IpamSpaceDelete

LEMMA NothingElseGoes ==
    ASSUME Inv, ~raced, NEW m \in wire, Appliance(m), ~IpamSpaceDelete(m)
    PROVE  [t \in Space |-> HeldIn(t)]' = [t \in Space |-> HeldIn(t)]
<1>1. spaces \subseteq spaces'
  BY DEF Appliance, Drop, inventory, IpamAddressAdd, IpamAddressDelete, IpamAddressEdit,
         IpamNetworkAdd, IpamNetworkDelete, IpamNetworkEdit, IpamSpaceAdd
<1>2. \A t \in Space : HeldIn(t)' = HeldIn(t)
  BY <1>1, HeldInStays DEF LostWithSpace
<1> QED BY <1>2

(* Seen from outside, while only tools act: the protected rows of a space    *)
(* never change, except that they all go with a space not itself protected.  *)
THEOREM Refinement ==
    ASSUME OutOfBand = FALSE
    PROVE  Spec => KeepsPromise
<1> DEFINE held == [s \in Space |-> HeldIn(s)]
           shielded == {s \in Space : SpaceProtected(g, s)}
<1>1. Init => ~raced /\ Promise!Init
  BY InventoryAssumption DEF Init, Promise!Init
<1>2. ~raced /\ [Next]_vars => ~raced'
  <2> SUFFICES ASSUME ~raced, [Next]_vars PROVE ~raced'
    OBVIOUS
  <2>1. ASSUME NEW c \in Calls, Tool(c) PROVE ~raced'
    BY <2>1, CallsKeepInventory
  <2>2. ASSUME NEW m \in wire, Appliance(m) PROVE ~raced'
    BY <2>2, AllExecute DEF Execute, Settle
  <2>3. ~Administration
    BY DEF Administration
  <2> QED BY <2>1, <2>2, <2>3 DEF Next, vars
<1>3. Inv /\ ~raced /\ [Next]_vars => [Promise!Next]_<<shielded, spaces, held>>
  <2> SUFFICES ASSUME Inv, ~raced, [Next]_vars
               PROVE  Promise!Next \/ <<shielded, spaces, held>>' = <<shielded, spaces, held>>
    OBVIOUS
  <2>1. ASSUME g' = g, inventory' = inventory
        PROVE  <<shielded, spaces, held>>' = <<shielded, spaces, held>>
    BY <2>1 DEF inventory, HeldIn, NetIn, AddrIn, NetProtected, AddrProtected, SpaceProtected,
                Fenced, ParsePrefix
  <2>2. ASSUME NEW c \in Calls, Tool(c) PROVE <<shielded, spaces, held>>' = <<shielded, spaces, held>>
    BY <2>2, <2>1, CallsKeepInventory
  <2>3. ASSUME NEW m \in wire, IpamSpaceDelete(m) PROVE Promise!Next
    <3>1. Entered(m) /\ m.op = "space_delete"
      BY <2>3 DEF Inv, EntryInv, Checked, IpamSpaceDelete
    <3>2. Fold[m.space] \in Space
      BY <3>1, SpacesAreFolded DEF Entered
    <3> QED BY <2>3, <3>2, SpaceGoesWhole DEF Promise!Next
  <2>4. ASSUME NEW m \in wire, IpamSpaceAdd(m) PROVE Promise!Next
    <3>1. m \in Checked /\ Entered(m) /\ m.op = "space_create" /\ Appliance(m)
      BY <2>4 DEF Inv, EntryInv, Checked, IpamSpaceAdd, Appliance
    <3>2. Fold[m.space] \in Space /\ ~SpaceProtected(g, Fold[m.space])
      BY <3>1, SpacesAreFolded DEF Entered
    <3>3. ~IpamSpaceDelete(m)
      BY <3>1 DEF IpamSpaceDelete
    <3>4. g' = g /\ held' = held
      BY <3>1, <3>3, RowSteps, NothingElseGoes
    <3>5. shielded' = shielded
      BY <3>4 DEF SpaceProtected
    <3>6. spaces' = spaces \cup {Fold[m.space]}
      BY <2>4 DEF IpamSpaceAdd
    <3>7. Promise!Appear(Fold[m.space])
      BY <3>2, <3>4, <3>5, <3>6 DEF Promise!Appear
    <3> QED BY <3>2, <3>7 DEF Promise!Next
  <2>7. ASSUME NEW m \in wire, Appliance(m), ~IpamSpaceDelete(m), ~IpamSpaceAdd(m)
        PROVE  <<shielded, spaces, held>>' = <<shielded, spaces, held>>
    <3>1. g' = g
      BY <2>7, RowSteps
    <3>2. shielded' = shielded
      BY <3>1 DEF SpaceProtected
    <3>3. spaces' = spaces
      BY <2>7 DEF Appliance, Drop, inventory, IpamAddressAdd, IpamAddressDelete,
                  IpamAddressEdit, IpamNetworkAdd, IpamNetworkDelete, IpamNetworkEdit
    <3> QED BY <2>7, <3>2, <3>3, NothingElseGoes
  <2>5. ~Administration
    BY DEF Administration
  <2>6. CASE UNCHANGED vars
    BY <2>6, <2>1 DEF vars, inventory
  <2> QED BY <2>2, <2>3, <2>4, <2>5, <2>6, <2>7 DEF Next
<1> QED BY <1>1, <1>2, <1>3, Invariance, PTL DEF Spec, KeepsPromise, Promise!Spec, Promise!vars
=============================================================================
