------------------------------ MODULE IpamTools ------------------------------
(***************************************************************************)
(* The IPAM tools of tools/ipam_tools.go and tools/subnet_tools.go running *)
(* against one appliance. The http and unix transports serve any number of *)
(* tool calls at once, every call works on the appliance through separate  *)
(* HTTP requests, and the server keeps no state of its own: a call checks  *)
(* the guardrails on its input and, where the input names a row only by    *)
(* its id or its start address, on what a first request reads back; then   *)
(* it sends the mutation. Between the two the appliance may change.        *)
(*                                                                         *)
(* A call that is refused before its first request changes nothing and is  *)
(* not a step here.                                                        *)
(***************************************************************************)
EXTENDS Guardrails, FiniteSets

CONSTANTS
    Calls,        \* slots for concurrent tool calls
    Requests,     \* the inputs callers may pass
    Guards,       \* guardrail configurations the server may be started with
    NetIds,       \* row ids of networks, never used twice by the appliance
    AddrIds,      \* row ids of addresses, likewise
    MaxInFlight,  \* bound: requests on their way to the appliance at once
    Inventories,  \* what the appliance may hold when the server starts
    OutOfBand     \* whether administrators also change the appliance directly

Unused == [row |-> "unused"]   \* the appliance has not given out this id yet
Gone   == [row |-> "gone"]     \* its row was deleted

Space   == {Fold[s] : s \in Names}
NetRow  == [space : Space, first : Address, last : Address, edited : BOOLEAN]
AddrRow == [space : Space, ip : Address, edited : BOOLEAN]

Inventory == [spaces : SUBSET Space,
              nets : [NetIds -> NetRow \cup {Unused, Gone}],
              addrs : [AddrIds -> AddrRow \cup {Unused, Gone}]]

OptName == Names \cup {NoName}
OptAddr == Address \cup {NoAddr}
OptBits == Bits \cup {NoBits}

IPCreate == [op : {"ip_create"}, space : OptName, subnet : OptAddr, host : OptAddr]
IPDelete == [op : {"ip_delete"}, space : OptName, ip : OptAddr]
IPUpdate == [op : {"ip_update"}, space : OptName, id : AddrIds, rename : BOOLEAN]
SubnetCreate == [op : {"subnet_create"}, space : OptName, addr : OptAddr, bits : OptBits]
SubnetDelete == [op : {"subnet_delete"}, space : OptName, addr : OptAddr]
SubnetUpdate == [op : {"subnet_update"}, space : OptName, id : NetIds, bits : OptBits,
                 rename : BOOLEAN]
SpaceEdit == [op : {"space_create", "space_delete"}, space : OptName]

Request == IPCreate \cup IPDelete \cup IPUpdate
             \cup SubnetCreate \cup SubnetDelete \cup SubnetUpdate \cup SpaceEdit

NoReq == [op |-> "none"]

ASSUME RequestAssumption == Requests \subseteq Request
ASSUME InventoryAssumption ==
    \A inv \in Inventories :
        /\ inv.spaces \in SUBSET Space
        /\ \A i \in NetIds : inv.nets[i] \in NetRow \cup {Unused, Gone}
        /\ \A i \in AddrIds : inv.addrs[i] \in AddrRow \cup {Unused, Gone}
ASSUME GuardAssumption == Guards \subseteq Guard
ASSUME BoundAssumption == MaxInFlight \in Nat /\ OutOfBand \in BOOLEAN

VARIABLES
    g,       \* the guardrails, fixed when the server starts
    spaces,  \* appliance: the spaces that exist
    nets,    \* appliance: network rows by id
    addrs,   \* appliance: address rows by id
    pc,      \* each call's progress: "idle", "lookup", "send", "wait"
    req,     \* each call's request, NoReq when idle
    wire,    \* mutations sent and not yet executed or dropped
    raced    \* an administrator acted while a checked mutation was pending

inventory == <<spaces, nets, addrs>>
vars == <<g, spaces, nets, addrs, pc, req, wire, raced>>

NetIn(i)  == nets[i] \notin {Unused, Gone}
AddrIn(i) == addrs[i] \notin {Unused, Gone}

(* Mutations whose guard checks are over and whose execution may be to come. *)
Checked == wire \cup {req[c] : c \in {d \in Calls : pc[d] \in {"send", "wait"}}}

TypeOK ==
    /\ g \in Guards
    /\ spaces \subseteq Space
    /\ nets \in [NetIds -> NetRow \cup {Unused, Gone}]
    /\ addrs \in [AddrIds -> AddrRow \cup {Unused, Gone}]
    /\ pc \in [Calls -> {"idle", "lookup", "send", "wait"}]
    /\ req \in [Calls -> Request \cup {NoReq}]
    /\ \A c \in Calls : pc[c] # "idle" => req[c] \in Request
    /\ wire \subseteq Request
    /\ raced \in BOOLEAN

Init ==
    /\ g \in Guards
    /\ \E inv \in Inventories :
          /\ spaces = inv.spaces
          /\ nets = [i \in NetIds |-> inv.nets[i]]
          /\ addrs = [i \in AddrIds |-> inv.addrs[i]]
    /\ pc = [c \in Calls |-> "idle"]
    /\ req = [c \in Calls |-> NoReq]
    /\ wire = {}
    /\ raced = FALSE

-----------------------------------------------------------------------------
(* The steps of a call. A race is over once no checked mutation is pending.  *)

Settle == raced' = (raced /\ Checked' # {})

Enter(c, r, stage) ==
    /\ pc[c] = "idle"
    /\ pc' = [pc EXCEPT ![c] = stage]
    /\ req' = [req EXCEPT ![c] = r]
    /\ UNCHANGED <<g, inventory, wire>>
    /\ Settle

(* The request that passed its lookup; ip_create fills in the address found. *)
Pass(c, r) ==
    /\ pc[c] = "lookup"
    /\ pc' = [pc EXCEPT ![c] = "send"]
    /\ req' = [req EXCEPT ![c] = r]
    /\ UNCHANGED <<g, inventory, wire>>
    /\ Settle

(* The reply arrives, a lookup fails or finds something protected, or the    *)
(* call is cancelled; a request already on its way stays on its way.         *)
Return(c) ==
    /\ pc[c] # "idle"
    /\ pc' = [pc EXCEPT ![c] = "idle"]
    /\ req' = [req EXCEPT ![c] = NoReq]
    /\ UNCHANGED <<g, inventory, wire>>
    /\ Settle

(* The transport sends the mutation, and sends it again when the reply to an *)
(* attempt is lost or says "retry".                                          *)
Send(c) ==
    /\ pc[c] \in {"send", "wait"}
    /\ req[c] \notin wire
    /\ Cardinality(wire) < MaxInFlight
    /\ pc' = [pc EXCEPT ![c] = "wait"]
    /\ wire' = wire \cup {req[c]}
    /\ UNCHANGED <<g, inventory, req>>
    /\ Settle

checkIPCreateGuardrails(r) ==
    /\ CheckReadOnly(g)
    /\ CheckProtectedSpace(g, r.space)
    /\ CheckProtectedAddr(g, r.host)
    /\ CheckProtectedAddr(g, r.subnet)

ipCreate(c, r) ==
    /\ r.op = "ip_create"
    /\ checkIPCreateGuardrails(r)
    /\ r.space # NoName /\ r.subnet # NoAddr
    /\ Enter(c, r, IF r.host = NoAddr THEN "lookup" ELSE "send")

(* The appliance offers a free address of a network that starts at the       *)
(* subnet address, reserving nothing; the handler checks it once more.       *)
findFirstFreeIP(c) ==
    /\ req[c].op = "ip_create"
    /\ \E a \in Address, i \in NetIds :
          /\ NetIn(i)
          /\ nets[i].space = Fold[req[c].space] /\ nets[i].first = req[c].subnet
          /\ a \in nets[i].first .. nets[i].last
          /\ ~\E j \in AddrIds : AddrIn(j) /\ addrs[j].space = nets[i].space /\ addrs[j].ip = a
          /\ CheckProtectedAddr(g, a)
          /\ Pass(c, [req[c] EXCEPT !.host = a])

ipDelete(c, r) ==
    /\ r.op = "ip_delete"
    /\ CheckReadOnly(g)
    /\ CheckProtectedSpace(g, r.space)
    /\ CheckProtectedAddr(g, r.ip)
    /\ r.space # NoName /\ r.ip # NoAddr
    /\ Enter(c, r, "send")

guardrailsNeedAddressLookup == g.ProtectedSubnets # {} \/ g.ProtectedSpaces # {}

(* Mutant: ip_update does not ask whether the server is read-only.           *)
UpdateWhenReadOnly(c, r) ==
    /\ r.op = "ip_update"
    /\ CheckProtectedSpace(g, r.space)
    /\ r.rename
    /\ Enter(c, r, IF guardrailsNeedAddressLookup THEN "lookup" ELSE "send")

ipUpdate(c, r) ==
    /\ r.op = "ip_update"
    /\ CheckReadOnly(g)
    /\ CheckProtectedSpace(g, r.space)
    /\ r.rename                       \* else there is no field to update
    /\ Enter(c, r, IF guardrailsNeedAddressLookup THEN "lookup" ELSE "send")

(* What a lookup reads of a row: the appliance may leave columns out.        *)
Seen(value, none) == {value, none}

(* Mutant: a row read back without its address passes the subnet guard.      *)
MissingAddressPasses(c) ==
    /\ req[c].op = "ip_update"
    /\ AddrIn(req[c].id)
    /\ \E hostaddr \in Seen(addrs[req[c].id].ip, NoAddr) : CheckProtectedAddr(g, hostaddr)
    /\ CheckProtectedSpace(g, addrs[req[c].id].space)
    /\ Pass(c, req[c])

applyIPUpdateProtections(c) ==
    /\ req[c].op = "ip_update"
    /\ AddrIn(req[c].id)
    /\ \E hostaddr \in Seen(addrs[req[c].id].ip, NoAddr),
          space \in Seen(addrs[req[c].id].space, NoName) :
          /\ ~(g.ProtectedSubnets # {} /\ hostaddr = NoAddr)
          /\ CheckProtectedAddr(g, hostaddr)
          /\ ~(g.ProtectedSpaces # {} /\ space = NoName)
          /\ CheckProtectedSpace(g, space)
    /\ Pass(c, req[c])

checkSubnetCreateGuardrails(r) ==
    /\ CheckReadOnly(g)
    /\ CheckProtectedSpace(g, r.space)
    /\ IF r.addr # NoAddr /\ r.bits # NoBits
         THEN CheckProtectedSubnetCIDR(g, r.addr, r.bits)
         ELSE CheckProtectedAddr(g, r.addr)

subnetCreate(c, r) ==
    /\ r.op = "subnet_create"
    /\ checkSubnetCreateGuardrails(r)
    /\ r.space # NoName /\ ValidateSubnetPrefix(r.addr, r.bits)
    /\ Enter(c, r, "send")

(* Mutant: the start address of the network is all that is checked.          *)
DeleteByStart(c, r) ==
    /\ r.op = "subnet_delete"
    /\ CheckReadOnly(g)
    /\ CheckProtectedSpace(g, r.space)
    /\ CheckProtectedAddr(g, r.addr)
    /\ r.space # NoName /\ r.addr # NoAddr
    /\ Enter(c, r, "send")

subnetDelete(c, r) ==
    /\ r.op = "subnet_delete"
    /\ CheckReadOnly(g)
    /\ CheckProtectedSpace(g, r.space)
    /\ CheckProtectedAddr(g, r.addr)
    /\ r.space # NoName /\ r.addr # NoAddr
    /\ Enter(c, r, IF g.ProtectedSubnets # {} THEN "lookup" ELSE "send")

(* Mutant: only one of the networks that start at the address is checked.    *)
OneExtentChecked(c) ==
    /\ req[c].op = "subnet_delete"
    /\ \E i \in NetIds :
          /\ NetIn(i) /\ nets[i].space = Fold[req[c].space] /\ nets[i].first = req[c].addr
          /\ ~overlappingProtectedSubnet(g, nets[i].first, nets[i].last)
    /\ Pass(c, req[c])

(* Every network that starts at the address is looked up, of any size; one   *)
(* without an extent, or whose extent touches a protected subnet, refuses.   *)
applySubnetDeleteExtentProtection(c) ==
    /\ req[c].op = "subnet_delete"
    /\ \A i \in NetIds :
          (NetIn(i) /\ nets[i].space = Fold[req[c].space] /\ nets[i].first = req[c].addr)
              => \E start \in Seen(nets[i].first, NoAddr), end \in Seen(nets[i].last, NoAddr) :
                    /\ ~(start = NoAddr \/ end = NoAddr)
                    /\ ~overlappingProtectedSubnet(g, start, end)
    /\ Pass(c, req[c])

subnetUpdate(c, r) ==
    /\ r.op = "subnet_update"
    /\ CheckReadOnly(g)
    /\ CheckProtectedSpace(g, r.space)
    /\ r.rename \/ r.bits # NoBits    \* else there is no field to update
    /\ Enter(c, r, IF guardrailsNeedAddressLookup THEN "lookup" ELSE "send")

(* Mutant: only the extent before the edit is checked.                       *)
PreEditExtentOnly(c) ==
    /\ req[c].op = "subnet_update"
    /\ NetIn(req[c].id)
    /\ LET row == nets[req[c].id]
       IN  /\ ~overlappingProtectedSubnet(g, row.first, row.last)
           /\ CheckProtectedSpace(g, row.space)
    /\ Pass(c, req[c])

(* The extent before the edit, and the block after it, must be clear of      *)
(* every protected subnet, and the space must not be protected.              *)
applySubnetUpdateProtections(c) ==
    /\ req[c].op = "subnet_update"
    /\ NetIn(req[c].id)
    /\ LET row == nets[req[c].id]
       IN  \E start \in Seen(row.first, NoAddr), end \in Seen(row.last, NoAddr),
              space \in Seen(row.space, NoName) :
              /\ ~(g.ProtectedSubnets # {} /\ (start = NoAddr \/ end = NoAddr))
              /\ ~overlappingProtectedSubnet(g, start, end)
              /\ (req[c].bits # NoBits /\ start # NoAddr) =>
                    /\ canonicalCIDROk(start, req[c].bits)
                    /\ CheckProtectedSubnet(g, canonicalCIDR(start, req[c].bits))
              /\ ~(g.ProtectedSpaces # {} /\ space = NoName)
              /\ CheckProtectedSpace(g, space)
    /\ Pass(c, req[c])

spaceCreate(c, r) ==
    /\ r.op = "space_create"
    /\ CheckReadOnly(g)
    /\ CheckProtectedSpace(g, r.space)
    /\ r.space # NoName
    /\ Enter(c, r, "send")

spaceDelete(c, r) ==
    /\ r.op = "space_delete"
    /\ CheckReadOnly(g)
    /\ CheckProtectedSpace(g, r.space)
    /\ r.space # NoName
    /\ Enter(c, r, "send")

-----------------------------------------------------------------------------
(* The appliance executes a mutation. It matches space names by Fold.        *)

Execute(m) == 
    /\ m \in wire
    /\ wire' = wire \ {m}
    /\ UNCHANGED <<g, pc, req>>
    /\ Settle

(* Lost on the way, or rejected by the appliance.                            *)
Drop(m) == Execute(m) /\ UNCHANGED inventory

IpamAddressAdd(m) ==
    /\ m.op = "ip_create" /\ Execute(m)
    /\ Fold[m.space] \in spaces
    /\ ~\E j \in AddrIds : AddrIn(j) /\ addrs[j].space = Fold[m.space] /\ addrs[j].ip = m.host
    /\ \E i \in AddrIds :
          /\ addrs[i] = Unused
          /\ addrs' = [addrs EXCEPT ![i] =
                [space |-> Fold[m.space], ip |-> m.host, edited |-> FALSE]]
    /\ UNCHANGED <<spaces, nets>>

IpamAddressDelete(m) ==
    /\ m.op = "ip_delete" /\ Execute(m)
    /\ addrs' = [i \in AddrIds |->
          IF AddrIn(i) /\ addrs[i].space = Fold[m.space] /\ addrs[i].ip = m.ip
            THEN Gone ELSE addrs[i]]
    /\ UNCHANGED <<spaces, nets>>

(* The edit carries the id and the new name or MAC, never the space.         *)
IpamAddressEdit(m) ==
    /\ m.op = "ip_update" /\ Execute(m)
    /\ AddrIn(m.id)
    /\ addrs' = [addrs EXCEPT ![m.id] = [@ EXCEPT !.edited = TRUE]]
    /\ UNCHANGED <<spaces, nets>>

IpamNetworkAdd(m) ==
    /\ m.op = "subnet_create" /\ Execute(m)
    /\ Fold[m.space] \in spaces
    /\ LET row == [space |-> Fold[m.space], first |-> First[m.addr][m.bits],
                   last |-> Last[m.addr][m.bits], edited |-> FALSE]
       IN  /\ ~\E j \in NetIds : NetIn(j) /\ nets[j].space = row.space
                                   /\ nets[j].first = row.first /\ nets[j].last = row.last
           /\ \E i \in NetIds : nets[i] = Unused /\ nets' = [nets EXCEPT ![i] = row]
    /\ UNCHANGED <<spaces, addrs>>

(* One of the networks that start at the address goes, with any of the       *)
(* networks nested in it and with the addresses tracked inside.              *)
IpamNetworkDelete(m) ==
    /\ m.op = "subnet_delete" /\ Execute(m)
    /\ \E i \in NetIds :
          /\ NetIn(i) /\ nets[i].space = Fold[m.space] /\ nets[i].first = m.addr
          /\ \E nested \in SUBSET {j \in NetIds : 
                    /\ NetIn(j) /\ nets[j].space = nets[i].space
                    /\ nets[i].first <= nets[j].first /\ nets[j].last <= nets[i].last} :
                nets' = [j \in NetIds |-> IF j = i \/ j \in nested THEN Gone ELSE nets[j]]
          /\ addrs' = [j \in AddrIds |->
                IF /\ AddrIn(j) /\ addrs[j].space = nets[i].space
                   /\ nets[i].first <= addrs[j].ip /\ addrs[j].ip <= nets[i].last
                  THEN Gone ELSE addrs[j]]
    /\ UNCHANGED spaces

(* A resize keeps the block the start address lies in, of the new length.    *)
IpamNetworkEdit(m) ==
    /\ m.op = "subnet_update" /\ Execute(m)
    /\ NetIn(m.id)
    /\ LET row == nets[m.id]
           edited == row.edited \/ m.rename
       IN  IF m.bits = NoBits
             THEN nets' = [nets EXCEPT ![m.id] = [row EXCEPT !.edited = edited]]
             ELSE /\ m.bits <= Width[row.first]
                  /\ nets' = [nets EXCEPT ![m.id] =
                        [space |-> row.space, edited |-> edited,
                         first |-> First[row.first][m.bits],
                         last |-> Last[row.first][m.bits]]]
    /\ UNCHANGED <<spaces, addrs>>

IpamSpaceAdd(m) ==
    /\ m.op = "space_create" /\ Execute(m)
    /\ spaces' = spaces \cup {Fold[m.space]}
    /\ UNCHANGED <<nets, addrs>>

(* A space goes with every network and address recorded in it.               *)
IpamSpaceDelete(m) ==
    /\ m.op = "space_delete" /\ Execute(m)
    /\ Fold[m.space] \in spaces
    /\ spaces' = spaces \ {Fold[m.space]}
    /\ nets' = [i \in NetIds |->
          IF NetIn(i) /\ nets[i].space = Fold[m.space] THEN Gone ELSE nets[i]]
    /\ addrs' = [i \in AddrIds |->
          IF AddrIn(i) /\ addrs[i].space = Fold[m.space] THEN Gone ELSE addrs[i]]

Blocks == {[first |-> First[a][n], last |-> Last[a][n]] : a \in Address, n \in Bits}

(* An administrator places, edits or removes one row by other means.         *)
Administration ==
    /\ OutOfBand
    /\ \/ /\ \E i \in NetIds, s \in spaces, b \in Blocks :
                /\ nets[i] # Gone
                /\ nets' = [nets EXCEPT ![i] =
                      [space |-> s, first |-> b.first, last |-> b.last, edited |-> FALSE]]
          /\ UNCHANGED addrs
       \/ /\ \E i \in NetIds : NetIn(i) /\ nets' = [nets EXCEPT ![i] = Gone]
          /\ UNCHANGED addrs
       \/ /\ \E i \in AddrIds, s \in spaces, a \in Address :
                /\ addrs[i] # Gone
                /\ addrs' = [addrs EXCEPT ![i] = [space |-> s, ip |-> a, edited |-> FALSE]]
          /\ UNCHANGED nets
       \/ /\ \E i \in AddrIds : AddrIn(i) /\ addrs' = [addrs EXCEPT ![i] = Gone]
          /\ UNCHANGED nets
    /\ raced' = (Checked # {})
    /\ UNCHANGED <<g, spaces, pc, req, wire>>

Tool(c) ==
    \/ \E r \in Requests :
          \/ ipCreate(c, r) \/ ipDelete(c, r) \/ ipUpdate(c, r)
          \/ subnetCreate(c, r) \/ subnetDelete(c, r) \/ subnetUpdate(c, r)
          \/ spaceCreate(c, r) \/ spaceDelete(c, r)
    \/ findFirstFreeIP(c)
    \/ applyIPUpdateProtections(c)
    \/ applySubnetDeleteExtentProtection(c)
    \/ applySubnetUpdateProtections(c)
    \/ Send(c)
    \/ Return(c)

Appliance(m) ==
    \/ Drop(m)
    \/ IpamAddressAdd(m) \/ IpamAddressDelete(m) \/ IpamAddressEdit(m)
    \/ IpamNetworkAdd(m) \/ IpamNetworkDelete(m) \/ IpamNetworkEdit(m)
    \/ IpamSpaceAdd(m) \/ IpamSpaceDelete(m)

Next ==
    \/ \E c \in Calls : Tool(c)
    \/ \E m \in wire : Appliance(m)
    \/ Administration

Spec == Init /\ [][Next]_vars

-----------------------------------------------------------------------------
(* Properties. *)

NetProtected(row)  == SpaceProtected(g, row.space) \/ Fenced(g, row.first, row.last)
AddrProtected(row) == SpaceProtected(g, row.space) \/ Fenced(g, row.ip, row.ip)

(* What a tool step may do to the inventory. A protected space neither       *)
(* appears nor goes. A protected row is neither placed nor changed, unless   *)
(* its space, itself unprotected, is deleted: space_delete asks only for the *)
(* space's name.                                                             *)
LostWithSpace(s) == s \in spaces /\ s \notin spaces'

FencesHonoured ==
    /\ \A s \in Space : SpaceProtected(g, s) => (s \in spaces <=> s \in spaces')
    /\ \A i \in NetIds : nets'[i] # nets[i] =>
          /\ NetIn(i) => (~NetProtected(nets[i]) \/ LostWithSpace(nets[i].space))
          /\ NetIn(i)' => ~NetProtected(nets'[i])
    /\ \A i \in AddrIds : addrs'[i] # addrs[i] =>
          /\ AddrIn(i) => (~AddrProtected(addrs[i]) \/ LostWithSpace(addrs[i].space))
          /\ AddrIn(i)' => ~AddrProtected(addrs'[i])

(* What the checks on its input establish of a request, and no change of the *)
(* appliance can undo.                                                       *)
Entered(m) ==
    /\ ~g.ReadOnly
    /\ m.op \notin {"ip_update", "subnet_update"} =>
          m.space \in Names /\ ~SpaceProtected(g, Fold[m.space])
    /\ m.op = "ip_create" => m.host = NoAddr \/ ~Fenced(g, m.host, m.host)
    /\ m.op = "ip_delete" => ~Fenced(g, m.ip, m.ip)
    /\ m.op = "subnet_create" =>
          /\ ValidateSubnetPrefix(m.addr, m.bits)
          /\ ~Fenced(g, First[m.addr][m.bits], Last[m.addr][m.bits])

(* What the checks on rows read back establish of a mutation, and other      *)
(* calls preserve while it is pending: the rows it will reach, whatever they *)
(* have become, are not protected, and a resize of what the row is now stays *)
(* clear of protected subnets.                                               *)
Verified(m) ==
    /\ m.op = "ip_update" => (AddrIn(m.id) => ~AddrProtected(addrs[m.id]))
    /\ m.op = "subnet_delete" =>
          \A i \in NetIds :
              (NetIn(i) /\ nets[i].space = Fold[m.space] /\ nets[i].first = m.addr)
                  => ~NetProtected(nets[i])
    /\ m.op = "subnet_update" =>
          /\ guardrailsNeedAddressLookup => nets[m.id] # Unused
          /\ NetIn(m.id) =>
                /\ ~NetProtected(nets[m.id])
                /\ (m.bits # NoBits /\ m.bits <= Width[nets[m.id].first]) =>
                      ~Fenced(g, First[nets[m.id].first][m.bits], Last[nets[m.id].first][m.bits])

(* The inductive invariant behind ProtectedUntouched.                        *)
EntryInv ==
    /\ \A c \in Calls : pc[c] # "idle" => Entered(req[c])
    /\ \A m \in Checked : Entered(m) /\ (m.op = "ip_create" => m.host # NoAddr)

VerifyInv == ~raced => \A m \in Checked : Verified(m)

Inv == TypeOK /\ EntryInv /\ VerifyInv

(* Every step of a call and of the appliance for one, none of an             *)
(* administrator's, moves a call or takes a request off the wire.            *)
ToolStep == <<pc, wire>>' # <<pc, wire>>

(* However calls interleave, and however late, often or long after its call  *)
(* ended a mutation runs: a guard check made on an earlier read of the       *)
(* appliance still holds when the mutation executes, unless an administrator *)
(* acted in between.                                                         *)
ProtectedUntouched == [][(ToolStep /\ ~raced) => FencesHonoured]_vars

(* A read-only server never changes the inventory, whatever an administrator *)
(* does meanwhile.                                                           *)
ReadOnlyFreezes == [][(g.ReadOnly /\ ToolStep) => UNCHANGED inventory]_vars

(* The same seen from outside, when nobody but the tools acts: protected     *)
(* spaces stay, and the protected rows of every space stay as they are until *)
(* the space itself is deleted.                                              *)
HeldIn(s) ==
    {<<"network", i, nets[i]>> : i \in
        {j \in NetIds : NetIn(j) /\ nets[j].space = s /\ NetProtected(nets[j])}}
    \cup {<<"address", i, addrs[i]>> : i \in
        {j \in AddrIds : AddrIn(j) /\ addrs[j].space = s /\ AddrProtected(addrs[j])}}

Promise == INSTANCE FencedInventory WITH
    Spaces <- Space,
    shielded <- {s \in Space : SpaceProtected(g, s)},
    present <- spaces,
    held <- [s \in Space |-> HeldIn(s)]

KeepsPromise == Promise!Spec

(* README: the protection lists "refuse mutations against named spaces,      *)
(* zones, or subnets". A network that overlaps a protected subnet when the   *)
(* server starts then stays as it is while only tools run.                   *)
FencedNetworksKept ==
    \E inv \in Inventories : \A i \in NetIds :
        (inv.nets[i] \in NetRow /\ Fenced(g, inv.nets[i].first, inv.nets[i].last))
            => nets[i] = inv.nets[i]
=============================================================================
