------------------------------ MODULE VlanTools ------------------------------
(***************************************************************************)
(* The VLAN tools of tools/vlan_tools.go. No protection list names a VLAN  *)
(* or a domain: read-only mode is all that guards them, so what counts is  *)
(* that it does so on every path, and what becomes of mutations that were  *)
(* sent before the server was started again as read-only.                  *)
(***************************************************************************)
EXTENDS ToolCalls

CONSTANTS
    Names,     \* names of domains and of VLANs
    VlanIds,   \* numbers callers may pass as a VLAN's id
    MaxVlanId  \* the highest id a VLAN may have (4094)

CheckReadOnly(gg) == ~gg.ReadOnly

DomainEdit == [op : {"domain_create", "domain_delete"}, name : Names]
VlanCreate == [op : {"vlan_create"}, domain : Names, name : Names, id : VlanIds]
VlanDelete == [op : {"vlan_delete"}, domain : Names, name : Names]

Request == DomainEdit \cup VlanCreate \cup VlanDelete

VARIABLES domains, vlans   \* the appliance's rows

store == <<domains, vlans>>
vars  == <<callVars, store>>

ValidateVlanID(id) == 1 <= id /\ id <= MaxVlanId

Vlan == [domain : Names, name : Names, id : VlanIds]

RowsOK == domains \subseteq Names /\ vlans \subseteq Vlan

TypeOK == CallsTypeOK(Request) /\ RowsOK

Init == CallsInit /\ domains = {} /\ vlans = {}

vlanDomainCreate(c, r) ==
    /\ r.op = "domain_create"
    /\ CheckReadOnly(g)
    /\ Enter(c, r, "send")

vlanDomainDelete(c, r) ==
    /\ r.op = "domain_delete"
    /\ CheckReadOnly(g)
    /\ Enter(c, r, "send")

vlanCreate(c, r) ==
    /\ r.op = "vlan_create"
    /\ CheckReadOnly(g)
    /\ ValidateVlanID(r.id)
    /\ Enter(c, r, "send")

(* Mutant: read-only mode is not asked.                                      *)
DeletedWhenReadOnly(c, r) ==
    /\ r.op = "vlan_delete"
    /\ Enter(c, r, "send")

vlanDelete(c, r) ==
    /\ r.op = "vlan_delete"
    /\ CheckReadOnly(g)
    /\ Enter(c, r, "send")

Tool(c) ==
    /\ \/ \E r \in Request :
             \/ vlanDomainCreate(c, r) \/ vlanDomainDelete(c, r)
             \/ vlanCreate(c, r) \/ vlanDelete(c, r)
       \/ Send(c)
       \/ Return(c)
    /\ UNCHANGED store

-----------------------------------------------------------------------------

Drop(m) == Execute(m) /\ UNCHANGED store

VlanDomainAdd(m) ==
    /\ m.op = "domain_create" /\ Execute(m)
    /\ domains' = domains \cup {m.name}
    /\ UNCHANGED vlans

(* A domain goes with the VLANs in it.                                       *)
VlanDomainDelete(m) ==
    /\ m.op = "domain_delete" /\ Execute(m)
    /\ domains' = domains \ {m.name}
    /\ vlans' = {v \in vlans : v.domain # m.name}

VlanVlanAdd(m) ==
    /\ m.op = "vlan_create" /\ Execute(m)
    /\ m.domain \in domains
    /\ ~\E v \in vlans : v.domain = m.domain /\ v.id = m.id
    /\ vlans' = vlans \cup {[domain |-> m.domain, name |-> m.name, id |-> m.id]}
    /\ UNCHANGED domains

VlanVlanDelete(m) ==
    /\ m.op = "vlan_delete" /\ Execute(m)
    /\ vlans' = {v \in vlans : ~(v.domain = m.domain /\ v.name = m.name)}
    /\ UNCHANGED domains

Appliance(m) ==
    \/ Drop(m)
    \/ VlanDomainAdd(m) \/ VlanDomainDelete(m)
    \/ VlanVlanAdd(m) \/ VlanVlanDelete(m)

(* The calls and what becomes of their mutations; and all that may happen.   *)
CallStep ==
    \/ \E c \in Calls : Tool(c)
    \/ \E m \in wire : Appliance(m)

Next ==
    \/ CallStep
    \/ Restart /\ UNCHANGED store

Spec == Init /\ [][Next]_vars
=============================================================================
