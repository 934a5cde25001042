------------------------------ MODULE ToolServer ------------------------------
(***************************************************************************)
(* One server with its DHCP, DNS and VLAN tools, as the function           *)
(* RegisterAllWithGuardrails of tools/tools.go sets them up: they share    *)
(* the guardrails, the calls and the requests on their way, and the server *)
(* is stopped and started for all of them. Each has its own rows of the    *)
(* appliance.                                                              *)
(***************************************************************************)
EXTENDS DhcpTools

CONSTANTS
    ZoneNames, FoldZone, Views, Labels, RrIds, ZoneRequests, ZoneDeployments,
    VlanNames, VlanIds, MaxVlanId

VARIABLES zones, rrs, domains, vlans

Dns  == INSTANCE DnsTools WITH Names <- ZoneNames, Fold <- FoldZone,
                               Requests <- ZoneRequests, Deployments <- ZoneDeployments
Vlan == INSTANCE VlanTools WITH Names <- VlanNames

ASSUME ServerAssumption == /\ MaxVlanId \in Nat /\ VlanIds \subseteq Int
                           /\ Dns!NameAssumption /\ Dns!DnsAssumption

zoneRows   == <<zones, rrs>>
vlanRows   == <<domains, vlans>>
appliance  == <<store, zoneRows, vlanRows>>
serverVars == <<callVars, appliance>>

ServerInit == Init /\ Dns!Init /\ Vlan!Init

ServerNext ==
    \/ (CallStep \/ Administration) /\ UNCHANGED <<zoneRows, vlanRows>>
    \/ (Dns!CallStep \/ Dns!Administration) /\ UNCHANGED <<store, vlanRows>>
    \/ Vlan!CallStep /\ UNCHANGED <<store, zoneRows>>
    \/ Restart /\ UNCHANGED appliance

ServerSpec == ServerInit /\ [][ServerNext]_serverVars

-----------------------------------------------------------------------------
(* Properties. *)

(* No mutation is taken for one of another family's.                         *)
AllRequests == Request \cup Dns!Request \cup Vlan!Request

EnteredAsAny(m)  == Entered(m) /\ (m \in Dns!Request => Dns!Entered(m))
VerifiedAsAny(m) == Verified(m) /\ (m \in Dns!Request => Dns!Verified(m))

(* The inductive invariant, as in DhcpTools and DnsTools: whatever family a  *)
(* call or a mutation is of, it passed the guards of that family, and a      *)
(* mutation's rows stay clear whatever the others do.                        *)
ServerInv ==
    /\ CallsTypeOK(AllRequests)
    /\ RowsOK /\ Dns!RowsOK /\ Vlan!RowsOK
    /\ \A m \in wire : /\ Shaped(m)
                       /\ (m \in Dns!Request /\ m.op # "record_update") => m.zone # NoName
    /\ \A c \in Calls : pc[c] # "idle" => EnteredAsAny(req[c])
    /\ ~raced => \A m \in Checked : EnteredAsAny(m) /\ VerifiedAsAny(m)

(* Whichever tools are called, whatever guardrails the server is started     *)
(* with again, and however late a mutation is executed: no tool touches what *)
(* the guardrails in force protect, and under read-only mode none changes    *)
(* anything, once what was pending when an administrator or a restart        *)
(* intervened is through.                                                    *)
GuardsHold ==
    [][(ToolStep /\ ~raced) =>
          /\ FencesHonoured
          /\ Dns!FencesHonoured
          /\ g.ReadOnly => UNCHANGED appliance]_serverVars
=============================================================================
