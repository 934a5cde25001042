---------------------------- MODULE MCToolServer ----------------------------
(***************************************************************************)
(* ToolServer with one call at a time, started again as it was or as       *)
(* read-only while a mutation may be on its way; a shared network with an  *)
(* open scope, to which administrators add a protected one; a record they  *)
(* move between an open and a protected zone; a VLAN domain.               *)
(***************************************************************************)
EXTENDS ToolServer, NetipLine

MCMaxAddr   == LastAddr(2, 2)
MCWidth     == FamilyBits(2, 2)
MCFirst     == BlockFirst(2, 2)
MCLast      == BlockLast(2, 2)
MCBlockSize == [n \in 0 .. 2 |-> 2^(2 - n)]

MCNames     == {"floor"}
MCFold      == [s \in MCNames |-> s]
MCZoneNames == {"corp", "Corp.", "lab"}
MCFoldZone  == [z \in MCZoneNames |-> IF z = "Corp." THEN "corp" ELSE z]

Fencing  == [ReadOnly |-> FALSE, ProtectedSpaces |-> {},
             ProtectedSubnets |-> {[addr |-> 2, bits |-> 1]}, ProtectedZones |-> {"Corp."}]
MCGuards == {Fencing, [Fencing EXCEPT !.ReadOnly = TRUE]}

Open        == [server |-> "west", addr |-> 0, bits |-> 2, shared |-> "floor"]
Closed      == [Open EXCEPT !.addr = 2, !.bits = 1]
Reservation == [server |-> "west", ip |-> 2, group |-> "floor"]
ContainerOp(op) == [op |-> op, server |-> "west", name |-> "floor"]

MCRequests ==
    {[op |-> "scope_delete", server |-> "west", addr |-> 0]}
        \cup {ContainerOp(op) : op \in {"shared_network_create", "shared_network_delete",
                                        "group_delete"}}

MCDeployments ==
    {[scopes |-> {Open}, ranges |-> {}, statics |-> {}, containers |-> {}]}

MCPlaceable ==
    [scopes |-> {Closed}, ranges |-> {[server |-> "west", first |-> 0, last |-> 0]},
     statics |-> {Reservation},
     containers |-> {[kind |-> "shared_network", server |-> "west", name |-> "floor"]}]

MCZoneRequests ==
    {[op |-> "record_update", id |-> 1, zone |-> NoName, fields |-> TRUE],
     [op |-> "zone_delete", zone |-> "lab", view |-> "in"]}

MCZoneDeployments ==
    {[zones |-> {[name |-> "corp", view |-> "in"], [name |-> "lab", view |-> "in"]},
      rrs |-> <<[zone |-> "lab", view |-> "in", label |-> "www", edited |-> FALSE]>>]}
=============================================================================
