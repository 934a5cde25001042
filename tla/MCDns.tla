-------------------------------- MODULE MCDns --------------------------------
(***************************************************************************)
(* DnsTools with the protected zone "corp", spelled in two ways, in two    *)
(* views, an unprotected zone "lab", and a zone "new" to be created.       *)
(***************************************************************************)
EXTENDS DnsTools, TLC

MCNames == {"corp", "Corp.", "lab", "new"}
MCFold  == [z \in MCNames |-> IF z = "Corp." THEN "corp" ELSE z]

MCSymmetry == Permutations(Calls)

Fencing  == [ReadOnly |-> FALSE, ProtectedZones |-> {"Corp."}]
FencingOnly == {Fencing}

ZoneRow(z, v)   == [name |-> z, view |-> v]
Rr(z, v, l)     == [zone |-> z, view |-> v, label |-> l, edited |-> FALSE]
ZoneOp(op, z, v)      == [op |-> op, zone |-> z, view |-> v]
RecordOp(op, z, l, v) == [op |-> op, zone |-> z, label |-> l, view |-> v]
Update(i, z)          == [op |-> "record_update", id |-> i, zone |-> z, fields |-> TRUE]

MCDeployments ==
    {[zones |-> {ZoneRow("corp", "in"), ZoneRow("corp", "out"), ZoneRow("lab", "in")},
      rrs |-> <<Rr("corp", "in", "www"), Rr("lab", "in", "www"), Unused>>]}

MCRequests ==
    {RecordOp("record_create", "lab", "www", NoView), RecordOp("record_create", "corp", "www", "in"),
     RecordOp("record_create", "new", "www", NoView),
     RecordOp("record_delete", "lab", "www", "in"), RecordOp("record_delete", "Corp.", "www", NoView),
     Update(1, NoName), Update(1, "lab"), Update(2, NoName), Update(2, "corp"), Update(2, "new"),
     Update(3, NoName),
     ZoneOp("zone_create", "new", NoView), ZoneOp("zone_create", "corp", "out"),
     ZoneOp("zone_delete", "lab", NoView), ZoneOp("zone_delete", "new", "out"),
     ZoneOp("zone_delete", "Corp.", "in")}
=============================================================================
