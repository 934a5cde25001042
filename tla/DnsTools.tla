------------------------------- MODULE DnsTools -------------------------------
(***************************************************************************)
(* The DNS tools of tools/dns_tools.go. Read-only mode and the protected   *)
(* zones guard them. All but dns_record_update name the zone they work on; *)
(* that one names a record by its id, so the record's zone is looked up    *)
(* first, and the zone it may name besides goes into the edit.             *)
(***************************************************************************)
EXTENDS ToolCalls

CONSTANTS
    Names,        \* spellings of zone names
    Fold,         \* Fold[z]: z trimmed, without its last dot, in lower case
    Views,        \* DNS views and servers: what tells zones of one name apart
    Labels,       \* a record's name and type
    RrIds,        \* row ids of records, never used twice by the appliance
    Requests,     \* the inputs callers may pass
    Deployments   \* what the appliance may hold when the server starts

NoName == ""   \* an optional name left out
NoView == ""
Unused == [row |-> "unused"]
Gone   == [row |-> "gone"]

ASSUME NameAssumption ==
    /\ NoName \notin Names /\ NoView \notin Views
    /\ Fold \in [Names -> Names] /\ \A z \in Names : Fold[Fold[z]] = Fold[z]

CheckReadOnly(gg) == ~gg.ReadOnly

CheckProtectedZone(gg, zone) ==
    zone # NoName => \A p \in gg.ProtectedZones : Fold[p] # Fold[zone]

Folded  == {Fold[z] : z \in Names}
Zone    == [name : Folded, view : Views]
Record  == [zone : Folded, view : Views, label : Labels, edited : BOOLEAN]
OptName == Names \cup {NoName}
OptView == Views \cup {NoView}

RecordCreateDelete == [op : {"record_create", "record_delete"}, zone : OptName, label : Labels,
                       view : OptView]
RecordUpdate == [op : {"record_update"}, id : RrIds, zone : OptName, fields : BOOLEAN]
ZoneCreateDelete == [op : {"zone_create", "zone_delete"}, zone : OptName, view : OptView]

Request == RecordCreateDelete \cup RecordUpdate \cup ZoneCreateDelete

ASSUME DnsAssumption ==
    /\ \A gg \in Guards : gg.ReadOnly \in BOOLEAN /\ gg.ProtectedZones \subseteq Names
    /\ Requests \subseteq Request
    /\ \A d \in Deployments :
          /\ d.zones \in SUBSET Zone
          /\ \A i \in RrIds : d.rrs[i] \in Record \cup {Unused, Gone}

VARIABLES
    zones,  \* appliance: the zones that exist
    rrs     \* appliance: records by id

store == <<zones, rrs>>
vars  == <<callVars, store>>

RrIn(i) == rrs[i] \notin {Unused, Gone}

RowsOK ==
    /\ zones \subseteq Zone
    /\ rrs \in [RrIds -> Record \cup {Unused, Gone}]

TypeOK == CallsTypeOK(Request) /\ RowsOK

Init ==
    /\ CallsInit
    /\ \E d \in Deployments : zones = d.zones /\ rrs = [i \in RrIds |-> d.rrs[i]]

-----------------------------------------------------------------------------

dnsRecordCreate(c, r) ==
    /\ r.op = "record_create"
    /\ CheckReadOnly(g)
    /\ CheckProtectedZone(g, r.zone)
    /\ r.zone # NoName
    /\ Enter(c, r, "send")

dnsRecordDelete(c, r) ==
    /\ r.op = "record_delete"
    /\ CheckReadOnly(g)
    /\ CheckProtectedZone(g, r.zone)
    /\ r.zone # NoName
    /\ Enter(c, r, "send")

guardrailsNeedZoneLookup == g.ProtectedZones # {}

(* Mutant: the zone that goes into the edit is not checked.                  *)
NewZoneUnchecked(c, r) ==
    /\ r.op = "record_update"
    /\ CheckReadOnly(g)
    /\ r.fields
    /\ Enter(c, r, IF guardrailsNeedZoneLookup THEN "lookup" ELSE "send")

(* Mutant: an update that names its zone is not looked up.                   *)
NamedZoneTrusted(c, r) ==
    /\ r.op = "record_update"
    /\ CheckReadOnly(g)
    /\ CheckProtectedZone(g, r.zone)
    /\ r.fields
    /\ Enter(c, r, IF guardrailsNeedZoneLookup /\ r.zone = NoName THEN "lookup" ELSE "send")

dnsRecordUpdate(c, r) ==
    /\ r.op = "record_update"
    /\ CheckReadOnly(g)
    /\ CheckProtectedZone(g, r.zone)
    /\ r.fields                       \* else there is no field to update
    /\ Enter(c, r, IF guardrailsNeedZoneLookup THEN "lookup" ELSE "send")

(* Mutant: a row that comes without its zone passes.                         *)
MissingZonePasses(c) ==
    /\ req[c].op = "record_update"
    /\ RrIn(req[c].id)
    /\ \E zone \in {rrs[req[c].id].zone, NoName} : CheckProtectedZone(g, zone)
    /\ Pass(c)

(* The appliance may leave the zone out of the row; the update is refused    *)
(* then, and when there is no row.                                           *)
applyDNSRecordUpdateProtections(c) ==
    /\ req[c].op = "record_update"
    /\ RrIn(req[c].id)
    /\ \E zone \in {rrs[req[c].id].zone, NoName} :
          zone # NoName /\ CheckProtectedZone(g, zone)
    /\ Pass(c)

dnsZoneCreate(c, r) ==
    /\ r.op = "zone_create"
    /\ CheckReadOnly(g)
    /\ CheckProtectedZone(g, r.zone)
    /\ r.zone # NoName
    /\ Enter(c, r, "send")

dnsZoneDelete(c, r) ==
    /\ r.op = "zone_delete"
    /\ CheckReadOnly(g)
    /\ CheckProtectedZone(g, r.zone)
    /\ r.zone # NoName
    /\ Enter(c, r, "send")

Tool(c) ==
    /\ \/ \E r \in Requests :
             \/ dnsRecordCreate(c, r) \/ dnsRecordDelete(c, r) \/ dnsRecordUpdate(c, r)
             \/ dnsZoneCreate(c, r) \/ dnsZoneDelete(c, r)
       \/ applyDNSRecordUpdateProtections(c)
       \/ Send(c)
       \/ Return(c)
    /\ UNCHANGED store

-----------------------------------------------------------------------------
(* The appliance executes a mutation. It matches zone names by Fold, and     *)
(* decides which view is meant when the request names none.                  *)

Drop(m) == Execute(m) /\ UNCHANGED store

In(m, v) == m.view \in {v, NoView}

DnsRrAdd(m) ==
    /\ m.op = "record_create" /\ Execute(m)
    /\ \E z \in zones, i \in RrIds :
          /\ z.name = Fold[m.zone] /\ In(m, z.view) /\ rrs[i] = Unused
          /\ rrs' = [rrs EXCEPT ![i] =
                [zone |-> z.name, view |-> z.view, label |-> m.label, edited |-> FALSE]]
    /\ UNCHANGED zones

(* Of several records with the name and type, any may go.                    *)
DnsRrDelete(m) ==
    /\ m.op = "record_delete" /\ Execute(m)
    /\ \E gone \in SUBSET {i \in RrIds : /\ RrIn(i) /\ rrs[i].zone = Fold[m.zone]
                                         /\ rrs[i].label = m.label /\ In(m, rrs[i].view)} :
          rrs' = [i \in RrIds |-> IF i \in gone THEN Gone ELSE rrs[i]]
    /\ UNCHANGED zones

(* A zone named in the edit may move the record there, into any view of it.  *)
DnsRrEdit(m) ==
    /\ m.op = "record_update" /\ Execute(m)
    /\ RrIn(m.id)
    /\ LET row  == rrs[m.id]
           here == [name |-> row.zone, view |-> row.view]
       IN  \E z \in {here} \cup {y \in zones : m.zone # NoName /\ y.name = Fold[m.zone]} :
              rrs' = [rrs EXCEPT ![m.id] =
                 [zone |-> z.name, view |-> z.view, label |-> row.label, edited |-> TRUE]]
    /\ UNCHANGED zones

DnsZoneAdd(m) ==
    /\ m.op = "zone_create" /\ Execute(m)
    /\ \E v \in Views : In(m, v) /\ zones' = zones \cup {[name |-> Fold[m.zone], view |-> v]}
    /\ UNCHANGED rrs

(* A zone goes with its records.                                             *)
DnsZoneDelete(m) ==
    /\ m.op = "zone_delete" /\ Execute(m)
    /\ \E z \in zones :
          /\ z.name = Fold[m.zone] /\ In(m, z.view)
          /\ zones' = zones \ {z}
          /\ rrs' = [i \in RrIds |->
                IF RrIn(i) /\ rrs[i].zone = z.name /\ rrs[i].view = z.view THEN Gone ELSE rrs[i]]

(* An administrator places, moves or removes one record.                     *)
Administration ==
    /\ \E i \in RrIds :
          \/ /\ RrIn(i)
             /\ rrs' = [rrs EXCEPT ![i] = Gone]
          \/ /\ rrs[i] # Gone
             /\ \E z \in zones, label \in Labels :
                   rrs' = [rrs EXCEPT ![i] =
                      [zone |-> z.name, view |-> z.view, label |-> label, edited |-> FALSE]]
    /\ UNCHANGED zones
    /\ Overtake

Appliance(m) ==
    \/ Drop(m)
    \/ DnsRrAdd(m) \/ DnsRrDelete(m) \/ DnsRrEdit(m)
    \/ DnsZoneAdd(m) \/ DnsZoneDelete(m)

(* The calls and what becomes of their mutations; and all that may happen.   *)
CallStep ==
    \/ \E c \in Calls : Tool(c)
    \/ \E m \in wire : Appliance(m)

Next ==
    \/ CallStep
    \/ Administration
    \/ Restart /\ UNCHANGED store

Spec == Init /\ [][Next]_vars

(* One server without restarts, and nobody else who changes the appliance.   *)
CallsSpec == Init /\ [][CallStep]_vars

-----------------------------------------------------------------------------
(* Properties. *)

ZoneProtected(z) == \E p \in g.ProtectedZones : Fold[p] = z

(* A protected zone neither appears nor goes, in any view, and its records   *)
(* neither come nor change nor go.                                           *)
FencesHonoured ==
    /\ \A z \in (zones \ zones') \cup (zones' \ zones) : ~ZoneProtected(z.name)
    /\ \A i \in RrIds : rrs'[i] # rrs[i] =>
          /\ RrIn(i) => ~ZoneProtected(rrs[i].zone)
          /\ RrIn(i)' => ~ZoneProtected(rrs'[i].zone)

(* What the checks on its input establish of a request.                      *)
Entered(m) ==
    /\ ~g.ReadOnly
    /\ m.zone # NoName => ~ZoneProtected(Fold[m.zone])
    /\ m.op # "record_update" => m.zone # NoName

(* What the lookup establishes of an update, and other calls preserve.       *)
Verified(m) ==
    m.op = "record_update" =>
        /\ guardrailsNeedZoneLookup => rrs[m.id] # Unused
        /\ RrIn(m.id) => ~ZoneProtected(rrs[m.id].zone)

(* The inductive invariant, as in DhcpTools.                                 *)
Inv ==
    /\ TypeOK
    /\ \A c \in Calls : pc[c] # "idle" => Entered(req[c])
    /\ ~raced => \A m \in Checked : Entered(m) /\ Verified(m)

(* No interleaving of tool calls, late and repeated mutations changes a      *)
(* protected zone or a record in it, moves one in or moves one out, unless   *)
(* an administrator or a restart came between check and execution.           *)
ProtectedUntouched == [][(ToolStep /\ ~raced) => FencesHonoured]_vars

(* A server restarted as read-only changes nothing any more, once what an    *)
(* earlier one had sent is through.                                          *)
ReadOnlyFreezes == [][(g.ReadOnly /\ ToolStep /\ ~raced) => UNCHANGED store]_vars

(* The same seen from outside, when only the tools act: zones are to the DNS *)
(* tools what spaces are to the IPAM tools, but a zone that is not protected *)
(* holds nothing that is.                                                    *)
HeldIn(z) == {<<i, rrs[i]>> : i \in {j \in RrIds : RrIn(j) /\ rrs[j].zone = z /\ ZoneProtected(z)}}

Promise == INSTANCE FencedInventory WITH
    Spaces <- Folded,
    shielded <- {z \in Folded : ZoneProtected(z)},
    present <- {z.name : z \in zones},
    held <- [z \in Folded |-> HeldIn(z)]

KeepsPromise == Promise!Spec
=============================================================================
