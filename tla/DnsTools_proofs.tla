--------------------------- MODULE DnsTools_proofs ---------------------------
(***************************************************************************)
(* DnsTools for any number of concurrent calls, any inputs, any protected  *)
(* zones and any records, with restarts of the server and administrators   *)
(* who change records meanwhile.                                           *)
(***************************************************************************)
EXTENDS DnsTools, TLAPS

(* Calls are checked against the guardrails of their own server; what an     *)
(* earlier server has left on the wire at least names its zone.              *)
EntryInv ==
    /\ \A c \in Calls : pc[c] # "idle" => Entered(req[c])
    /\ \A m \in wire : m.op # "record_update" => m.zone # NoName

VerifyInv == ~raced => \A m \in Checked : Entered(m) /\ Verified(m)

Operation(c, r) ==
    \/ dnsRecordCreate(c, r) \/ dnsRecordDelete(c, r) \/ dnsRecordUpdate(c, r)
    \/ dnsZoneCreate(c, r) \/ dnsZoneDelete(c, r)

-----------------------------------------------------------------------------
(* Type correctness. *)

LEMMA RequestShapes ==
    ASSUME NEW m \in Request
    PROVE  /\ m # NoReq
           /\ m.op \in {"record_create", "record_delete"} => m \in RecordCreateDelete
           /\ m.op = "record_update" => m \in RecordUpdate
           /\ m.op \in {"zone_create", "zone_delete"} => m \in ZoneCreateDelete
           /\ m.zone \in OptName
  BY DEF Request, RecordCreateDelete, RecordUpdate, ZoneCreateDelete, NoReq

LEMMA FoldTypes ==
    ASSUME NEW z \in Names
    PROVE  Fold[z] \in Folded /\ Fold[Fold[z]] = Fold[z] /\ z # NoName
  BY NameAssumption DEF Folded

LEMMA TypeInit == Init => TypeOK
<1> SUFFICES ASSUME Init PROVE TypeOK
  OBVIOUS
<1>1. PICK d \in Deployments : zones = d.zones /\ rrs = [i \in RrIds |-> d.rrs[i]]
  BY DEF Init
<1>2. zones \subseteq Zone /\ rrs \in [RrIds -> Record \cup {Unused, Gone}]
  BY <1>1, DnsAssumption
<1> QED BY <1>2 DEF Init, CallsInit, CallsTypeOK, TypeOK, RowsOK

(* No input gets past a tool's checks unless it keeps clear of everything    *)
(* protected that the input alone can name.                                  *)
LEMMA InputsAreChecked ==
    ASSUME NEW c \in Calls, NEW r \in Request, Operation(c, r)
    PROVE  /\ Entered(r)
           /\ \E stage \in {"lookup", "send"} :
                 Enter(c, r, stage) /\ (stage = "send" => Verified(r))
<1>1. CheckReadOnly(g) /\ CheckProtectedZone(g, r.zone)
  BY DEF Operation, dnsRecordCreate, dnsRecordDelete, dnsRecordUpdate, dnsZoneCreate, dnsZoneDelete
<1>2. r.zone # NoName => ~ZoneProtected(Fold[r.zone])
  BY <1>1 DEF CheckProtectedZone, ZoneProtected
<1>3. r.op # "record_update" => r.zone # NoName
  BY DEF Operation, dnsRecordCreate, dnsRecordDelete, dnsRecordUpdate, dnsZoneCreate, dnsZoneDelete
<1>4. Entered(r)
  BY <1>1, <1>2, <1>3 DEF Entered, CheckReadOnly
<1>5. CASE dnsRecordUpdate(c, r)
  <2>1. ~guardrailsNeedZoneLookup => Verified(r)
    BY DEF Verified, guardrailsNeedZoneLookup, ZoneProtected
  <2> QED BY <1>4, <1>5, <2>1 DEF dnsRecordUpdate
<1>6. CASE ~dnsRecordUpdate(c, r)
  <2>1. r.op # "record_update" /\ Enter(c, r, "send")
    BY <1>6 DEF Operation, dnsRecordCreate, dnsRecordDelete, dnsZoneCreate, dnsZoneDelete
  <2> QED BY <1>4, <2>1 DEF Verified
<1> QED BY <1>5, <1>6

(* A lookup that passes has seen the record in a zone that is not protected. *)
LEMMA LookupVerifies ==
    ASSUME RowsOK, NEW c \in Calls, req[c] \in Request, applyDNSRecordUpdateProtections(c)
    PROVE  Pass(c) /\ Verified(req[c])
<1> DEFINE row == rrs[req[c].id]
<1>1. Pass(c) /\ req[c].op = "record_update" /\ RrIn(req[c].id)
  BY DEF applyDNSRecordUpdateProtections
<1>2. row \in Record
  BY <1>1, RequestShapes DEF RrIn, RowsOK, RecordUpdate
<1>3. CheckProtectedZone(g, row.zone) /\ row.zone # NoName
  BY DEF applyDNSRecordUpdateProtections
<1>4. Fold[row.zone] = row.zone
  BY <1>2, FoldTypes DEF Record, Folded
<1> QED BY <1>1, <1>3, <1>4 DEF Verified, RrIn, CheckProtectedZone, ZoneProtected

(* A step of a call moves only that call, and what becomes checked by it is  *)
(* its request alone.                                                        *)
LEMMA ToolSteps ==
    ASSUME TypeOK, EntryInv, NEW c \in Calls, Tool(c)
    PROVE  /\ CallsTypeOK(Request)'
           /\ EntryInv'
           /\ g' = g /\ store' = store /\ Settle
           /\ \A m \in Checked' : m \in Checked \/ (m = req'[c] /\ (Entered(m) /\ Verified(m)))
<1>0. store' = store
  BY DEF Tool
<1>1. ASSUME NEW r \in Requests, Operation(c, r)
      PROVE  /\ CallsTypeOK(Request)'
             /\ EntryInv'
             /\ g' = g /\ Settle
             /\ \A m \in Checked' : m \in Checked \/ (m = req'[c] /\ (Entered(m) /\ Verified(m)))
  <2>1. r \in Request
    BY DnsAssumption
  <2>2. PICK stage \in {"lookup", "send"} :
            Enter(c, r, stage) /\ (stage = "send" => Verified(r))
    BY <1>1, <2>1, InputsAreChecked
  <2>3. Entered(r)
    BY <1>1, <2>1, InputsAreChecked
  <2>5. CallsTypeOK(Request)'
    BY <2>1, <2>2 DEF TypeOK, CallsTypeOK, Enter, Settle
  <2>6. EntryInv'
    BY <2>2, <2>3 DEF EntryInv, Entered, ZoneProtected, Enter, TypeOK, CallsTypeOK
  <2>7. ASSUME NEW m \in Checked', m \notin Checked
        PROVE  m = req'[c] /\ Entered(m) /\ Verified(m)
    BY <2>2, <2>3, <2>7 DEF Checked, Enter, TypeOK, CallsTypeOK
  <2> QED BY <2>2, <2>5, <2>6, <2>7 DEF Enter
<1>2. CASE applyDNSRecordUpdateProtections(c)
  <2>1. req[c] \in Request /\ Entered(req[c])
    BY <1>2 DEF applyDNSRecordUpdateProtections, Pass, TypeOK, CallsTypeOK, EntryInv
  <2>2. Pass(c) /\ Verified(req[c])
    BY <1>2, <2>1, LookupVerifies DEF TypeOK
  <2>3. CallsTypeOK(Request)' /\ EntryInv'
    BY <2>1, <2>2 DEF TypeOK, CallsTypeOK, Pass, Settle, EntryInv, Entered, ZoneProtected
  <2>4. ASSUME NEW m \in Checked', m \notin Checked
        PROVE  m = req'[c] /\ Entered(m) /\ Verified(m)
    BY <2>1, <2>2, <2>4 DEF Checked, Pass, TypeOK, CallsTypeOK
  <2> QED BY <1>2, <1>0, <2>2, <2>3, <2>4 DEF Pass
<1>3. CASE Send(c)
  <2>1. req[c] \in Request
    BY <1>3 DEF Send, TypeOK, CallsTypeOK
  <2>4. CallsTypeOK(Request)'
    BY <1>3, <2>1 DEF TypeOK, CallsTypeOK, Send, Settle
  <2>2. EntryInv'
    <3>1. \A d \in Calls : pc'[d] # "idle" => pc[d] # "idle"
      BY <1>3 DEF Send, TypeOK, CallsTypeOK
    <3>2. Entered(req[c])
      BY <1>3 DEF Send, EntryInv
    <3> QED BY <1>3, <3>1, <3>2 DEF Send, EntryInv, Entered, ZoneProtected
  <2>3. Checked' \subseteq Checked
    BY <1>3 DEF Checked, Send, TypeOK, CallsTypeOK
  <2> QED BY <1>3, <1>0, <2>2, <2>3, <2>4 DEF Send
<1>4. CASE Return(c)
  <2>1. CallsTypeOK(Request)'
    BY <1>4 DEF TypeOK, CallsTypeOK, Return, Settle
  <2>3. EntryInv'
    BY <1>4 DEF TypeOK, CallsTypeOK, Return, EntryInv, Entered, ZoneProtected
  <2>2. Checked' \subseteq Checked
    BY <1>4 DEF Checked, Return, TypeOK, CallsTypeOK
  <2> QED BY <1>4, <1>0, <2>1, <2>2, <2>3 DEF Return
<1> QED BY <1>0, <1>1, <1>2, <1>3, <1>4 DEF Tool, Operation

-----------------------------------------------------------------------------
(* What the appliance does with a mutation. *)

(* A row stays as it is; or it is not in a protected zone before the step,   *)
(* nor after it.                                                             *)
RowStep(i) ==
    \/ rrs'[i] = rrs[i]
    \/ /\ RrIn(i) => ~ZoneProtected(rrs[i].zone)
       /\ rrs'[i] # Unused
       /\ RrIn(i)' => ~ZoneProtected(rrs'[i].zone)

LEMMA AllExecute ==
    ASSUME NEW m \in wire, Appliance(m)
    PROVE  Execute(m)
  BY DEF Appliance, Drop, DnsRrAdd, DnsRrDelete, DnsRrEdit, DnsZoneAdd, DnsZoneDelete

LEMMA ExecuteSteps ==
    ASSUME TypeOK, EntryInv, NEW m \in wire, Execute(m)
    PROVE  CallsTypeOK(Request)' /\ EntryInv' /\ g' = g /\ Checked' \subseteq Checked /\ Settle
  BY DEF TypeOK, CallsTypeOK, Execute, Settle, EntryInv, Entered, ZoneProtected, Checked

(* Every row the appliance writes belongs to a zone by its folded name; this *)
(* uses nothing of the guards.                                               *)
LEMMA RowsAreKept ==
    ASSUME RowsOK, NEW m \in Request, m.op # "record_update" => m.zone # NoName, Appliance(m)
    PROVE  RowsOK'
<1>3. CASE Drop(m)
  BY <1>3 DEF Drop, store, RowsOK
<1>4. CASE DnsRrAdd(m)
  <2>1. m \in RecordCreateDelete
    BY <1>4, RequestShapes DEF DnsRrAdd
  <2>2. \A z \in zones : [zone |-> z.name, view |-> z.view, label |-> m.label, edited |-> FALSE] \in Record
    BY <2>1 DEF RecordCreateDelete, Record, Zone, RowsOK
  <2> QED BY <1>4, <2>2 DEF DnsRrAdd, RowsOK
<1>5. CASE DnsRrDelete(m)
  BY <1>5 DEF DnsRrDelete, RowsOK
<1>6. CASE DnsRrEdit(m)
  <2> DEFINE row == rrs[m.id]
  <2>1. m.id \in RrIds
    BY <1>6, RequestShapes DEF DnsRrEdit, RecordUpdate
  <2>2. row \in Record
    BY <1>6, <2>1 DEF DnsRrEdit, RrIn, RowsOK
  <2>3. \A z \in {[name |-> row.zone, view |-> row.view]} \cup zones :
           [zone |-> z.name, view |-> z.view, label |-> row.label, edited |-> TRUE] \in Record
    BY <2>2 DEF Record, Zone, RowsOK
  <2>4. PICK z \in {[name |-> row.zone, view |-> row.view]} \cup zones :
            rrs' = [rrs EXCEPT ![m.id] =
                [zone |-> z.name, view |-> z.view, label |-> row.label, edited |-> TRUE]]
    BY <1>6 DEF DnsRrEdit
  <2>5. rrs' \in [RrIds -> Record \cup {Unused, Gone}]
    BY <2>3, <2>4 DEF RowsOK
  <2> QED BY <1>6, <2>5 DEF DnsRrEdit, RowsOK
<1>7. CASE DnsZoneAdd(m)
  <2>1. m.zone \in Names
    BY <1>7, RequestShapes DEF DnsZoneAdd, OptName
  <2>2. \A v \in Views : [name |-> Fold[m.zone], view |-> v] \in Zone
    BY <2>1, FoldTypes DEF Zone
  <2> QED BY <1>7, <2>2 DEF DnsZoneAdd, RowsOK
<1>8. CASE DnsZoneDelete(m)
  BY <1>8 DEF DnsZoneDelete, RowsOK
<1> QED BY <1>3, <1>4, <1>5, <1>6, <1>7, <1>8 DEF Appliance

(* Each row that a checked mutation touches is outside the protected zones   *)
(* before and after, and so is each zone that comes or goes.                 *)
LEMMA RowSteps ==
    ASSUME RowsOK, g' = g, NEW m \in Request, Entered(m), Verified(m), Appliance(m)
    PROVE  /\ \A i \in RrIds : RowStep(i)
           /\ \A z \in (zones \ zones') \cup (zones' \ zones) : ~ZoneProtected(z.name)
<1>3. m.zone # NoName => ~ZoneProtected(Fold[m.zone])
  BY DEF Entered
<1>4. \A z : ZoneProtected(z)' <=> ZoneProtected(z)
  BY DEF ZoneProtected
<1>5. m.op # "record_update" => m.zone # NoName
  BY DEF Entered
<1>6. CASE Drop(m)
  BY <1>6 DEF Drop, store, RowStep
<1>7. CASE DnsRrAdd(m)
  <2>1. PICK z \in zones, i \in RrIds :
            /\ z.name = Fold[m.zone] /\ rrs[i] = Unused
            /\ rrs' = [rrs EXCEPT ![i] =
                 [zone |-> z.name, view |-> z.view, label |-> m.label, edited |-> FALSE]]
    BY <1>7 DEF DnsRrAdd
  <2>2. ~ZoneProtected(z.name)
    BY <1>3, <1>5, <1>7, <2>1 DEF DnsRrAdd
  <2>3. /\ rrs'[i] = [zone |-> z.name, view |-> z.view, label |-> m.label, edited |-> FALSE]
        /\ \A j \in RrIds : j # i => rrs'[j] = rrs[j]
    BY <2>1 DEF RowsOK
  <2>4. rrs'[i].zone = z.name /\ rrs'[i] # Unused
    BY <2>3 DEF Unused
  <2> QED BY <1>4, <1>7, <2>1, <2>2, <2>3, <2>4 DEF DnsRrAdd, RowStep, RrIn
<1>8. CASE DnsRrDelete(m)
  <2>1. ASSUME NEW i \in RrIds, rrs'[i] # rrs[i]
        PROVE  RrIn(i) /\ rrs[i].zone = Fold[m.zone] /\ rrs'[i] = Gone
    BY <1>8, <2>1 DEF DnsRrDelete
  <2>2. Gone # Unused
    BY DEF Gone, Unused
  <2> QED BY <1>3, <1>5, <1>8, <2>1, <2>2 DEF DnsRrDelete, RowStep, RrIn
<1>9. CASE DnsRrEdit(m)
  <2> DEFINE row == rrs[m.id]
  <2>1. m.id \in RrIds /\ RrIn(m.id) /\ m.op = "record_update"
    BY <1>9, RequestShapes DEF DnsRrEdit, RecordUpdate
  <2>2. ~ZoneProtected(row.zone)
    BY <2>1 DEF Verified
  <2>3. PICK z \in {[name |-> row.zone, view |-> row.view]}
                    \cup {y \in zones : m.zone # NoName /\ y.name = Fold[m.zone]} :
            rrs' = [rrs EXCEPT ![m.id] =
                [zone |-> z.name, view |-> z.view, label |-> row.label, edited |-> TRUE]]
    BY <1>9 DEF DnsRrEdit
  <2>4. ~ZoneProtected(z.name)
    BY <1>3, <2>2, <2>3
  <2>5. /\ rrs'[m.id] = [zone |-> z.name, view |-> z.view, label |-> row.label, edited |-> TRUE]
        /\ \A j \in RrIds : j # m.id => rrs'[j] = rrs[j]
    BY <2>1, <2>3 DEF RowsOK
  <2>6. rrs'[m.id].zone = z.name /\ rrs'[m.id] # Unused
    BY <2>5 DEF Unused
  <2> QED BY <1>4, <1>9, <2>2, <2>4, <2>5, <2>6 DEF DnsRrEdit, RowStep
<1>10. CASE DnsZoneAdd(m)
  BY <1>3, <1>5, <1>10 DEF DnsZoneAdd, RowStep
<1>11. CASE DnsZoneDelete(m)
  <2>1. PICK z \in zones :
            /\ z.name = Fold[m.zone]
            /\ zones' = zones \ {z}
            /\ rrs' = [i \in RrIds |->
                  IF RrIn(i) /\ rrs[i].zone = z.name /\ rrs[i].view = z.view
                     THEN Gone ELSE rrs[i]]
    BY <1>11 DEF DnsZoneDelete
  <2>2. ~ZoneProtected(z.name)
    BY <1>3, <1>5, <1>11, <2>1 DEF DnsZoneDelete
  <2>3. Gone # Unused
    BY DEF Gone, Unused
  <2> QED BY <2>1, <2>2, <2>3 DEF RowStep, RrIn
<1> QED BY <1>6, <1>7, <1>8, <1>9, <1>10, <1>11 DEF Appliance

(* A checked update stays verified whatever the tools have done meanwhile.   *)
LEMMA VerifiedIsKept ==
    ASSUME g' = g, NEW m \in Request, Verified(m),
           m.op = "record_update" => RowStep(m.id)
    PROVE  Verified(m)'
<1>1. \A z : ZoneProtected(z)' <=> ZoneProtected(z)
  BY DEF ZoneProtected
<1>2. guardrailsNeedZoneLookup' <=> guardrailsNeedZoneLookup
  BY DEF guardrailsNeedZoneLookup
<1>3. ~guardrailsNeedZoneLookup => \A z : ~ZoneProtected(z)
  BY DEF guardrailsNeedZoneLookup, ZoneProtected
<1>4. ASSUME m.op = "record_update"
      PROVE  /\ guardrailsNeedZoneLookup => rrs'[m.id] # Unused
             /\ RrIn(m.id)' => ~ZoneProtected(rrs'[m.id].zone)
  BY <1>1, <1>4 DEF Verified, RowStep, RrIn
<1> QED BY <1>1, <1>2, <1>4 DEF Verified

LEMMA EnteredIsKept ==
    ASSUME g' = g, NEW m
    PROVE  Entered(m)' <=> Entered(m)
  BY DEF Entered, ZoneProtected

-----------------------------------------------------------------------------
(* The inductive invariant. *)

LEMMA SettledRaces == Settle /\ ~raced' => ~raced \/ Checked' = {}
  BY DEF Settle

LEMMA InvTool ==
    ASSUME TypeOK, EntryInv, VerifyInv, NEW c \in Calls, Tool(c)
    PROVE  TypeOK' /\ EntryInv' /\ VerifyInv'
<1>1. TypeOK' /\ EntryInv'
  BY ToolSteps DEF TypeOK, RowsOK, store
<1>2. ASSUME ~raced', NEW m \in Checked'
      PROVE  Entered(m)' /\ Verified(m)'
  <2>1. Entered(m) /\ Verified(m)
    BY <1>2, ToolSteps, SettledRaces DEF VerifyInv
  <2>2. g' = g /\ store' = store
    BY ToolSteps
  <2> QED BY <2>1, <2>2, EnteredIsKept
          DEF Verified, RrIn, ZoneProtected, guardrailsNeedZoneLookup, store
<1> QED BY <1>1, <1>2 DEF VerifyInv

(* A mutation that nothing raced reaches no protected zone.                  *)
LEMMA WireHonours ==
    ASSUME TypeOK, VerifyInv, ~raced, NEW m \in wire, Appliance(m)
    PROVE  /\ \A i \in RrIds : RowStep(i)
           /\ \A z \in (zones \ zones') \cup (zones' \ zones) : ~ZoneProtected(z.name)
<1>1. m \in Request /\ Entered(m) /\ Verified(m) /\ g' = g
  BY AllExecute DEF TypeOK, CallsTypeOK, VerifyInv, Checked, Execute
<1> QED BY <1>1, RowSteps DEF TypeOK

LEMMA InvAppliance ==
    ASSUME TypeOK, EntryInv, VerifyInv, NEW m \in wire, Appliance(m)
    PROVE  TypeOK' /\ EntryInv' /\ VerifyInv'
<1>1. CallsTypeOK(Request)' /\ EntryInv'
  BY AllExecute, ExecuteSteps
<1>2. RowsOK'
  BY RowsAreKept DEF TypeOK, CallsTypeOK, EntryInv
<1>3. ASSUME ~raced', NEW k \in Checked'
      PROVE  Entered(k)' /\ Verified(k)'
  <2>1. ~raced /\ k \in Checked /\ g' = g
    BY <1>3, AllExecute, ExecuteSteps, SettledRaces
  <2>2. Entered(k) /\ Verified(k) /\ k \in Request
    BY <2>1 DEF VerifyInv, Checked, TypeOK, CallsTypeOK
  <2>3. k.op = "record_update" => RowStep(k.id)
    BY <2>1, <2>2, WireHonours, RequestShapes DEF RecordUpdate
  <2> QED BY <2>1, <2>2, <2>3, EnteredIsKept, VerifiedIsKept
<1> QED BY <1>1, <1>2, <1>3 DEF VerifyInv, TypeOK

LEMMA AdministrationKeepsRows ==
    ASSUME RowsOK, Administration
    PROVE  RowsOK'
<1>1. \A z \in zones, label \in Labels :
         [zone |-> z.name, view |-> z.view, label |-> label, edited |-> FALSE] \in Record
  BY DEF RowsOK, Zone, Record
<1> QED BY <1>1 DEF Administration, RowsOK

LEMMA InvAdministration ==
    ASSUME TypeOK, EntryInv, Administration
    PROVE  TypeOK' /\ EntryInv' /\ VerifyInv'
<1>1. CallsTypeOK(Request)' /\ EntryInv'
  BY DEF Administration, Overtake, TypeOK, CallsTypeOK, EntryInv, Entered, ZoneProtected
<1>2. Checked' = Checked /\ raced' = (Checked # {})
  BY DEF Administration, Overtake, Checked
<1> QED BY <1>1, <1>2, AdministrationKeepsRows DEF VerifyInv, TypeOK

(* The wire outlives the server, the calls do not; with a mutation left on   *)
(* the wire the new guardrails may not have been asked.                      *)
LEMMA InvRestart ==
    ASSUME TypeOK, EntryInv, Restart, UNCHANGED store
    PROVE  TypeOK' /\ EntryInv' /\ VerifyInv'
  BY DEF Restart, TypeOK, CallsTypeOK, RowsOK, EntryInv, VerifyInv, store

LEMMA Inductive == Spec => [](TypeOK /\ EntryInv /\ VerifyInv)
<1>1. Init => TypeOK /\ EntryInv /\ VerifyInv
  <2>1. Init => CallsInit
    BY DEF Init
  <2> QED BY <2>1, TypeInit DEF CallsInit, EntryInv, VerifyInv, Checked
<1>2. TypeOK /\ EntryInv /\ VerifyInv /\ [Next]_vars => (TypeOK /\ EntryInv /\ VerifyInv)'
  <2> SUFFICES ASSUME TypeOK, EntryInv, VerifyInv, [Next]_vars
               PROVE  (TypeOK /\ EntryInv /\ VerifyInv)'
    OBVIOUS
  <2>1. ASSUME NEW c \in Calls, Tool(c) PROVE (TypeOK /\ EntryInv /\ VerifyInv)'
    BY <2>1, InvTool
  <2>2. ASSUME NEW m \in wire, Appliance(m) PROVE (TypeOK /\ EntryInv /\ VerifyInv)'
    BY <2>2, InvAppliance
  <2>3. CASE Administration
    BY <2>3, InvAdministration
  <2>4. CASE Restart /\ UNCHANGED store
    BY <2>4, InvRestart
  <2>5. CASE UNCHANGED vars
    BY <2>5 DEF vars, callVars, store, TypeOK, CallsTypeOK, RowsOK, EntryInv, VerifyInv, Checked,
                Entered, Verified, RrIn, ZoneProtected, guardrailsNeedZoneLookup
  <2> QED BY <2>1, <2>2, <2>3, <2>4, <2>5 DEF Next, CallStep
<1> QED BY <1>1, <1>2, PTL DEF Spec

(* Every reachable state is well typed, every call in progress has passed    *)
(* its server's guards, and a pending mutation that nothing raced reaches no *)
(* protected zone.                                                           *)
THEOREM Invariance == Spec => []Inv
<1>1. TypeOK /\ EntryInv /\ VerifyInv => Inv
  BY DEF EntryInv, VerifyInv, Inv
<1> QED BY <1>1, Inductive, PTL

-----------------------------------------------------------------------------
(* The action properties. *)

LEMMA CallsKeepStore ==
    ASSUME NEW c \in Calls, Tool(c)
    PROVE  g' = g /\ store' = store /\ (~raced => ~raced')
  BY DEF Tool, dnsRecordCreate, dnsRecordDelete, dnsRecordUpdate, dnsZoneCreate, dnsZoneDelete,
         applyDNSRecordUpdateProtections, Send, Return, Enter, Pass, Settle

(* No interleaving of calls and of late or repeated executions changes a     *)
(* protected zone or a record in it, moves one in or moves one out, unless   *)
(* an administrator or a restart came between check and execution.           *)
THEOREM Protection == Spec => ProtectedUntouched
<1>1. (TypeOK /\ EntryInv /\ VerifyInv) /\ [Next]_vars
         => [(ToolStep /\ ~raced) => FencesHonoured]_vars
  <2> SUFFICES ASSUME TypeOK, EntryInv, VerifyInv, Next, ToolStep, ~raced PROVE FencesHonoured
    OBVIOUS
  <2>1. ASSUME NEW c \in Calls, Tool(c) PROVE FencesHonoured
    BY <2>1, CallsKeepStore DEF FencesHonoured, store
  <2>2. ASSUME NEW m \in wire, Appliance(m) PROVE FencesHonoured
    <3>1. /\ \A i \in RrIds : RowStep(i)
          /\ \A z \in (zones \ zones') \cup (zones' \ zones) : ~ZoneProtected(z.name)
      BY <2>2, WireHonours
    <3> QED BY <3>1 DEF RowStep, FencesHonoured
  <2>3. ~Administration
    BY DEF Administration, Overtake, ToolStep
  <2>4. CASE Restart /\ UNCHANGED store
    BY <2>4 DEF FencesHonoured, store
  <2> QED BY <2>1, <2>2, <2>3, <2>4 DEF Next, CallStep
<1> QED BY <1>1, Inductive, PTL DEF Spec, ProtectedUntouched

(* Under SOLIDSERVER_READ_ONLY no tool changes zones or records, once what   *)
(* an earlier server had sent is through.                                    *)
THEOREM ReadOnlyHolds == Spec => ReadOnlyFreezes
<1>1. (TypeOK /\ EntryInv /\ VerifyInv) /\ [Next]_vars
         => [(g.ReadOnly /\ ToolStep /\ ~raced) => UNCHANGED store]_vars
  <2> SUFFICES ASSUME VerifyInv, Next, ToolStep, g.ReadOnly, ~raced PROVE store' = store
    OBVIOUS
  <2>1. ASSUME NEW c \in Calls, Tool(c) PROVE store' = store
    BY <2>1, CallsKeepStore
  <2>2. wire = {}
    BY DEF VerifyInv, Entered, Checked
  <2>3. ~Administration
    BY DEF Administration, Overtake, ToolStep
  <2> QED BY <2>1, <2>2, <2>3 DEF Next, CallStep
<1> QED BY <1>1, Inductive, PTL DEF Spec, ReadOnlyFreezes

-----------------------------------------------------------------------------
(* Refinement: while only one server's tools act, DnsTools implements        *)
(* FencedInventory.                                                          *)

LEMMA HeldInStays ==
    ASSUME g' = g, \A i \in RrIds : RowStep(i), NEW z
    PROVE  HeldIn(z)' = HeldIn(z)
<1>1. ZoneProtected(z)' <=> ZoneProtected(z)
  BY DEF ZoneProtected
<1>2. ASSUME NEW i \in RrIds, ZoneProtected(z)
      PROVE  /\ (RrIn(i) /\ rrs[i].zone = z) => rrs'[i] = rrs[i]
             /\ (RrIn(i)' /\ rrs'[i].zone = z) => rrs'[i] = rrs[i]
  BY <1>2 DEF RowStep
<1> DEFINE H == {j \in RrIds : RrIn(j) /\ rrs[j].zone = z /\ ZoneProtected(z)}
<1>3. H' = H /\ \A i \in H : rrs'[i] = rrs[i]
  BY <1>1, <1>2 DEF RrIn
<1>4. HeldIn(z) = {<<i, rrs[i]>> : i \in H} /\ HeldIn(z)' = {<<i, rrs'[i]>> : i \in H'}
  BY DEF HeldIn
<1> HIDE DEF H
<1> QED BY <1>3, <1>4

LEMMA NamesMoveSingly ==
    ASSUME TypeOK, EntryInv, VerifyInv, ~raced, NEW m \in wire, Appliance(m)
    PROVE  \/ zones' = zones
           \/ DnsZoneAdd(m)
           \/ DnsZoneDelete(m)
  BY DEF Appliance, Drop, store, DnsRrAdd, DnsRrDelete, DnsRrEdit

(* Seen from outside: a protected zone neither appears nor goes, and nothing *)
(* in it changes, while other zones come and go.                             *)
THEOREM Refinement == CallsSpec => KeepsPromise
<1> DEFINE held == [z \in Folded |-> HeldIn(z)]
           shielded == {z \in Folded : ZoneProtected(z)}
           present == {z.name : z \in zones}
<1>1. Init => ~raced /\ Promise!Init
  <2> SUFFICES ASSUME Init PROVE ~raced /\ Promise!Init
    OBVIOUS
  <2>1. zones \subseteq Zone
    BY TypeInit DEF TypeOK, RowsOK
  <2>2. present \subseteq Folded
    BY <2>1 DEF Zone
  <2> QED BY <2>2 DEF Init, CallsInit, Promise!Init
<1>2. ~raced /\ [CallStep]_vars => ~raced'
  <2> SUFFICES ASSUME ~raced, [CallStep]_vars PROVE ~raced'
    OBVIOUS
  <2>1. ASSUME NEW c \in Calls, Tool(c) PROVE ~raced'
    BY <2>1, CallsKeepStore
  <2>2. ASSUME NEW m \in wire, Appliance(m) PROVE ~raced'
    BY <2>2, AllExecute DEF Execute, Settle
  <2> QED BY <2>1, <2>2 DEF CallStep, vars, callVars
<1>3. TypeOK /\ EntryInv /\ VerifyInv /\ ~raced /\ [CallStep]_vars
         => [Promise!Next]_<<shielded, present, held>>
  <2> SUFFICES ASSUME TypeOK, EntryInv, VerifyInv, ~raced, [CallStep]_vars
               PROVE  Promise!Next \/ <<shielded, present, held>>' = <<shielded, present, held>>
    OBVIOUS
  <2>1. ASSUME g' = g, store' = store
        PROVE  <<shielded, present, held>>' = <<shielded, present, held>>
    BY <2>1 DEF store, HeldIn, RrIn, ZoneProtected
  <2>2. ASSUME NEW c \in Calls, Tool(c)
        PROVE  <<shielded, present, held>>' = <<shielded, present, held>>
    BY <2>1, <2>2, CallsKeepStore
  <2>3. ASSUME NEW m \in wire, Appliance(m)
        PROVE  Promise!Next \/ <<shielded, present, held>>' = <<shielded, present, held>>
    <3>1. g' = g
      BY <2>3, AllExecute, ExecuteSteps
    <3>2. \A z \in Folded : HeldIn(z)' = HeldIn(z)
      BY <2>3, <3>1, WireHonours, HeldInStays
    <3>3. shielded' = shielded /\ held' = held
      BY <3>1, <3>2 DEF ZoneProtected
    <3>4. m.zone \in OptName /\ (m.zone # NoName => ~ZoneProtected(Fold[m.zone]))
      BY RequestShapes DEF TypeOK, CallsTypeOK, VerifyInv, Checked, Entered
    <3>5. CASE zones' = zones
      BY <3>3, <3>5
    <3>6. CASE DnsZoneAdd(m)
      <4>1. m.zone \in Names /\ m.zone # NoName
        BY <3>4, <3>6 DEF DnsZoneAdd, EntryInv, OptName
      <4> DEFINE n == Fold[m.zone]
      <4>2. n \in Folded /\ n \notin shielded
        BY <3>4, <4>1, FoldTypes
      <4>3. present' = present \cup {n}
        <5>1. PICK v \in Views : zones' = zones \cup {[name |-> n, view |-> v]}
          BY <3>6 DEF DnsZoneAdd
        <5>2. [name |-> n, view |-> v].name = n
          OBVIOUS
        <5> QED BY <5>1, <5>2
      <4> QED BY <3>3, <4>2, <4>3 DEF Promise!Next, Promise!Appear
    <3>7. CASE DnsZoneDelete(m)
      <4>1. m.zone \in Names /\ m.zone # NoName
        BY <3>4, <3>7 DEF DnsZoneDelete, EntryInv, OptName
      <4> DEFINE n == Fold[m.zone]
      <4>2. n \in Folded /\ n \notin shielded
        BY <3>4, <4>1, FoldTypes
      <4>3. PICK z \in zones : z.name = n /\ zones' = zones \ {z}
        BY <3>7 DEF DnsZoneDelete
      <4>4. present' = present \/ present' = present \ {n}
        BY <4>3
      <4>5. n \in present
        BY <4>3
      <4>6. held[n] = {}
        BY <4>2 DEF HeldIn
      <4>7. held = [held EXCEPT ![n] = {}]
        BY <4>2, <4>6
      <4> QED BY <3>3, <4>2, <4>4, <4>5, <4>7 DEF Promise!Next, Promise!Lose
    <3> QED BY <2>3, <3>5, <3>6, <3>7, NamesMoveSingly
  <2>4. CASE UNCHANGED vars
    BY <2>1, <2>4 DEF vars, callVars
  <2> QED BY <2>2, <2>3, <2>4 DEF CallStep
<1>4. [CallStep]_vars => [Next]_vars
  BY DEF Next
<1> QED BY <1>1, <1>2, <1>3, <1>4, Inductive, PTL
           DEF Spec, CallsSpec, KeepsPromise, Promise!Spec, Promise!vars
=============================================================================
