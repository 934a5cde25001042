------------------------------ MODULE DhcpTools ------------------------------
(***************************************************************************)
(* The DHCP tools of tools/dhcp_tools.go. Only read-only mode and the      *)
(* protected subnets guard them. A scope is deleted by its network         *)
(* address, a shared network or a group by its name, so what such a delete *)
(* reaches is looked up first, in one page of a list.                      *)
(***************************************************************************)
EXTENDS Guardrails, ToolCalls, DhcpExtents

CONSTANTS
    Servers,       \* DHCP servers of the appliance
    Requests,      \* the inputs callers may pass
    Deployments,   \* what the appliance may hold when the server starts
    Placeable,     \* the rows administrators put in place and take away
    maxListLimit,  \* the page size the lookups ask for
    PageCap        \* the appliance's own bound on a page

(* The IPv4 addresses are the lower end of the line, with one block size for *)
(* each length.                                                              *)
ASSUME IPv4Assumption ==
    /\ MaxIPv4 <= MaxAddr /\ MaskBits <= MaxBits
    /\ \A a \in IPv4 :
          /\ Width[a] = MaskBits
          /\ \A n \in 0 .. MaskBits :
                First[a][n] \in IPv4 /\ Last[a][n] = First[a][n] + BlockSize[n] - 1

Scope == [server : Servers, addr : IPv4, bits : 0 .. MaskBits, shared : Names \cup {NoName}]
DhcpRange == [server : Servers, first : Address, last : Address]
Static == [server : Servers, ip : Address, group : Names \cup {NoName}]
Container == [kind : {"shared_network", "group"}, server : Servers, name : Names]

Rows == [scopes : SUBSET Scope, ranges : SUBSET DhcpRange, statics : SUBSET Static,
         containers : SUBSET Container]

OptAddr == Address \cup {NoAddr}

StaticEdit == [op : {"static_add", "static_delete"}, server : Servers, ip : OptAddr]
ScopeCreate == [op : {"scope_create"}, server : Servers, addr : OptAddr, bits : Bits \cup {NoBits}]
ScopeDelete == [op : {"scope_delete"}, server : Servers, addr : OptAddr]
RangeEdit == [op : {"range_create", "range_delete"}, server : Servers,
              start : OptAddr, end : OptAddr]
ContainerEdit == [op : {"shared_network_create", "shared_network_delete",
                        "group_create", "group_delete"}, server : Servers, name : Names]

Request == StaticEdit \cup ScopeCreate \cup ScopeDelete \cup RangeEdit \cup ContainerEdit

ASSUME DhcpAssumption ==
    /\ \A gg \in Guards : gg.ReadOnly \in BOOLEAN /\ gg.ProtectedSubnets \subseteq Subnet
    /\ Requests \subseteq Request
    /\ Deployments \subseteq Rows
    /\ \A d \in Deployments : \A s \in d.scopes : s.addr = First[s.addr][s.bits]
    /\ Placeable \in Rows /\ \A s \in Placeable.scopes : s.addr = First[s.addr][s.bits]
    /\ maxListLimit \in Nat /\ PageCap \in Nat

VARIABLES scopes, ranges, statics, containers   \* the appliance's rows

store == <<scopes, ranges, statics, containers>>
vars  == <<callVars, store>>

RowsOK ==
    /\ scopes \subseteq Scope /\ \A s \in scopes : s.addr = First[s.addr][s.bits]
    /\ ranges \subseteq DhcpRange
    /\ statics \subseteq Static
    /\ containers \subseteq Container

TypeOK == CallsTypeOK(Request) /\ RowsOK

Init ==
    /\ CallsInit
    /\ \E d \in Deployments :
          /\ scopes = d.scopes /\ ranges = d.ranges
          /\ statics = d.statics /\ containers = d.containers

-----------------------------------------------------------------------------
(* The handlers. *)

dhcpStaticAdd(c, r) ==
    /\ r.op = "static_add"
    /\ CheckReadOnly(g)
    /\ CheckProtectedAddr(g, r.ip)
    /\ r.ip # NoAddr
    /\ Enter(c, r, "send")

dhcpStaticDelete(c, r) ==
    /\ r.op = "static_delete"
    /\ CheckReadOnly(g)
    /\ CheckProtectedAddr(g, r.ip)
    /\ r.ip # NoAddr
    /\ Enter(c, r, "send")

dhcpScopeCreate(c, r) ==
    /\ r.op = "scope_create"
    /\ CheckReadOnly(g)
    /\ CheckProtectedSubnetCIDR(g, r.addr, r.bits)
    /\ ValidateSubnetPrefix(r.addr, r.bits) /\ r.addr \in IPv4
    /\ Enter(c, r, "send")

validateDhcpRangeEndpoints(r) ==
    /\ r.start # NoAddr /\ r.end # NoAddr
    /\ r.start \in IPv4 <=> r.end \in IPv4
    /\ r.start <= r.end

dhcpRangeCreate(c, r) ==
    /\ r.op = "range_create"
    /\ CheckReadOnly(g)
    /\ CheckProtectedRange(g, r.start, r.end)
    /\ validateDhcpRangeEndpoints(r)
    /\ Enter(c, r, "send")

(* Mutant: a range is judged by its start.                                   *)
DeleteByRangeStart(c, r) ==
    /\ r.op = "range_delete"
    /\ CheckReadOnly(g)
    /\ CheckProtectedAddr(g, r.start)
    /\ validateDhcpRangeEndpoints(r)
    /\ Enter(c, r, "send")

dhcpRangeDelete(c, r) ==
    /\ r.op = "range_delete"
    /\ CheckReadOnly(g)
    /\ ~overlappingProtectedSubnet(g, r.start, r.end)
    /\ validateDhcpRangeEndpoints(r)
    /\ Enter(c, r, "send")

(* A lookup comes first only if there are protected subnets.                 *)
FirstStage == IF g.ProtectedSubnets # {} THEN "lookup" ELSE "send"

dhcpScopeDelete(c, r) ==
    /\ r.op = "scope_delete"
    /\ CheckReadOnly(g)
    /\ CheckProtectedAddr(g, r.addr)
    /\ r.addr \in IPv4
    /\ Enter(c, r, FirstStage)

(* A shared network or a group has no address: only read-only mode is asked. *)
dhcpSharedNetworkCreate(c, r) ==
    /\ r.op = "shared_network_create"
    /\ CheckReadOnly(g)
    /\ Enter(c, r, "send")

dhcpSharedNetworkDelete(c, r) ==
    /\ r.op = "shared_network_delete"
    /\ CheckReadOnly(g)
    /\ Enter(c, r, FirstStage)

dhcpGroupCreate(c, r) ==
    /\ r.op = "group_create"
    /\ CheckReadOnly(g)
    /\ Enter(c, r, "send")

dhcpGroupDelete(c, r) ==
    /\ r.op = "group_delete"
    /\ CheckReadOnly(g)
    /\ Enter(c, r, FirstStage)

-----------------------------------------------------------------------------
(* The lookups. *)

PageSize == IF PageCap < maxListLimit THEN PageCap ELSE maxListLimit

(* All the rows that match, or a full page of them.                          *)
Pages(rows) ==
    {page \in SUBSET rows : \/ page = rows /\ Cardinality(page) < PageSize
                            \/ Cardinality(page) = PageSize}

(* A scope's row as the appliance may send it, with columns left out.        *)
ColumnsOf(s) ==
    [ScopeNetAddr : {s.addr, Unknown},
     ScopeSize    : {Last[s.addr][s.bits] - s.addr + 1, Unknown},
     ScopeNetMask : {prefixToDottedMask(s.bits), Unknown}]

extentClears(s) ==
    \E row \in ColumnsOf(s) :
        LET e == scopeRowExtent(row)
        IN  parseable(e) /\ ~overlappingProtectedSubnet(g, e.start, e.end)

(* Mutant: a full page is taken for the whole list.                          *)
FullPageChecked(found) ==
    \E page \in Pages(found) : \A s \in page : extentClears(s)

runDhcpScopeExtentQuery(found) ==
    \E page \in Pages(found) :
        Cardinality(page) < maxListLimit /\ \A s \in page : extentClears(s)

ScopesAt(r)      == {s \in scopes : s.server = r.server /\ s.addr = r.addr}
MemberScopes(r)  == {s \in scopes : s.server = r.server /\ s.shared = r.name}
MemberStatics(r) == {s \in statics : s.server = r.server /\ s.group = r.name}

applyDhcpScopeDeleteExtentProtection(c) ==
    /\ req[c].op = "scope_delete"
    /\ runDhcpScopeExtentQuery(ScopesAt(req[c]))
    /\ Pass(c)

applyDhcpSharedNetworkDeleteExtentProtection(c) ==
    /\ req[c].op = "shared_network_delete"
    /\ runDhcpScopeExtentQuery(MemberScopes(req[c]))
    /\ Pass(c)

lookupDhcpGroupStaticAddrs(found) ==
    \E page \in Pages(found) :
        /\ Cardinality(page) < maxListLimit
        /\ \A s \in page : \E a \in {s.ip, NoAddr} : a # NoAddr /\ CheckProtectedAddr(g, a)

applyDhcpGroupDeleteStaticProtection(c) ==
    /\ req[c].op = "group_delete"
    /\ lookupDhcpGroupStaticAddrs(MemberStatics(req[c]))
    /\ Pass(c)

Tool(c) ==
    /\ \/ \E r \in Requests :
             \/ dhcpStaticAdd(c, r) \/ dhcpStaticDelete(c, r)
             \/ dhcpScopeCreate(c, r) \/ dhcpScopeDelete(c, r)
             \/ dhcpRangeCreate(c, r) \/ dhcpRangeDelete(c, r)
             \/ dhcpSharedNetworkCreate(c, r) \/ dhcpSharedNetworkDelete(c, r)
             \/ dhcpGroupCreate(c, r) \/ dhcpGroupDelete(c, r)
       \/ applyDhcpScopeDeleteExtentProtection(c)
       \/ applyDhcpSharedNetworkDeleteExtentProtection(c)
       \/ applyDhcpGroupDeleteStaticProtection(c)
       \/ Send(c)
       \/ Return(c)
    /\ UNCHANGED store

-----------------------------------------------------------------------------
(* The appliance executes a mutation, or it is lost or rejected.             *)

Drop(m) == Execute(m) /\ UNCHANGED store

DhcpStaticAdd(m) ==
    /\ m.op = "static_add" /\ Execute(m)
    /\ statics' = statics \cup {[server |-> m.server, ip |-> m.ip, group |-> NoName]}
    /\ UNCHANGED <<scopes, ranges, containers>>

DhcpStaticDelete(m) ==
    /\ m.op = "static_delete" /\ Execute(m)
    /\ statics' = {s \in statics : ~(s.server = m.server /\ s.ip = m.ip)}
    /\ UNCHANGED <<scopes, ranges, containers>>

DhcpScopeAdd(m) ==
    /\ m.op = "scope_create" /\ Execute(m)
    /\ scopes' = scopes \cup {[server |-> m.server, addr |-> First[m.addr][m.bits],
                               bits |-> m.bits, shared |-> NoName]}
    /\ UNCHANGED <<ranges, statics, containers>>

Inside(r, s) == r.server = s.server /\ s.addr <= r.first /\ r.last <= Last[s.addr][s.bits]

(* A scope goes with the ranges inside it.                                   *)
RangesWithout(gone) == {r \in ranges : ~\E s \in gone : Inside(r, s)}

(* The appliance decides which of several scopes at the address goes.        *)
DhcpScopeDelete(m) ==
    /\ m.op = "scope_delete" /\ Execute(m)
    /\ \E gone \in SUBSET ScopesAt(m) :
          scopes' = scopes \ gone /\ ranges' = RangesWithout(gone)
    /\ UNCHANGED <<statics, containers>>

DhcpRangeAdd(m) ==
    /\ m.op = "range_create" /\ Execute(m)
    /\ ranges' = ranges \cup {[server |-> m.server, first |-> m.start, last |-> m.end]}
    /\ UNCHANGED <<scopes, statics, containers>>

DhcpRangeDelete(m) ==
    /\ m.op = "range_delete" /\ Execute(m)
    /\ ranges' = ranges \ {[server |-> m.server, first |-> m.start, last |-> m.end]}
    /\ UNCHANGED <<scopes, statics, containers>>

ContainerOf(m) ==
    [kind |-> IF m.op \in {"group_create", "group_delete"} THEN "group" ELSE "shared_network",
     server |-> m.server, name |-> m.name]

DhcpContainerAdd(m) ==
    /\ m.op \in {"shared_network_create", "group_create"} /\ Execute(m)
    /\ containers' = containers \cup {ContainerOf(m)}
    /\ UNCHANGED <<scopes, ranges, statics>>

(* Whether the members go as well depends on the appliance; those that stay  *)
(* are in no shared network, or no group, any more.                          *)
DhcpSharednetworkDelete(m) ==
    /\ m.op = "shared_network_delete" /\ Execute(m)
    /\ containers' = containers \ {ContainerOf(m)}
    /\ \E gone \in SUBSET MemberScopes(m) :
          /\ scopes' = (scopes \ MemberScopes(m))
                         \cup {[s EXCEPT !.shared = NoName] : s \in MemberScopes(m) \ gone}
          /\ ranges' = RangesWithout(gone)
    /\ UNCHANGED statics

DhcpGroupDelete(m) ==
    /\ m.op = "group_delete" /\ Execute(m)
    /\ containers' = containers \ {ContainerOf(m)}
    /\ \E gone \in SUBSET MemberStatics(m) :
          statics' = (statics \ MemberStatics(m))
                       \cup {[s EXCEPT !.group = NoName] : s \in MemberStatics(m) \ gone}
    /\ UNCHANGED <<scopes, ranges>>

(* An administrator puts one row in place or takes one away.                 *)
Toggled(rows, s) == IF s \in rows THEN rows \ {s} ELSE rows \cup {s}

Administration ==
    /\ \/ \E s \in Placeable.scopes :
             scopes' = Toggled(scopes, s) /\ UNCHANGED <<ranges, statics, containers>>
       \/ \E s \in Placeable.ranges :
             ranges' = Toggled(ranges, s) /\ UNCHANGED <<scopes, statics, containers>>
       \/ \E s \in Placeable.statics :
             statics' = Toggled(statics, s) /\ UNCHANGED <<scopes, ranges, containers>>
       \/ \E s \in Placeable.containers :
             containers' = Toggled(containers, s) /\ UNCHANGED <<scopes, ranges, statics>>
    /\ Overtake

Appliance(m) ==
    \/ Drop(m)
    \/ DhcpStaticAdd(m) \/ DhcpStaticDelete(m)
    \/ DhcpScopeAdd(m) \/ DhcpScopeDelete(m)
    \/ DhcpRangeAdd(m) \/ DhcpRangeDelete(m)
    \/ DhcpContainerAdd(m) \/ DhcpSharednetworkDelete(m) \/ DhcpGroupDelete(m)

(* The calls and what becomes of their mutations; and all that may happen.   *)
CallStep ==
    \/ \E c \in Calls : Tool(c)
    \/ \E m \in wire : Appliance(m)

Next ==
    \/ CallStep
    \/ Administration
    \/ Restart /\ UNCHANGED store

Spec == Init /\ [][Next]_vars

(* One server without restarts, and nobody else who changes the appliance.   *)
CallsSpec == Init /\ [][CallStep]_vars

-----------------------------------------------------------------------------
(* Properties. *)

ScopeFenced(s) == Fenced(g, s.addr, Last[s.addr][s.bits])

Changed(old, new) == (old \ new) \cup (new \ old)

(* No row with an address in a protected subnet is placed, removed or taken  *)
(* out of its container.                                                     *)
FencesHonoured ==
    /\ \A s \in Changed(scopes, scopes') : ~ScopeFenced(s)
    /\ \A s \in Changed(ranges, ranges') : ~Fenced(g, s.first, s.last)
    /\ \A s \in Changed(statics, statics') : ~Fenced(g, s.ip, s.ip)

(* What the checks on its input establish of a request, whatever guardrails  *)
(* are in force: the addresses it needs are there.                           *)
Shaped(m) ==
    /\ m.op \in {"static_add", "static_delete"} => m.ip # NoAddr
    /\ m.op = "scope_create" => m.addr \in IPv4 /\ m.bits \in 0 .. MaskBits
    /\ m.op \in {"range_create", "range_delete"} => m.start # NoAddr /\ m.end # NoAddr

(* And under the guardrails in force: it names nothing protected.            *)
Entered(m) ==
    /\ ~g.ReadOnly
    /\ Shaped(m)
    /\ m.op \in {"static_add", "static_delete"} => ~Fenced(g, m.ip, m.ip)
    /\ m.op = "scope_create" => ~Fenced(g, First[m.addr][m.bits], Last[m.addr][m.bits])
    /\ m.op \in {"range_create", "range_delete"} => ~Fenced(g, m.start, m.end)

(* What the lookups establish of a mutation, and other calls preserve while  *)
(* it is pending: every row it may reach is clear of protected subnets.      *)
Verified(m) ==
    /\ m.op = "scope_delete" => \A s \in ScopesAt(m) : ~ScopeFenced(s)
    /\ m.op = "shared_network_delete" => \A s \in MemberScopes(m) : ~ScopeFenced(s)
    /\ m.op = "group_delete" => \A s \in MemberStatics(m) : ~Fenced(g, s.ip, s.ip)

(* The inductive invariant: calls passed the guards in force, and so did     *)
(* pending mutations unless they were overtaken; those had passed others.    *)
Inv ==
    /\ TypeOK
    /\ \A m \in wire : Shaped(m)
    /\ \A c \in Calls : pc[c] # "idle" => Entered(req[c])
    /\ ~raced => \A m \in Checked : Entered(m) /\ Verified(m)

(* However calls interleave, and however late or often a mutation runs, a    *)
(* DHCP tool changes nothing in a protected subnet, unless an administrator  *)
(* or a restart with other guardrails came between check and execution.      *)
ProtectedUntouched == [][(ToolStep /\ ~raced) => FencesHonoured]_vars

(* dhcp_tools.go:323, of a shared network's deletion: "When protected        *)
(* subnets are configured, the member scopes are resolved and the delete is  *)
(* refused if any encloses or overlaps a protected subnet".                  *)
MembersRefused ==
    ~raced => \A m \in wire :
        m.op = "shared_network_delete" => \A s \in MemberScopes(m) : ~ScopeFenced(s)
=============================================================================
