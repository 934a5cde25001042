------------------------------- MODULE MCDhcp -------------------------------
(***************************************************************************)
(* DhcpTools on four IPv4 addresses, of which 2..3 are protected, and four *)
(* IPv6 ones. Server "east" serves all four addresses as one scope; "west" *)
(* serves 0, 1 and 2..3 as three scopes of one shared network, more than   *)
(* fit into a page of two.                                                 *)
(***************************************************************************)
EXTENDS DhcpTools, NetipLine, TLC

MCMaxAddr   == LastAddr(2, 2)
MCWidth     == FamilyBits(2, 2)
MCFirst     == BlockFirst(2, 2)
MCLast      == BlockLast(2, 2)
MCBlockSize == [n \in 0 .. 2 |-> 2^(2 - n)]

MCNames == {"floor", "desk"}
MCFold  == [s \in MCNames |-> s]

MCSymmetry == Permutations(Calls)

Fencing  == [ReadOnly |-> FALSE, ProtectedSpaces |-> {},
             ProtectedSubnets |-> {[addr |-> 2, bits |-> 1]}]
FencingOnly == {Fencing}

ScopeRow(s, a, n, net) == [server |-> s, addr |-> a, bits |-> n, shared |-> net]
RangeRow(s, a, b)      == [server |-> s, first |-> a, last |-> b]
StaticRow(s, a, grp)   == [server |-> s, ip |-> a, group |-> grp]
ContainerRow(k, s, n)  == [kind |-> k, server |-> s, name |-> n]

ScopeCreation(s, a, n) == [op |-> "scope_create", server |-> s, addr |-> a, bits |-> n]
ScopeDeletion(s, a)    == [op |-> "scope_delete", server |-> s, addr |-> a]
RangeOp(op, s, a, b)   == [op |-> op, server |-> s, start |-> a, end |-> b]
StaticOp(op, s, a)     == [op |-> op, server |-> s, ip |-> a]
ContainerOp(op, s, n)  == [op |-> op, server |-> s, name |-> n]

(* Two calls at once. The scope of "east" is protected in part; the open     *)
(* reservations of a group differ from server to server.                     *)
BothServers ==
    {[scopes |-> {ScopeRow("east", 0, 0, "floor"), ScopeRow("west", 0, 2, "floor"),
                  ScopeRow("west", 1, 2, "floor"), ScopeRow("west", 2, 1, "floor")},
      ranges |-> {RangeRow("east", 1, 2), RangeRow("west", 0, 0)},
      statics |-> {StaticRow("east", 2, "desk"), StaticRow("west", 0, "desk")},
      containers |-> {ContainerRow("shared_network", "west", "floor"),
                      ContainerRow("group", "west", "desk")}]}

CallRequests ==
    {ScopeCreation("west", 0, 0), ScopeCreation("west", 0, 1),
     ScopeDeletion("east", 0), ScopeDeletion("west", 0), ScopeDeletion("west", 3),
     RangeOp("range_create", "west", 0, 0), RangeOp("range_create", "west", 1, 2),
     RangeOp("range_delete", "west", 0, 0), RangeOp("range_delete", "east", 1, 2),
     ContainerOp("shared_network_delete", "east", "floor"),
     ContainerOp("shared_network_delete", "west", "floor"),
     StaticOp("static_add", "west", 3), StaticOp("static_add", "west", 5),
     StaticOp("static_delete", "west", 0),
     ContainerOp("group_delete", "east", "desk"), ContainerOp("group_delete", "west", "desk"),
     ContainerOp("group_create", "west", "desk")}

Nothing == [scopes |-> {}, ranges |-> {}, statics |-> {}, containers |-> {}]
=============================================================================
