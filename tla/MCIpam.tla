------------------------------- MODULE MCIpam -------------------------------
(***************************************************************************)
(* IpamTools on a line of four IPv4 and eight IPv6 addresses, with two     *)
(* spaces whose addresses overlap; the IPv4 subnet 2..3 and the space      *)
(* "prod" are protected.                                                   *)
(***************************************************************************)
EXTENDS IpamTools, NetipLine, TLC

MCMaxAddr == LastAddr(2, 3)
MCMaxBits == 3
MCWidth   == FamilyBits(2, 3)
MCFirst   == BlockFirst(2, 3)
MCLast    == BlockLast(2, 3)

(* A shorter line for the run in which administrators place rows anywhere.   *)
SmallMaxAddr == LastAddr(2, 2)
SmallMaxBits == 2
SmallWidth   == FamilyBits(2, 2)
SmallFirst   == BlockFirst(2, 2)
SmallLast    == BlockLast(2, 2)

MCNames   == {"prod", "Prod", "lab"}
MCFold    == [s \in MCNames |-> IF s = "lab" THEN "lab" ELSE "prod"]

MCSymmetry == Permutations(Calls)

Both == [ReadOnly |-> FALSE, ProtectedSpaces |-> {"Prod"},
         ProtectedSubnets |-> {[addr |-> 2, bits |-> 1]}]
SpacesOnly == [Both EXCEPT !.ProtectedSubnets = {}]
ReadOnly   == [Both EXCEPT !.ReadOnly = TRUE]

CallGuards  == {Both}
AdminGuards == {Both, SpacesOnly, ReadOnly}

Net(s, a, b) == [space |-> s, first |-> a, last |-> b, edited |-> FALSE]
Host(s, a)   == [space |-> s, ip |-> a, edited |-> FALSE]

Resize(i, n) ==
    [op |-> "subnet_update", space |-> NoName, id |-> i, bits |-> n, rename |-> n = NoBits]
Carve(a, n) == [op |-> "subnet_create", space |-> "lab", addr |-> a, bits |-> n]
Remove(a)   == [op |-> "subnet_delete", space |-> "lab", addr |-> a]
SpaceOp(op, s) == [op |-> op, space |-> s]

(* Network 1 encloses the protected subnet, network 2 is its neighbour.      *)
(* Host 1 is in the protected space, at an address "lab" may use as well.    *)
CallInventories ==
    {[spaces |-> {"prod", "lab"},
      nets  |-> <<Net("lab", 0, 3), Net("lab", 0, 1), Unused>>,
      addrs |-> <<Host("prod", 1), Unused>>]}

Take(a)    == [op |-> "ip_create", space |-> "lab", subnet |-> 0, host |-> a]
Free(s, a) == [op |-> "ip_delete", space |-> s, ip |-> a]
Edit(i)    == [op |-> "ip_update", space |-> NoName, id |-> i, rename |-> TRUE]

CallRequests ==
    {Resize(1, NoBits), Resize(2, 0), Resize(2, 1), Resize(2, 2), Resize(3, 1),
     Carve(0, 2), Carve(1, 0), Remove(0), Remove(1),
     SpaceOp("space_create", "lab"), SpaceOp("space_delete", "lab"),
     SpaceOp("space_delete", "prod"),
     Take(NoAddr), Take(2), Free("lab", 1), Free("Prod", 1), Edit(1), Edit(2)}

AdminRequests ==
    {Edit(1), Free("lab", 1), Remove(0), Resize(1, 1), SpaceOp("space_create", "lab"),
     SpaceOp("space_delete", "lab")}

AdminInventories ==
    {[spaces |-> {"prod", "lab"},
      nets  |-> <<Net("lab", 0, 1)>>,
      addrs |-> <<Host("lab", 1)>>]}
=============================================================================
