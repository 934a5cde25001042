---------------------------- MODULE SubnetResolve ----------------------------
(***************************************************************************)
(* How subnet_info of tools/subnet_tools.go finds the network a CIDR names.*)
(* The appliance filters by first address; networks of several spaces may  *)
(* share one, and a network of another size may start there.               *)
(***************************************************************************)
EXTENDS Guardrails, FiniteSets

CONSTANTS
    Spaces,
    MaxComputable,      \* host bits whose block size fits a uint64: 63
    maxListLimit

NoSpace == ""
NoSize  == 0

ASSUME ResolveAssumption ==
    /\ NoSpace \notin Spaces
    /\ MaxComputable \in Nat /\ maxListLimit \in Nat \ {0}

(* A CIDR, or the block of a network.                                        *)
Prefix == {p \in [addr : Address, bits : Bits] : p.bits <= Width[p.addr]}

(* A terminal network, with its size and id as a row of the answer has them: *)
(* the size column may be missing, the id may be missing or not an int32.    *)
Row == [start : Address, bits : Bits, space : Spaces, sized : BOOLEAN, id : BOOLEAN]

HostBits(p)   == Width[p.addr] - p.bits
Count(a, n)   == Last[a][n] - First[a][n] + 1
Size(r)       == Count(r.start, r.bits)

NetworkSize(r) == IF r.sized THEN Size(r) ELSE NoSize

(* Mutant: the prefix length is taken for the host bits.                     *)
SizeOfHostBits(p) ==
    IF p.bits <= MaxComputable THEN Count(p.addr, HostBits(p)) ELSE NoSize

expectedNetworkSize(p) ==
    IF HostBits(p) <= MaxComputable THEN Count(p.addr, p.bits) ELSE NoSize

(* Mutant: any of several candidates will do.                                *)
FirstOfSeveral(rows, p) ==
    IF rows = {} THEN rows ELSE {CHOOSE r \in rows : TRUE}

disambiguateSubnetsBySize(rows, p) ==
    LET want == expectedNetworkSize(p)
        out  == {r \in rows : NetworkSize(r) = want}
    IN  IF Cardinality(rows) <= 1 \/ want = NoSize \/ out = {} THEN rows ELSE out

(* The rows the lookup asks for, of which it gets one page.                  *)
InScope(rows, p, space) ==
    {r \in rows : r.start = First[p.addr][p.bits] /\ space \in {r.space, NoSpace}}

Pages(rows) ==
    IF Cardinality(rows) <= maxListLimit THEN {rows}
    ELSE {page \in SUBSET rows : Cardinality(page) = maxListLimit}

(* Mutant: a lone row is taken whatever its size.                            *)
LoneRowTrusted(page, p) ==
    {r \in disambiguateSubnetsBySize(page, p) :
        Cardinality(disambiguateSubnetsBySize(page, p)) = 1 /\ r.id}

(* The row whose id subnet_info goes on with, or none when it reports that   *)
(* there is none, that there are several, or that the id is unusable.        *)
resolveSubnetIDByCIDR(page, p) ==
    LET matched == disambiguateSubnetsBySize(page, p)
        want    == expectedNetworkSize(p)
    IN  {r \in matched :
            /\ Cardinality(matched) = 1
            /\ want # NoSize /\ r.sized => NetworkSize(r) = want
            /\ r.id}

-----------------------------------------------------------------------------
(* Properties of one lookup over the rows there are. *)

IsBlock(r, p) == r.start = First[p.addr][p.bits] /\ Size(r) = Count(p.addr, p.bits)

(* The network found is in the space asked for and starts where the CIDR     *)
(* does; it is the CIDR's block unless no size told.                         *)
FindsNoOther(rows, p, space) ==
    \A page \in Pages(InScope(rows, p, space)) : \A r \in resolveSubnetIDByCIDR(page, p) :
        /\ r \in InScope(rows, p, space)
        /\ (r.sized /\ HostBits(p) <= MaxComputable) => IsBlock(r, p)

(* When the page holds all rows, none is preferred to another that is known  *)
(* to be the block too.                                                      *)
NeverGuesses(rows, p, space) ==
    Cardinality(InScope(rows, p, space)) <= maxListLimit =>
        \A r \in resolveSubnetIDByCIDR(InScope(rows, p, space), p) :
        \A s \in InScope(rows, p, space) \ {r} : s.sized => ~IsBlock(s, p)

(* A block that is recorded once, among rows that tell their size, is found. *)
FindsTheBlock(rows, p, space) ==
    \A r \in InScope(rows, p, space) :
        (/\ Cardinality(InScope(rows, p, space)) <= maxListLimit
         /\ HostBits(p) <= MaxComputable
         /\ \A s \in InScope(rows, p, space) : s.sized /\ (IsBlock(s, p) => s = r)
         /\ IsBlock(r, p) /\ r.id)
            => resolveSubnetIDByCIDR(InScope(rows, p, space), p) = {r}
=============================================================================
