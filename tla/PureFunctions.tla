---------------------------- MODULE PureFunctions ----------------------------
(***************************************************************************)
(* The pure functions of the server against what they promise, one state   *)
(* for each input: the guardrails, the extent of a DHCP scope, the network *)
(* a CIDR names, where clauses, the wait before a retry, and starting up.  *)
(* Every family of inputs is a disjunct of Init; a property of one function*)
(* is about the states that hold an input of its kind.                     *)
(***************************************************************************)
EXTENDS DhcpExtents, Backoff, SubnetResolve, WhereClause, Startup

CONSTANTS
    Entries,              \* entries of the protected lists
    MaxAttempt,           \* bound: attempts of one request
    Tables,               \* sets of recorded networks
    MaxValue, MaxClause,  \* bounds: lengths of values and clauses
    Environments          \* environments the server is started from

ASSUME InputAssumption ==
    /\ Entries \subseteq Subnet
    /\ MaxAttempt \in Nat
    /\ \A rows \in Tables : rows \subseteq Row /\ IsFiniteSet(rows)
    /\ Environments \subseteq Env

VARIABLE input

For(kind) == input.kind = kind

-----------------------------------------------------------------------------
(* Guardrails: every query and every list of entries. *)

Protecting(P) == [ReadOnly |-> FALSE, ProtectedSpaces |-> {"prod"}, ProtectedSubnets |-> P]

Guarded ==
    \E P \in SUBSET Entries \ {{}}, a, b \in Address, n \in Bits :
        input = [kind |-> "guard", g |-> Protecting(P), a |-> a, b |-> b, n |-> n]

(* The range guard, which looks at two endpoints and one first address,      *)
(* refuses exactly the ranges with an address in a protected subnet, in      *)
(* whichever order the endpoints come and even across families.              *)
RangeGuardExact ==
    For("guard") =>
        LET i == input
        IN  CheckProtectedRange(i.g, i.a, i.b)
                <=> ~Fenced(i.g, AtMost(i.a, i.b), AtLeast(i.a, i.b))

(* For every start and length that validation lets through, the CIDR guard   *)
(* refuses when the block shares an address with a protected subnet: no      *)
(* valid spelling falls open. It refuses nothing else but an entry that is   *)
(* the same string.                                                          *)
CIDRGuardExact ==
    (For("guard") /\ ValidateSubnetPrefix(input.a, input.n)) =>
        LET i == input
        IN  CheckProtectedSubnetCIDR(i.g, i.a, i.n)
                <=> /\ ~Fenced(i.g, First[i.a][i.n], Last[i.a][i.n])
                    /\ canonicalCIDR(i.a, i.n) \notin i.g.ProtectedSubnets

(* An address is refused exactly when it is in a protected subnet or is      *)
(* itself an entry of the list, the bare form ParsePrefix rejects.           *)
AddrGuardExact ==
    For("guard") =>
        LET i == input
        IN  CheckProtectedAddr(i.g, i.a)
                <=> /\ ~Fenced(i.g, i.a, i.a)
                    /\ [addr |-> i.a, bits |-> NoBits] \notin i.g.ProtectedSubnets

-----------------------------------------------------------------------------
(* DHCP scopes: every row.                                                   *)

Extents == \E row \in ScopeColumns : input = [kind |-> "extent", row |-> row]

(* A scope's extent, as computed, is the span its row describes.             *)
ExtentExact == For("extent") => ExtentIsTheSpan(input.row)

-----------------------------------------------------------------------------
(* Backoff: every answer to every attempt.                                   *)

Retried ==
    \E attempt \in 1 .. MaxAttempt, status \in {"429", "503", "502"}, header \in Header :
        input = [kind |-> "retry", attempt |-> attempt, status |-> status, header |-> header]

(* The wait before a retry is bounded for every answer of the appliance.     *)
WaitBounded == For("retry") => WaitsWithin(input.attempt, input.status, input.header)

(* The wait before a retry honours what the appliance asks for.              *)
WaitHonoured == For("retry") => WaitsAsAsked(input.attempt, input.status, input.header)

-----------------------------------------------------------------------------
(* subnet_info: every CIDR, looked for in every table.                       *)

Resolved ==
    \E rows \in Tables, cidr \in Prefix, space \in Spaces \cup {NoSpace} :
        input = [kind |-> "resolve", rows |-> rows, cidr |-> cidr, space |-> space]

(* subnet_info never answers with a network of another space or start, nor   *)
(* with one whose size is known to differ from the CIDR's. Two cases are     *)
(* excepted, in which the code takes a lone row as it is: the row tells no   *)
(* size, or the CIDR has more host bits than a computable size may have      *)
(* (63), as an IPv6 /64 and every shorter IPv6 prefix has.                   *)
NoOtherFound == For("resolve") => FindsNoOther(input.rows, input.cidr, input.space)

(* subnet_info reports an ambiguity rather than picking one of several.      *)
NothingGuessed == For("resolve") => NeverGuesses(input.rows, input.cidr, input.space)

(* subnet_info finds a network by its CIDR when the answer tells it apart.   *)
BlockFound == For("resolve") => FindsTheBlock(input.rows, input.cidr, input.space)

-----------------------------------------------------------------------------
(* Where clauses: all values of up to MaxValue characters, and all clauses   *)
(* of up to MaxClause.                                                       *)

Strings(n) == UNION {[1 .. k -> Char] : k \in 0 .. n}

Filtered ==
    \E value \in Strings(MaxValue), user \in Strings(MaxClause) :
        input = [kind |-> "where", value |-> value, user |-> user]

(* A filter's value means what was given.                                    *)
ValuesKept == For("where") => ValueKept(input.value)

(* The caller's clause, unless it ends in an open escape, only narrows what  *)
(* the tool's filter selects.                                                *)
ClausesNested == For("where") => UserClauseNested(input.value, input.user)

-----------------------------------------------------------------------------
(* Starting up, from every environment.                                      *)

Started == \E env \in Environments : input = [kind |-> "start", env |-> env]

(* A server runs with what its environment says.                             *)
StartsAsSet == For("start") => RunsAsSet(input.env)

(* Every number of retries that is accepted leaves at least one attempt.     *)
AttemptsMade == For("start") => SendsEnough(input.env)

(* No rate below the largest int, however small, makes a limiter that        *)
(* refuses every request. Larger rates are accepted as well and excepted     *)
(* here: no int holds their burst, and what it converts to may be negative.  *)
FirstRequestPasses == For("start") => LimiterLetsPass(input.env)

-----------------------------------------------------------------------------
Init == Guarded \/ Extents \/ Retried \/ Resolved \/ Filtered \/ Started
Next == UNCHANGED input
Spec == Init /\ [][Next]_input
=============================================================================
