----------------------------- MODULE DhcpExtents -----------------------------
(***************************************************************************)
(* From tools/dhcp_tools.go: the addresses a DHCP scope spans, worked out  *)
(* from the network address, the address count and the netmask of its row, *)
(* each of which the appliance may leave out or fill with something else.  *)
(* IPv4 addresses are the numbers 0..MaxIPv4.                              *)
(***************************************************************************)
EXTENDS Integers

CONSTANTS
    MaxIPv4,      \* the highest IPv4 address (math.MaxUint32)
    Wrap,         \* 64-bit unsigned arithmetic is modulo Wrap
    MaskBits,     \* the longest IPv4 prefix (ipv4MaskBits)
    BlockSize     \* BlockSize[n]: how many addresses a prefix of length n has

ASSUME ArithmeticAssumption ==
    /\ MaxIPv4 \in Nat /\ Wrap \in Nat /\ 2 * MaxIPv4 < Wrap
    /\ MaskBits \in Nat
    /\ BlockSize \in [0 .. MaskBits -> 1 .. MaxIPv4 + 1]
    /\ BlockSize[0] = MaxIPv4 + 1
    /\ \A m, n \in 0 .. MaskBits : BlockSize[m] = BlockSize[n] => m = n

IPv4     == 0 .. MaxIPv4
Unknown  == -1   \* a column left out, or a text that is none of what it should be
NoExtent == [start |-> Unknown, end |-> Unknown]

(* A scope's columns: a network address that is IPv4; a count that ParseUint *)
(* accepts; a dotted mask, read as a number.                                 *)
ScopeColumns == [ScopeNetAddr : IPv4 \cup {Unknown},
                 ScopeSize    : 0 .. Wrap - 1 \cup {Unknown},
                 ScopeNetMask : IPv4 \cup {Unknown}]

prefixToDottedMask(n) == MaxIPv4 + 1 - BlockSize[n]

(* The mask's length, Unknown for a mask whose ones are not all in front.    *)
dottedMaskPrefixLen(mask) ==
    IF \E n \in 0 .. MaskBits : prefixToDottedMask(n) = mask
      THEN CHOOSE n \in 0 .. MaskBits : prefixToDottedMask(n) = mask
      ELSE Unknown

scopeAddressCount(row) ==
    IF row.ScopeSize # Unknown /\ row.ScopeSize > 0 THEN row.ScopeSize
    ELSE LET ones == dottedMaskPrefixLen(row.ScopeNetMask)
         IN  IF ones # Unknown THEN BlockSize[ones] ELSE Unknown

(* Mutant: offsets beyond the address space are not rejected up front.       *)
SumChecked(base, offset) ==
    LET sum == (base + offset) % Wrap
    IN  IF sum > MaxIPv4 THEN Unknown ELSE sum

ipv4AddrPlus(base, offset) ==
    LET sum == (base + offset) % Wrap
    IN  IF offset > MaxIPv4 \/ sum > MaxIPv4 THEN Unknown ELSE sum

scopeRowExtent(row) ==
    LET base == row.ScopeNetAddr
        size == scopeAddressCount(row)
        last == ipv4AddrPlus(base, (size - 1) % Wrap)
    IN  IF base = Unknown \/ size = Unknown \/ last = Unknown THEN NoExtent
        ELSE [start |-> base, end |-> last]

parseable(e) == e.start # Unknown /\ e.end # Unknown

-----------------------------------------------------------------------------
(* The extent a row describes, in numbers without bounds: the count if the   *)
(* row has one that counts something, else the block of its mask.            *)
Describes(row, count) ==
    \/ row.ScopeSize = count
    \/ /\ row.ScopeSize \in {Unknown, 0}
       /\ \E n \in 0 .. MaskBits :
             count = BlockSize[n] /\ row.ScopeNetMask = MaxIPv4 + 1 - BlockSize[n]

(* The extent is parseable exactly when the row describes a span that stays  *)
(* within IPv4, and then it is that span: nothing wraps around to an earlier *)
(* address or to an empty span, which the range guard would let pass.        *)
ExtentIsTheSpan(row) ==
    LET e == scopeRowExtent(row)
        Span(count) == /\ row.ScopeNetAddr # Unknown /\ count > 0 /\ Describes(row, count)
                       /\ row.ScopeNetAddr + count - 1 <= MaxIPv4
    IN  /\ parseable(e) => e.start = row.ScopeNetAddr /\ Span(e.end - e.start + 1)
        /\ (\E count \in 1 .. MaxIPv4 + 1 : Span(count)) => parseable(e)
=============================================================================
