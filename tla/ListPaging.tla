----------------------------- MODULE ListPaging -----------------------------
(***************************************************************************)
(* The list tools of tools/: each clamps the page size, asks the appliance *)
(* for one page and says whether there may be more. A caller walks over a  *)
(* list by asking for next_offset, while other calls add and remove rows.  *)
(***************************************************************************)
EXTENDS Integers, FiniteSets

CONSTANTS
    Rows,              \* rows that match the where clause, in the list's order
    Limits, Offsets,   \* what a caller may ask for first
    defaultListLimit, maxListLimit,
    MaxInt32,          \* the largest int32; -MaxInt32 - 1 is the smallest
    PageCap,           \* the most rows the appliance puts into a page
    Overfills,         \* whether the appliance may ignore the limit instead
    MaxChanges         \* bound: rows added or removed during a walk

ASSUME PagingAssumption ==
    /\ Rows \subseteq Int /\ IsFiniteSet(Rows)
    /\ MaxInt32 \in Nat
    /\ Limits \cup Offsets \subseteq -MaxInt32 - 1 .. MaxInt32
    /\ {defaultListLimit, maxListLimit} \subseteq 1 .. MaxInt32
    /\ defaultListLimit <= maxListLimit
    /\ PageCap \in Nat \ {0}
    /\ Overfills \in BOOLEAN
    /\ MaxChanges \in Nat

VARIABLES
    rows,     \* appliance: the rows there are
    pc,       \* the walk: "idle", "asking", "answered", "refused", "failed", "done"
    opts,     \* ListOptions of the request
    out,      \* ListOutput of the last answer
    start,    \* the offset the walk began at
    seen,     \* rows received
    stayed,   \* rows that have been there since the walk began
    reread,   \* how often a row was received again, counted to MaxChanges + 1
    added, removed  \* rows added and removed since the walk began

vars == <<rows, pc, opts, out, start, seen, stayed, reread, added, removed>>

ListOptions == [limit : Limits, offset : -MaxInt32 - 1 .. MaxInt32]

ListOutput == [count : 0 .. Cardinality(Rows), limit : 1 .. maxListLimit, hasMore : BOOLEAN,
               nextOffset : -MaxInt32 - 1 .. MaxInt32]

NoNext == 0    \* next_offset left out: a page that has more is not empty

emptyOut(limit) == [count |-> 0, limit |-> limit, hasMore |-> FALSE, nextOffset |-> NoNext]

clampLimit(limit) ==
    IF limit <= 0 THEN defaultListLimit
    ELSE IF limit > maxListLimit THEN maxListLimit ELSE limit

TypeOK ==
    /\ {rows, seen, stayed} \subseteq SUBSET Rows
    /\ pc \in {"idle", "asking", "answered", "refused", "failed", "done"}
    /\ opts \in ListOptions
    /\ out \in ListOutput
    /\ start \in -MaxInt32 - 1 .. MaxInt32
    /\ {reread, added, removed} \subseteq Nat

Init ==
    /\ rows \in SUBSET Rows
    /\ pc = "idle"
    /\ opts \in [limit : Limits, offset : Offsets]
    /\ out = emptyOut(clampLimit(opts.limit))
    /\ start = opts.offset
    /\ seen = {} /\ stayed = {}
    /\ reread = 0 /\ added = 0 /\ removed = 0

-----------------------------------------------------------------------------

(* Mutant: a page of exactly the limit is taken for the last one.            *)
FullPageIsLast(o, items) ==
    LET limit   == clampLimit(o.limit)
        count   == Cardinality(items)
        hasMore == count > limit
        next    == o.offset + count
    IN  [count |-> count, limit |-> limit, hasMore |-> hasMore,
         nextOffset |-> IF hasMore /\ next <= MaxInt32 THEN next ELSE NoNext]

(* Mutant: the next offset is counted by the limit, not by what came.        *)
NextByLimit(o, items) ==
    LET limit   == clampLimit(o.limit)
        count   == Cardinality(items)
        hasMore == count >= limit
        next    == o.offset + limit
    IN  [count |-> count, limit |-> limit, hasMore |-> hasMore,
         nextOffset |-> IF hasMore /\ next <= MaxInt32 THEN next ELSE NoNext]

(* Mutant: the next offset is counted from the first row, not the offset.    *)
NextFromTop(o, items) ==
    LET limit   == clampLimit(o.limit)
        count   == Cardinality(items)
        hasMore == count >= limit
    IN  [count |-> count, limit |-> limit, hasMore |-> hasMore,
         nextOffset |-> IF hasMore THEN count ELSE NoNext]

(* Mutant: the next offset wraps around in 32 bits.                          *)
NextWraps(o, items) ==
    LET limit   == clampLimit(o.limit)
        count   == Cardinality(items)
        hasMore == count >= limit
        next    == o.offset + count
    IN  [count |-> count, limit |-> limit, hasMore |-> hasMore,
         nextOffset |-> IF ~hasMore THEN NoNext
                        ELSE IF next > MaxInt32 THEN next - 2 * (MaxInt32 + 1) ELSE next]

(* What the handler makes of the rows of one page.                           *)
listOutput(o, items) ==
    LET limit   == clampLimit(o.limit)
        count   == Cardinality(items)
        hasMore == count >= limit
        next    == o.offset + count
    IN  [count |-> count, limit |-> limit, hasMore |-> hasMore,
         nextOffset |-> IF hasMore /\ next <= MaxInt32 THEN next ELSE NoNext]

(* The page the appliance answers with: it starts at the offset and is cut   *)
(* at the limit or the cap, unless the appliance ignores the limit.          *)
Rank(x) == Cardinality({y \in rows : y < x})

Page(offset, size) == {x \in rows : offset <= Rank(x) /\ Rank(x) < offset + size}

Pages(o) ==
    LET limit == clampLimit(o.limit)
    IN  {Page(o.offset, IF limit < PageCap THEN limit ELSE PageCap)}
        \cup (IF Overfills THEN {Page(o.offset, Cardinality(rows))} ELSE {})

Begin ==
    /\ pc = "idle"
    /\ pc' = "asking"
    /\ stayed' = rows
    /\ UNCHANGED <<rows, opts, out, start, seen, reread, added, removed>>

(* commonListHandler refuses a negative offset before it asks, reports an    *)
(* error of the appliance, or passes the page on.                            *)
Refuse ==
    /\ pc = "asking"
    /\ opts.offset < 0
    /\ pc' = "refused"
    /\ out' = emptyOut(clampLimit(opts.limit))
    /\ UNCHANGED <<rows, opts, start, seen, stayed, reread, added, removed>>

ApiError ==
    /\ pc = "asking"
    /\ opts.offset >= 0
    /\ pc' = "failed"
    /\ out' = emptyOut(clampLimit(opts.limit))
    /\ UNCHANGED <<rows, opts, start, seen, stayed, reread, added, removed>>

Answer ==
    /\ pc = "asking"
    /\ opts.offset >= 0
    /\ \E items \in Pages(opts) :
          /\ out' = listOutput(opts, items)
          /\ seen' = seen \cup items
          /\ LET again == reread + Cardinality(items \cap seen)
             IN  reread' = IF again <= MaxChanges THEN again ELSE MaxChanges + 1
    /\ pc' = "answered"
    /\ UNCHANGED <<rows, opts, start, stayed, added, removed>>

(* The caller asks for the next page as long as it is told of one.           *)
Continue ==
    /\ pc = "answered"
    /\ out.hasMore /\ out.nextOffset # NoNext
    /\ opts' = [opts EXCEPT !.offset = out.nextOffset]
    /\ pc' = "asking"
    /\ UNCHANGED <<rows, out, start, seen, stayed, reread, added, removed>>

Finish ==
    /\ pc = "answered"
    /\ ~(out.hasMore /\ out.nextOffset # NoNext)
    /\ pc' = "done"
    /\ UNCHANGED <<rows, opts, out, start, seen, stayed, reread, added, removed>>

(* Other calls add and remove rows while the walk is on. A row that is added *)
(* is one the walk has not met.                                              *)
Add ==
    /\ added + removed < MaxChanges
    /\ \E x \in Rows \ (rows \cup seen) : rows' = rows \cup {x}
    /\ added' = added + 1
    /\ UNCHANGED <<pc, opts, out, start, seen, stayed, reread, removed>>

Remove ==
    /\ added + removed < MaxChanges
    /\ \E x \in rows : rows' = rows \ {x} /\ stayed' = stayed \ {x}
    /\ removed' = removed + 1
    /\ UNCHANGED <<pc, opts, out, start, seen, reread, added>>

commonListHandler == Refuse \/ ApiError \/ Answer

Next ==
    \/ Begin \/ Continue \/ Finish
    \/ commonListHandler
    \/ pc \in {"asking", "answered"} /\ (Add \/ Remove)

(* A call is answered, if only by its deadline, and the caller goes on.      *)
Fairness == WF_vars(commonListHandler) /\ WF_vars(Begin \/ Continue \/ Finish)

Spec == Init /\ [][Next]_vars /\ Fairness

-----------------------------------------------------------------------------
(* Properties. *)

(* A walk that was told there is no more, with a limit the appliance's cap   *)
(* lets pass, has seen every row that was there all the time, but for those  *)
(* before its first offset and one for each row removed meanwhile: removing  *)
(* a row moves one across the page border.                                   *)
NothingOverlooked ==
    (pc = "done" /\ ~out.hasMore /\ out.limit <= PageCap)
        => Cardinality(stayed \ seen) <= start + removed

(* A row comes twice only when another was added meanwhile, also when the    *)
(* appliance puts more into a page than was asked for.                       *)
NothingRepeated == reread <= added

(* No next_offset is ever refused: only the first request of a walk can be.  *)
OnlyFirstRefused == pc = "refused" => seen = {} /\ start < 0

(* Every walk ends, however the list changes under it.                       *)
WalkEnds == <>(pc \in {"refused", "failed", "done"})
=============================================================================
