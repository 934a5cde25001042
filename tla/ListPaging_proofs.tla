-------------------------- MODULE ListPaging_proofs --------------------------
(***************************************************************************)
(* ListPaging for every list, every page size and every integer width.     *)
(***************************************************************************)
EXTENDS ListPaging, FiniteSetTheorems, TLAPS

LEMMA LimitIsClamped ==
    ASSUME NEW limit \in Limits
    PROVE  clampLimit(limit) \in 1 .. maxListLimit
  BY PagingAssumption DEF clampLimit

LEMMA PagesAreRows ==
    ASSUME TypeOK, NEW o \in ListOptions, NEW items \in Pages(o)
    PROVE  /\ items \subseteq Rows /\ IsFiniteSet(items)
           /\ Cardinality(items) \in 0 .. Cardinality(Rows)
<1>1. items \subseteq rows
  BY DEF Pages, Page
<1>2. items \subseteq Rows /\ IsFiniteSet(Rows)
  BY <1>1, PagingAssumption DEF TypeOK
<1>3. IsFiniteSet(items) /\ Cardinality(items) <= Cardinality(Rows)
  BY <1>2, FS_Subset
<1>4. Cardinality(items) \in Nat /\ Cardinality(Rows) \in Nat
  BY <1>2, <1>3, FS_CardinalityType
<1> QED BY <1>2, <1>3, <1>4

(* The answer to a request with an offset that is not refused: the next      *)
(* offset lies further on and is an int32.                                   *)
LEMMA NextIsFurtherOn ==
    ASSUME TypeOK, NEW o \in ListOptions, o.offset >= 0, NEW items \in Pages(o)
    PROVE  /\ listOutput(o, items) \in ListOutput
           /\ listOutput(o, items).nextOffset # NoNext =>
                 listOutput(o, items).nextOffset > o.offset
           /\ listOutput(o, items).nextOffset \in 0 .. MaxInt32
<1> DEFINE limit == clampLimit(o.limit)
           count == Cardinality(items)
<1>1. limit \in 1 .. maxListLimit /\ maxListLimit \in Nat /\ MaxInt32 \in Nat
  BY LimitIsClamped, PagingAssumption DEF ListOptions
<1>2. count \in 0 .. Cardinality(Rows) /\ Cardinality(Rows) \in Nat
  BY PagesAreRows, PagingAssumption, FS_CardinalityType
<1>3. o.offset \in 0 .. MaxInt32
  BY <1>1 DEF ListOptions
<1> HIDE DEF limit, count
<1>4. listOutput(o, items) =
        [count |-> count, limit |-> limit, hasMore |-> count >= limit,
         nextOffset |-> IF count >= limit /\ o.offset + count <= MaxInt32
                        THEN o.offset + count ELSE NoNext]
  BY DEF listOutput, limit, count
<1>5. (IF count >= limit /\ o.offset + count <= MaxInt32 THEN o.offset + count ELSE NoNext)
         \in 0 .. MaxInt32
  BY <1>1, <1>2, <1>3 DEF NoNext
<1> QED BY <1>1, <1>2, <1>3, <1>4, <1>5 DEF ListOutput, NoNext

(* The first request may be refused; every later one asks further on than    *)
(* the walk began.                                                           *)
WalkInv ==
    /\ TypeOK
    /\ pc \in {"idle", "asking", "refused"} /\ opts.offset < 0
          => seen = {} /\ start = opts.offset
    /\ opts.offset < 0 => pc \in {"idle", "asking", "refused"}
    /\ pc = "answered" => out.nextOffset >= 0
    /\ pc = "refused" => opts.offset < 0

LEMMA EmptyPage ==
    ASSUME NEW limit \in Limits
    PROVE  /\ emptyOut(clampLimit(limit)) \in ListOutput
           /\ emptyOut(clampLimit(limit)).nextOffset = 0
<1>1. clampLimit(limit) \in 1 .. maxListLimit
  BY LimitIsClamped
<1>2. Cardinality(Rows) \in Nat /\ MaxInt32 \in Nat
  BY PagingAssumption, FS_CardinalityType
<1> QED BY <1>1, <1>2 DEF emptyOut, ListOutput, NoNext

LEMMA WalkStep ==
    ASSUME WalkInv, [Next]_vars
    PROVE  WalkInv'
<1> USE DEF WalkInv
<1>1. CASE Begin
  BY <1>1 DEF Begin, TypeOK
<1>2. CASE Refuse \/ ApiError
  BY <1>2, EmptyPage DEF Refuse, ApiError, TypeOK, ListOptions
<1>3. CASE Answer
  <2>1. PICK items \in Pages(opts) :
           /\ out' = listOutput(opts, items)
           /\ seen' = seen \cup items
           /\ LET again == reread + Cardinality(items \cap seen)
              IN  reread' = IF again <= MaxChanges THEN again ELSE MaxChanges + 1
    BY <1>3 DEF Answer
  <2>2. opts \in ListOptions /\ opts.offset >= 0
    BY <1>3 DEF Answer, TypeOK
  <2>3. out' \in ListOutput /\ out'.nextOffset >= 0
    BY <2>1, <2>2, NextIsFurtherOn DEF NoNext, ListOptions
  <2>4. items \subseteq Rows
    BY <2>1, <2>2, PagesAreRows
  <2>5. reread' \in Nat
    <3>1. IsFiniteSet(items)
      BY <2>1, <2>2, PagesAreRows
    <3>2. Cardinality(items \cap seen) \in Nat
      BY <3>1, FS_Intersection, FS_CardinalityType
    <3> QED BY <2>1, <3>2, PagingAssumption DEF TypeOK
  <2> QED BY <1>3, <2>1, <2>2, <2>3, <2>4, <2>5 DEF Answer, TypeOK
<1>4. CASE Continue
  <2>1. opts' \in ListOptions /\ opts'.offset = out.nextOffset /\ out.nextOffset >= 0
    BY <1>4 DEF Continue, TypeOK, ListOptions, ListOutput
  <2> QED BY <1>4, <2>1 DEF Continue, TypeOK, ListOptions
<1>5. CASE Finish
  BY <1>5 DEF Finish, TypeOK
<1>6. CASE pc \in {"asking", "answered"} /\ (Add \/ Remove)
  BY <1>6 DEF Add, Remove, TypeOK
<1>7. CASE UNCHANGED vars
  BY <1>7 DEF vars, TypeOK
<1> QED BY <1>1, <1>2, <1>3, <1>4, <1>5, <1>6, <1>7 DEF Next, commonListHandler

LEMMA WalkInit == Init => WalkInv
<1> SUFFICES ASSUME Init PROVE WalkInv
  OBVIOUS
<1>1. opts \in ListOptions /\ start = opts.offset
  BY PagingAssumption DEF Init, ListOptions
<1>3. out \in ListOutput
  BY <1>1, EmptyPage DEF Init, ListOptions
<1>4. TypeOK
  BY <1>1, <1>3 DEF Init, TypeOK, ListOptions
<1> QED BY <1>1, <1>4 DEF Init, WalkInv

(* A walk is refused at its first request or not at all: no next_offset is   *)
(* ever negative or past the largest int32.                                  *)
THEOREM NextAccepted == Spec => []OnlyFirstRefused
<1>1. WalkInv => OnlyFirstRefused
  BY DEF WalkInv, OnlyFirstRefused
<1> QED BY <1>1, WalkInit, WalkStep, PTL DEF Spec

-----------------------------------------------------------------------------
(* Counting the rows of a list: those before a row, the first n, and the     *)
(* rows of S whose rank in the list R is p or more, or less than p.          *)

Below(S, x)  == {y \in S : y < x}
RankIn(S, x) == Cardinality(Below(S, x))
Low(S, n)    == {x \in S : RankIn(S, x) < n}

From(S, R, p)   == {x \in S : RankIn(R, x) >= p}
Before(S, R, p) == {x \in S : RankIn(R, x) < p}

LEMMA RankType ==
    ASSUME NEW S \in SUBSET Int, IsFiniteSet(S), NEW x
    PROVE  IsFiniteSet(Below(S, x)) /\ RankIn(S, x) \in Nat
<1>1. Below(S, x) \in SUBSET S
  BY DEF Below
<1>2. IsFiniteSet(Below(S, x))
  BY <1>1, FS_Subset
<1> QED BY <1>2, FS_CardinalityType DEF RankIn

LEMMA BelowGrows ==
    ASSUME NEW S \in SUBSET Int, NEW x \in S, NEW y \in S, x < y
    PROVE  Below(S, x) \in SUBSET Below(S, y) /\ x \in Below(S, y) /\ x \notin Below(S, x)
<1>1. x \in Int /\ y \in Int /\ \A z \in S : z \in Int
  OBVIOUS
<1>2. \A z \in Below(S, x) : z \in Below(S, y)
  BY <1>1 DEF Below
<1>3. x \in Below(S, y) /\ x \notin Below(S, x)
  BY <1>1 DEF Below
<1> QED BY <1>2, <1>3

LEMMA RanksGrow ==
    ASSUME NEW S \in SUBSET Int, IsFiniteSet(S), NEW x \in S, NEW y \in S, x < y
    PROVE  RankIn(S, x) < RankIn(S, y)
<1>1. Below(S, x) \in SUBSET Below(S, y) /\ x \in Below(S, y) /\ x \notin Below(S, x)
  BY BelowGrows
<1>2. /\ Cardinality(Below(S, x)) <= Cardinality(Below(S, y))
      /\ Cardinality(Below(S, y)) = Cardinality(Below(S, x)) => Below(S, y) = Below(S, x)
  BY <1>1, RankType, FS_Subset
<1> QED BY <1>1, <1>2, RankType DEF RankIn

LEMMA RanksDiffer ==
    ASSUME NEW S \in SUBSET Int, IsFiniteSet(S), NEW x \in S, NEW y \in S,
           RankIn(S, x) = RankIn(S, y)
    PROVE  x = y
<1>1. x < y \/ y < x \/ x = y
  OBVIOUS
<1> QED BY <1>1, RanksGrow, RankType

(* No set of rows within k consecutive ranks has more than k.                *)
LEMMA FewRanks ==
    ASSUME NEW S \in SUBSET Int, IsFiniteSet(S), NEW k \in Nat, NEW n \in Nat,
           NEW T \in SUBSET S, \A x \in T : n <= RankIn(S, x) /\ RankIn(S, x) < n + k
    PROVE  IsFiniteSet(T) /\ Cardinality(T) \in Nat /\ Cardinality(T) <= k
<1> DEFINE f == [x \in T |-> RankIn(S, x)]
<1>1. \A x \in T : RankIn(S, x) \in n .. n + k - 1
  BY RankType
<1>2. f \in [T -> n .. n + k - 1]
  BY <1>1
<1>3. \A x, y \in T : f[x] = f[y] => x = y
  BY RanksDiffer
<1>4. f \in Injection(T, n .. n + k - 1)
  BY <1>2, <1>3 DEF Injection, IsInjective
<1>5. IsFiniteSet(n .. n + k - 1) /\ Cardinality(n .. n + k - 1) = k
  BY FS_Interval
<1>6. IsFiniteSet(T) /\ Cardinality(T) <= k
  BY <1>4, <1>5, FS_Injection
<1> QED BY <1>6, FS_CardinalityType

(* If some row has rank n or more, n rows come before rank n.                *)
LEMMA EnoughRanks ==
    ASSUME NEW S \in SUBSET Int, IsFiniteSet(S), NEW n \in Nat, NEW x \in S, RankIn(S, x) >= n
    PROVE  Cardinality(Low(S, n)) >= n
<1> DEFINE H == {y \in S : RankIn(S, y) >= n}
           T == {Below(S, y) : y \in H}
<1>1. T \subseteq FiniteSubsetsOf(S) /\ T # {}
  BY RankType DEF Below, FiniteSubsetsOf
<1>2. PICK b \in T : \A a \in T : ~(<<a, b>> \in StrictSubsetOrdering(S))
  BY <1>1, FS_StrictSubsetOrderingWellFounded, WFMin
<1>3. PICK m \in H : b = Below(S, m)
  OBVIOUS
<1>4. ASSUME NEW y \in Below(S, m) PROVE y \in Low(S, n)
  <2>1. y \in S /\ y < m
    BY DEF Below
  <2>2. Below(S, y) \subseteq Below(S, m) /\ y \notin Below(S, y)
    BY <2>1, <1>3, BelowGrows
  <2>3. y \notin H
    <3> SUFFICES ASSUME y \in H PROVE FALSE
      OBVIOUS
    <3>1. Below(S, y) \in T /\ Below(S, y) \in SUBSET S /\ b \in SUBSET S
      BY <1>3 DEF Below
    <3>2. <<Below(S, y), b>> \in StrictSubsetOrdering(S)
      BY <1>3, <1>4, <2>2, <3>1 DEF StrictSubsetOrdering
    <3> QED BY <1>2, <3>1, <3>2
  <2> QED BY <2>1, <2>3, RankType DEF Low
<1>5. Low(S, n) \in SUBSET S
  BY DEF Low
<1>6. IsFiniteSet(Low(S, n)) /\ Cardinality(Low(S, n)) \in Nat
  BY <1>5, FS_Subset, FS_CardinalityType
<1>7. Cardinality(Below(S, m)) <= Cardinality(Low(S, n))
  BY <1>4, <1>6, FS_Subset
<1>8. m \in S /\ Cardinality(Below(S, m)) >= n
  BY <1>3 DEF RankIn
<1> QED BY <1>6, <1>7, <1>8, RankType DEF RankIn

LEMMA OneMore ==
    ASSUME NEW B, IsFiniteSet(B), NEW A, NEW C, A \subseteq B \cup C,
           \A x, y \in C : x = y
    PROVE  IsFiniteSet(A) /\ Cardinality(A) \in Nat /\ Cardinality(A) <= Cardinality(B) + 1
<1>1. PICK c : C \subseteq {c}
  <2>1. CASE C = {}
    BY <2>1
  <2>2. CASE C # {}
    BY <2>2
  <2> QED BY <2>1, <2>2
<1>2. A \in SUBSET (B \cup {c})
  BY <1>1
<1>3. IsFiniteSet(B \cup {c}) /\ Cardinality(B \cup {c}) <= Cardinality(B) + 1
  <2>1. Cardinality(B) \in Nat
    BY FS_CardinalityType
  <2> QED BY <2>1, FS_AddElement
<1>4. IsFiniteSet(A) /\ Cardinality(A) <= Cardinality(B \cup {c})
  BY <1>2, <1>3, FS_Subset
<1> QED BY <1>3, <1>4, FS_CardinalityType

(* What a new row does to the ranks of the others.                           *)
LEMMA RankAfterAdd ==
    ASSUME NEW S \in SUBSET Int, IsFiniteSet(S), NEW x \in Int, x \notin S, NEW y \in Int
    PROVE  RankIn(S \cup {x}, y) = RankIn(S, y) + (IF x < y THEN 1 ELSE 0)
<1>1. CASE x < y
  <2>1. Below(S \cup {x}, y) = Below(S, y) \cup {x} /\ x \notin Below(S, y)
    BY <1>1 DEF Below
  <2> QED BY <1>1, <2>1, RankType, FS_AddElement DEF RankIn
<1>2. CASE ~(x < y)
  <2>1. Below(S \cup {x}, y) = Below(S, y)
    BY <1>2 DEF Below
  <2> QED BY <1>2, <2>1, RankType DEF RankIn
<1> QED BY <1>1, <1>2

LEMMA RankAfterRemove ==
    ASSUME NEW S \in SUBSET Int, IsFiniteSet(S), NEW x \in S, NEW y \in Int
    PROVE  RankIn(S, y) = RankIn(S \ {x}, y) + (IF x < y THEN 1 ELSE 0)
<1>1. S \ {x} \in SUBSET Int /\ x \in Int /\ x \notin S \ {x} /\ (S \ {x}) \cup {x} = S
  OBVIOUS
<1>2. IsFiniteSet(S \ {x})
  BY FS_Subset
<1> QED BY <1>1, <1>2, RankAfterAdd

(* A new row moves at most one row of S past a rank, and moves none back.    *)
LEMMA AddMoves ==
    ASSUME NEW R \in SUBSET Int, IsFiniteSet(R), NEW x \in Int, x \notin R,
           NEW S \in SUBSET R, NEW p \in Int
    PROVE  /\ Cardinality(From(S, R \cup {x}, p)) <= Cardinality(From(S, R, p)) + 1
           /\ Before(S, R \cup {x}, p) \in SUBSET Before(S, R, p)
<1> DEFINE C == {y \in S : RankIn(R, y) = p - 1}
<1>1. \A y \in S : /\ y \in R /\ y \in Int
                   /\ RankIn(R, y) \in Nat /\ RankIn(R \cup {x}, y) \in Nat
                   /\ RankIn(R, y) <= RankIn(R \cup {x}, y)
                   /\ RankIn(R \cup {x}, y) <= RankIn(R, y) + 1
  <2> SUFFICES ASSUME NEW y \in S
               PROVE  /\ y \in R /\ y \in Int
                      /\ RankIn(R, y) \in Nat /\ RankIn(R \cup {x}, y) \in Nat
                      /\ RankIn(R, y) <= RankIn(R \cup {x}, y)
                      /\ RankIn(R \cup {x}, y) <= RankIn(R, y) + 1
    OBVIOUS
  <2>1. y \in R /\ y \in Int
    OBVIOUS
  <2>2. RankIn(R, y) \in Nat
    BY RankType
  <2> QED BY <2>1, <2>2, RankAfterAdd
<1>2. \A y, z \in C : y = z
  BY <1>1, RanksDiffer
<1>3. \A y \in From(S, R \cup {x}, p) : y \in From(S, R, p) \cup C
  BY <1>1 DEF From
<1>4. IsFiniteSet(From(S, R, p))
  <2>1. From(S, R, p) \in SUBSET R
    BY DEF From
  <2> QED BY <2>1, FS_Subset
<1>5. Cardinality(From(S, R \cup {x}, p)) <= Cardinality(From(S, R, p)) + 1
  <2> HIDE DEF C
  <2>1. From(S, R \cup {x}, p) \subseteq From(S, R, p) \cup C
    BY <1>3
  <2> QED BY <1>2, <1>4, <2>1, OneMore
<1>6. \A y \in Before(S, R \cup {x}, p) : y \in Before(S, R, p)
  BY <1>1 DEF Before
<1> QED BY <1>5, <1>6

(* Removing a row moves at most one row of S back before a rank, and none on. *)
LEMMA RemoveMoves ==
    ASSUME NEW R \in SUBSET Int, IsFiniteSet(R), NEW x \in R,
           NEW S \in SUBSET R, NEW p \in Int
    PROVE  /\ Cardinality(Before(S \ {x}, R \ {x}, p)) <= Cardinality(Before(S, R, p)) + 1
           /\ From(S \ {x}, R \ {x}, p) \in SUBSET From(S, R, p)
<1> DEFINE C == {y \in S : RankIn(R, y) = p}
<1>1. \A y \in S : /\ y \in R /\ y \in Int
                   /\ RankIn(R, y) \in Nat /\ RankIn(R \ {x}, y) \in Nat
                   /\ RankIn(R \ {x}, y) <= RankIn(R, y)
                   /\ RankIn(R, y) <= RankIn(R \ {x}, y) + 1
  <2> SUFFICES ASSUME NEW y \in S
               PROVE  /\ y \in R /\ y \in Int
                      /\ RankIn(R, y) \in Nat /\ RankIn(R \ {x}, y) \in Nat
                      /\ RankIn(R \ {x}, y) <= RankIn(R, y)
                      /\ RankIn(R, y) <= RankIn(R \ {x}, y) + 1
    OBVIOUS
  <2>1. y \in R /\ y \in Int
    OBVIOUS
  <2>2. R \ {x} \in SUBSET Int /\ IsFiniteSet(R \ {x})
    BY FS_Subset
  <2>3. RankIn(R \ {x}, y) \in Nat
    BY <2>2, RankType
  <2> QED BY <2>1, <2>3, RankAfterRemove
<1>2. \A y, z \in C : y = z
  BY <1>1, RanksDiffer
<1>3. \A y \in Before(S \ {x}, R \ {x}, p) : y \in Before(S, R, p) \cup C
  BY <1>1 DEF Before
<1>4. IsFiniteSet(Before(S, R, p))
  <2>1. Before(S, R, p) \in SUBSET R
    BY DEF Before
  <2> QED BY <2>1, FS_Subset
<1>5. Cardinality(Before(S \ {x}, R \ {x}, p)) <= Cardinality(Before(S, R, p)) + 1
  <2> HIDE DEF C
  <2>1. Before(S \ {x}, R \ {x}, p) \subseteq Before(S, R, p) \cup C
    BY <1>3
  <2> QED BY <1>2, <1>4, <2>1, OneMore
<1>6. \A y \in From(S \ {x}, R \ {x}, p) : y \in From(S, R, p)
  BY <1>1 DEF From
<1> QED BY <1>5, <1>6

(* A page of the list has no more rows than its size, its rows have the      *)
(* ranks from its offset on, and one with fewer rows than its size is the     *)
(* last of the list.                                                         *)
LEMMA PageRanks ==
    ASSUME NEW R \in SUBSET Int, IsFiniteSet(R), NEW o \in Nat, NEW k \in Nat, NEW P,
           P = {x \in R : o <= RankIn(R, x) /\ RankIn(R, x) < o + k}
    PROVE  /\ IsFiniteSet(P) /\ Cardinality(P) \in Nat /\ Cardinality(P) <= k
           /\ \A x \in P : RankIn(R, x) < o + Cardinality(P)
           /\ Cardinality(P) < k => \A x \in R : RankIn(R, x) < o + Cardinality(P)
<1>1. P \in SUBSET R /\ \A x \in P : o <= RankIn(R, x) /\ RankIn(R, x) < o + k
  OBVIOUS
<1>2. IsFiniteSet(P) /\ Cardinality(P) \in Nat /\ Cardinality(P) <= k
  BY <1>1, FewRanks
<1>3. /\ IsFiniteSet(Low(R, o)) /\ Cardinality(Low(R, o)) \in Nat
      /\ Cardinality(Low(R, o)) <= o
  <2>1. /\ 0 \in Nat /\ Low(R, o) \in SUBSET R
        /\ \A x \in Low(R, o) : 0 <= RankIn(R, x) /\ RankIn(R, x) < 0 + o
    BY RankType DEF Low
  <2> QED BY <2>1, FewRanks
<1>4. ASSUME NEW T \in SUBSET (Low(R, o) \cup P), IsFiniteSet(T)
      PROVE  Cardinality(T) <= o + Cardinality(P)
  <2>1. /\ IsFiniteSet(Low(R, o) \cup P)
        /\ Cardinality(Low(R, o) \cup P) <= o + Cardinality(P)
    <3>1. Low(R, o) \cap P = {}
      BY RankType DEF Low
    <3>2. Cardinality(Low(R, o) \cap P) = 0
      BY <3>1, FS_EmptySet
    <3> QED BY <1>2, <1>3, <3>2, FS_Union
  <2>2. Cardinality(T) <= Cardinality(Low(R, o) \cup P)
    BY <2>1, FS_Subset
  <2>3. Cardinality(T) \in Nat /\ Cardinality(Low(R, o) \cup P) \in Nat
    BY <1>4, <2>1, FS_CardinalityType
  <2> QED BY <1>2, <2>1, <2>2, <2>3
<1>5. ASSUME NEW x \in P PROVE RankIn(R, x) < o + Cardinality(P)
  <2> DEFINE T == Below(R, x) \cup {x}
  <2>1. x \in R /\ x \in Int /\ RankIn(R, x) < o + k /\ RankIn(R, x) \in Nat
    BY <1>1, RankType
  <2>2. \A y \in T : y \in Low(R, o) \cup P
    <3> SUFFICES ASSUME NEW y \in Below(R, x) PROVE y \in Low(R, o) \cup P
      OBVIOUS
    <3>1. y \in R /\ y < x /\ RankIn(R, y) \in Nat
      BY RankType DEF Below
    <3>2. RankIn(R, y) < RankIn(R, x)
      BY <2>1, <3>1, RanksGrow
    <3>3. RankIn(R, y) < o + k
      BY <2>1, <3>1, <3>2
    <3> QED BY <3>1, <3>3 DEF Low
  <2>3. x \notin Below(R, x) /\ IsFiniteSet(Below(R, x))
    BY <2>1, RankType DEF Below
  <2>4. IsFiniteSet(T) /\ Cardinality(T) = RankIn(R, x) + 1
    BY <2>3, FS_AddElement DEF RankIn
  <2> HIDE DEF T
  <2>5. Cardinality(T) <= o + Cardinality(P)
    BY <1>4, <2>2, <2>4
  <2> QED BY <1>2, <2>1, <2>4, <2>5
<1>6. ASSUME Cardinality(P) < k, NEW x \in R PROVE RankIn(R, x) < o + Cardinality(P)
  <2>1. RankIn(R, x) \in Nat
    BY RankType
  <2>2. CASE RankIn(R, x) < o + k
    <3>1. CASE o <= RankIn(R, x)
      <4>1. x \in P
        BY <2>2, <3>1
      <4> QED BY <4>1, <1>5
    <3>2. CASE ~(o <= RankIn(R, x))
      BY <1>2, <2>1, <3>2
    <3> QED BY <3>1, <3>2
  <2>3. CASE RankIn(R, x) >= o + k
    <3>1. Cardinality(Low(R, o + k)) >= o + k
      BY <2>3, EnoughRanks
    <3>2. Low(R, o + k) \in SUBSET (Low(R, o) \cup P)
      <4> SUFFICES ASSUME NEW y \in Low(R, o + k) PROVE y \in Low(R, o) \cup P
        OBVIOUS
      <4>1. y \in R /\ RankIn(R, y) \in Nat /\ RankIn(R, y) < o + k
        BY RankType DEF Low
      <4> QED BY <4>1 DEF Low
    <3>3. IsFiniteSet(Low(R, o + k)) /\ Cardinality(Low(R, o + k)) \in Nat
      <4>1. Low(R, o + k) \in SUBSET R
        BY DEF Low
      <4> QED BY <4>1, FS_Subset, FS_CardinalityType
    <3>4. Cardinality(Low(R, o + k)) <= o + Cardinality(P)
      BY <1>4, <3>2, <3>3
    <3> QED BY <1>2, <1>6, <3>1, <3>3, <3>4
  <2> QED BY <2>1, <2>2, <2>3
<1> QED BY <1>2, <1>5, <1>6

-----------------------------------------------------------------------------

(* Where the walk stands: the rows before Position have been asked for, the  *)
(* rows from Position on have not.                                           *)
Position == opts.offset + (IF pc = "answered" THEN out.count ELSE 0)
Walking  == pc \in {"asking", "answered"}
Last     == ~out.hasMore /\ out.limit <= PageCap

Ahead  == From(seen \cap rows, rows, Position)
Behind == Before(stayed \ seen, rows, Position)

(* Each row added puts at most one row received ahead of the walk, where it  *)
(* may be received again; each row removed puts at most one behind it.       *)
CountInv ==
    /\ added + removed <= MaxChanges
    /\ pc = "idle" => /\ reread = 0 /\ added = 0 /\ removed = 0
                      /\ seen = {} /\ start = opts.offset
    /\ stayed \subseteq rows
    /\ pc = "answered" /\ out.nextOffset # NoNext => out.nextOffset = Position
    /\ reread <= added
    /\ Walking => reread + Cardinality(Ahead) <= added
    /\ Walking /\ opts.offset >= 0 => Cardinality(Behind) <= start + removed
    /\ pc \in {"answered", "done"} /\ Last => Cardinality(stayed \ seen) <= start + removed

LEMMA RowsFinite ==
    ASSUME TypeOK, NEW S, S \subseteq rows \/ S \subseteq seen \/ S \subseteq stayed
    PROVE  S \in SUBSET Int /\ IsFiniteSet(S) /\ Cardinality(S) \in Nat
<1>1. S \in SUBSET Rows /\ Rows \in SUBSET Int /\ IsFiniteSet(Rows)
  BY PagingAssumption DEF TypeOK
<1> QED BY <1>1, FS_Subset, FS_CardinalityType

LEMMA Integers ==
    ASSUME TypeOK
    PROVE  /\ opts.offset \in Int /\ out.count \in Nat /\ start \in Int /\ MaxChanges \in Nat
           /\ added \in Nat /\ removed \in Nat /\ reread \in Nat /\ Position \in Int
<1>1. Cardinality(Rows) \in Nat /\ MaxInt32 \in Nat /\ MaxChanges \in Nat
  BY PagingAssumption, FS_CardinalityType
<1> QED BY <1>1 DEF TypeOK, ListOptions, ListOutput, Position

LEMMA Counted ==
    ASSUME TypeOK
    PROVE  /\ IsFiniteSet(Ahead) /\ Cardinality(Ahead) \in Nat
           /\ IsFiniteSet(Behind) /\ Cardinality(Behind) \in Nat
<1>1. Ahead \subseteq rows /\ Behind \subseteq stayed
  BY DEF Ahead, Behind, From, Before
<1> QED BY <1>1, RowsFinite

(* The page of an answer: as PageRanks, and every row of the list when it is *)
(* not full although its limit is below the cap.                             *)
LEMMA AnswerRanks ==
    ASSUME TypeOK, opts.offset >= 0, NEW items \in Pages(opts)
    PROVE  /\ items \in SUBSET rows
           /\ IsFiniteSet(items) /\ Cardinality(items) \in Nat
           /\ \A x \in rows : RankIn(rows, x) \in Nat
           /\ \A x \in items : /\ opts.offset <= RankIn(rows, x)
                               /\ RankIn(rows, x) < opts.offset + Cardinality(items)
           /\ \A x \in rows : /\ opts.offset <= RankIn(rows, x)
                              /\ RankIn(rows, x) < opts.offset + Cardinality(items)
                              => x \in items
           /\ clampLimit(opts.limit) <= PageCap /\ Cardinality(items) < clampLimit(opts.limit)
                => \A x \in rows : RankIn(rows, x) < opts.offset + Cardinality(items)
<1>1. rows \in SUBSET Int /\ IsFiniteSet(rows) /\ Cardinality(rows) \in Nat
  BY RowsFinite
<1>2. opts.offset \in Nat
  BY Integers
<1>3. clampLimit(opts.limit) \in Nat /\ PageCap \in Nat
  BY LimitIsClamped, PagingAssumption DEF TypeOK, ListOptions
<1>4. \A x \in rows : RankIn(rows, x) = Rank(x) /\ RankIn(rows, x) \in Nat
  BY <1>1, RankType DEF Rank, RankIn, Below
<1>5. PICK k \in Nat :
          /\ items = Page(opts.offset, k)
          /\ \/ k = (IF clampLimit(opts.limit) < PageCap THEN clampLimit(opts.limit) ELSE PageCap)
             \/ k = Cardinality(rows)
  BY <1>1, <1>3 DEF Pages
<1>6. items = {x \in rows : opts.offset <= RankIn(rows, x) /\ RankIn(rows, x) < opts.offset + k}
  BY <1>4, <1>5 DEF Page
<1>7. /\ IsFiniteSet(items) /\ Cardinality(items) \in Nat /\ Cardinality(items) <= k
      /\ \A x \in items : RankIn(rows, x) < opts.offset + Cardinality(items)
      /\ Cardinality(items) < k =>
            \A x \in rows : RankIn(rows, x) < opts.offset + Cardinality(items)
  BY <1>1, <1>2, <1>5, <1>6, PageRanks
<1>8. ASSUME NEW x \in rows, opts.offset <= RankIn(rows, x),
             RankIn(rows, x) < opts.offset + Cardinality(items)
      PROVE  x \in items
  BY <1>2, <1>4, <1>5, <1>6, <1>7, <1>8
<1>9. ASSUME clampLimit(opts.limit) <= PageCap, Cardinality(items) < clampLimit(opts.limit),
             NEW x \in rows
      PROVE  RankIn(rows, x) < opts.offset + Cardinality(items)
  <2>1. CASE Cardinality(items) < k
    BY <1>7, <2>1
  <2>2. CASE ~(Cardinality(items) < k)
    <3>1. k = Cardinality(rows) /\ Cardinality(items) = k
      BY <1>1, <1>3, <1>5, <1>7, <1>9, <2>2
    <3>2. items = rows
      BY <1>1, <1>6, <3>1, FS_Subset
    <3> QED BY <1>7, <3>2
  <2> QED BY <2>1, <2>2
<1> QED BY <1>6, <1>4, <1>7, <1>8, <1>9

LEMMA AnswerCounts ==
    ASSUME WalkInv, CountInv, Answer, WalkInv'
    PROVE  CountInv'
<1>1. PICK items \in Pages(opts) :
         /\ out' = listOutput(opts, items)
         /\ seen' = seen \cup items
         /\ LET again == reread + Cardinality(items \cap seen)
            IN  reread' = IF again <= MaxChanges THEN again ELSE MaxChanges + 1
  BY DEF Answer
<1> DEFINE n == Cardinality(items)
           q == opts.offset + n
<1>2. /\ pc = "asking" /\ pc' = "answered" /\ opts.offset >= 0 /\ opts.offset \in Nat
      /\ UNCHANGED <<rows, opts, start, stayed, added, removed>>
  BY Integers DEF Answer, WalkInv
<1>3. TypeOK /\ TypeOK' /\ Walking /\ Position = opts.offset
  BY <1>2, Integers DEF WalkInv, Walking, Position
<1>4. /\ items \in SUBSET rows
      /\ IsFiniteSet(items) /\ n \in Nat
      /\ \A x \in rows : RankIn(rows, x) \in Nat
      /\ \A x \in items : opts.offset <= RankIn(rows, x) /\ RankIn(rows, x) < q
      /\ \A x \in rows : opts.offset <= RankIn(rows, x) /\ RankIn(rows, x) < q => x \in items
      /\ clampLimit(opts.limit) <= PageCap /\ n < clampLimit(opts.limit)
           => \A x \in rows : RankIn(rows, x) < q
  BY <1>1, <1>2, <1>3, AnswerRanks
<1> HIDE DEF n
<1>5. /\ out'.count = n /\ out'.limit = clampLimit(opts.limit)
      /\ (out'.hasMore <=> n >= clampLimit(opts.limit))
      /\ out'.nextOffset # NoNext => out'.nextOffset = q
  BY <1>1 DEF listOutput, NoNext, n
<1>6. Position' = q /\ q \in Nat
  BY <1>2, <1>4, <1>5 DEF Position
<1>7. /\ reread \in Nat /\ added \in Nat /\ removed \in Nat /\ start \in Int /\ MaxChanges \in Nat
      /\ added <= MaxChanges
  BY <1>3, Integers DEF CountInv
<1> HIDE DEF q
<1>8. /\ Cardinality(items \cap seen) \in Nat /\ Cardinality(Ahead') \in Nat
      /\ Cardinality(items \cap seen) + Cardinality(Ahead') <= Cardinality(Ahead)
  <2>1. \A x \in items \cap seen : x \in Ahead
    BY <1>3, <1>4 DEF Ahead, From
  <2>2. Ahead' = From(seen' \cap rows, rows, q)
    BY <1>2, <1>6 DEF Ahead
  <2>3. \A x \in Ahead' : x \in rows /\ x \in seen' /\ RankIn(rows, x) >= q
    BY <2>2 DEF From
  <2>4. \A x \in Ahead' : x \notin items
    BY <1>4, <1>6, <2>3
  <2>5. \A x \in Ahead' : x \in Ahead
    <3> SUFFICES ASSUME NEW x \in Ahead' PROVE x \in Ahead
      OBVIOUS
    <3>1. x \in seen /\ x \in rows /\ RankIn(rows, x) >= q
      BY <1>1, <2>3, <2>4
    <3>2. RankIn(rows, x) >= opts.offset
      BY <1>2, <1>4, <3>1 DEF q
    <3> QED BY <1>3, <3>1, <3>2 DEF Ahead, From
  <2>6. IsFiniteSet(Ahead) /\ Cardinality(Ahead) \in Nat
    BY <1>3, Counted
  <2> DEFINE A == items \cap seen
             B == Ahead'
  <2>7. A \in SUBSET Ahead /\ B \in SUBSET Ahead /\ A \cap B = {} /\ A \cup B \in SUBSET Ahead
    BY <2>1, <2>4, <2>5
  <2> HIDE DEF A, B
  <2>8. /\ IsFiniteSet(A) /\ IsFiniteSet(B) /\ Cardinality(A) \in Nat /\ Cardinality(B) \in Nat
        /\ Cardinality(A \cup B) <= Cardinality(Ahead)
    BY <2>6, <2>7, FS_Subset, FS_CardinalityType
  <2>9. Cardinality(A \cap B) = 0
    BY <2>7, FS_EmptySet
  <2>10. Cardinality(A \cup B) = Cardinality(A) + Cardinality(B) - Cardinality(A \cap B)
    BY <2>8, FS_Union
  <2>11. Cardinality(A) + Cardinality(B) <= Cardinality(Ahead)
    BY <2>8, <2>9, <2>10
  <2> QED BY <2>8, <2>11 DEF A, B
<1>9. reread + Cardinality(Ahead) <= added /\ Cardinality(Ahead) \in Nat
  BY <1>3, Counted DEF CountInv
<1>10. reread' = reread + Cardinality(items \cap seen) /\ reread' + Cardinality(Ahead') <= added
  BY <1>1, <1>7, <1>8, <1>9
<1>11. \A x \in stayed \ seen' : x \in rows /\ x \in stayed \ seen /\ x \notin items
  BY <1>1 DEF CountInv
<1>12. /\ IsFiniteSet(Behind) /\ Cardinality(Behind) \in Nat
       /\ Cardinality(Behind) <= start + removed
  BY <1>2, <1>3, Counted DEF CountInv
<1>13. \A x \in stayed \ seen' : RankIn(rows, x) < q => x \in Behind
  BY <1>2, <1>3, <1>4, <1>11 DEF Behind, Before, q
<1>14. Cardinality(Behind') <= start + removed
  <2>1. Behind' = Before(stayed \ seen', rows, q)
    BY <1>2, <1>6 DEF Behind
  <2>2. Behind' \in SUBSET Behind
    BY <1>13, <2>1 DEF Before
  <2>3. Cardinality(Behind') <= Cardinality(Behind) /\ Cardinality(Behind') \in Nat
    BY <1>12, <2>2, FS_Subset, FS_CardinalityType
  <2> QED BY <1>7, <1>12, <2>3
<1>15. ASSUME Last' PROVE Cardinality(stayed \ seen') <= start + removed
  <2>1. clampLimit(opts.limit) \in Nat
    BY <1>3, LimitIsClamped, PagingAssumption DEF TypeOK, ListOptions
  <2>2. clampLimit(opts.limit) <= PageCap /\ n < clampLimit(opts.limit)
    <3>1. ~out'.hasMore /\ out'.limit <= PageCap
      BY <1>15 DEF Last
    <3>2. ~(n >= clampLimit(opts.limit))
      BY <1>5, <3>1
    <3> QED BY <1>4, <1>5, <2>1, <3>1, <3>2
  <2>3. \A x \in stayed \ seen' : x \in Behind
    BY <1>4, <1>11, <1>13, <2>2
  <2>4. stayed \ seen' \in SUBSET Behind
    BY <2>3
  <2>5. /\ Cardinality(stayed \ seen') <= Cardinality(Behind)
        /\ Cardinality(stayed \ seen') \in Nat
    BY <1>12, <2>4, FS_Subset, FS_CardinalityType
  <2> QED BY <1>7, <1>12, <2>5
<1> QED BY <1>2, <1>5, <1>6, <1>7, <1>8, <1>10, <1>14, <1>15 DEF CountInv

LEMMA AddCounts ==
    ASSUME WalkInv, CountInv, Walking, Add, WalkInv'
    PROVE  CountInv'
<1>1. PICK x \in Rows \ (rows \cup seen) : rows' = rows \cup {x}
  BY DEF Add
<1>2. /\ added' = added + 1 /\ added + removed < MaxChanges
      /\ UNCHANGED <<pc, opts, out, start, seen, stayed, reread, removed>>
  BY DEF Add
<1>3. TypeOK /\ TypeOK' /\ Position' = Position /\ Walking'
  BY <1>2 DEF WalkInv, Position, Walking
<1>4. /\ reread \in Nat /\ added \in Nat /\ removed \in Nat /\ start \in Int /\ MaxChanges \in Nat
      /\ Position \in Int
  BY <1>3, Integers
<1>5. /\ rows \in SUBSET Int /\ IsFiniteSet(rows) /\ x \in Int /\ x \notin rows /\ x \notin seen
      /\ stayed \subseteq rows
  BY <1>1, <1>3, RowsFinite, PagingAssumption DEF CountInv
<1>6. Cardinality(Ahead') <= Cardinality(Ahead) + 1
  <2>1. Ahead' = From(seen \cap rows, rows \cup {x}, Position)
    <3>1. seen \cap (rows \cup {x}) = seen \cap rows
      BY <1>5
    <3> QED BY <1>1, <1>2, <1>3, <3>1 DEF Ahead
  <2> QED BY <1>4, <1>5, <2>1, AddMoves DEF Ahead
<1>7. Behind' \in SUBSET Behind
  <2>1. Behind' = Before(stayed \ seen, rows \cup {x}, Position)
    BY <1>1, <1>2, <1>3 DEF Behind
  <2>2. stayed \ seen \in SUBSET rows
    BY <1>5
  <2> QED BY <1>4, <1>5, <2>1, <2>2, AddMoves DEF Behind
<1>8. /\ Cardinality(Ahead) \in Nat /\ Cardinality(Ahead') \in Nat
      /\ Cardinality(Behind) \in Nat /\ Cardinality(Behind') \in Nat
      /\ Cardinality(Behind') <= Cardinality(Behind)
  <2>1. /\ IsFiniteSet(Ahead') /\ Cardinality(Ahead') \in Nat
        /\ IsFiniteSet(Behind') /\ Cardinality(Behind') \in Nat
    <3>1. Ahead' \subseteq rows' /\ Behind' \subseteq stayed'
      BY DEF Ahead, Behind, From, Before
    <3>2. \A S : S \subseteq rows' \/ S \subseteq stayed' => S \in SUBSET Rows
      BY <1>3 DEF TypeOK
    <3> QED BY <3>1, <3>2, FS_Subset, FS_CardinalityType, PagingAssumption
  <2> QED BY <1>3, <1>7, <2>1, Counted, FS_Subset
<1>9. reread' + Cardinality(Ahead') <= added'
  BY <1>2, <1>4, <1>6, <1>8 DEF CountInv
<1>10. opts.offset >= 0 => Cardinality(Behind') <= start + removed
  BY <1>4, <1>8 DEF CountInv
<1>11. Last' = Last /\ stayed' \ seen' = stayed \ seen /\ stayed' \subseteq rows'
  BY <1>1, <1>2, <1>5 DEF Last
<1> QED BY <1>1, <1>2, <1>3, <1>4, <1>9, <1>10, <1>11 DEF CountInv, Walking

LEMMA RemoveCounts ==
    ASSUME WalkInv, CountInv, Walking, Remove, WalkInv'
    PROVE  CountInv'
<1>1. PICK x \in rows : rows' = rows \ {x} /\ stayed' = stayed \ {x}
  BY DEF Remove
<1>2. /\ removed' = removed + 1 /\ added + removed < MaxChanges
      /\ UNCHANGED <<pc, opts, out, start, seen, reread, added>>
  BY DEF Remove
<1>3. TypeOK /\ TypeOK' /\ Position' = Position /\ Walking'
  BY <1>2 DEF WalkInv, Position, Walking
<1>4. /\ reread \in Nat /\ added \in Nat /\ removed \in Nat /\ start \in Int /\ MaxChanges \in Nat
      /\ Position \in Int
  BY <1>3, Integers
<1>5. /\ rows \in SUBSET Int /\ IsFiniteSet(rows) /\ stayed \subseteq rows
  BY <1>3, RowsFinite DEF CountInv
<1>6. Ahead' \in SUBSET Ahead
  <2>1. Ahead' = From((seen \cap rows) \ {x}, rows \ {x}, Position)
    <3>1. seen \cap (rows \ {x}) = (seen \cap rows) \ {x}
      OBVIOUS
    <3> QED BY <1>1, <1>2, <1>3, <3>1 DEF Ahead
  <2>2. seen \cap rows \in SUBSET rows
    OBVIOUS
  <2> QED BY <1>4, <1>5, <2>1, <2>2, RemoveMoves DEF Ahead
<1>7. Cardinality(Behind') <= Cardinality(Behind) + 1
  <2>1. Behind' = Before((stayed \ seen) \ {x}, rows \ {x}, Position)
    <3>1. (stayed \ {x}) \ seen = (stayed \ seen) \ {x}
      OBVIOUS
    <3> QED BY <1>1, <1>2, <1>3, <3>1 DEF Behind
  <2>2. stayed \ seen \in SUBSET rows
    BY <1>5
  <2> QED BY <1>4, <1>5, <2>1, <2>2, RemoveMoves DEF Behind
<1>8. /\ IsFiniteSet(Ahead) /\ Cardinality(Ahead) \in Nat /\ Cardinality(Behind) \in Nat
      /\ Cardinality(Ahead') \in Nat /\ Cardinality(Ahead') <= Cardinality(Ahead)
      /\ Cardinality(Behind') \in Nat
  <2>1. Behind' \subseteq Rows /\ IsFiniteSet(Rows)
    <3>1. Behind' \subseteq stayed'
      BY DEF Behind, Before
    <3> QED BY <1>3, <3>1, PagingAssumption DEF TypeOK
  <2> QED BY <1>3, <1>6, <2>1, Counted, FS_Subset, FS_CardinalityType
<1>9. reread' + Cardinality(Ahead') <= added'
  BY <1>2, <1>4, <1>8 DEF CountInv
<1>10. opts.offset >= 0 => Cardinality(Behind') <= start + removed'
  BY <1>2, <1>4, <1>7, <1>8 DEF CountInv
<1>11. ASSUME Last, Cardinality(stayed \ seen) <= start + removed
       PROVE  Cardinality(stayed' \ seen') <= start + removed'
  <2>1. stayed' \ seen' \in SUBSET (stayed \ seen) /\ stayed \ seen \subseteq stayed
    BY <1>1, <1>2
  <2>2. IsFiniteSet(stayed \ seen) /\ Cardinality(stayed \ seen) \in Nat
    BY <1>3, <2>1, RowsFinite
  <2>3. /\ Cardinality(stayed' \ seen') <= Cardinality(stayed \ seen)
        /\ Cardinality(stayed' \ seen') \in Nat
    BY <2>1, <2>2, FS_Subset, FS_CardinalityType
  <2> QED BY <1>2, <1>4, <1>11, <2>2, <2>3
<1>12. Last' = Last /\ stayed' \subseteq rows'
  BY <1>1, <1>2, <1>5 DEF Last
<1> QED BY <1>2, <1>3, <1>4, <1>9, <1>10, <1>11, <1>12 DEF CountInv, Walking

LEMMA CountStep ==
    ASSUME WalkInv, CountInv, [Next]_vars, WalkInv'
    PROVE  CountInv'
<1>0. TypeOK /\ IsFiniteSet(rows) /\ rows \in SUBSET Int
  BY RowsFinite DEF WalkInv
<1>1. CASE Begin
  <2>1. /\ pc = "idle" /\ pc' = "asking" /\ stayed' = rows
        /\ UNCHANGED <<rows, opts, out, start, seen, reread, added, removed>>
        /\ reread = 0 /\ added = 0 /\ removed = 0 /\ seen = {} /\ start = opts.offset
    BY <1>1 DEF Begin, CountInv
  <2>2. Ahead' = {} /\ Cardinality({}) = 0
    BY <2>1, FS_EmptySet DEF Ahead, From
  <2>3. ASSUME opts.offset >= 0 PROVE Cardinality(Behind') <= start
    <3>1. opts.offset \in Nat /\ Position' = opts.offset
      BY <1>0, <2>1, <2>3, Integers DEF Position
    <3>2. Behind' = Before(rows, rows, opts.offset)
      BY <2>1, <3>1 DEF Behind
    <3>3. /\ Behind' \in SUBSET rows /\ 0 \in Nat
          /\ \A x \in Behind' : 0 <= RankIn(rows, x) /\ RankIn(rows, x) < 0 + opts.offset
      BY <1>0, <3>1, <3>2, RankType DEF Before
    <3> QED BY <1>0, <2>1, <3>1, <3>3, FewRanks
  <2>4. start \in Int /\ MaxChanges \in Nat
    BY <1>0, Integers
  <2> QED BY <2>1, <2>2, <2>3, <2>4 DEF CountInv
<1>2. CASE Refuse \/ ApiError
  <2>1. /\ pc' \in {"refused", "failed"}
        /\ UNCHANGED <<rows, stayed, reread, added, removed>>
    BY <1>2 DEF Refuse, ApiError
  <2> QED BY <2>1 DEF CountInv, Walking
<1>3. CASE Answer
  BY <1>3, AnswerCounts
<1>4. CASE Continue
  <2>1. /\ pc = "answered" /\ pc' = "asking" /\ out.nextOffset # NoNext
        /\ opts'.offset = out.nextOffset
        /\ UNCHANGED <<rows, out, start, seen, stayed, reread, added, removed>>
    BY <1>4 DEF Continue, WalkInv, TypeOK, ListOptions
  <2>2. Position' = Position /\ opts.offset >= 0
    BY <1>0, <2>1, Integers DEF Position, CountInv, WalkInv, TypeOK, ListOptions, ListOutput
  <2>3. Ahead' = Ahead /\ Behind' = Behind
    BY <2>1, <2>2 DEF Ahead, Behind
  <2> QED BY <2>1, <2>2, <2>3 DEF CountInv, Walking
<1>5. CASE Finish
  BY <1>5 DEF Finish, CountInv, Walking, Last
<1>6. CASE pc \in {"asking", "answered"} /\ (Add \/ Remove)
  BY <1>6, AddCounts, RemoveCounts DEF Walking
<1>7. CASE UNCHANGED vars
  <2>1. Ahead' = Ahead /\ Behind' = Behind /\ Position' = Position
    BY <1>7 DEF vars, Ahead, Behind, Position
  <2> QED BY <1>7, <2>1 DEF vars, CountInv, Walking, Last
<1> QED BY <1>1, <1>2, <1>3, <1>4, <1>5, <1>6, <1>7 DEF Next, commonListHandler

LEMMA CountInit == Init => CountInv
  BY PagingAssumption DEF Init, CountInv, Walking

LEMMA CountHolds == Spec => [](WalkInv /\ CountInv)
<1>1. Init => WalkInv /\ CountInv
  BY WalkInit, CountInit
<1>2. (WalkInv /\ CountInv) /\ [Next]_vars => (WalkInv /\ CountInv)'
  BY WalkStep, CountStep
<1> QED BY <1>1, <1>2, PTL DEF Spec

(* However the list changes under a walk, no more rows come twice than were  *)
(* added to it meanwhile.                                                    *)
THEOREM RowsComeOnce == Spec => []NothingRepeated
<1>1. CountInv => NothingRepeated
  BY DEF CountInv, NothingRepeated
<1> QED BY <1>1, CountHolds, PTL

(* A walk that ends with a page that was not full has met every row that     *)
(* stayed, but for those before its start and one for each row removed.      *)
THEOREM RowsAreMet == Spec => []NothingOverlooked
<1>1. CountInv => NothingOverlooked
  BY DEF CountInv, NothingOverlooked, Last
<1> QED BY <1>1, CountHolds, PTL

-----------------------------------------------------------------------------
(* Why walks end: each step of the walk, of which fairness forces the next,  *)
(* lowers a number that no change of the list raises. An offset handed out   *)
(* after a page that was not empty was below the length of the list.         *)

RowsAfter(offset) ==
    IF 0 <= offset /\ offset <= Cardinality(Rows) THEN Cardinality(Rows) - offset ELSE 0

StepsLeft ==
    CASE pc = "idle" -> 2 * RowsAfter(opts.offset) + 3
      [] pc = "asking" -> 2 * RowsAfter(opts.offset) + 2
      [] pc = "answered" -> 2 * RowsAfter(opts.offset) + 1
      [] pc \in {"refused", "failed", "done"} -> 0

WalkGoesDown == UNCHANGED <<pc, opts, out, seen>> \/ StepsLeft' < StepsLeft

WalkIsShort == StepsLeft \in 0 .. 2 * Cardinality(Rows) + 3

WithinList ==
    pc = "answered" /\ out.nextOffset # NoNext =>
        /\ opts.offset < Cardinality(Rows)
        /\ opts.offset < out.nextOffset

LEMMA RowsAfterRange ==
    ASSUME NEW offset \in Int
    PROVE  RowsAfter(offset) \in 0 .. Cardinality(Rows) /\ Cardinality(Rows) \in Nat
<1>1. Cardinality(Rows) \in Nat
  BY PagingAssumption, FS_CardinalityType
<1> QED BY <1>1 DEF RowsAfter

LEMMA StepsLeftRange ==
    ASSUME TypeOK
    PROVE  /\ WalkIsShort
           /\ pc \notin {"refused", "failed", "done"} => StepsLeft > 0
<1>1. RowsAfter(opts.offset) \in 0 .. Cardinality(Rows) /\ Cardinality(Rows) \in Nat
  BY Integers, RowsAfterRange
<1>2. pc \in {"idle", "asking", "answered", "refused", "failed", "done"}
  BY DEF TypeOK
<1> QED BY <1>1, <1>2 DEF StepsLeft, WalkIsShort

(* A page that is not empty starts within the list.                          *)
LEMMA PageWithinList ==
    ASSUME TypeOK, opts.offset >= 0, NEW items \in Pages(opts), items # {}
    PROVE  opts.offset < Cardinality(Rows)
<1>1. PICK x \in items : TRUE
  OBVIOUS
<1>2. x \in rows /\ opts.offset <= RankIn(rows, x)
  BY <1>1, AnswerRanks
<1>3. rows \in SUBSET Rows /\ Rows \in SUBSET Int /\ IsFiniteSet(Rows) /\ Cardinality(Rows) \in Nat
  BY PagingAssumption, FS_CardinalityType DEF TypeOK
<1>4. Below(rows, x) \in SUBSET (Rows \ {x})
  <2>1. x \in Int /\ \A y \in Below(rows, x) : y \in Rows /\ y < x
    BY <1>2, <1>3 DEF Below
  <2>2. \A y \in Below(rows, x) : y # x
    BY <2>1
  <2> QED BY <2>1, <2>2
<1>5. IsFiniteSet(Rows \ {x}) /\ Cardinality(Rows \ {x}) = Cardinality(Rows) - 1
  BY <1>2, <1>3, FS_RemoveElement
<1>6. Cardinality(Below(rows, x)) <= Cardinality(Rows) - 1
  BY <1>4, <1>5, FS_Subset
<1>7. RankIn(rows, x) \in Nat /\ opts.offset \in Int
  BY <1>2, <1>3, RowsFinite, RankType, Integers
<1> QED BY <1>2, <1>3, <1>6, <1>7 DEF RankIn

LEMMA AnswerWithinList ==
    ASSUME WalkInv, Answer
    PROVE  WithinList'
<1>1. TypeOK /\ opts \in ListOptions /\ opts.offset >= 0 /\ opts' = opts
  BY DEF WalkInv, Answer, TypeOK
<1>2. PICK items \in Pages(opts) : out' = listOutput(opts, items)
  BY DEF Answer
<1>3. out'.nextOffset # NoNext => opts.offset < out'.nextOffset
  <2>1. listOutput(opts, items).nextOffset # NoNext =>
          listOutput(opts, items).nextOffset > opts.offset
    BY <1>1, NextIsFurtherOn
  <2>2. listOutput(opts, items).nextOffset \in 0 .. MaxInt32
    BY <1>1, NextIsFurtherOn
  <2>3. opts.offset \in Int /\ MaxInt32 \in Nat
    BY <1>1, Integers, PagingAssumption
  <2> QED BY <1>2, <2>1, <2>2, <2>3
<1>4. out'.nextOffset # NoNext => items # {}
  <2> SUFFICES ASSUME items = {} PROVE out'.nextOffset = NoNext
    OBVIOUS
  <2>1. Cardinality(items) = 0
    BY FS_EmptySet
  <2>2. clampLimit(opts.limit) \in Nat \ {0}
    BY <1>1, LimitIsClamped, PagingAssumption DEF ListOptions
  <2> QED BY <1>2, <2>1, <2>2 DEF listOutput, NoNext
<1>5. out'.nextOffset # NoNext => opts.offset < Cardinality(Rows)
  BY <1>1, <1>4, PageWithinList
<1> QED BY <1>1, <1>3, <1>5 DEF WithinList

LEMMA WithinListStep ==
    ASSUME WalkInv, WithinList, [Next]_vars
    PROVE  WithinList'
<1>1. CASE Answer
  BY <1>1, AnswerWithinList
<1>2. CASE Begin \/ Continue \/ Finish \/ Refuse \/ ApiError
  BY <1>2 DEF Begin, Continue, Finish, Refuse, ApiError, WithinList
<1>3. CASE UNCHANGED <<pc, opts, out>>
  BY <1>3 DEF WithinList
<1> QED BY <1>1, <1>2, <1>3 DEF Next, commonListHandler, Add, Remove, vars

LEMMA WalkLowers ==
    ASSUME WalkInv, WithinList, WalkInv', Next
    PROVE  WalkGoesDown
<1>1. TypeOK /\ TypeOK'
  BY DEF WalkInv
<1>2. /\ RowsAfter(opts.offset) \in Nat /\ RowsAfter(opts'.offset) \in Nat
      /\ opts.offset \in Int /\ Cardinality(Rows) \in Nat
  <2>1. opts.offset \in Int /\ opts'.offset \in Int
    BY <1>1, PagingAssumption DEF TypeOK, ListOptions
  <2> QED BY <2>1, RowsAfterRange
<1>3. CASE Begin
  BY <1>2, <1>3 DEF Begin, StepsLeft, WalkGoesDown
<1>4. CASE Refuse \/ ApiError
  BY <1>2, <1>4 DEF Refuse, ApiError, StepsLeft, WalkGoesDown
<1>5. CASE Answer
  BY <1>2, <1>5 DEF Answer, StepsLeft, WalkGoesDown
<1>6. CASE Finish
  BY <1>2, <1>6 DEF Finish, StepsLeft, WalkGoesDown
<1>7. CASE Continue
  <2>1. /\ pc = "answered" /\ pc' = "asking"
        /\ opts'.offset = out.nextOffset
        /\ opts.offset < out.nextOffset /\ opts.offset < Cardinality(Rows)
    BY <1>1, <1>7 DEF Continue, WithinList, TypeOK, ListOptions
  <2>2. opts.offset >= 0 /\ opts'.offset \in Int
    BY <1>1, <1>2, <2>1, PagingAssumption DEF WalkInv, TypeOK, ListOptions
  <2>3. RowsAfter(opts.offset) = Cardinality(Rows) - opts.offset
    BY <1>2, <2>1, <2>2 DEF RowsAfter
  <2>4. RowsAfter(opts'.offset) < RowsAfter(opts.offset)
    BY <1>2, <2>1, <2>2, <2>3 DEF RowsAfter
  <2>5. StepsLeft = 2 * RowsAfter(opts.offset) + 1
    BY <2>1 DEF StepsLeft
  <2>6. StepsLeft' = 2 * RowsAfter(opts'.offset) + 2
    BY <2>1 DEF StepsLeft, RowsAfter
  <2> QED BY <1>2, <2>4, <2>5, <2>6 DEF WalkGoesDown
<1>8. CASE Add \/ Remove
  BY <1>8 DEF Add, Remove, WalkGoesDown
<1> QED BY <1>3, <1>4, <1>5, <1>6, <1>7, <1>8 DEF Next, commonListHandler

(* A walk takes at most two steps for each row there may be, and three more, *)
(* so it asks for at most one page more than there are rows; rows added      *)
(* behind it or ahead of it give it no step more. What TLC finds on a small  *)
(* instance, that a walk that is not given up ends, rests on this.           *)
THEOREM WalkIsBounded == Spec => []WalkIsShort /\ [][WalkGoesDown]_vars
<1>1. Init => WithinList
  BY DEF Init, WithinList
<1>2. (WalkInv /\ WithinList) /\ [Next]_vars => (WalkInv /\ WithinList)'
  BY WalkStep, WithinListStep
<1>3. WalkInv => WalkIsShort
  BY StepsLeftRange DEF WalkInv
<1>4. (WalkInv /\ WithinList) /\ WalkInv' /\ [Next]_vars => [WalkGoesDown]_vars
  BY WalkLowers
<1> QED BY <1>1, <1>2, <1>3, <1>4, WalkInit, PTL DEF Spec
=============================================================================
