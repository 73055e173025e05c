--------------------------- MODULE AuditPagesProofs ---------------------------
(***************************************************************************)
(* Proofs about AuditPages for any rows, time stamps, tenants and page     *)
(* sizes, and walks of any length.                                         *)
(***************************************************************************)
EXTENDS AuditPages, FiniteSetTheorems, WellFoundedInduction, TLAPS

Rank(S, r) == Cardinality({q \in S : Newer(q, r)})

(* created_at with the id as its tie-break is a strict total order.        *)
LEMMA NewerOrder ==
  /\ \A r \in Ids : ~Newer(r, r)
  /\ \A r, q \in Ids : r # q => Newer(r, q) \/ Newer(q, r)
  /\ \A r, q \in Ids : ~(Newer(r, q) /\ Newer(q, r))
  /\ \A r, q, p \in Ids : Newer(r, q) /\ Newer(q, p) => Newer(r, p)
  BY IdsAssumption, StampAssumption DEF Newer

(* Both databases compare with the cursor in this order.                   *)
LEMMA BelowIsOlder ==
  ASSUME NEW r \in Ids, NEW c \in Ids
  PROVE  Below(r, c) <=> Newer(c, r)
  BY IdsAssumption, StampAssumption DEF Below, BelowPostgres, BelowSqlServer, Newer

(* A set of positions that is not empty has a first one.                   *)
LEMMA LeastPosition ==
  ASSUME NEW S \in SUBSET Nat, S # {}
  PROVE  \E i \in S : \A j \in S : i <= j
  <1> DEFINE R == OpToRel(<, Nat)
  <1>1. IsWellFoundedOn(R, Nat)
    BY NatLessThanWellFounded
  <1>2. PICK i \in S : \A j \in S : <<j, i>> \notin R
    BY <1>1, WFMin, Zenon
  <1>3. \A j \in S : ~(j < i)
    BY <1>2 DEF OpToRel
  <1> QED BY <1>3

(* Ranks are positions, and a newer row has the smaller one.               *)
LEMMA RankMonotone ==
  ASSUME NEW S \in SUBSET Ids, IsFiniteSet(S), NEW r \in S
  PROVE  /\ Rank(S, r) \in Nat /\ Rank(S, r) < Cardinality(S) /\ Cardinality(S) \in Nat
         /\ \A q \in S : Newer(q, r) => Rank(S, q) < Rank(S, r)
  <1> DEFINE N(x) == {q \in S : Newer(q, x)}
  <1>1. \A x \in S : IsFiniteSet(N(x)) /\ Cardinality(N(x)) \in Nat
    BY FS_Subset, FS_CardinalityType
  <1>2. Cardinality(S) \in Nat
    BY FS_CardinalityType
  <1>3. Cardinality(N(r)) <= Cardinality(S) /\ Cardinality(N(r)) # Cardinality(S)
    <2>1. N(r) \in SUBSET S /\ r \notin N(r)
      BY NewerOrder
    <2> HIDE DEF N
    <2> QED BY <2>1, FS_Subset
  <1>4. ASSUME NEW q \in S, Newer(q, r)
        PROVE  Cardinality(N(q)) <= Cardinality(N(r)) /\ Cardinality(N(q)) # Cardinality(N(r))
    <2>1. N(q) \in SUBSET N(r) /\ q \in N(r) /\ q \notin N(q)
      BY <1>4, NewerOrder
    <2> HIDE DEF N
    <2> QED BY <1>1, <2>1, FS_Subset
  <1> HIDE DEF N
  <1>5. \A x \in S : Rank(S, x) = Cardinality(N(x))
    BY DEF Rank, N
  <1> QED BY <1>1, <1>2, <1>3, <1>4, <1>5

(* The first n rows: no more than n, and no newer row is left out.         *)
LEMMA FirstRows ==
  ASSUME NEW S \in SUBSET Ids, IsFiniteSet(S), NEW n \in Nat
  PROVE  /\ Slice(S, 0, n) = {r \in S : Rank(S, r) < n}
         /\ Slice(S, 0, n) \in SUBSET S /\ IsFiniteSet(Slice(S, 0, n))
         /\ Cardinality(Slice(S, 0, n)) \in Nat /\ Cardinality(Slice(S, 0, n)) <= n
         /\ \A r \in S \ Slice(S, 0, n), p \in Slice(S, 0, n) : Newer(p, r)
  <1> DEFINE T == Slice(S, 0, n)
  <1>1. T = {r \in S : Rank(S, r) < n}
    BY RankMonotone DEF Slice, Rank
  <1> HIDE DEF T
  <1>2. T \in SUBSET S /\ IsFiniteSet(T) /\ Cardinality(T) \in Nat
    BY <1>1, FS_Subset, FS_CardinalityType
  <1>3. Cardinality(T) <= n
    <2> DEFINE f == [r \in T |-> Rank(S, r)]
    <2>1. f \in [T -> 0 .. (n - 1)]
      BY <1>1, RankMonotone
    <2>2. ASSUME NEW r \in T, NEW q \in T, f[r] = f[q] PROVE r = q
      <3>1. ~Newer(r, q) /\ ~Newer(q, r)
        BY <1>2, <2>2, RankMonotone
      <3> QED BY <1>2, <3>1, NewerOrder
    <2>3. f \in Injection(T, 0 .. (n - 1))
      BY <2>1, <2>2 DEF Injection, IsInjective
    <2>4. IsFiniteSet(0 .. (n - 1)) /\ Cardinality(0 .. (n - 1)) = n
      BY FS_Interval
    <2> HIDE DEF f
    <2> QED BY <2>3, <2>4, FS_Injection
  <1>4. ASSUME NEW r \in S \ T, NEW p \in T PROVE Newer(p, r)
    <2>1. Rank(S, p) < Rank(S, r)
      BY <1>1, <1>2, RankMonotone
    <2>2. ~Newer(r, p)
      BY <1>2, <2>1, RankMonotone
    <2> QED BY <1>2, <1>4, <2>2, NewerOrder
  <1> QED BY <1>1, <1>2, <1>3, <1>4 DEF T

(* A row is left out only if the others are n.                             *)
LEMMA RowsLeftOut ==
  ASSUME NEW S \in SUBSET Ids, IsFiniteSet(S), NEW n \in Nat, S # Slice(S, 0, n)
  PROVE  Cardinality(Slice(S, 0, n)) >= n /\ Cardinality(S) > n
  <1> DEFINE T == Slice(S, 0, n)
             Places == {Rank(S, r) : r \in S \ T}
  <1>1. T \in SUBSET S /\ T = {r \in S : Rank(S, r) < n} /\ IsFiniteSet(T) /\ Cardinality(T) \in Nat
    BY FirstRows
  <1>2. Places \in SUBSET Nat /\ Places # {}
    BY <1>1, RankMonotone
  <1>3. PICK t \in S \ T : \A q \in S \ T : Rank(S, t) <= Rank(S, q)
    <2> HIDE DEF T
    <2>1. PICK i \in Places : \A j \in Places : i <= j
      BY <1>2, LeastPosition
    <2> QED BY <2>1
  <1> HIDE DEF T
  <1>4. Rank(S, t) >= n /\ Rank(S, t) \in Nat /\ Rank(S, t) < Cardinality(S) /\ Cardinality(S) \in Nat
    BY <1>1, RankMonotone
  <1>5. {q \in S : Newer(q, t)} \in SUBSET T
    <2>1. ASSUME NEW q \in S, Newer(q, t), q \notin T PROVE FALSE
      BY <1>3, <1>4, <2>1, RankMonotone
    <2> QED BY <2>1
  <1>6. Rank(S, t) <= Cardinality(T)
    BY <1>1, <1>5, FS_Subset DEF Rank
  <1> QED BY <1>1, <1>4, <1>6 DEF T

(* The next cursor is the oldest row of its page.                          *)
LEMMA LastIsOldest ==
  ASSUME NEW S \in SUBSET Ids, IsFiniteSet(S), S # {}
  PROVE  Last(S) \in S /\ \A q \in S \ {Last(S)} : Newer(q, Last(S))
  <1> DEFINE Places == {Cardinality(S) - Rank(S, r) : r \in S}
  <1>1. Places \in SUBSET Nat /\ Places # {}
    BY RankMonotone
  <1>2. PICK r \in S : \A q \in S : Cardinality(S) - Rank(S, r) <= Cardinality(S) - Rank(S, q)
    <2>1. PICK i \in Places : \A j \in Places : i <= j
      BY <1>1, LeastPosition
    <2> QED BY <2>1
  <1>3. ASSUME NEW q \in S \ {r} PROVE Newer(q, r)
    <2>1. Rank(S, q) <= Rank(S, r) /\ Rank(S, q) \in Nat /\ Rank(S, r) \in Nat
      BY <1>2, RankMonotone
    <2>2. ~Newer(r, q)
      BY <2>1, RankMonotone
    <2> QED BY <2>2, NewerOrder
  <1> QED BY <1>3 DEF Last
-----------------------------------------------------------------------------
Scopes == Tenants \cup {All, None}
Walks ==
  [pc : {"idle", "rejected", "reading", "page", "found"}, ask : Scopes, limit : Nat \ {0},
   total : BOOLEAN, byOffset : BOOLEAN, scope : Scopes, cursor : Ids \cup {None}, offset : Nat,
   rows : (SUBSET Ids) \cup {None}, count : Nat \cup {None}, page : SUBSET Ids, more : BOOLEAN,
   got : SUBSET Ids, first : (SUBSET Ids) \cup {None}, scopes : SUBSET Scopes,
   before : SUBSET Ids, past : SUBSET Ids]

Types ==
  /\ table \in SUBSET Ids /\ gone \in SUBSET Ids /\ table \cap gone = {}
  /\ IsFiniteSet(table) /\ IsFiniteSet(gone)
  /\ config \in [provider : {"postgresql", "sqlserver"}, tenantRequired : BOOLEAN]
  /\ walk \in Walks /\ IsFiniteSet(walk.scopes)
  /\ IsFiniteSet(walk.page) /\ Cardinality(walk.page) <= walk.limit

(* A row of the first page that is above the cursor has been shown.        *)
Passed(w, scope) ==
  \A r \in w.first \cap Matching(scope) : w.cursor # None /\ ~Below(r, w.cursor) => r \in w.got

(* A request for a page, as it is issued.                                  *)
Asked(w) ==
  /\ w \in Walks /\ IsFiniteSet(w.scopes) /\ w.page = {}
  /\ w.byOffset => w.cursor = None
  /\ ~w.byOffset =>
       /\ w.cursor = None => w.got = {}
       /\ w.cursor # None => w.first # None /\ \A g \in w.got : ~Below(g, w.cursor)
       /\ w.offset = 0
       /\ w.first # None => w.first \subseteq table \cup gone
       /\ \A s : w.scopes \subseteq {s} /\ w.first # None => Passed(w, s)

(* The scope of a call is one that its caller may have.                    *)
Scoped ==
  /\ walk.scope = All /\ config.tenantRequired => walk.ask = All
  /\ ~walk.byOffset => walk.scope \in walk.scopes
Owned(S) == walk.scope # All => \A r \in S : Owner[r] = walk.scope

(* The rows that a page has found, which may have changed since.           *)
Found ==
  walk.rows # None =>
    /\ IsFiniteSet(walk.rows) /\ Owned(walk.rows)
    /\ ~walk.byOffset =>
         /\ walk.first # None
         /\ walk.cursor # None => \A r \in walk.rows : Below(r, walk.cursor)
         /\ walk.scopes \subseteq {walk.scope} =>
              \A r \in walk.first \cap Matching(walk.scope) :
                walk.cursor = None \/ Below(r, walk.cursor) =>
                  \/ r \in walk.rows
                  \/ Cardinality(walk.rows) > walk.limit /\ \A q \in walk.rows : Newer(q, r)

(* A page that has been returned.                                          *)
Shown ==
  /\ walk.byOffset => walk.cursor = None
  /\ ~walk.byOffset =>
       /\ walk.offset = 0 /\ walk.page \cap walk.got = {}
       /\ walk.first # None /\ walk.first \subseteq table \cup gone
       /\ walk.more => walk.cursor # None
                       /\ \A r \in walk.page \cup walk.got : ~Below(r, walk.cursor)
       /\ walk.scopes \subseteq {walk.scope} =>
            \A r \in walk.first \cap Matching(walk.scope) :
              ~walk.more \/ ~Below(r, walk.cursor) => r \in walk.page \cup walk.got

(* The total and its call.                                                 *)
Of(S) == Cardinality({r \in S : walk.scope = All \/ Owner[r] = walk.scope})
Counted ==
  walk.total =>
    /\ walk.before \subseteq table \cup gone /\ walk.past \subseteq gone
    /\ walk.count # None =>
         Of(walk.before \cap table) <= walk.count /\ walk.count <= Of((table \cup gone) \ walk.past)

(* The inductive invariant.                                                *)
IInv ==
  /\ Types
  /\ walk.pc = "reading" => Asked(walk) /\ Scoped /\ Found /\ Counted
  /\ walk.pc = "page" => Scoped /\ Owned(walk.page) /\ Shown /\ Counted
                         /\ (walk.total => walk.count # None)
  /\ walk.pc = "found" => walk.page \cap walk.got = {} /\ Owned(walk.page)
                          /\ (walk.scope = All /\ config.tenantRequired => walk.ask = All)
  /\ walk.pc \in {"idle", "rejected"} => walk.page = {}
-----------------------------------------------------------------------------
(* The state before the first call.                                        *)
LEMMA StartTyped ==
  /\ Start \in Walks /\ Start.page = {} /\ Start.scopes = {} /\ Start.got = {}
  /\ Start.limit = 1 /\ Start.cursor = None /\ Start.first = None /\ Start.offset = 0
  /\ IsFiniteSet({}) /\ Cardinality({}) = 0
  <1>1. Start \in Walks
    BY DEF Start, Walks, Scopes
  <1>2. /\ Start.page = {} /\ Start.scopes = {} /\ Start.got = {}
        /\ Start.limit = 1 /\ Start.cursor = None /\ Start.first = None /\ Start.offset = 0
    BY DEF Start
  <1> QED BY <1>1, <1>2, FS_EmptySet

(* No row and no call yet.                                                 *)
LEMMA InitInv == Init => IInv
  <1> SUFFICES ASSUME Init PROVE IInv
    OBVIOUS
  <1>1. walk = Start /\ Start.pc = "idle"
    BY DEF Init, Start
  <1> QED BY <1>1, StartTyped DEF Init, IInv, Types

(* Rows come and go; a row that has gone never comes back.                 *)
LEMMA TableStep ==
  ASSUME IInv, Commit \/ Prune
  PROVE  IInv'
  <1>1. UNCHANGED <<walk, config>>
    BY DEF Commit, Prune
  <1>2. /\ table' \in SUBSET Ids /\ gone' \in SUBSET Ids /\ table' \cap gone' = {}
        /\ IsFiniteSet(table') /\ IsFiniteSet(gone')
        /\ table \cup gone \subseteq table' \cup gone' /\ gone \subseteq gone'
        /\ (table \cup gone) \cap table' \subseteq table
    <2> USE DEF IInv, Types
    <2>1. CASE Commit
      <3>1. PICK r \in Ids \ (table \cup gone) : table' = table \cup {r} /\ gone' = gone
        BY <2>1 DEF Commit
      <3>2. IsFiniteSet(table \cup {r})
        BY FS_AddElement
      <3> QED BY <3>1, <3>2
    <2>2. CASE Prune
      <3>1. PICK r \in table :
              LET old == {q \in table : Stamp[q] < Stamp[r]}
              IN  table' = table \ old /\ gone' = gone \cup old
        BY <2>2 DEF Prune
      <3> DEFINE old == {q \in table : Stamp[q] < Stamp[r]}
      <3>2. old \in SUBSET table /\ table' = table \ old /\ gone' = gone \cup old
        BY <3>1
      <3> HIDE DEF old
      <3>3. IsFiniteSet(old) /\ IsFiniteSet(table \ old)
        BY <3>2, FS_Subset
      <3>4. IsFiniteSet(gone \cup old)
        BY <3>3, FS_Union
      <3> QED BY <3>2, <3>3, <3>4
    <2> QED BY <2>1, <2>2
  <1>3. \A s : Matching(s)' \cap (table \cup gone) \subseteq Matching(s)
    BY <1>2 DEF Matching
  <1>4. \A r, c : Below(r, c)' <=> Below(r, c)
    BY <1>1 DEF Below, BelowPostgres, BelowSqlServer, Newer
  <1>5. Types'
    BY <1>1, <1>2 DEF IInv, Types
  <1>6. ASSUME Asked(walk) PROVE Asked(walk)'
    <2>1. ASSUME NEW s, walk.first # None, walk.first \subseteq table \cup gone, Passed(walk, s)
          PROVE  Passed(walk, s)'
      BY <1>1, <1>3, <1>4, <2>1 DEF Passed
    <2> QED BY <1>1, <1>2, <1>4, <1>6, <2>1 DEF Asked
  <1>7. ASSUME Asked(walk), Found PROVE Found'
    BY <1>1, <1>3, <1>4, <1>7 DEF Asked, Found, Owned, Newer
  <1>8. ASSUME Shown PROVE Shown'
    BY <1>1, <1>2, <1>3, <1>4, <1>8 DEF Shown
  <1>9. ASSUME Counted PROVE Counted'
    <2>1. SUFFICES ASSUME walk.total, walk.count # None
                   PROVE  Of(walk.before \cap table)' <= walk.count /\ walk.count <= Of((table \cup gone) \ walk.past)'
      BY <1>1, <1>2, <1>9 DEF Counted
    <2> DEFINE Part(S) == {r \in S : walk.scope = All \/ Owner[r] = walk.scope}
               low == Part(walk.before \cap table)   high == Part((table \cup gone) \ walk.past)
               lower == Part(walk.before \cap table')
               higher == Part((table' \cup gone') \ walk.past)
    <2>2. lower \in SUBSET low /\ high \in SUBSET higher
      BY <1>2, <1>9, <2>1 DEF Counted
    <2>3. IsFiniteSet(low) /\ IsFiniteSet(higher)
      <3>1. IsFiniteSet(table' \cup gone') /\ higher \in SUBSET (table' \cup gone')
        BY <1>2, FS_Union
      <3>2. low \in SUBSET table /\ IsFiniteSet(table)
        BY DEF IInv, Types
      <3> HIDE DEF low, higher
      <3> QED BY <3>1, <3>2, FS_Subset
    <2>4. /\ Of(walk.before \cap table) = Cardinality(low)
          /\ Of(walk.before \cap table)' = Cardinality(lower)
          /\ Of((table \cup gone) \ walk.past) = Cardinality(high)
          /\ Of((table \cup gone) \ walk.past)' = Cardinality(higher)
      BY <1>1 DEF Of
    <2>5. Cardinality(low) <= walk.count /\ walk.count <= Cardinality(high) /\ walk.count \in Nat
      BY <1>9, <2>1, <2>4 DEF Counted, IInv, Types, Walks
    <2> HIDE DEF low, high, lower, higher
    <2>6. /\ Cardinality(lower) <= Cardinality(low) /\ Cardinality(high) <= Cardinality(higher)
          /\ IsFiniteSet(lower) /\ IsFiniteSet(high)
      BY <2>2, <2>3, FS_Subset
    <2>7. /\ Cardinality(lower) \in Nat /\ Cardinality(low) \in Nat
          /\ Cardinality(high) \in Nat /\ Cardinality(higher) \in Nat
      BY <2>3, <2>6, FS_CardinalityType
    <2> QED BY <1>1, <2>4, <2>5, <2>6, <2>7
  <1> QED BY <1>1, <1>5, <1>6, <1>7, <1>8, <1>9 DEF IInv, Scoped, Owned
-----------------------------------------------------------------------------
(* The tenant of a call is one that its caller may read.                   *)
LEMMA Resolved ==
  ASSUME NEW ask \in Scopes, NEW context \in Contexts, NEW scope \in Resolve(ask, context)
  PROVE  scope \in Scopes /\ (scope = All /\ config.tenantRequired => ask = All)
  BY ScopeAssumption DEF Resolve, Contexts, Scopes

(* While the rows are the same, the cursor and the scope select the same.  *)
LEMMA SameRows ==
  ASSUME UNCHANGED <<table, gone, config>>
  PROVE  /\ \A s : Matching(s)' = Matching(s)
         /\ \A r, c : Below(r, c)' <=> Below(r, c)
  BY DEF Matching, Below, BelowPostgres, BelowSqlServer, Newer

(* A call is rejected before any statement, or begins to read.             *)
LEMMA CallStep ==
  ASSUME IInv, NEW w, Asked(w), Call(w), UNCHANGED <<table, gone, config>>
  PROVE  IInv'
  <1>1. PICK context \in Contexts :
          walk' = IF Resolve(w.ask, context) = {} THEN [Start EXCEPT !.pc = "rejected"]
                  ELSE LET scope == CHOOSE s \in Resolve(w.ask, context) : TRUE
                       IN  [w EXCEPT !.pc = "reading", !.scope = scope,
                              !.scopes = IF w.byOffset THEN {} ELSE @ \cup {scope},
                              !.rows = None, !.count = None,
                              !.before = IF w.total THEN table ELSE {},
                              !.past = IF w.total THEN gone ELSE {}]
    BY DEF Call
  <1>2. CASE Resolve(w.ask, context) = {}
    <2>1. walk' = [Start EXCEPT !.pc = "rejected"]
      BY <1>1, <1>2
    <2>2. /\ walk' \in Walks /\ walk'.pc = "rejected"
          /\ walk'.page = Start.page /\ walk'.limit = Start.limit /\ walk'.scopes = Start.scopes
      BY <2>1, StartTyped DEF Walks
    <2> QED BY <2>2, StartTyped DEF IInv, Types
  <1>3. CASE Resolve(w.ask, context) # {}
    <2>1. PICK scope \in Resolve(w.ask, context) :
            walk' = [w EXCEPT !.pc = "reading", !.scope = scope,
                       !.scopes = IF w.byOffset THEN {} ELSE @ \cup {scope},
                       !.rows = None, !.count = None,
                       !.before = IF w.total THEN table ELSE {},
                       !.past = IF w.total THEN gone ELSE {}]
      BY <1>1, <1>3
    <2>2. /\ w \in Walks /\ w.ask \in Scopes /\ w.scopes \in SUBSET Scopes /\ IsFiniteSet(w.scopes)
          /\ table \in SUBSET Ids /\ gone \in SUBSET Ids
      BY DEF Asked, Walks, IInv, Types
    <2>3. scope \in Scopes /\ (scope = All /\ config.tenantRequired => w.ask = All)
      BY <2>2, Resolved
    <2>4. /\ walk'.pc = "reading" /\ walk'.scope = scope /\ walk'.rows = None /\ walk'.count = None
          /\ walk'.scopes = (IF w.byOffset THEN {} ELSE w.scopes \cup {scope})
          /\ walk'.before = (IF w.total THEN table ELSE {})
          /\ walk'.past = (IF w.total THEN gone ELSE {})
      BY <2>1, <2>2 DEF Walks
    <2>5. /\ walk'.ask = w.ask /\ walk'.limit = w.limit /\ walk'.total = w.total
          /\ walk'.byOffset = w.byOffset /\ walk'.cursor = w.cursor /\ walk'.offset = w.offset
          /\ walk'.page = w.page /\ walk'.got = w.got /\ walk'.first = w.first
      BY <2>1, <2>2 DEF Walks
    <2>6. walk' \in Walks
      <3> DEFINE scopes == IF w.byOffset THEN {} ELSE w.scopes \cup {scope}
                 before == IF w.total THEN table ELSE {}
                 past == IF w.total THEN gone ELSE {}
                 w1 == [w EXCEPT !.pc = "reading", !.scope = scope, !.scopes = scopes]
      <3>1. scopes \in SUBSET Scopes /\ before \in SUBSET Ids /\ past \in SUBSET Ids
        BY <2>2, <2>3
      <3>2. walk' = [w1 EXCEPT !.rows = None, !.count = None, !.before = before, !.past = past]
        BY <2>1
      <3> HIDE DEF scopes, before, past
      <3>3. w1 \in Walks
        BY <2>2, <2>3, <3>1 DEF Walks
      <3> HIDE DEF w1
      <3> QED BY <3>1, <3>2, <3>3 DEF Walks
    <2>7. IsFiniteSet(walk'.scopes)
      <3>1. IsFiniteSet(w.scopes \cup {scope}) /\ IsFiniteSet({})
        BY <2>2, FS_EmptySet, FS_AddElement
      <3> QED BY <2>4, <3>1
    <2>8. Asked(walk)'
      <3>1. ASSUME NEW s, Passed(w, s) PROVE Passed(walk, s)'
        BY <2>5, <3>1, SameRows DEF Passed
      <3>2. \A s : ~w.byOffset /\ walk'.scopes \subseteq {s} => w.scopes \subseteq {s}
        BY <2>4
      <3> QED BY <2>5, <2>6, <2>7, <3>1, <3>2, SameRows DEF Asked
    <2>9. Types'
      <3>1. w.page = {} /\ w.limit \in Nat /\ IsFiniteSet({}) /\ Cardinality({}) = 0
        BY FS_EmptySet DEF Asked, Walks
      <3> QED BY <2>5, <2>6, <2>7, <3>1 DEF IInv, Types
    <2>10. Scoped' /\ Found' /\ Counted'
      BY <2>2, <2>3, <2>4, <2>5 DEF Scoped, Found, Counted
    <2> QED BY <2>4, <2>8, <2>9, <2>10 DEF IInv
  <1> QED BY <1>2, <1>3

(* A walk begins at the newest row.                                        *)
LEMMA FirstCallStep ==
  ASSUME IInv, FirstCall
  PROVE  IInv'
  <1>1. PICK ask \in Scopes, limit \in Limits, total \in BOOLEAN, byOffset \in BOOLEAN :
          Call([Start EXCEPT !.ask = ask, !.limit = limit, !.total = total, !.byOffset = byOffset])
    BY DEF FirstCall, Scopes
  <1> DEFINE w == [Start EXCEPT !.ask = ask, !.limit = limit, !.total = total, !.byOffset = byOffset]
  <1>2. limit \in Nat \ {0}
    BY LimitAssumption
  <1>3. w \in Walks
    BY <1>2, StartTyped DEF Walks
  <1>4. /\ w.page = {} /\ w.scopes = {} /\ w.got = {} /\ w.limit = limit
        /\ w.cursor = None /\ w.first = None /\ w.offset = 0
    BY StartTyped DEF Walks
  <1> HIDE DEF w
  <1>5. Asked(w)
    BY <1>2, <1>3, <1>4, StartTyped DEF Asked
  <1>6. UNCHANGED <<table, gone, config>> /\ Call(w)
    BY <1>1 DEF FirstCall, w
  <1> QED BY <1>5, <1>6, CallStep

(* A page is asked for again.                                              *)
LEMMA RetryStep ==
  ASSUME IInv, Retry
  PROVE  IInv'
  <1>1. Asked(walk) /\ Call(walk) /\ UNCHANGED <<table, gone, config>>
    BY DEF IInv, Retry
  <1> QED BY <1>1, CallStep

(* The next page continues below everything shown.                         *)
LEMMA NextPageStep ==
  ASSUME IInv, NextPage
  PROVE  IInv'
  <1> DEFINE w == [walk EXCEPT !.got = IF walk.byOffset THEN {} ELSE @ \cup walk.page,
                               !.page = {},
                               !.offset = IF walk.byOffset THEN @ + walk.limit ELSE 0]
  <1>1. /\ walk.pc = "page" /\ walk.more /\ Call(w) /\ UNCHANGED <<table, gone, config>>
        /\ walk \in Walks /\ Shown /\ Scoped /\ IsFiniteSet(walk.scopes)
    BY DEF NextPage, IInv, Types
  <1>2. /\ w.got = (IF walk.byOffset THEN {} ELSE walk.got \cup walk.page) /\ w.page = {}
        /\ w.offset = (IF walk.byOffset THEN walk.offset + walk.limit ELSE 0)
    BY <1>1 DEF Walks
  <1>3. /\ w.limit = walk.limit /\ w.byOffset = walk.byOffset /\ w.cursor = walk.cursor
        /\ w.first = walk.first /\ w.scopes = walk.scopes
    BY <1>1 DEF Walks
  <1>4. w \in Walks
    <2>1. /\ (IF walk.byOffset THEN {} ELSE walk.got \cup walk.page) \in SUBSET Ids
          /\ (IF walk.byOffset THEN walk.offset + walk.limit ELSE 0) \in Nat
      BY <1>1 DEF Walks
    <2> QED BY <1>1, <2>1 DEF Walks
  <1> HIDE DEF w
  <1>5. ASSUME NEW s, ~w.byOffset, w.scopes \subseteq {s}, w.first # None
        PROVE  Passed(w, s)
    <2>1. s = walk.scope /\ walk.scopes \subseteq {walk.scope}
      BY <1>1, <1>3, <1>5 DEF Scoped
    <2> QED BY <1>1, <1>2, <1>3, <1>5, <2>1 DEF Passed, Shown
  <1>6. Asked(w)
    BY <1>1, <1>2, <1>3, <1>4, <1>5 DEF Asked, Shown
  <1> QED BY <1>1, <1>6, CallStep

(* The rows of a page are read.                                            *)
LEMMA ReadEntriesStep ==
  ASSUME IInv, ReadEntries
  PROVE  IInv'
  <1> DEFINE S == {r \in Matching(walk.scope) : walk.cursor = None \/ Below(r, walk.cursor)}
             rows == Slice(S, walk.offset, walk.limit + 1)
             first == IF walk.first = None /\ ~walk.byOffset THEN table ELSE walk.first
  <1>1. /\ walk.pc = "reading" /\ walk.rows = None
        /\ walk' = [walk EXCEPT !.rows = rows, !.first = first]
        /\ UNCHANGED <<table, gone, config>>
    BY DEF ReadEntries
  <1>2. /\ walk \in Walks /\ Types /\ Asked(walk) /\ Scoped /\ Counted
        /\ table \in SUBSET Ids /\ IsFiniteSet(table)
    BY <1>1 DEF IInv, Types
  <1>3. S \in SUBSET table /\ S \in SUBSET Ids /\ \A r \in S : walk.scope # All => Owner[r] = walk.scope
    BY <1>2 DEF Matching
  <1>4. rows \in SUBSET S
    BY DEF Slice
  <1> HIDE DEF S
  <1>5. IsFiniteSet(S) /\ IsFiniteSet(rows)
    BY <1>2, <1>3, <1>4, FS_Subset
  <1>6. ~walk.byOffset => \A r \in S \ rows :
          Cardinality(rows) > walk.limit /\ \A q \in rows : Newer(q, r)
    <2>1. SUFFICES ASSUME ~walk.byOffset, NEW r \in S \ rows
                   PROVE  Cardinality(rows) > walk.limit /\ \A q \in rows : Newer(q, r)
      OBVIOUS
    <2>2. walk.offset = 0 /\ walk.limit \in Nat /\ walk.limit + 1 \in Nat
      BY <1>2, <2>1 DEF Asked, Walks
    <2>3. rows = Slice(S, 0, walk.limit + 1) /\ S # rows
      BY <2>2
    <2> HIDE DEF rows
    <2>4. Cardinality(rows) \in Nat /\ \A q \in rows : Newer(q, r)
      BY <1>3, <1>5, <2>2, <2>3, FirstRows
    <2>5. Cardinality(rows) >= walk.limit + 1
      BY <1>3, <1>5, <2>2, <2>3, RowsLeftOut
    <2> QED BY <2>2, <2>4, <2>5
  <1> HIDE DEF rows
  <1>7. /\ first \in (SUBSET Ids) \cup {None}
        /\ ~walk.byOffset => first # None
        /\ walk.byOffset \/ walk.cursor # None => first = walk.first
        /\ walk.first = None => first \in {None, table}
        /\ walk.first # None => first = walk.first
    BY <1>2, ScopeAssumption DEF Asked, Walks
  <1> HIDE DEF first
  <1>8. walk' \in Walks
    <2>1. rows \in (SUBSET Ids) \cup {None}
      BY <1>3, <1>4
    <2>2. [walk EXCEPT !.rows = rows] \in Walks
      BY <1>2, <2>1 DEF Walks
    <2>3. walk' = [[walk EXCEPT !.rows = rows] EXCEPT !.first = first]
      BY <1>1
    <2> QED BY <1>7, <2>2, <2>3 DEF Walks
  <1>9. walk'.rows = rows /\ walk'.first = first /\ walk'.pc = "reading"
    BY <1>1, <1>2 DEF Walks
  <1>10. /\ walk'.ask = walk.ask /\ walk'.limit = walk.limit /\ walk'.total = walk.total
         /\ walk'.byOffset = walk.byOffset /\ walk'.cursor = walk.cursor
         /\ walk'.offset = walk.offset /\ walk'.page = walk.page /\ walk'.got = walk.got
         /\ walk'.scopes = walk.scopes /\ walk'.scope = walk.scope /\ walk'.count = walk.count
         /\ walk'.before = walk.before /\ walk'.past = walk.past
    BY <1>1, <1>2 DEF Walks
  <1>11. Asked(walk)'
    <2>1. ASSUME ~walk.byOffset, NEW s, walk.scopes \subseteq {s}, walk.first # None => Passed(walk, s)
          PROVE  Passed(walk, s)'
      BY <1>1, <1>2, <1>7, <1>9, <1>10, <2>1, SameRows DEF Passed, Asked
    <2>2. first # None => first \subseteq table \cup gone \/ walk.byOffset
      BY <1>2, <1>7 DEF Asked
    <2>3. ~walk.byOffset /\ walk.cursor # None => walk'.first # None
      BY <1>7, <1>9
    <2> QED BY <1>1, <1>2, <1>8, <1>9, <1>10, <2>1, <2>2, <2>3, SameRows DEF Asked
  <1>12. Scoped' /\ Counted' /\ Types'
    BY <1>1, <1>2, <1>8, <1>10 DEF Scoped, Counted, Of, Types
  <1>13. Found'
    <2>1. walk.scope # All => \A r \in rows : Owner[r] = walk.scope
      BY <1>3, <1>4
    <2>2. walk.cursor # None => \A r \in rows : Below(r, walk.cursor)'
      BY <1>1, <1>4, SameRows DEF S
    <2>3. ASSUME ~walk.byOffset, NEW r \in first \cap Matching(walk.scope),
                 walk.cursor = None \/ Below(r, walk.cursor)
          PROVE  r \in rows \/ (Cardinality(rows) > walk.limit /\ \A q \in rows : Newer(q, r))
      <3>1. r \in S
        BY <2>3 DEF S
      <3> QED BY <1>6, <2>3, <3>1
    <2>4. Owned(walk.rows)'
      BY <1>9, <1>10, <2>1 DEF Owned
    <2>5. \A r : r \in Matching(walk.scope)' <=> r \in Matching(walk.scope)
      BY <1>1, <1>10, SameRows
    <2> QED BY <1>1, <1>5, <1>7, <1>9, <1>10, <2>2, <2>3, <2>4, <2>5, SameRows DEF Found, Newer
  <1> QED BY <1>9, <1>11, <1>12, <1>13 DEF IInv

(* The total is counted.                                                   *)
LEMMA ReadCountStep ==
  ASSUME IInv, ReadCount
  PROVE  IInv'
  <1> DEFINE M == Matching(walk.scope)
  <1>1. /\ walk.pc = "reading" /\ walk.total
        /\ walk' = [walk EXCEPT !.count = Cardinality(M)]
        /\ UNCHANGED <<table, gone, config>>
    BY DEF ReadCount
  <1>2. /\ walk \in Walks /\ Types /\ Asked(walk) /\ Scoped /\ Found /\ Counted
        /\ IsFiniteSet(table) /\ IsFiniteSet(gone) /\ table \cap gone = {}
    BY <1>1 DEF IInv, Types
  <1>3. M \in SUBSET table
    BY DEF Matching
  <1>4. IsFiniteSet(M) /\ Cardinality(M) \in Nat
    <2> HIDE DEF M
    <2> QED BY <1>2, <1>3, FS_Subset, FS_CardinalityType
  <1>5. Of(walk.before \cap table) <= Cardinality(M)
        /\ Cardinality(M) <= Of((table \cup gone) \ walk.past)
    <2> DEFINE low == {r \in walk.before \cap table : walk.scope = All \/ Owner[r] = walk.scope}
               high == {r \in (table \cup gone) \ walk.past : walk.scope = All \/ Owner[r] = walk.scope}
    <2>1. low \in SUBSET M
      BY DEF Matching
    <2>2. M \in SUBSET high
      BY <1>1, <1>2 DEF Counted, Matching
    <2>3. high \in SUBSET (table \cup gone) /\ IsFiniteSet(table \cup gone)
      BY <1>2, FS_Union
    <2>4. Of(walk.before \cap table) = Cardinality(low)
          /\ Of((table \cup gone) \ walk.past) = Cardinality(high)
      BY DEF Of
    <2> HIDE DEF low, high, M
    <2>5. IsFiniteSet(high)
      BY <2>3, FS_Subset
    <2> QED BY <1>4, <2>1, <2>2, <2>4, <2>5, FS_Subset
  <1> HIDE DEF M
  <1>6. walk' \in Walks
    BY <1>1, <1>2, <1>4 DEF Walks
  <1>7. /\ walk'.count = Cardinality(M) /\ walk'.pc = "reading"
        /\ walk'.rows = walk.rows /\ walk'.first = walk.first /\ walk'.ask = walk.ask
        /\ walk'.limit = walk.limit /\ walk'.total = walk.total
        /\ walk'.byOffset = walk.byOffset /\ walk'.cursor = walk.cursor
        /\ walk'.offset = walk.offset /\ walk'.page = walk.page /\ walk'.got = walk.got
        /\ walk'.scopes = walk.scopes /\ walk'.scope = walk.scope
        /\ walk'.before = walk.before /\ walk'.past = walk.past
    BY <1>1, <1>2 DEF Walks
  <1>8. Asked(walk)'
    <2>1. \A s : Passed(walk, s) => Passed(walk, s)'
      BY <1>1, <1>7, SameRows DEF Passed
    <2> QED BY <1>1, <1>2, <1>6, <1>7, <2>1, SameRows DEF Asked
  <1>9. Scoped' /\ Types'
    BY <1>1, <1>2, <1>6, <1>7 DEF Scoped, Types
  <1>10. Found'
    BY <1>1, <1>2, <1>7, SameRows DEF Found, Owned, Newer
  <1>11. Counted'
    BY <1>1, <1>2, <1>5, <1>7 DEF Counted, Of
  <1> QED BY <1>7, <1>8, <1>9, <1>10, <1>11 DEF IInv

(* A page is returned, with its cursor.                                    *)
LEMMA ReturnStep ==
  ASSUME IInv, Return
  PROVE  IInv'
  <1> DEFINE page == Slice(walk.rows, 0, walk.limit)
             more == Cardinality(walk.rows) > walk.limit
             cursor == IF more /\ ~walk.byOffset THEN Last(page) ELSE walk.cursor
  <1>1. /\ walk.pc = "reading" /\ walk.rows # None /\ (walk.total => walk.count # None)
        /\ walk' = [walk EXCEPT !.pc = "page", !.page = page, !.more = more, !.rows = None,
                      !.cursor = cursor]
        /\ UNCHANGED <<table, gone, config>>
    BY DEF Return
  <1>2. /\ walk \in Walks /\ Types /\ Asked(walk) /\ Scoped /\ Found /\ Counted
        /\ walk.rows \in SUBSET Ids /\ IsFiniteSet(walk.rows) /\ walk.limit \in Nat \ {0}
    BY <1>1 DEF IInv, Types, Found, Walks
  <1>3. /\ page \in SUBSET walk.rows /\ IsFiniteSet(page)
        /\ Cardinality(page) \in Nat /\ Cardinality(page) <= walk.limit
        /\ \A r \in walk.rows \ page, p \in page : Newer(p, r)
    BY <1>2, FirstRows
  <1>4. walk.rows # page => more /\ Cardinality(page) >= walk.limit
    BY <1>2, RowsLeftOut
  <1>5. more => page # {}
    BY <1>2, <1>3, <1>4, FS_EmptySet
  <1> HIDE DEF page
  <1>6. more => Last(page) \in page /\ \A q \in page \ {Last(page)} : Newer(q, Last(page))
    BY <1>2, <1>3, <1>5, LastIsOldest
  <1> HIDE DEF more
  <1>7. cursor \in Ids \cup {None} /\ more \in BOOLEAN
    BY <1>2, <1>3, <1>6 DEF Walks, more
  <1>8. walk.byOffset => cursor = None
    BY <1>2 DEF Asked
  <1>9. ~walk.byOffset => (more => cursor = Last(page))
    OBVIOUS
  <1> HIDE DEF cursor
  <1>10. walk' \in Walks
    BY <1>1, <1>2, <1>3, <1>7 DEF Walks
  <1>11. /\ walk'.pc = "page" /\ walk'.page = page /\ walk'.more = more /\ walk'.cursor = cursor
    BY <1>1, <1>2 DEF Walks
  <1>12. /\ walk'.first = walk.first /\ walk'.ask = walk.ask
         /\ walk'.limit = walk.limit /\ walk'.total = walk.total
         /\ walk'.byOffset = walk.byOffset /\ walk'.count = walk.count
         /\ walk'.offset = walk.offset /\ walk'.got = walk.got
         /\ walk'.scopes = walk.scopes /\ walk'.scope = walk.scope
         /\ walk'.before = walk.before /\ walk'.past = walk.past
    BY <1>1, <1>2 DEF Walks
  <1>13. Shown'
    <2>1. SUFFICES ASSUME ~walk.byOffset
                   PROVE  /\ walk.offset = 0 /\ page \cap walk.got = {}
                          /\ walk.first # None /\ walk.first \subseteq table \cup gone
                          /\ more => cursor # None /\ \A r \in page \cup walk.got : ~Below(r, cursor)
                          /\ walk.scopes \subseteq {walk.scope} =>
                               \A r \in walk.first \cap Matching(walk.scope) :
                                 ~more \/ ~Below(r, cursor) => r \in page \cup walk.got
      BY <1>1, <1>8, <1>11, <1>12, SameRows DEF Shown
    <2>2. /\ walk.offset = 0 /\ walk.first # None /\ walk.first \subseteq table \cup gone
          /\ walk.got \in SUBSET Ids /\ table \in SUBSET Ids /\ gone \in SUBSET Ids
      BY <1>1, <1>2, <2>1 DEF Asked, Found, Walks, Types
    <2>3. walk.cursor = None \/ walk.cursor \in Ids
      BY <1>2 DEF Walks
    <2>4. ASSUME NEW r \in page, NEW g \in walk.got
          PROVE  walk.cursor \in Ids /\ Below(r, walk.cursor) /\ ~Below(g, walk.cursor)
      BY <1>1, <1>2, <1>3, <2>1, <2>3, <2>4 DEF Asked, Found
    <2>5. page \cap walk.got = {}
      BY <2>4
    <2>6. ASSUME more, NEW r \in page \cup walk.got
          PROVE  ~Below(r, cursor)
      <3>1. cursor \in page /\ cursor \in Ids /\ r \in Ids
        BY <1>2, <1>3, <1>6, <1>9, <2>1, <2>2, <2>6
      <3>2. CASE r \in page
        BY <1>6, <1>9, <2>1, <2>6, <3>1, <3>2, NewerOrder, BelowIsOlder
      <3>3. CASE r \in walk.got
        <4>1. Newer(walk.cursor, cursor) /\ ~Newer(walk.cursor, r) /\ walk.cursor \in Ids
          BY <2>4, <3>1, <3>3, BelowIsOlder
        <4>2. Newer(r, cursor)
          BY <3>1, <4>1, NewerOrder
        <4> QED BY <3>1, <4>2, NewerOrder, BelowIsOlder
      <3> QED BY <3>2, <3>3
    <2>7. more => cursor # None
      <3>1. None \notin Ids
        BY IdsAssumption, ScopeAssumption
      <3> QED BY <1>2, <1>3, <1>6, <1>9, <2>1, <3>1
    <2>8. ASSUME walk.scopes \subseteq {walk.scope}, NEW r \in walk.first \cap Matching(walk.scope),
                 ~more \/ ~Below(r, cursor)
          PROVE  r \in page \cup walk.got
      <3>1. r \in Ids
        BY <2>2
      <3>2. CASE walk.cursor # None /\ ~Below(r, walk.cursor)
        BY <1>2, <2>1, <2>2, <2>8, <3>2 DEF Asked, Passed
      <3>3. CASE walk.cursor = None \/ Below(r, walk.cursor)
        <4>1. r \in walk.rows \/ (more /\ \A q \in walk.rows : Newer(q, r))
          BY <1>1, <1>2, <2>1, <2>8, <3>3 DEF Found, more
        <4>2. CASE ~more
          BY <1>4, <4>1, <4>2
        <4>3. CASE more
          <5>1. cursor \in page /\ cursor \in walk.rows /\ cursor \in Ids
            BY <1>2, <1>3, <1>6, <1>9, <2>1, <4>3
          <5>2. ~Newer(cursor, r)
            BY <2>8, <3>1, <4>3, <5>1, BelowIsOlder
          <5> QED BY <1>3, <4>1, <5>1, <5>2
        <4> QED BY <4>2, <4>3
      <3> QED BY <3>2, <3>3
    <2> QED BY <2>2, <2>5, <2>6, <2>7, <2>8
  <1>14. Scoped' /\ Types' /\ Owned(walk.page)'
    <2>1. walk.scope # All => \A r \in page : Owner[r] = walk.scope
      BY <1>1, <1>2, <1>3 DEF Found, Owned
    <2> QED BY <1>1, <1>2, <1>3, <1>10, <1>11, <1>12, <2>1 DEF Scoped, Types, Owned
  <1>15. Counted' /\ (walk'.total => walk'.count # None)
    BY <1>1, <1>2, <1>12 DEF Counted, Of
  <1> QED BY <1>11, <1>13, <1>14, <1>15 DEF IInv

(* One row of the scope, or none.                                          *)
LEMMA GetByIdStep ==
  ASSUME IInv, GetById
  PROVE  IInv'
  <1>1. PICK ask \in Scopes, context \in Contexts, id \in Ids :
          \E scope \in Resolve(ask, context) :
            walk' = [Start EXCEPT !.pc = "found", !.ask = ask, !.scope = scope,
                                  !.page = Matching(scope) \cap {id}]
    BY DEF GetById, Scopes
  <1>2. PICK scope \in Resolve(ask, context) :
          walk' = [Start EXCEPT !.pc = "found", !.ask = ask, !.scope = scope,
                                !.page = Matching(scope) \cap {id}]
    BY <1>1
  <1>3. scope \in Scopes /\ (scope = All /\ config.tenantRequired => ask = All)
    BY Resolved
  <1> DEFINE page == Matching(scope) \cap {id}
  <1>4. page \in SUBSET Ids /\ IsFiniteSet(page) /\ Cardinality(page) <= 1
    <2>1. page \in SUBSET {id}
      OBVIOUS
    <2>2. IsFiniteSet({id}) /\ Cardinality({id}) = 1
      BY FS_Singleton
    <2>3. Cardinality(page) <= Cardinality({id}) /\ IsFiniteSet(page)
      BY <2>1, <2>2, FS_Subset
    <2> QED BY <2>1, <2>2, <2>3
  <1>5. scope # All => \A r \in page : Owner[r] = scope
    BY DEF Matching
  <1>6. UNCHANGED <<table, gone, config>> /\ Types
    BY DEF GetById, IInv
  <1> HIDE DEF page
  <1>7. walk' = [Start EXCEPT !.pc = "found", !.ask = ask, !.scope = scope, !.page = page]
    BY <1>2 DEF page
  <1>8. walk' \in Walks
    BY <1>3, <1>4, <1>7, StartTyped DEF Walks
  <1>9. /\ walk'.pc = "found" /\ walk'.ask = ask /\ walk'.scope = scope /\ walk'.page = page
        /\ walk'.got = {} /\ walk'.scopes = {} /\ walk'.limit = 1
    BY <1>7, StartTyped DEF Walks
  <1>10. Types'
    BY <1>4, <1>6, <1>8, <1>9, StartTyped DEF Types
  <1> QED BY <1>3, <1>5, <1>6, <1>9, <1>10 DEF IInv, Owned

(* Every step keeps what is known of the walk.                             *)
LEMMA StepInv ==
  ASSUME IInv, [Next]_vars
  PROVE  IInv'
  <1>1. CASE FirstCall
    BY <1>1, FirstCallStep
  <1>2. CASE ReadEntries
    BY <1>2, ReadEntriesStep
  <1>3. CASE ReadCount
    BY <1>3, ReadCountStep
  <1>4. CASE Return
    BY <1>4, ReturnStep
  <1>5. CASE NextPage
    BY <1>5, NextPageStep
  <1>6. CASE Retry
    BY <1>6, RetryStep
  <1>7. CASE GetById
    BY <1>7, GetByIdStep
  <1>8. CASE Commit \/ Prune
    BY <1>8, TableStep
  <1>9. CASE UNCHANGED vars
    <2>1. UNCHANGED <<table, gone, config, walk>>
      BY <1>9 DEF vars
    <2>2. Asked(walk)' <=> Asked(walk)
      BY <2>1, SameRows DEF Asked, Passed
    <2>3. (Found' <=> Found) /\ (Shown' <=> Shown)
      BY <2>1, SameRows DEF Found, Shown, Owned, Newer
    <2> QED BY <2>1, <2>2, <2>3 DEF IInv, Types, Scoped, Owned, Counted, Of
  <1> QED BY <1>1, <1>2, <1>3, <1>4, <1>5, <1>6, <1>7, <1>8, <1>9 DEF Next
-----------------------------------------------------------------------------
(* What is known of a walk between any two steps holds whatever commits,   *)
(* is pruned, fails or is asked for next.                                  *)
THEOREM Invariance == Spec => []IInv
  BY InitInv, StepInv, PTL DEF Spec

(* A page never holds more rows than were asked for.                       *)
THEOREM TypeCorrect == Spec => []TypeOK
  <1>1. IInv => TypeOK
    BY DEF IInv, Types, Walks, Scopes, TypeOK
  <1> QED BY <1>1, Invariance, PTL

(* A cursor never carries a caller into another tenant's rows, and with    *)
(* tenantRequired nobody reads all tenants by leaving the tenant out.      *)
THEOREM PagesAreScoped == Spec => []PageScoped
  <1>1. IInv => PageScoped
    BY DEF IInv, Scoped, Owned, PageScoped
  <1> QED BY <1>1, Invariance, PTL

(* A walk by cursor of any length never shows a row twice, even among rows *)
(* with one time stamp.                                                    *)
THEOREM NoRowTwice == Spec => []NoRepeat
  <1>1. IInv => NoRepeat
    <2> SUFFICES ASSUME IInv, ~walk.byOffset PROVE walk.page \cap walk.got = {}
      BY DEF NoRepeat
    <2> QED BY DEF IInv, Asked, Shown, Types, Walks
  <1> QED BY <1>1, Invariance, PTL

(* A walk by cursor in one tenant's scope leaves no row out that was there *)
(* from its first page on.                                                 *)
THEOREM NoRowSkipped == Spec => []NothingSkipped
  <1>1. IInv => NothingSkipped
    <2>1. SUFFICES ASSUME IInv, walk.pc = "page", ~walk.byOffset, Cardinality(walk.scopes) = 1
                   PROVE  \A r \in walk.first \cap Matching(walk.scope) :
                            ~walk.more \/ ~Below(r, walk.cursor) => r \in walk.page \cup walk.got
      BY DEF NothingSkipped
    <2>2. walk.scope \in walk.scopes /\ IsFiniteSet(walk.scopes) /\ Shown
      BY <2>1 DEF IInv, Scoped, Types
    <2>3. walk.scopes = {walk.scope}
      BY <2>1, <2>2, FS_Singleton
    <2> QED BY <2>1, <2>2, <2>3 DEF Shown
  <1> QED BY <1>1, Invariance, PTL

(* The total of a page is a count of some moment of its call.              *)
THEOREM TotalOfTheCall == Spec => []TotalBracketed
  <1>1. IInv => TotalBracketed
    BY DEF IInv, Counted, Of, TotalBracketed
  <1> QED BY <1>1, Invariance, PTL
=============================================================================
