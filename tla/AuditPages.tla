------------------------------ MODULE AuditPages ------------------------------
(***************************************************************************)
(* AuditService.query as a caller uses it: page after page, newest first,  *)
(* by cursor or by offset, while rows commit and are pruned; and getById.  *)
(* Each page is a call of its own: the tenant is resolved again, and the   *)
(* page and its total are two statements with two snapshots.               *)
(***************************************************************************)
EXTENDS Naturals, FiniteSets

CONSTANTS
  Ids,      \* the audit rows, by id; ids are ordered
  Stamp,    \* their created_at
  Tenants, Owner,  \* the tenants, and the tenant of each row
  All,      \* no tenant condition
  None,     \* no cursor, no tenant in the context
  Limits    \* page sizes callers ask for

ASSUME IdsAssumption == Ids \subseteq Nat
ASSUME StampAssumption == Stamp \in [Ids -> Nat]
ASSUME OwnerAssumption == Owner \in [Ids -> Tenants \cup {None}]
ASSUME ScopeAssumption ==
  /\ All \notin Tenants /\ None \notin Tenants \cup Nat /\ All # None
  /\ \A S \in SUBSET Ids : None # S
ASSUME LimitAssumption == Limits \subseteq Nat \ {0}

VARIABLES
  table,    \* the committed rows
  gone,     \* the rows retention has removed
  config,   \* the options of the service
  walk      \* the caller's walk through the pages; its history when by cursor

vars == <<table, gone, config, walk>>

Start ==
  [pc |-> "idle", ask |-> None, limit |-> 1, total |-> FALSE, byOffset |-> FALSE,
   scope |-> None, cursor |-> None, offset |-> 0, rows |-> None, count |-> None,
   page |-> {}, more |-> FALSE,
   got |-> {}, first |-> None, scopes |-> {}, before |-> {}, past |-> {}]

Init ==
  /\ table = {} /\ gone = {}
  /\ config \in [provider : {"postgresql", "sqlserver"}, tenantRequired : BOOLEAN]
  /\ walk = Start

-----------------------------------------------------------------------------
Newer(r, q) == Stamp[r] > Stamp[q] \/ (Stamp[r] = Stamp[q] /\ r > q)

(* Mutants: the cursor's own row is read again; rows with the same stamp   *)
(* as the cursor's are left out.                                           *)
BelowOrAt(r, c) == Stamp[r] <= Stamp[c] /\ (Newer(c, r) \/ r = c)
BelowByStamp(r, c) == Stamp[r] < Stamp[c]

(* The cursor condition: a row comparison in PostgreSQL, two conditions in *)
(* SQL Server.                                                             *)
BelowPostgres(r, c) == Stamp[r] <= Stamp[c] /\ Newer(c, r)
BelowSqlServer(r, c) == Stamp[r] < Stamp[c] \/ (Stamp[r] = Stamp[c] /\ r < c)
Below(r, c) ==
  IF config.provider = "sqlserver" THEN BelowSqlServer(r, c) ELSE BelowPostgres(r, c)

Matching(scope) == {r \in table : scope = All \/ Owner[r] = scope}

(* ORDER BY created_at DESC, id DESC, with OFFSET and LIMIT.               *)
Slice(S, skip, n) ==
  {r \in S : LET rank == Cardinality({q \in S : Newer(q, r)})
             IN  skip <= rank /\ rank < skip + n}

Last(S) == CHOOSE r \in S : \A q \in S \ {r} : Newer(q, r)

-----------------------------------------------------------------------------
(* What the tenant resolver finds around a call; it may fail, too.         *)
Contexts == Tenants \cup {None}

(* Mutant: a missing tenant is taken for no condition, whatever is set.    *)
ResolveLeniently(ask, context) ==
  IF ask # None THEN {ask} ELSE IF context # None THEN {context} ELSE {All}

(* The scope of a call: an explicit tenant, all tenants, or the tenant of  *)
(* the context, which the resolver may not find.  With tenantRequired a    *)
(* call without one is rejected, otherwise it runs unscoped.               *)
Resolve(ask, context) ==
  IF ask # None THEN {ask}
  ELSE IF context # None THEN {context}
  ELSE IF config.tenantRequired THEN {} ELSE {All}

(* query(): options are validated and the tenant is resolved before any    *)
(* statement is issued.                                                    *)
Call(w) ==
  \E context \in Contexts :
    walk' = IF Resolve(w.ask, context) = {} THEN [Start EXCEPT !.pc = "rejected"]
            ELSE LET scope == CHOOSE s \in Resolve(w.ask, context) : TRUE
                 IN  [w EXCEPT !.pc = "reading", !.scope = scope,
                        !.scopes = IF w.byOffset THEN {} ELSE @ \cup {scope}, !.rows = None, !.count = None,
                        !.before = IF w.total THEN table ELSE {},
                        !.past = IF w.total THEN gone ELSE {}]

FirstCall ==
  /\ walk.pc = "idle"
  /\ \E ask \in Tenants \cup {All, None}, limit \in Limits, total, byOffset \in BOOLEAN :
       Call([Start EXCEPT !.ask = ask, !.limit = limit, !.total = total, !.byOffset = byOffset])
  /\ UNCHANGED <<table, gone, config>>

(* The page and one row more.                                              *)
ReadEntries ==
  LET w == walk
      S == {r \in Matching(w.scope) : w.cursor = None \/ Below(r, w.cursor)}
  IN  /\ w.pc = "reading" /\ w.rows = None
      /\ walk' = [w EXCEPT !.rows = Slice(S, w.offset, w.limit + 1),
                           !.first = IF @ = None /\ ~w.byOffset THEN table ELSE @]
      /\ UNCHANGED <<table, gone, config>>

(* Mutant: the total is counted below the cursor.                          *)
CountBelowCursor ==
  LET w == walk
  IN  /\ w.pc = "reading" /\ w.total /\ w.count = None
      /\ walk' = [w EXCEPT !.count = Cardinality(
           {r \in Matching(w.scope) : w.cursor = None \/ Below(r, w.cursor)})]
      /\ UNCHANGED <<table, gone, config>>

(* Promise.all: the total is counted by a statement of its own, without    *)
(* the cursor.                                                             *)
ReadCount ==
  /\ walk.pc = "reading" /\ walk.total /\ walk.count = None
  /\ walk' = [walk EXCEPT !.count = Cardinality(Matching(walk.scope))]
  /\ UNCHANGED <<table, gone, config>>

(* Mutant: the extra row is shown.                                         *)
ReturnExtraRow ==
  LET w == walk   page == Slice(w.rows, 0, w.limit + 1)
      more == Cardinality(w.rows) > w.limit
  IN  /\ w.pc = "reading" /\ w.rows # None /\ (w.total => w.count # None)
      /\ walk' = [w EXCEPT !.pc = "page", !.page = page, !.more = more, !.rows = None,
                    !.cursor = IF more /\ ~w.byOffset THEN Last(page) ELSE @]
      /\ UNCHANGED <<table, gone, config>>

(* pageEntries: the extra row tells that there are more, the last of the   *)
(* others is the next cursor.                                              *)
Return ==
  LET w == walk   page == Slice(w.rows, 0, w.limit)
      more == Cardinality(w.rows) > w.limit
  IN  /\ w.pc = "reading" /\ w.rows # None /\ (w.total => w.count # None)
      /\ walk' = [w EXCEPT !.pc = "page", !.page = page, !.more = more, !.rows = None,
                    !.cursor = IF more /\ ~w.byOffset THEN Last(page) ELSE @]
      /\ UNCHANGED <<table, gone, config>>

(* The caller asks for the next page, from the cursor or the next offset.  *)
NextPage ==
  /\ walk.pc = "page" /\ walk.more
  /\ Call([walk EXCEPT !.got = IF walk.byOffset THEN {} ELSE @ \cup walk.page,
                       !.page = {},
                       !.offset = IF walk.byOffset THEN @ + walk.limit ELSE 0])
  /\ UNCHANGED <<table, gone, config>>

(* A statement fails; the caller may ask for the same page again.          *)
Retry ==
  /\ walk.pc = "reading"
  /\ Call(walk)
  /\ UNCHANGED <<table, gone, config>>

(* getById: one row of the scope, or null.                                 *)
GetById ==
  /\ walk.pc = "idle"
  /\ \E ask \in Tenants \cup {All, None}, context \in Contexts, id \in Ids :
       \E scope \in Resolve(ask, context) :
         walk' = [Start EXCEPT !.pc = "found", !.ask = ask, !.scope = scope,
                               !.page = Matching(scope) \cap {id}]
  /\ UNCHANGED <<table, gone, config>>

(* An audit row commits, at its place in the order.                        *)
Commit ==
  /\ \E r \in Ids \ (table \cup gone) : table' = table \cup {r}
  /\ UNCHANGED <<gone, config, walk>>

(* prune                                                                   *)
Prune ==
  /\ \E r \in table :
       LET old == {q \in table : Stamp[q] < Stamp[r]}
       IN  old # {} /\ table' = table \ old /\ gone' = gone \cup old
  /\ UNCHANGED <<config, walk>>

Next ==
  \/ FirstCall \/ ReadEntries \/ ReadCount \/ Return \/ NextPage \/ Retry \/ GetById
  \/ Commit \/ Prune

Spec == Init /\ [][Next]_vars
-----------------------------------------------------------------------------
(* Types; a page holds no more rows than its limit.                        *)
TypeOK ==
  /\ table \subseteq Ids /\ gone \subseteq Ids /\ table \cap gone = {}
  /\ walk.scope \in Tenants \cup {All, None}
  /\ walk.cursor \in Ids \cup {None} /\ walk.offset \in Nat
  /\ walk.page \subseteq Ids /\ walk.got \subseteq Ids
  /\ Cardinality(walk.page) <= walk.limit

(* A page holds rows of the tenant resolved for its own call only, whoever *)
(* got the cursor it continues from; with tenantRequired the rows of every *)
(* tenant are read only by a caller who said so.                           *)
PageScoped ==
  walk.pc \in {"page", "found"} =>
    /\ walk.scope # All => \A r \in walk.page : Owner[r] = walk.scope
    /\ walk.scope = All /\ config.tenantRequired => walk.ask = All

(* A walk by cursor never shows a row twice, whatever commits or is pruned *)
(* between its pages.                                                      *)
NoRepeat == ~walk.byOffset => walk.page \cap walk.got = {}

(* A row that was there when the walk began and is there still has been    *)
(* shown once the walk by cursor has passed its place, and the walk passes *)
(* every place before it ends.                                             *)
NothingSkipped ==
  walk.pc = "page" /\ ~walk.byOffset /\ Cardinality(walk.scopes) = 1 =>
    \A r \in walk.first \cap Matching(walk.scope) :
      ~walk.more \/ ~Below(r, walk.cursor) => r \in walk.page \cup walk.got

(* The total counts every matching row that was there during the whole     *)
(* call, and none that was not there at some time of it: pages do not      *)
(* shrink the total.                                                       *)
TotalBracketed ==
  walk.pc = "page" /\ walk.total =>
    LET of(S) == Cardinality({r \in S : walk.scope = All \/ Owner[r] = walk.scope})
    IN  of(walk.before \cap table) <= walk.count /\ walk.count <= of((table \cup gone) \ walk.past)
=============================================================================
