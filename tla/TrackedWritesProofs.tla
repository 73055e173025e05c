------------------------- MODULE TrackedWritesProofs -------------------------
(***************************************************************************)
(* Proofs about TrackedWrites for any number of transactions, operations,  *)
(* rows and batch records.                                                 *)
(***************************************************************************)
EXTENDS TrackedWrites, FiniteSetTheorems, SequenceTheorems, TLAPS

Stages ==
  {"none", "read", "lock", "refresh", "query", "apply", "post", "record", "insert", "done",
   "failed"}
Found   == [key : Keys, val : Cell]
Changed == [key : Keys, before : Cell, after : Cell, held : BOOLEAN]
Rec     == [key : Keys, before : Cell, after : Cell]
OpRec   ==
  [pc : Stages, tx : Txs \cup {None}, outer : BOOLEAN, req : Request \cup {None},
   todo : SUBSET Keys, at : Keys \cup {None}, captured : SUBSET Found,
   cand : SUBSET Keys, did : SUBSET Changed, recs : SUBSET Rec]
TxState == {"idle", "open", "returning", "committed", "rolledBack"}

(* What the variables hold.                                                *)
Types ==
  /\ table \in [Keys -> Cell] /\ newest \in [Keys -> Cell]
  /\ lock \in [Keys -> Txs \cup {None}]
  /\ trail \in Seq(Entry) /\ staged \in [Txs -> Seq(Entry)]
  /\ tx \in [Txs -> TxState]
  /\ aborted \subseteq Txs /\ failed \subseteq Txs
  /\ op \in [Ops -> OpRec]

(* An operation that has been called belongs to a transaction; the rows it *)
(* still has to lock are among its preimages, which fit the limit.         *)
HookOne(r) ==
  /\ r.pc = "none" => r = Blank
  /\ r.pc # "none" => r.tx \in Txs /\ r.req \in Requests
  /\ r.todo \subseteq {c.key : c \in r.captured}
  /\ r.pc = "refresh" => r.at \in r.todo
  /\ IsFiniteSet(r.captured) /\ Cardinality(r.captured) <= MaxBatch

HookInv == \A o \in Ops : HookOne(op[o])

TInv == Types /\ HookInv

(* The image of a finite set under a function is finite and no larger; it  *)
(* is as large when the function is injective.                             *)
LEMMA ImageSize ==
  ASSUME NEW S, IsFiniteSet(S), NEW f, f = [x \in S |-> f[x]]
  PROVE  LET T == {f[x] : x \in S}
         IN  /\ IsFiniteSet(T) /\ Cardinality(T) <= Cardinality(S)
             /\ (\A x, y \in S : f[x] = f[y] => x = y) => Cardinality(T) = Cardinality(S)
<1> DEFINE T == {f[x] : x \in S}
<1>1. f \in Surjection(S, T)
  BY DEF Surjection
<1>2. (\A x, y \in S : f[x] = f[y] => x = y) => f \in Injection(S, T)
  BY <1>1 DEF Injection, Surjection, IsInjective
<1>3. /\ IsFiniteSet(T) /\ Cardinality(T) <= Cardinality(S)
      /\ f \in Injection(S, T) => Cardinality(T) = Cardinality(S)
  BY <1>1, FS_Surjection
<1>4. (\A x, y \in S : f[x] = f[y] => x = y) => Cardinality(T) = Cardinality(S)
  BY ONLY <1>2, <1>3
<1>5. QED
  BY ONLY <1>3, <1>4

(* The preimages a hook reads are no more than the rows it has found.      *)
LEMMA CapturedSize ==
  ASSUME NEW o \in Ops, NEW todo \in SUBSET Keys
  PROVE  LET c == {[key |-> k, val |-> View(op[o].tx, k)] : k \in todo}
         IN  IsFiniteSet(c) /\ Cardinality(c) <= Cardinality(todo)
<1> DEFINE f == [k \in todo |-> [key |-> k, val |-> View(op[o].tx, k)]]
<1>1. {[key |-> k, val |-> View(op[o].tx, k)] : k \in todo} = {f[k] : k \in todo}
  OBVIOUS
<1>2. IsFiniteSet(todo)
  BY KeysAssumption, FS_Subset
<1>3. f = [x \in todo |-> f[x]]
  OBVIOUS
<1> HIDE DEF f
<1>4. QED
  BY <1>1, <1>2, <1>3, ImageSize

(* The initial states satisfy it.                                          *)
LEMMA InitTInv == Init => TInv
<1> SUFFICES ASSUME Init PROVE TInv
  OBVIOUS
<1>1. Types
  BY TableAssumption DEF Init, Types, TxState, OpRec, Stages, Blank, Cell
<1>2. HookInv
  <2>1. \A o \in Ops : op[o] = Blank
    BY DEF Init
  <2>2. IsFiniteSet({}) /\ Cardinality({}) <= MaxBatch
    BY FS_EmptySet, BatchAssumption
  <2>3. SUFFICES ASSUME NEW o \in Ops
        PROVE  /\ op[o].pc = "none" /\ op[o].todo = {} /\ op[o].captured = {}
               /\ op[o] = Blank
    BY <2>2 DEF HookInv, HookOne
  <2>4. op[o] = Blank
    BY <2>1
  <2>5. Blank.pc = "none" /\ Blank.todo = {} /\ Blank.captured = {}
    BY DEF Blank
  <2>6. QED
    BY <2>4, <2>5
<1>3. QED
  BY <1>1, <1>2 DEF TInv

(* What a transaction sees of a row is a content or its absence.           *)
LEMMA ViewType ==
  ASSUME Types, NEW t, NEW k \in Keys
  PROVE  View(t, k) \in Cell
BY DEF Types, View

(* What a statement stores is a content or an absence.                     *)
LEMMA NewValueType ==
  ASSUME TInv, NEW o \in Ops, op[o].pc # "none"
  PROVE  NewValue(o) \in Cell
BY RequestAssumption DEF TInv, HookInv, HookOne, NewValue, Request, Cell

(* A step that gives one operation a good record keeps all records good.   *)
LEMMA OpReplace ==
  ASSUME Types, HookInv, NEW o \in Ops, NEW r \in OpRec, HookOne(r),
         op' = [op EXCEPT ![o] = r]
  PROVE  op' \in [Ops -> OpRec] /\ HookInv'
<1>1. op' \in [Ops -> OpRec]
  BY DEF Types
<1>2. \A q \in Ops : op'[q] = IF q = o THEN r ELSE op[q]
  BY DEF Types
<1>3. \A q \in Ops : HookOne(op'[q])
  BY <1>2 DEF HookInv
<1>4. QED
  BY <1>1, <1>3 DEF HookInv

(* The steps that read, one by one.                                        *)
LEMMA StartTypes ==
  ASSUME TInv, NEW o \in Ops, NEW t \in Txs, NEW q \in Requests, Start(o, t, q)
  PROVE  TInv'
<1> DEFINE first == IF q.kind = "create" THEN "query" ELSE "read"
<1>1. first \in {"query", "read"}
  OBVIOUS
<1>2. PICK outer \in {FALSE, OuterClient} :
        op' = [op EXCEPT ![o] = [Blank EXCEPT !.pc = first, !.tx = t, !.outer = outer,
                                              !.req = q]]
  BY DEF Start
<1> HIDE DEF first
<1> DEFINE r == [Blank EXCEPT !.pc = first, !.tx = t, !.outer = outer, !.req = q]
<1>3. Blank \in OpRec /\ Blank.todo = {} /\ Blank.captured = {}
  BY DEF Blank, OpRec, Stages
<1>4. /\ r \in OpRec
      /\ r.pc = first /\ r.tx = t /\ r.req = q /\ r.todo = {} /\ r.captured = {}
  BY <1>1, <1>3, RequestAssumption, ModeAssumption DEF OpRec, Stages
<1> HIDE DEF r
<1>5. HookOne(r)
  <2>1. IsFiniteSet({}) /\ Cardinality({}) <= MaxBatch
    BY FS_EmptySet, BatchAssumption
  <2>2. QED
    BY <1>1, <1>4, <2>1 DEF HookOne
<1>6. op' \in [Ops -> OpRec] /\ HookInv'
  BY <1>2, <1>4, <1>5, OpReplace DEF TInv, r
<1>7. QED
  BY <1>6 DEF TInv, Types, Start, db

(* A pre-read stores the candidates it captured.                           *)
LEMMA CapturedTypes ==
  ASSUME TInv, NEW o \in Ops, op[o].pc # "none", NEW todo \in SUBSET Keys,
         Cardinality(todo) <= MaxBatch, op' = [op EXCEPT ![o] = Captured(o, todo)],
         UNCHANGED <<db, staged, tx, aborted, failed>>
  PROVE  TInv'
<1> DEFINE r == Captured(o, todo)
<1> DEFINE cap == {[key |-> k, val |-> View(op[o].tx, k)] : k \in todo}
<1>1. cap \in SUBSET Found
  BY ViewType DEF TInv, Found
<1>2. IsFiniteSet(cap) /\ Cardinality(cap) <= MaxBatch
  <2>1. Cardinality(todo) \in Nat
    BY KeysAssumption, FS_Subset, FS_CardinalityType
  <2>2. IsFiniteSet(cap) /\ Cardinality(cap) <= Cardinality(todo)
    BY CapturedSize
  <2>3. Cardinality(cap) \in Nat
    BY <2>2, FS_CardinalityType
  <2>4. QED
    BY <2>1, <2>2, <2>3, BatchAssumption
<1>3. todo \subseteq {c.key : c \in cap}
  <2>1. ASSUME NEW k \in todo PROVE \E c \in cap : c.key = k
    <3>1. [key |-> k, val |-> View(op[o].tx, k)] \in cap
      OBVIOUS
    <3>2. QED
      BY <3>1
  <2> HIDE DEF cap
  <2>2. QED
    BY <2>1
<1> HIDE DEF cap
<1>4. r = [op[o] EXCEPT !.pc = IF todo = {} THEN "query" ELSE "lock", !.todo = todo,
                        !.captured = cap]
  BY DEF Captured, cap
<1>5. op[o] \in OpRec /\ HookOne(op[o])
  BY DEF TInv, Types, HookInv
<1>6. r \in OpRec
  BY <1>1, <1>4, <1>5 DEF OpRec, Stages
<1>7. HookOne(r)
  BY <1>2, <1>3, <1>4, <1>5 DEF HookOne, OpRec
<1> HIDE DEF r
<1>8. op' \in [Ops -> OpRec] /\ HookInv'
  <2>1. op' = [op EXCEPT ![o] = r]
    BY DEF r
  <2>2. QED
    BY <1>6, <1>7, <2>1, OpReplace DEF TInv
<1>9. QED
  BY <1>8 DEF TInv, Types, db

(* A step that keeps an operation's preimages and locks no more rows than  *)
(* it had to keeps the record good.                                        *)
LEMMA KeepsHook ==
  ASSUME TInv, NEW o \in Ops, op[o].pc # "none", NEW r \in OpRec,
         r.pc # "none", r.tx = op[o].tx, r.req = op[o].req, r.captured = op[o].captured,
         r.todo \subseteq op[o].todo, r.pc = "refresh" => r.at \in r.todo,
         op' = [op EXCEPT ![o] = r]
  PROVE  op' \in [Ops -> OpRec] /\ HookInv'
<1>1. HookOne(op[o])
  BY DEF TInv, HookInv
<1>2. HookOne(r)
  BY <1>1 DEF HookOne
<1>3. QED
  BY <1>2, OpReplace DEF TInv

(* FOR UPDATE on a candidate keeps the types.                              *)
LEMMA LockRowTypes ==
  ASSUME TInv, NEW o \in Ops, LockRow(o)
  PROVE  TInv'
<1>1. PICK k \in op[o].todo :
        /\ lock' = IF newest[k] = None THEN lock ELSE [lock EXCEPT ![k] = op[o].tx]
        /\ op' = [op EXCEPT ![o].pc = "refresh", ![o].at = k]
  BY DEF LockRow
<1>2. op[o] \in OpRec /\ op[o].pc = "lock" /\ k \in Keys
  BY DEF LockRow, TInv, Types, OpRec
<1> DEFINE r == [op[o] EXCEPT !.pc = "refresh", !.at = k]
<1>3. r \in OpRec /\ r.pc = "refresh" /\ r.at = k /\ r.tx = op[o].tx /\ r.req = op[o].req
      /\ r.captured = op[o].captured /\ r.todo = op[o].todo
  BY <1>2 DEF OpRec, Stages
<1>4. op' = [op EXCEPT ![o] = r]
  BY <1>1
<1> HIDE DEF r
<1>5. op' \in [Ops -> OpRec] /\ HookInv'
  BY <1>2, <1>3, <1>4, KeepsHook
<1>6. lock' \in [Keys -> Txs \cup {None}]
  BY <1>1, <1>2 DEF TInv, Types, OpRec
<1>7. QED
  BY <1>5, <1>6 DEF TInv, Types, LockRow

(* The read again of a locked candidate keeps the types.                   *)
LEMMA RefreshRowTypes ==
  ASSUME TInv, NEW o \in Ops, RefreshRow(o)
  PROVE  TInv'
<1> DEFINE k == op[o].at
<1> DEFINE now == View(op[o].tx, k)
<1> DEFINE new == IF now = None THEN {} ELSE {[key |-> k, val |-> now]}
<1> DEFINE old == {c \in op[o].captured : c.key # k}
<1> DEFINE r1 == [op[o] EXCEPT !.pc = IF op[o].todo = {k} THEN "query" ELSE "lock",
                               !.at = None, !.todo = @ \ {k}]
<1> DEFINE r == [r1 EXCEPT !.captured = old \cup new]
<1>1. op[o] \in OpRec /\ op[o].pc = "refresh" /\ HookOne(op[o])
  BY DEF RefreshRow, TInv, Types, HookInv
<1>2. k \in op[o].todo /\ k \in Keys /\ now \in Cell
  BY <1>1, ViewType DEF HookOne, OpRec, TInv
<1>3. new \subseteq Found /\ old \subseteq Found
  BY <1>1, <1>2 DEF Found, OpRec
<1>4. op' = [op EXCEPT ![o] = r]
  BY <1>1 DEF RefreshRow, OpRec
<1>5. op[o].todo \ {k} \subseteq {c.key : c \in old \cup new}
  BY <1>1 DEF HookOne
<1>6. IsFiniteSet(old \cup new) /\ Cardinality(old \cup new) <= MaxBatch
  <2>1. PICK c \in op[o].captured : c.key = k
    BY <1>1, <1>2 DEF HookOne
  <2>2. IsFiniteSet(op[o].captured) /\ Cardinality(op[o].captured) <= MaxBatch
    BY <1>1 DEF HookOne
  <2>3. IsFiniteSet(op[o].captured \ {c})
        /\ Cardinality(op[o].captured \ {c}) = Cardinality(op[o].captured) - 1
    BY <2>2, FS_RemoveElement
  <2>4. old \in SUBSET (op[o].captured \ {c})
    BY <2>1
  <2> HIDE DEF old, now, k
  <2>5. IsFiniteSet(old) /\ Cardinality(old) <= Cardinality(op[o].captured) - 1
    BY <2>3, <2>4, FS_Subset
  <2>6. Cardinality(old) \in Nat /\ Cardinality(op[o].captured) \in Nat
    BY <2>2, <2>5, FS_CardinalityType
  <2>7. CASE now = None
    BY <2>2, <2>5, <2>6, <2>7, BatchAssumption
  <2>8. CASE now # None
    <3> DEFINE x == [key |-> k, val |-> now]
    <3> DEFINE both == old \cup {x}
    <3>1. old \cup new = both
      BY <2>8
    <3> HIDE DEF x, old
    <3>2. /\ IsFiniteSet(both)
          /\ Cardinality(both) = IF x \in old THEN Cardinality(old) ELSE Cardinality(old) + 1
      BY <2>5, FS_AddElement
    <3> HIDE DEF both, new
    <3>3. Cardinality(both) <= Cardinality(old) + 1
      BY ONLY <2>6, <3>2
    <3>4. Cardinality(both) \in Nat
      BY <3>2, FS_CardinalityType
    <3>5. Cardinality(both) <= MaxBatch
      BY ONLY <2>2, <2>5, <2>6, <3>3, <3>4, BatchAssumption
    <3>6. QED
      BY ONLY <3>1, <3>2, <3>5
  <2>9. QED
    BY <2>7, <2>8
<1> HIDE DEF old, new, now
<1>7. r1 \in OpRec /\ r1.pc \in {"query", "lock"} /\ r1.tx = op[o].tx
      /\ r1.req = op[o].req /\ r1.todo = op[o].todo \ {k}
  BY <1>1 DEF OpRec, Stages
<1> HIDE DEF r1
<1>8. r \in OpRec /\ r.pc \in {"query", "lock"} /\ r.tx = op[o].tx /\ r.req = op[o].req
      /\ r.todo = op[o].todo \ {k} /\ r.captured = old \cup new
  BY <1>3, <1>7 DEF OpRec
<1> HIDE DEF r, k
<1>9. HookOne(r)
  BY <1>1, <1>5, <1>6, <1>8 DEF HookOne
<1>10. op' \in [Ops -> OpRec] /\ HookInv'
  BY <1>4, <1>8, <1>9, OpReplace DEF TInv
<1>11. QED
  BY <1>10 DEF TInv, Types, RefreshRow, db

(* The snapshot of the original statement keeps the types.                 *)
LEMMA SnapshotTypes ==
  ASSUME TInv, NEW o \in Ops, SnapshotStmt(o)
  PROVE  TInv'
<1> DEFINE cand == IF op[o].req.kind \in {"create", "upsert"} THEN op[o].req.keys
                   ELSE IF op[o].outer THEN {k \in op[o].req.keys : table[k] \in op[o].req.vals}
                   ELSE Match(op[o].tx, op[o].req)
<1> DEFINE r == [op[o] EXCEPT !.pc = "apply", !.cand = cand]
<1>1. op[o] \in OpRec /\ op[o].pc = "query" /\ op[o].req \in Request
  BY RequestAssumption DEF SnapshotStmt, TInv, Types, HookInv, HookOne
<1>2. cand \subseteq Keys
  BY <1>1 DEF Match, Request
<1>3. op' = [op EXCEPT ![o].pc = "apply", ![o].cand = cand]
  BY DEF SnapshotStmt
<1> HIDE DEF cand
<1>4. r \in OpRec /\ r.pc = "apply" /\ r.tx = op[o].tx /\ r.req = op[o].req
      /\ r.captured = op[o].captured /\ r.todo = op[o].todo
  BY <1>1, <1>2 DEF OpRec, Stages
<1>5. op' = [op EXCEPT ![o] = r]
  BY <1>3
<1> HIDE DEF r
<1>6. op' \in [Ops -> OpRec] /\ HookInv'
  BY <1>1, <1>4, <1>5, KeepsHook
<1>7. QED
  BY <1>6 DEF TInv, Types, SnapshotStmt, db

(* What a statement changes, and what it leaves in the rows.               *)
LEMMA ChangeTypes ==
  ASSUME TInv, NEW o \in Ops, op[o].pc # "none"
  PROVE  Written(o) \subseteq Keys /\ {Change(o, k) : k \in Written(o)} \subseteq Changed
<1>1. Written(o) \subseteq Keys
  BY DEF Written, TInv, Types, OpRec
<1>2. ASSUME NEW k \in Keys PROVE Change(o, k) \in Changed
  <2>1. newest[k] \in Cell /\ NewValue(o) \in Cell
    BY NewValueType DEF TInv, Types
  <2>2. QED
    BY <2>1 DEF Change, Changed
<1>3. QED
  BY <1>1, <1>2

(* The effect of the original statement keeps the types.                   *)
LEMMA ApplyTypes ==
  ASSUME TInv, NEW o \in Ops, ApplyStmt(o)
  PROVE  TInv'
<1> DEFINE next == op'[o].pc
<1> DEFINE did == {Change(o, k) : k \in Written(o)}
<1> DEFINE r == [op[o] EXCEPT !.pc = next, !.did = did]
<1>1. op[o] \in OpRec /\ op[o].pc = "apply" /\ op[o].tx \in Txs
  BY DEF ApplyStmt, TInv, Types, HookInv, HookOne
<1>2. next \in {"failed", "record", "post"}
  BY <1>1 DEF ApplyStmt, AfterStmt, TInv, Types
<1>3. did \subseteq Changed
  BY <1>1, ChangeTypes
<1>4. op' = [op EXCEPT ![o].pc = next, ![o].did = did]
  BY <1>1 DEF ApplyStmt, TInv, Types
<1> HIDE DEF next, did
<1>5. r \in OpRec /\ r.pc # "none" /\ r.pc # "refresh" /\ r.tx = op[o].tx /\ r.req = op[o].req
      /\ r.captured = op[o].captured /\ r.todo = op[o].todo
  BY <1>1, <1>2, <1>3 DEF OpRec, Stages
<1>6. op' = [op EXCEPT ![o] = r]
  BY <1>4
<1> HIDE DEF r
<1>7. op' \in [Ops -> OpRec] /\ HookInv'
  BY <1>1, <1>5, <1>6, KeepsHook
<1>8. /\ newest' \in [Keys -> Cell] /\ table' \in [Keys -> Cell]
      /\ lock' \in [Keys -> Txs \cup {None}] /\ trail' = trail
  BY <1>1, NewValueType DEF ApplyStmt, StoreRows, TInv, Types
<1>9. failed' \subseteq Txs
  BY <1>1 DEF ApplyStmt, TInv, Types
<1>10. QED
  BY <1>7, <1>8, <1>9 DEF TInv, Types, ApplyStmt

(* A failure, whichever it is, keeps the types.                            *)
LEMMA FailureTypes ==
  ASSUME TInv, NEW o \in Ops, NotFound(o) \/ QueryFails(o) \/ AuditFails(o)
  PROVE  TInv'
<1> DEFINE r == [op[o] EXCEPT !.pc = "failed"]
<1>1. op[o] \in OpRec /\ op[o].pc # "none" /\ op[o].tx \in Txs
  BY DEF NotFound, QueryFails, AuditFails, TInv, Types, HookInv, HookOne
<1>2. r \in OpRec /\ r.pc = "failed" /\ r.tx = op[o].tx /\ r.req = op[o].req
      /\ r.captured = op[o].captured /\ r.todo = op[o].todo
  BY <1>1 DEF OpRec, Stages
<1>3. op' = [op EXCEPT ![o] = r]
  BY DEF NotFound, QueryFails, AuditFails
<1> HIDE DEF r
<1>4. op' \in [Ops -> OpRec] /\ HookInv'
  BY <1>1, <1>2, <1>3, KeepsHook
<1>5. aborted' \subseteq Txs /\ failed' \subseteq Txs
  BY <1>1 DEF NotFound, QueryFails, AuditFails, TInv, Types
<1>6. QED
  BY <1>4, <1>5 DEF TInv, Types, NotFound, QueryFails, AuditFails, db

(* The audit rows of an operation.                                         *)
LEMMA RecordsType ==
  ASSUME TInv, NEW o \in Ops
  PROVE  Records(o) \subseteq Rec
<1> DEFINE hit == {c.key : c \in op[o].did}
<1>1. hit \subseteq Keys /\ \A c \in op[o].captured : c.key \in Keys /\ c.val \in Cell
  BY DEF TInv, Types, OpRec, Changed, Found
<1>2. \A k \in Keys : View(op[o].tx, k) \in Cell
  BY ViewType DEF TInv
<1>3. None \in Cell
  BY DEF Cell
<1> HIDE DEF hit
<1>4. \A k \in Keys : \A b, a \in Cell : Record(k, b, a) \in Rec
  BY DEF Record, Rec
<1>5. {Record(k, None, View(op[o].tx, k)) : k \in hit} \subseteq Rec
  BY <1>1, <1>2, <1>3, <1>4
<1>6. {Record(k, None, None) : k \in hit} \subseteq Rec
  BY <1>1, <1>3, <1>4
<1>7. {Record(c.key, c.val, View(op[o].tx, c.key)) : c \in op[o].captured} \subseteq Rec
  BY <1>1, <1>2, <1>4
<1>8. {Record(c.key, c.val, None) : c \in op[o].captured} \subseteq Rec
  BY <1>1, <1>3, <1>4
<1>9. QED
  BY <1>5, <1>6, <1>7, <1>8 DEF Records, hit

(* The post-read builds at most MaxBatch records.                          *)
LEMMA PostReadTypes ==
  ASSUME TInv, NEW o \in Ops, PostRead(o)
  PROVE  TInv'
<1> DEFINE recs == IF op[o].did = {} THEN {} ELSE Records(o)
<1> DEFINE r == [op[o] EXCEPT !.recs = recs, !.pc = IF recs = {} THEN "done" ELSE "insert"]
<1>1. op[o] \in OpRec /\ op[o].pc # "none"
  BY DEF PostRead, TInv, Types, HookInv, HookOne
<1>2. recs \subseteq Rec
  BY RecordsType
<1>3. op' = [op EXCEPT ![o].recs = recs, ![o].pc = IF recs = {} THEN "done" ELSE "insert"]
  BY DEF PostRead
<1> HIDE DEF recs
<1>4. r \in OpRec /\ r.pc # "none" /\ r.pc # "refresh" /\ r.tx = op[o].tx /\ r.req = op[o].req
      /\ r.captured = op[o].captured /\ r.todo = op[o].todo
  BY <1>1, <1>2 DEF OpRec, Stages
<1>5. op' = [op EXCEPT ![o] = r]
  BY <1>3
<1> HIDE DEF r
<1>6. op' \in [Ops -> OpRec] /\ HookInv'
  BY <1>1, <1>4, <1>5, KeepsHook
<1>7. QED
  BY <1>6 DEF TInv, Types, PostRead, db

(* An audit insert keeps the types.                                        *)
LEMMA InsertTypes ==
  ASSUME TInv, NEW o \in Ops, InsertRecord(o)
  PROVE  TInv'
<1>1. PICK e \in op[o].recs :
        /\ staged' = [staged EXCEPT ![op[o].tx] = Append(@, AuditRow(o, e))]
        /\ op' = [op EXCEPT ![o].recs = @ \ {e},
                            ![o].pc = IF op[o].recs = {e} THEN "done" ELSE @]
  BY DEF InsertRecord
<1>2. op[o] \in OpRec /\ op[o].pc = "insert" /\ op[o].tx \in Txs
  BY DEF InsertRecord, TInv, Types, HookInv, HookOne
<1> DEFINE r == [op[o] EXCEPT !.recs = @ \ {e},
                              !.pc = IF op[o].recs = {e} THEN "done" ELSE @]
<1>3. r \in OpRec /\ r.pc # "none" /\ r.pc # "refresh" /\ r.tx = op[o].tx /\ r.req = op[o].req
      /\ r.captured = op[o].captured /\ r.todo = op[o].todo
  BY <1>2 DEF OpRec, Stages
<1>4. op' = [op EXCEPT ![o] = r]
  BY <1>1
<1> HIDE DEF r
<1>5. op' \in [Ops -> OpRec] /\ HookInv'
  BY <1>2, <1>3, <1>4, KeepsHook
<1>6. AuditRow(o, e) \in Entry
  BY <1>2 DEF OpRec, Rec, AuditRow, Entry
<1>7. staged' \in [Txs -> Seq(Entry)]
  BY <1>1, <1>2, <1>6 DEF TInv, Types
<1>8. QED
  BY <1>5, <1>7 DEF TInv, Types, InsertRecord, db

(* The steps of a callback and its transaction keep the types.             *)
LEMMA TxTypes ==
  ASSUME TInv, NEW t \in Txs, TxStep(t)
  PROVE  TInv'
<1>1. op' = op /\ HookInv'
  BY DEF TxStep, Begin, Return, Commit, RollBack, TInv, HookInv
<1>2. CASE Begin(t) \/ Return(t)
  BY <1>1, <1>2 DEF TInv, Types, TxState, Begin, Return, db
<1>3. CASE Commit(t)
  <2>1. trail' \in Seq(Entry) /\ staged' \in [Txs -> Seq(Entry)]
    BY <1>3 DEF TInv, Types, Commit
  <2>2. table' \in [Keys -> Cell] /\ lock' \in [Keys -> Txs \cup {None}] /\ tx' \in [Txs -> TxState]
    BY <1>3 DEF TInv, Types, Commit, TxState
  <2>3. QED
    BY <1>1, <1>3, <2>1, <2>2 DEF TInv, Types, Commit
<1>4. CASE RollBack(t)
  <2>1. /\ newest' \in [Keys -> Cell] /\ lock' \in [Keys -> Txs \cup {None}]
        /\ staged' \in [Txs -> Seq(Entry)] /\ tx' \in [Txs -> TxState]
    BY <1>4 DEF TInv, Types, RollBack, RollBackRows, TxState
  <2>2. QED
    BY <1>1, <1>4, <2>1 DEF TInv, Types, RollBack, RollBackRows
<1>5. QED
  BY <1>2, <1>3, <1>4 DEF TxStep

(* Every step keeps the types.                                             *)
LEMMA StepTypes == TInv /\ [Next]_vars => TInv'
<1> SUFFICES ASSUME TInv, [Next]_vars PROVE TInv'
  OBVIOUS
<1>1. CASE UNCHANGED vars
  BY <1>1 DEF vars, db, TInv, Types, HookInv
<1>2. ASSUME NEW o \in Ops, PreReadOne(o) PROVE TInv'
  <2>1. PICK todo \in {{k} : k \in Match(op[o].tx, op[o].req)} \cup {{}} :
          op' = [op EXCEPT ![o] = Captured(o, todo)]
    BY <1>2 DEF PreReadOne
  <2>2. op[o].pc # "none" /\ op[o].req \in Request
    BY <1>2, RequestAssumption DEF PreReadOne, TInv, HookInv, HookOne
  <2>3. todo \in SUBSET Keys
    BY <2>2 DEF Match, Request
  <2>4. Cardinality(todo) <= MaxBatch
    BY FS_Singleton, FS_EmptySet, BatchAssumption
  <2>5. QED
    BY <1>2, <2>1, <2>2, <2>3, <2>4, CapturedTypes DEF PreReadOne
<1>3. ASSUME NEW o \in Ops, PreReadMany(o) PROVE TInv'
  <2> DEFINE found == Match(op[o].tx, op[o].req)
  <2>1. op[o].pc = "read" /\ op[o].req \in Request
    BY <1>3, RequestAssumption DEF PreReadMany, TInv, HookInv, HookOne
  <2>2. found \in SUBSET Keys
    BY <2>1 DEF Match, Request
  <2>3. Cardinality(found) \in Nat
    BY <2>2, KeysAssumption, FS_Subset, FS_CardinalityType
  <2>4. CASE Cardinality(found) > MaxBatch
    <3> DEFINE r == [op[o] EXCEPT !.pc = "failed"]
    <3>1. op[o] \in OpRec
      BY DEF TInv, Types
    <3>2. r \in OpRec /\ r.pc = "failed" /\ r.tx = op[o].tx /\ r.req = op[o].req
          /\ r.captured = op[o].captured /\ r.todo = op[o].todo
      BY <3>1 DEF OpRec, Stages
    <3>3. op' = [op EXCEPT ![o] = r]
      BY <1>3, <2>4 DEF PreReadMany
    <3> HIDE DEF r
    <3>4. op' \in [Ops -> OpRec] /\ HookInv'
      BY <2>1, <3>2, <3>3, KeepsHook
    <3>5. QED
      BY <1>3, <3>4 DEF TInv, Types, PreReadMany, db
  <2>5. CASE ~(Cardinality(found) > MaxBatch)
    <3>1. op' = [op EXCEPT ![o] = Captured(o, found)]
      BY <1>3, <2>5 DEF PreReadMany
    <3>2. Cardinality(found) <= MaxBatch
      BY <2>3, <2>5, BatchAssumption
    <3> HIDE DEF found
    <3>3. QED
      BY <1>3, <2>1, <2>2, <3>1, <3>2, CapturedTypes DEF PreReadMany
  <2>6. QED
    BY <2>4, <2>5
<1>4. ASSUME NEW o \in Ops, OpStep(o) PROVE TInv'
  BY <1>2, <1>3, <1>4, StartTypes, LockRowTypes, RefreshRowTypes, SnapshotTypes, ApplyTypes,
     FailureTypes, PostReadTypes, InsertTypes DEF OpStep
<1>5. QED
  BY <1>1, <1>4, TxTypes DEF Next

(* Types of the tables and of the hooks' memory, and the limit of the      *)
(* preimages a deleteMany holds, in every run of the transactions.         *)
THEOREM TypeCorrect == Spec => []TypeOK
<1>1. TInv => TypeOK
  BY DEF TInv, Types, HookInv, HookOne, TypeOK, OpRec, Found, Rec, TxState
<1>2. QED
  BY InitTInv, StepTypes, <1>1, PTL DEF Spec

-----------------------------------------------------------------------------
(* The rest is about callbacks that await each operation and use the       *)
(* transaction they are given; the runs show what happens when they do not *)
(* (tracked_outer_client).                                                 *)
Disciplined == Sequential /\ ~OuterClient

Open(t) == tx[t] \in {"open", "returning"}

(* A transaction runs one operation at a time, none once its callback has  *)
(* returned, and does not return after a failed audit write.               *)
ScopeInv ==
  /\ \A o \in Ops :
       /\ ~op[o].outer
       /\ op[o].pc # "none" => tx[op[o].tx] # "idle"
       /\ op[o].pc \notin Settled => tx[op[o].tx] \in {"open", "rolledBack"}
  /\ \A o, q \in Ops :
       op[o].pc \notin Settled /\ op[q].pc \notin Settled /\ op[o].tx = op[q].tx => o = q
  /\ \A t \in Txs : tx[t] \in {"returning", "committed"} => t \notin failed

(* An unlocked row has one version; a lock belongs to an open transaction. *)
LockInv ==
  \A k \in Keys :
    /\ lock[k] = None => newest[k] = table[k]
    /\ lock[k] # None => Open(lock[k])

(* What the memory of a hook holds at each stage: one preimage per row it  *)
(* may change, one change per row, and as many preimages as changes when a *)
(* deleteMany goes on.                                                     *)
StageOne(r) ==
  /\ r.pc \in {"read", "lock", "refresh", "query", "apply"} => r.did = {}
  /\ r.pc \in {"query", "apply"} => r.todo = {}
  /\ r.req.kind = "create" => r.captured = {} /\ r.pc \notin {"read", "lock", "refresh"}
  /\ r.pc = "post" => r.req.kind \in {"create", "update", "upsert"}
  /\ r.pc = "record" => r.req.kind \in {"delete", "deleteMany"}
  /\ r.pc = "apply" => /\ r.cand \subseteq r.req.keys
                       /\ r.req.kind \in {"create", "upsert"} => r.cand = r.req.keys
  /\ \A c \in r.captured : c.key \in r.req.keys /\ c.val # None
  /\ \A c, d \in r.captured : c.key = d.key => c = d
  /\ \A c \in r.did : /\ c.key \in r.req.keys
                      /\ r.req.kind \in {"delete", "deleteMany"} => c.after = None
  /\ \A c, d \in r.did : c.key = d.key => c = d
  /\ r.pc \in {"post", "record"} =>
       IF r.req.kind = "deleteMany" THEN Cardinality(r.did) = Cardinality(r.captured)
       ELSE r.did # {}

StageInv == \A o \in Ops : op[o].pc # "none" => StageOne(op[o])

(* In an open transaction: the preimage of a row it has locked is the      *)
(* newest version of the row, and no such row that the query may select    *)
(* is without one.                                                         *)
FreshOne(r, lk, nw) ==
  /\ \A c \in r.captured : c.key \notin r.todo /\ lk[c.key] = r.tx => c.val = nw[c.key]
  /\ r.req.kind # "create" =>
       \A k \in r.req.keys : lk[k] = r.tx /\ nw[k] \in r.req.vals =>
         \E c \in r.captured : c.key = k

(* The preimages of the changes made under a lock are exact.               *)
ExactOne(r) ==
  \A c \in r.did : c.held =>
    /\ \A d \in r.captured : d.key = c.key => d.val = c.before
    /\ IF c.before = None THEN r.req.kind \in {"create", "upsert"}
       ELSE \E d \in r.captured : d.key = c.key

(* And so are the records made of them, one per row.                       *)
RecordedOne(r) ==
  /\ \A e, f \in r.recs : e.key = f.key => e = f
  /\ \A e \in r.recs : \A c \in r.did :
       c.held /\ e.key = c.key => e.before = c.before /\ e.after = c.after

(* The rows an open transaction has changed stay locked; those of its last *)
(* operation hold what that operation wrote.                               *)
HeldOne(r, lk, nw) ==
  \A c \in r.did :
    /\ lk[c.key] = r.tx
    /\ r.pc \in {"post", "record", "insert"} => nw[c.key] = c.after

MemoryOne(r, lk, nw) ==
  /\ r.pc \in {"lock", "refresh", "query", "apply"} => FreshOne(r, lk, nw)
  /\ r.pc \in {"post", "record"} => ExactOne(r)
  /\ r.pc = "insert" => RecordedOne(r)
  /\ HeldOne(r, lk, nw)

MemoryInv ==
  \A o \in Ops : op[o].pc # "none" /\ Open(op[o].tx) => MemoryOne(op[o], lock, newest)

(* Audit rows are staged in the transaction of their operation, and only a *)
(* committed transaction has rows in the trail.                            *)
RowsInv ==
  /\ \A t \in Txs :
       /\ \A i \in DOMAIN staged[t] : op[staged[t][i].op].tx = t
       /\ ~Open(t) => staged[t] = <<>>
  /\ \A i \in DOMAIN trail :
       op[trail[i].op].tx \in Txs /\ tx[op[trail[i].op].tx] = "committed"

(* While no audit write of the transaction has failed, the staged rows of  *)
(* an operation and those it still has to insert are as many as its        *)
(* changes.                                                                *)
StagedOne(o) ==
  LET rows == RowsOf(staged[op[o].tx], o)
  IN  /\ op[o].pc \notin {"insert", "done"} => rows = {}
      /\ op[o].pc = "failed" => op[o].did = {}
      /\ op[o].pc = "insert" =>
           Cardinality(rows) + Cardinality(op[o].recs) = Cardinality(op[o].did)
      /\ op[o].pc = "done" => Cardinality(rows) = Cardinality(op[o].did)

CountInv ==
  \A o \in Ops : op[o].pc # "none" =>
    /\ Open(op[o].tx) /\ op[o].tx \notin failed => StagedOne(o)
    /\ tx[op[o].tx] = "committed" => Cardinality(RowsOf(trail, o)) = Cardinality(op[o].did)

(* An operation that has changed row k and has yet to insert its record.   *)
Pending(o, k) ==
  \/ op[o].pc \in {"post", "record"}
  \/ op[o].pc = "insert" /\ \E e \in op[o].recs : e.key = k

(* A row transaction t has changed only under its lock, and has recorded   *)
(* only when it changed it.                                                *)
Clean(t, k) ==
  /\ \A o \in Ops : op[o].tx = t => \A c \in op[o].did : c.key = k => c.held
  /\ \A i \in DOMAIN staged[t] : staged[t][i].key = k =>
       \E c \in op[staged[t][i].op].did : c.key = k

(* The staged rows of such a row lead from its committed version to the    *)
(* one the transaction sees, or to the one before the change it has yet to *)
(* record.                                                                 *)
StagedChain(t, k) ==
  /\ \A o \in Ops : op[o].tx = t /\ Pending(o, k) =>
       \A c \in op[o].did : c.key = k => Chain(staged[t], k, table[k], c.before)
  /\ (\A o \in Ops : op[o].tx = t /\ Pending(o, k) => \A c \in op[o].did : c.key # k) =>
       Chain(staged[t], k, table[k], View(t, k))

ChainInv ==
  \A t \in Txs : Open(t) /\ t \notin failed =>
    \A k \in Keys : Clean(t, k) => StagedChain(t, k)

-----------------------------------------------------------------------------
(* A sequence without rows of the key leads from a value to itself.        *)
LEMMA ChainNone ==
  ASSUME NEW s, NEW k, NEW a, \A i \in DOMAIN s : s[i].key # k
  PROVE  Chain(s, k, a, a) /\ (\A b : Chain(s, k, a, b) => a = b)
BY DEF Chain

(* Two chains that meet make one.                                          *)
LEMMA ChainConcat ==
  ASSUME NEW S, NEW s \in Seq(S), NEW r \in Seq(S), NEW k, NEW a, NEW b, NEW c,
         Chain(s, k, a, b), Chain(r, k, b, c)
  PROVE  Chain(s \o r, k, a, c)
<1> DEFINE n == Len(s)
<1> DEFINE w == s \o r
<1> DEFINE left == {i \in DOMAIN s : s[i].key = k}
<1> DEFINE right == {i \in DOMAIN r : r[i].key = k}
<1> DEFINE both == {i \in DOMAIN w : w[i].key = k}
<1>1. n \in Nat /\ left \subseteq 1 .. n /\ right \subseteq Nat \ {0}
  OBVIOUS
<1>2. \A i \in left : i \in both /\ w[i] = s[i]
  OBVIOUS
<1>3. \A i \in right : n + i \in both /\ w[n + i] = r[i]
  OBVIOUS
<1>4. \A i \in both : i \in left \/ (i - n \in right /\ n + (i - n) = i /\ i > n)
  OBVIOUS
<1>5. both \subseteq Nat
  OBVIOUS
<1>6. /\ left = {} => a = b
      /\ \A i \in left : (\A j \in left : i <= j) => s[i].before = a
      /\ \A i, j \in left : i < j /\ (\A m \in left : m <= i \/ j <= m) => s[j].before = s[i].after
      /\ \A i \in left : (\A j \in left : j <= i) => s[i].after = b
  BY DEF Chain
<1>7. /\ right = {} => b = c
      /\ \A i \in right : (\A j \in right : i <= j) => r[i].before = b
      /\ \A i, j \in right :
           i < j /\ (\A m \in right : m <= i \/ j <= m) => r[j].before = r[i].after
      /\ \A i \in right : (\A j \in right : j <= i) => r[i].after = c
  BY DEF Chain
<1> HIDE DEF n, w, left, right, both
<1>8. both = {} => a = c
  BY <1>2, <1>3, <1>6, <1>7
<1>9. ASSUME NEW i \in both, \A j \in both : i <= j PROVE w[i].before = a
  <2>1. CASE i \in left
    BY <1>1, <1>2, <1>6, <1>9, <2>1
  <2>2. CASE i \notin left
    <3>1. i - n \in right /\ w[i] = r[i - n] /\ i > n
      BY <1>3, <1>4, <2>2
    <3>2. left = {}
      <4>1. SUFFICES ASSUME NEW m \in left PROVE FALSE
        OBVIOUS
      <4>2. m \in both /\ i <= m
        BY <1>2, <1>9
      <4>3. m \in Nat /\ i \in Nat /\ m <= n
        BY <1>1, <1>5
      <4>4. QED
        BY <1>1, <3>1, <4>2, <4>3
    <3>3. ASSUME NEW j \in right PROVE i - n <= j
      <4>1. i <= n + j
        BY <1>3, <1>9
      <4>2. j \in Nat /\ i \in Nat
        BY <1>1, <1>5
      <4>3. QED
        BY <1>1, <4>1, <4>2
    <3>4. QED
      BY <1>6, <1>7, <3>1, <3>2, <3>3
  <2>3. QED
    BY <2>1, <2>2
<1>10. ASSUME NEW i \in both, NEW j \in both, i < j, \A m \in both : m <= i \/ j <= m
       PROVE  w[j].before = w[i].after
  <2>1. CASE i \in left /\ j \in left
    BY <1>1, <1>2, <1>6, <1>10, <2>1
  <2>2. CASE i \notin left /\ j \in left
    BY <1>1, <1>4, <1>5, <1>10, <2>2
  <2>3. CASE i \in left /\ j \notin left
    <3>1. j - n \in right /\ w[j] = r[j - n]
      BY <1>3, <1>4, <2>3
    <3>2. \A m \in left : m <= i
      BY <1>1, <1>2, <1>4, <1>5, <1>10, <2>3
    <3>3. \A m \in right : j - n <= m
      BY <1>1, <1>3, <1>5, <1>10, <2>3
    <3>4. QED
      BY <1>2, <1>6, <1>7, <2>3, <3>1, <3>2, <3>3
  <2>4. CASE i \notin left /\ j \notin left
    <3>1. i - n \in right /\ w[i] = r[i - n] /\ j - n \in right /\ w[j] = r[j - n]
      BY <1>3, <1>4, <2>4
    <3>2. i - n < j - n /\ \A m \in right : m <= i - n \/ j - n <= m
      BY <1>1, <1>3, <1>5, <1>10
    <3>3. QED
      BY <1>7, <3>1, <3>2
  <2>5. QED
    BY <2>1, <2>2, <2>3, <2>4
<1>11. ASSUME NEW i \in both, \A j \in both : j <= i PROVE w[i].after = c
  <2>1. CASE i \in left
    <3>1. right = {}
      BY <1>1, <1>3, <1>5, <1>11, <2>1
    <3>2. QED
      BY <1>1, <1>2, <1>6, <1>7, <1>11, <2>1, <3>1
  <2>2. CASE i \notin left
    <3>1. i - n \in right /\ w[i] = r[i - n]
      BY <1>3, <1>4, <2>2
    <3>2. ASSUME NEW j \in right PROVE j <= i - n
      <4>1. n + j <= i
        BY <1>3, <1>11
      <4>2. j \in Nat /\ i \in Nat
        BY <1>1, <1>5
      <4>3. QED
        BY <1>1, <4>1, <4>2
    <3>3. QED
      BY <1>7, <3>1, <3>2
  <2>3. QED
    BY <2>1, <2>2
<1>12. QED
  BY <1>8, <1>9, <1>10, <1>11 DEF Chain, both, w

(* A row appended to a chain that ends where the row starts extends it; a  *)
(* row of another key leaves it alone.                                     *)
LEMMA ChainAppend ==
  ASSUME NEW S, NEW s \in Seq(S), NEW e \in S, NEW k, NEW a, NEW b, Chain(s, k, a, b)
  PROVE  /\ e.key = k /\ e.before = b => Chain(Append(s, e), k, a, e.after)
         /\ e.key # k => Chain(Append(s, e), k, a, b)
<1>1. Append(s, e) = s \o <<e>> /\ <<e>> \in Seq(S)
  OBVIOUS
<1>2. e.key = k => Chain(<<e>>, k, e.before, e.after)
  BY DEF Chain
<1>3. e.key # k => Chain(<<e>>, k, b, b)
  BY DEF Chain
<1>4. QED
  BY <1>1, <1>2, <1>3, ChainConcat

(* The rows of an operation after an append and after a concatenation.     *)
LEMMA RowsFinite ==
  ASSUME NEW S, NEW s \in Seq(S), NEW o
  PROVE  IsFiniteSet(RowsOf(s, o)) /\ Cardinality(RowsOf(s, o)) \in Nat
<1>1. RowsOf(s, o) \in SUBSET (1 .. Len(s)) /\ Len(s) \in Int
  BY DEF RowsOf
<1>2. IsFiniteSet(1 .. Len(s))
  BY <1>1, FS_Interval
<1>3. IsFiniteSet(RowsOf(s, o))
  BY <1>1, <1>2, FS_Subset
<1>4. QED
  BY <1>3, FS_CardinalityType

(* A row appended to a trail counts for its own operation.                 *)
LEMMA RowsAppend ==
  ASSUME NEW S, NEW s \in Seq(S), NEW e \in S, NEW o
  PROVE  /\ e.op # o => RowsOf(Append(s, e), o) = RowsOf(s, o)
         /\ e.op = o => Cardinality(RowsOf(Append(s, e), o)) = Cardinality(RowsOf(s, o)) + 1
<1> DEFINE n == Len(s) + 1
<1>1. e.op # o => RowsOf(Append(s, e), o) = RowsOf(s, o)
  BY DEF RowsOf
<1>2. e.op = o => RowsOf(Append(s, e), o) = RowsOf(s, o) \cup {n}
  BY DEF RowsOf
<1>3. n \notin RowsOf(s, o)
  BY DEF RowsOf
<1>4. QED
  BY <1>1, <1>2, <1>3, RowsFinite, FS_AddElement

(* The rows of an operation after a commit appended a trail to another.    *)
LEMMA RowsConcat ==
  ASSUME NEW S, NEW s \in Seq(S), NEW r \in Seq(S), NEW o
  PROVE  /\ RowsOf(r, o) = {} => RowsOf(s \o r, o) = RowsOf(s, o)
         /\ RowsOf(s, o) = {} =>
              Cardinality(RowsOf(s \o r, o)) = Cardinality(RowsOf(r, o))
<1> DEFINE n == Len(s)
<1> DEFINE R == RowsOf(r, o)
<1> DEFINE f == [i \in R |-> n + i]
<1>1. RowsOf(r, o) = {} => RowsOf(s \o r, o) = RowsOf(s, o)
  BY DEF RowsOf
<1>2. ASSUME RowsOf(s, o) = {} PROVE RowsOf(s \o r, o) = {f[i] : i \in R}
  <2>1. \A i \in R : f[i] \in RowsOf(s \o r, o)
    BY DEF RowsOf
  <2>2. ASSUME NEW j \in RowsOf(s \o r, o) PROVE j - n \in R /\ f[j - n] = j
    <3>1. j \in 1 .. n + Len(r) /\ (s \o r)[j].op = o
      BY DEF RowsOf
    <3>2. j > n
      BY <1>2, <3>1 DEF RowsOf
    <3>3. j - n \in 1 .. Len(r) /\ (s \o r)[j] = r[j - n]
      BY <3>1, <3>2
    <3>4. j - n \in R
      BY <3>1, <3>3 DEF RowsOf
    <3>5. QED
      BY <3>1, <3>4
  <2> HIDE DEF R, f
  <2>3. QED
    BY <2>1, <2>2
<1>3. R \subseteq Nat /\ n \in Nat
  BY DEF RowsOf
<1>4. \A i, j \in R : f[i] = f[j] => i = j
  BY <1>3
<1>5. IsFiniteSet(R)
  BY RowsFinite
<1>6. f = [i \in R |-> f[i]]
  OBVIOUS
<1> HIDE DEF f, R
<1>7. Cardinality({f[i] : i \in R}) = Cardinality(R)
  BY <1>4, <1>5, <1>6, ImageSize
<1>8. QED
  BY <1>1, <1>2, <1>7 DEF R

-----------------------------------------------------------------------------
(* What each step of an operation leaves alone.                            *)
LEMMA OpFrame ==
  ASSUME TInv, NEW o \in Ops, OpStep(o)
  PROVE  /\ tx' = tx /\ trail' = trail
         /\ \A q \in Ops : q # o => op'[q] = op[q]
         /\ op[o].pc \notin {"done", "failed"} /\ op'[o].pc # "none"
         /\ op[o].pc # "none" =>
              op'[o].tx = op[o].tx /\ op'[o].req = op[o].req /\ op'[o].outer = op[o].outer
<1>1. op \in [Ops -> OpRec]
  BY DEF TInv, Types
<1> DEFINE same(r) == r.tx = op[o].tx /\ r.req = op[o].req /\ r.outer = op[o].outer
<1>2. ASSUME NEW t \in Txs, NEW r \in Requests, Start(o, t, r)
      PROVE  /\ \A q \in Ops : q # o => op'[q] = op[q]
             /\ op[o].pc = "none" /\ op'[o].pc # "none"
  <2> DEFINE first == IF r.kind = "create" THEN "query" ELSE "read"
  <2>1. PICK outer \in {FALSE, OuterClient} :
          op' = [op EXCEPT ![o] = [Blank EXCEPT !.pc = first, !.tx = t, !.outer = outer,
                                                !.req = r]]
    BY <1>2 DEF Start
  <2>2. first # "none"
    OBVIOUS
  <2> HIDE DEF first
  <2>3. Blank \in OpRec
    BY DEF Blank, OpRec, Stages
  <2>4. [Blank EXCEPT !.pc = first, !.tx = t, !.outer = outer, !.req = r].pc = first
    BY <2>3 DEF OpRec
  <2>5. QED
    BY <1>1, <1>2, <2>1, <2>2, <2>4 DEF Start
<1>3. ASSUME PreReadOne(o) \/ PreReadMany(o)
      PROVE  /\ \A q \in Ops : q # o => op'[q] = op[q]
             /\ op[o].pc = "read" /\ op'[o].pc # "none" /\ same(op'[o])
  <2>1. PICK r : op' = [op EXCEPT ![o] = r] /\ (\/ r = [op[o] EXCEPT !.pc = "failed"]
                                               \/ \E todo : r = Captured(o, todo))
    BY <1>3 DEF PreReadOne, PreReadMany
  <2>2. r.pc # "none" /\ same(r)
    BY <1>1, <2>1 DEF Captured, OpRec
  <2>3. QED
    BY <1>1, <1>3, <2>1, <2>2 DEF PreReadOne, PreReadMany
<1>4. ASSUME LockRow(o)
      PROVE  /\ \A q \in Ops : q # o => op'[q] = op[q]
             /\ op[o].pc \notin {"none", "done", "failed"} /\ op'[o].pc # "none"
             /\ same(op'[o])
  BY <1>1, <1>4 DEF LockRow, OpRec
<1>5. ASSUME RefreshRow(o)
      PROVE  /\ \A q \in Ops : q # o => op'[q] = op[q]
             /\ op[o].pc \notin {"none", "done", "failed"} /\ op'[o].pc # "none"
             /\ same(op'[o])
  <2> DEFINE todo == op[o].todo \ {op[o].at}
  <2> DEFINE next == IF op[o].todo = {op[o].at} THEN "query" ELSE "lock"
  <2>1. PICK captured :
          op' = [op EXCEPT ![o].pc = next, ![o].at = None, ![o].todo = todo,
                           ![o].captured = captured]
    BY <1>1, <1>5 DEF RefreshRow, OpRec
  <2>2. next # "none"
    OBVIOUS
  <2> HIDE DEF next, todo
  <2>3. op[o].pc = "refresh"
    BY <1>5 DEF RefreshRow
  <2>4. QED
    BY <1>1, <2>1, <2>2, <2>3 DEF OpRec
<1>6. ASSUME SnapshotStmt(o)
      PROVE  /\ \A q \in Ops : q # o => op'[q] = op[q]
             /\ op[o].pc \notin {"none", "done", "failed"} /\ op'[o].pc # "none"
             /\ same(op'[o])
  BY <1>1, <1>6 DEF SnapshotStmt, OpRec
<1>7. ASSUME NotFound(o)
      PROVE  /\ \A q \in Ops : q # o => op'[q] = op[q]
             /\ op[o].pc \notin {"none", "done", "failed"} /\ op'[o].pc # "none"
             /\ same(op'[o])
  BY <1>1, <1>7 DEF NotFound, OpRec
<1>8. ASSUME QueryFails(o)
      PROVE  /\ \A q \in Ops : q # o => op'[q] = op[q]
             /\ op[o].pc \notin {"none", "done", "failed"} /\ op'[o].pc # "none"
             /\ same(op'[o])
  BY <1>1, <1>8 DEF QueryFails, OpRec
<1>9. ASSUME PostRead(o)
      PROVE  /\ \A q \in Ops : q # o => op'[q] = op[q]
             /\ op[o].pc \notin {"none", "done", "failed"} /\ op'[o].pc # "none"
             /\ same(op'[o])
  BY <1>1, <1>9 DEF PostRead, OpRec
<1>10. ASSUME AuditFails(o)
      PROVE  /\ \A q \in Ops : q # o => op'[q] = op[q]
             /\ op[o].pc \notin {"none", "done", "failed"} /\ op'[o].pc # "none"
             /\ same(op'[o])
  BY <1>1, <1>10 DEF AuditFails, OpRec
<1>11. ASSUME ApplyStmt(o)
      PROVE  /\ \A q \in Ops : q # o => op'[q] = op[q]
             /\ op[o].pc \notin {"none", "done", "failed"} /\ op'[o].pc # "none"
             /\ same(op'[o])
  BY <1>1, <1>11 DEF ApplyStmt, OpRec, AfterStmt
<1>12. ASSUME InsertRecord(o)
      PROVE  /\ \A q \in Ops : q # o => op'[q] = op[q]
             /\ op[o].pc \notin {"none", "done", "failed"} /\ op'[o].pc # "none"
             /\ same(op'[o])
  BY <1>1, <1>12 DEF InsertRecord, OpRec
<1>13. tx' = tx /\ trail' = trail
  BY DEF OpStep, Start, PreReadOne, PreReadMany, LockRow, RefreshRow, SnapshotStmt, NotFound,
         QueryFails, PostRead, AuditFails, ApplyStmt, StoreRows, InsertRecord, db
<1>14. QED
  BY <1>2, <1>3, <1>4, <1>5, <1>6, <1>7, <1>8, <1>9, <1>10, <1>11, <1>12, <1>13 DEF OpStep

(* An operation that has not been called can only be called.               *)
LEMMA Called ==
  ASSUME NEW o \in Ops, OpStep(o), op[o].pc = "none"
  PROVE  \E t \in Txs, r \in Requests : Start(o, t, r)
BY DEF OpStep, PreReadOne, PreReadMany, LockRow, RefreshRow, SnapshotStmt, NotFound, QueryFails,
       PostRead, AuditFails, ApplyStmt, InsertRecord

(* A step of an operation writes rows only when it applies its statement,  *)
(* locks rows only there and before its reads again, and fails no scope    *)
(* but its own.                                                            *)
LEMMA RowsFrame ==
  ASSUME NEW o \in Ops, OpStep(o)
  PROVE  /\ ~ApplyStmt(o) => table' = table /\ newest' = newest
         /\ ~ApplyStmt(o) /\ ~LockRow(o) => lock' = lock
         /\ failed' = failed \/ (failed' = failed \cup {op[o].tx} /\ op[o].pc # "none")
<1>1. ~ApplyStmt(o) => table' = table /\ newest' = newest
  BY DEF OpStep, Start, PreReadOne, PreReadMany, LockRow, RefreshRow, SnapshotStmt, NotFound,
         QueryFails, PostRead, AuditFails, InsertRecord, db
<1>2. ~ApplyStmt(o) /\ ~LockRow(o) => lock' = lock
  BY DEF OpStep, Start, PreReadOne, PreReadMany, RefreshRow, SnapshotStmt, NotFound,
         QueryFails, PostRead, AuditFails, InsertRecord, db
<1>3. failed' = failed \/ (failed' = failed \cup {op[o].tx} /\ op[o].pc # "none")
  <2>1. CASE ApplyStmt(o)
    BY <2>1 DEF ApplyStmt
  <2>2. CASE ~ApplyStmt(o)
    BY <2>2 DEF OpStep, Start, PreReadOne, PreReadMany, LockRow, RefreshRow, SnapshotStmt,
       NotFound, QueryFails, PostRead, AuditFails, InsertRecord
  <2>3. QED
    BY <2>1, <2>2
<1>4. QED
  BY <1>1, <1>2, <1>3

(* The memory of an operation just called: r the request, t the scope.     *)
Fresh(b, t, r) ==
  /\ b.pc = IF r.kind = "create" THEN "query" ELSE "read"
  /\ b.tx = t /\ b.req = r /\ b.outer = FALSE
  /\ b.todo = {} /\ b.captured = {} /\ b.did = {}

(* The scope has no other operation in flight.                             *)
Quiet(t) == tx[t] = "open" /\ \A q \in Ops : op[q].tx = t => op[q].pc \in Settled

(* A called operation has a blank memory, in a quiet scope.                *)
LEMMA StartEffect ==
  ASSUME TInv, Disciplined, NEW o \in Ops, NEW t \in Txs, NEW r \in Requests, Start(o, t, r)
  PROVE  Quiet(t) /\ Fresh(op'[o], t, r)
<1>1. PICK outer \in {FALSE, OuterClient} :
        op' = [op EXCEPT ![o] = [Blank EXCEPT
                !.pc = IF r.kind = "create" THEN "query" ELSE "read",
                !.tx = t, !.outer = outer, !.req = r]]
  BY DEF Start
<1>2. outer = FALSE
  BY ModeAssumption DEF Disciplined
<1>3. Blank \in OpRec /\ Blank.todo = {} /\ Blank.captured = {} /\ Blank.did = {}
  BY DEF Blank, OpRec, Stages
<1>4. op'[o] = [Blank EXCEPT !.pc = IF r.kind = "create" THEN "query" ELSE "read",
                             !.tx = t, !.outer = FALSE, !.req = r]
  BY <1>1, <1>2 DEF TInv, Types
<1>5. /\ op'[o].pc = IF r.kind = "create" THEN "query" ELSE "read"
      /\ op'[o].tx = t /\ op'[o].req = r /\ op'[o].outer = FALSE
      /\ op'[o].todo = {} /\ op'[o].captured = {} /\ op'[o].did = {}
  BY <1>3, <1>4 DEF OpRec
<1>6. Quiet(t)
  BY DEF Start, Disciplined, Quiet
<1>7. QED
  BY <1>5, <1>6 DEF Fresh

(* A hook captures every row its where selects, as its transaction sees    *)
(* it, or fails having changed nothing.                                    *)
LEMMA PreReadEffect ==
  ASSUME TInv, NEW o \in Ops, PreReadOne(o) \/ PreReadMany(o)
  PROVE  /\ Live(op[o].tx) /\ op[o].pc = "read" /\ op'[o].did = op[o].did
         /\ \/ op'[o].pc = "failed" /\ op'[o].captured = op[o].captured
                 /\ op'[o].todo = op[o].todo
            \/ LET todo == Match(op[o].tx, op[o].req)
               IN  /\ op'[o].pc = IF todo = {} THEN "query" ELSE "lock"
                   /\ op'[o].todo = todo
                   /\ op'[o].captured =
                        {[key |-> k, val |-> View(op[o].tx, k)] : k \in todo}
<1>1. op \in [Ops -> OpRec]
  BY DEF TInv, Types
<1>2. op[o].pc = "read" /\ Live(op[o].tx)
  BY DEF PreReadOne, PreReadMany
<1>3. op[o].req \in Requests
  BY <1>2 DEF TInv, HookInv, HookOne
<1>4. \A todo : /\ Captured(o, todo).pc = IF todo = {} THEN "query" ELSE "lock"
                /\ Captured(o, todo).todo = todo
                /\ Captured(o, todo).captured =
                     {[key |-> k, val |-> View(op[o].tx, k)] : k \in todo}
                /\ Captured(o, todo).did = op[o].did
  BY <1>1 DEF Captured, OpRec
<1>5. CASE PreReadOne(o)
  <2> DEFINE found == Match(op[o].tx, op[o].req)
  <2>1. PICK k \in Keys : op[o].req.keys = {k}
    BY <1>3, <1>5, RequestAssumption DEF PreReadOne
  <2>2. found = {} \/ found = {k}
    BY <2>1 DEF Match
  <2>3. op' = [op EXCEPT ![o] = Captured(o, found)]
    BY <1>5, <2>2 DEF PreReadOne
  <2> HIDE DEF found
  <2>4. op'[o] = Captured(o, found)
    BY <1>1, <2>3
  <2>5. QED
    BY <1>2, <1>4, <2>4 DEF found
<1>6. CASE PreReadMany(o)
  <2> DEFINE found == Match(op[o].tx, op[o].req)
  <2>1. \/ op'[o] = [op[o] EXCEPT !.pc = "failed"]
        \/ op'[o] = Captured(o, found)
    BY <1>1, <1>6 DEF PreReadMany
  <2> HIDE DEF found
  <2>2. CASE op'[o] = [op[o] EXCEPT !.pc = "failed"]
    BY <1>1, <1>2, <2>2 DEF OpRec
  <2>3. CASE op'[o] = Captured(o, found)
    BY <1>2, <1>4, <2>3 DEF found
  <2>4. QED
    BY <2>1, <2>2, <2>3
<1>7. QED
  BY <1>5, <1>6

(* A refreshed row is captured as it is now, or no longer.                 *)
LEMMA RefreshEffect ==
  ASSUME TInv, NEW o \in Ops, RefreshRow(o)
  PROVE  LET k == op[o].at
             now == View(op[o].tx, k)
         IN  /\ Live(op[o].tx) /\ op[o].pc = "refresh" /\ k \in op[o].todo
             /\ op'[o].pc = IF op[o].todo = {k} THEN "query" ELSE "lock"
             /\ op'[o].todo = op[o].todo \ {k} /\ op'[o].did = op[o].did
             /\ op'[o].captured = {c \in op[o].captured : c.key # k} \cup
                  (IF now = None THEN {} ELSE {[key |-> k, val |-> now]})
<1> DEFINE k == op[o].at
<1> DEFINE now == View(op[o].tx, k)
<1> DEFINE captured == {c \in op[o].captured : c.key # k} \cup
                         (IF now = None THEN {} ELSE {[key |-> k, val |-> now]})
<1> DEFINE next == IF op[o].todo = {k} THEN "query" ELSE "lock"
<1>1. op \in [Ops -> OpRec] /\ op[o].pc = "refresh" /\ Live(op[o].tx)
  BY DEF TInv, Types, RefreshRow
<1>2. op' = [op EXCEPT ![o].pc = next, ![o].at = None, ![o].todo = op[o].todo \ {k},
                       ![o].captured = captured]
  BY <1>1 DEF RefreshRow, OpRec
<1>3. k \in op[o].todo
  BY <1>1 DEF TInv, HookInv, HookOne
<1> HIDE DEF captured, next
<1>4. /\ op'[o].pc = next /\ op'[o].todo = op[o].todo \ {k} /\ op'[o].did = op[o].did
      /\ op'[o].captured = captured
  BY <1>1, <1>2 DEF OpRec
<1>5. QED
  BY <1>1, <1>3, <1>4 DEF captured, next

(* What the other steps write into the memory of their operation.          *)
LEMMA LockEffect ==
  ASSUME TInv, NEW o \in Ops, LockRow(o)
  PROVE  /\ Live(op[o].tx) /\ op[o].pc = "lock" /\ op'[o].pc = "refresh"
         /\ op'[o].todo = op[o].todo /\ op'[o].did = op[o].did
         /\ op'[o].captured = op[o].captured
         /\ \E k \in op[o].todo :
              /\ lock[k] \in {None, op[o].tx}
              /\ lock' = IF newest[k] = None THEN lock ELSE [lock EXCEPT ![k] = op[o].tx]
<1>1. op \in [Ops -> OpRec]
  BY DEF TInv, Types
<1>2. PICK k \in op[o].todo :
        /\ lock[k] \in {None, op[o].tx}
        /\ lock' = IF newest[k] = None THEN lock ELSE [lock EXCEPT ![k] = op[o].tx]
        /\ op' = [op EXCEPT ![o].pc = "refresh", ![o].at = k]
  BY DEF LockRow
<1>3. /\ op'[o].pc = "refresh" /\ op'[o].todo = op[o].todo /\ op'[o].did = op[o].did
      /\ op'[o].captured = op[o].captured
  BY <1>1, <1>2 DEF OpRec
<1>4. Live(op[o].tx) /\ op[o].pc = "lock"
  BY DEF LockRow
<1>5. QED
  BY ONLY <1>2, <1>3, <1>4

(* The snapshot fixes the rows the statement will change.                  *)
LEMMA SnapshotEffect ==
  ASSUME TInv, NEW o \in Ops, SnapshotStmt(o)
  PROVE  /\ op[o].outer \/ Live(op[o].tx)
         /\ op[o].pc = "query" /\ op'[o].pc = "apply"
         /\ op'[o].todo = op[o].todo /\ op'[o].did = op[o].did
         /\ op'[o].captured = op[o].captured
         /\ op'[o].cand \subseteq op[o].req.keys
         /\ op[o].req.kind \in {"create", "upsert"} => op'[o].cand = op[o].req.keys
<1>1. op \in [Ops -> OpRec]
  BY DEF TInv, Types
<1> DEFINE cand == IF op[o].req.kind \in {"create", "upsert"} THEN op[o].req.keys
                   ELSE IF op[o].outer THEN {k \in op[o].req.keys : table[k] \in op[o].req.vals}
                   ELSE Match(op[o].tx, op[o].req)
<1>2. /\ op' = [op EXCEPT ![o].pc = "apply", ![o].cand = cand]
      /\ cand \subseteq op[o].req.keys
      /\ op[o].req.kind \in {"create", "upsert"} => cand = op[o].req.keys
  BY DEF SnapshotStmt, Match
<1> HIDE DEF cand
<1>3. QED
  BY <1>1, <1>2 DEF SnapshotStmt, OpRec

(* A deleteMany whose counts differ fails its scope.                       *)
Short(o) ==
  op[o].req.kind = "deleteMany" /\ Cardinality(Written(o)) # Cardinality(op[o].captured)

(* The statement writes its rows under their locks.                        *)
LEMMA ApplyEffect ==
  ASSUME TInv, NEW o \in Ops, ApplyStmt(o), ~op[o].outer
  PROVE  /\ Live(op[o].tx) /\ op[o].pc = "apply"
         /\ op'[o].pc = IF Short(o) THEN "failed" ELSE AfterStmt(op[o].req.kind)
         /\ op'[o].did = {Change(o, k) : k \in Written(o)}
         /\ op'[o].todo = op[o].todo /\ op'[o].captured = op[o].captured
         /\ failed' = IF Short(o) THEN failed \cup {op[o].tx} ELSE failed
         /\ table' = table /\ trail' = trail /\ staged' = staged
         /\ newest' = [k \in Keys |-> IF k \in Written(o) THEN NewValue(o) ELSE newest[k]]
         /\ lock' = [k \in Keys |-> IF k \in op[o].cand THEN op[o].tx ELSE lock[k]]
         /\ Written(o) \subseteq op[o].cand
         /\ \A k \in op[o].cand : lock[k] \in {None, op[o].tx}
<1>1. op \in [Ops -> OpRec]
  BY DEF TInv, Types
<1>2. op' = [op EXCEPT ![o].pc = IF Short(o) THEN "failed" ELSE AfterStmt(op[o].req.kind),
                       ![o].did = {Change(o, k) : k \in Written(o)}]
  BY DEF ApplyStmt, Short
<1>3. /\ op'[o].pc = IF Short(o) THEN "failed" ELSE AfterStmt(op[o].req.kind)
      /\ op'[o].did = {Change(o, k) : k \in Written(o)}
      /\ op'[o].todo = op[o].todo /\ op'[o].captured = op[o].captured
  BY <1>1, <1>2 DEF OpRec
<1>4. Written(o) \subseteq op[o].cand /\ \A k \in op[o].cand : lock[k] \in {None, op[o].tx}
  BY DEF ApplyStmt, Written, Free
<1>5. QED
  BY <1>3, <1>4 DEF ApplyStmt, StoreRows, Short

(* A failure settles its operation and changes no row.                     *)
LEMMA FailureEffect ==
  ASSUME TInv, NEW o \in Ops, NotFound(o) \/ QueryFails(o) \/ AuditFails(o)
  PROVE  /\ op'[o].pc = "failed" /\ op'[o].todo = op[o].todo /\ op'[o].did = op[o].did
         /\ op'[o].captured = op[o].captured /\ op'[o].recs = op[o].recs
         /\ UNCHANGED <<table, newest, lock, trail, staged, tx>>
         /\ \/ AuditFails(o) /\ failed' = failed \cup {op[o].tx}
            \/ op[o].pc \in {"query", "apply"} /\ failed' = failed
BY DEF TInv, Types, NotFound, QueryFails, AuditFails, OpRec, db

(* The post-read writes down the records to insert.                        *)
LEMMA PostReadEffect ==
  ASSUME TInv, NEW o \in Ops, PostRead(o)
  PROVE  /\ op[o].pc \in {"post", "record"} /\ (op[o].pc = "post" => Live(op[o].tx))
         /\ op'[o].recs = IF op[o].did = {} THEN {} ELSE Records(o)
         /\ op'[o].pc = IF op'[o].recs = {} THEN "done" ELSE "insert"
         /\ op'[o].todo = op[o].todo /\ op'[o].did = op[o].did
         /\ op'[o].captured = op[o].captured
<1> DEFINE recs == IF op[o].did = {} THEN {} ELSE Records(o)
<1>1. op \in [Ops -> OpRec]
  BY DEF TInv, Types
<1>2. op' = [op EXCEPT ![o].recs = recs, ![o].pc = IF recs = {} THEN "done" ELSE "insert"]
  BY DEF PostRead
<1> HIDE DEF recs
<1>3. /\ op'[o].recs = recs /\ op'[o].pc = IF recs = {} THEN "done" ELSE "insert"
      /\ op'[o].todo = op[o].todo /\ op'[o].did = op[o].did
      /\ op'[o].captured = op[o].captured
  BY <1>1, <1>2 DEF OpRec
<1>4. QED
  BY <1>3 DEF PostRead, recs

(* An audit insert stages one record.                                      *)
LEMMA InsertEffect ==
  ASSUME TInv, NEW o \in Ops, InsertRecord(o)
  PROVE  /\ Live(op[o].tx) /\ op[o].pc = "insert"
         /\ op'[o].todo = op[o].todo /\ op'[o].did = op[o].did
         /\ op'[o].captured = op[o].captured
         /\ \E e \in op[o].recs :
              /\ staged' = [staged EXCEPT ![op[o].tx] = Append(@, AuditRow(o, e))]
              /\ op'[o].recs = op[o].recs \ {e}
              /\ op'[o].pc = IF op[o].recs = {e} THEN "done" ELSE "insert"
<1>1. op \in [Ops -> OpRec] /\ op[o].pc = "insert" /\ Live(op[o].tx)
  BY DEF TInv, Types, InsertRecord
<1>2. PICK e \in op[o].recs :
        /\ staged' = [staged EXCEPT ![op[o].tx] = Append(@, AuditRow(o, e))]
        /\ op' = [op EXCEPT ![o].recs = @ \ {e},
                            ![o].pc = IF op[o].recs = {e} THEN "done" ELSE @]
  BY DEF InsertRecord
<1>3. /\ op'[o].todo = op[o].todo /\ op'[o].did = op[o].did
      /\ op'[o].captured = op[o].captured
      /\ op'[o].recs = op[o].recs \ {e}
      /\ op'[o].pc = IF op[o].recs = {e} THEN "done" ELSE "insert"
  BY <1>1, <1>2 DEF OpRec
<1>4. QED
  BY ONLY <1>1, <1>2, <1>3

(* Every step keeps the scopes in order.                                   *)
LEMMA ScopeStep ==
  ASSUME TInv, Disciplined, ScopeInv, [Next]_vars
  PROVE  ScopeInv'
<1>1. CASE UNCHANGED vars
  BY <1>1 DEF vars, ScopeInv
<1>2. ASSUME NEW o \in Ops, OpStep(o) PROVE ScopeInv'
  <2>1. /\ tx' = tx
        /\ \A q \in Ops : q # o => op'[q] = op[q]
        /\ op[o].pc \notin {"done", "failed"} /\ op'[o].pc # "none"
        /\ op[o].pc # "none" =>
             op'[o].tx = op[o].tx /\ op'[o].req = op[o].req /\ op'[o].outer = op[o].outer
    BY <1>2, OpFrame
  <2>2. op[o].pc = "none" =>
          \E t \in Txs : /\ tx[t] = "open" /\ \A q \in Ops : op[q].tx = t => op[q].pc \in Settled
                         /\ op'[o].tx = t /\ op'[o].outer = FALSE
    <3> SUFFICES ASSUME op[o].pc = "none"
                 PROVE  \E t \in Txs :
                          /\ tx[t] = "open" /\ \A q \in Ops : op[q].tx = t => op[q].pc \in Settled
                          /\ op'[o].tx = t /\ op'[o].outer = FALSE
      OBVIOUS
    <3>1. PICK t \in Txs, r \in Requests : Start(o, t, r)
      BY <1>2, Called
    <3>2. Quiet(t) /\ Fresh(op'[o], t, r)
      BY <3>1, <1>2, StartEffect
    <3>3. QED
      BY <3>2 DEF Quiet, Fresh
  <2>3. failed' = failed \/ (failed' = failed \cup {op[o].tx} /\ op[o].pc # "none")
    BY <1>2, RowsFrame
  <2>4. op[o].pc # "none" => op[o].tx \in Txs /\ tx[op[o].tx] \in {"open", "rolledBack"}
    BY <2>1 DEF ScopeInv, Settled, TInv, HookInv, HookOne
  <2>5. \A q \in Ops : /\ ~op'[q].outer
                       /\ op'[q].pc # "none" => tx[op'[q].tx] # "idle"
                       /\ op'[q].pc \notin Settled => tx[op'[q].tx] \in {"open", "rolledBack"}
    BY <2>1, <2>2, <2>4 DEF ScopeInv
  <2>6. \A p, q \in Ops :
          op'[p].pc \notin Settled /\ op'[q].pc \notin Settled /\ op'[p].tx = op'[q].tx => p = q
    BY <2>1, <2>2 DEF ScopeInv, Settled
  <2>7. \A t \in Txs : tx[t] \in {"returning", "committed"} => t \notin failed'
    BY <2>3, <2>4 DEF ScopeInv
  <2>8. QED
    BY <2>1, <2>5, <2>6, <2>7 DEF ScopeInv
<1>3. ASSUME NEW t \in Txs, TxStep(t) PROVE ScopeInv'
  <2>1. op' = op /\ failed' = failed /\ tx \in [Txs -> TxState]
    BY <1>3 DEF TxStep, Begin, Return, Commit, RollBack, TInv, Types
  <2>2. \A o \in Ops : op[o].pc # "none" => op[o].tx \in Txs
    BY DEF TInv, HookInv, HookOne
  <2>3. CASE Begin(t)
    BY <2>1, <2>2, <2>3 DEF Begin, ScopeInv
  <2>4. CASE Return(t)
    BY <2>1, <2>2, <2>4 DEF Return, ScopeInv, Disciplined
  <2>5. CASE Commit(t)
    BY <2>1, <2>2, <2>5 DEF Commit, ScopeInv, Settled
  <2>6. CASE RollBack(t)
    BY <2>1, <2>2, <2>6 DEF RollBack, ScopeInv, Settled
  <2>7. QED
    BY <1>3, <2>3, <2>4, <2>5, <2>6 DEF TxStep
<1>4. QED
  BY <1>1, <1>2, <1>3 DEF Next

(* The rows a statement writes are as many as its changes.                 *)
LEMMA ChangeSize ==
  ASSUME TInv, NEW o \in Ops, op[o].pc # "none"
  PROVE  Cardinality({Change(o, k) : k \in Written(o)}) = Cardinality(Written(o))
<1> DEFINE f == [k \in Written(o) |-> Change(o, k)]
<1>1. {Change(o, k) : k \in Written(o)} = {f[k] : k \in Written(o)}
  OBVIOUS
<1>2. \A j, k \in Written(o) : f[j] = f[k] => j = k
  BY DEF Change
<1>3. IsFiniteSet(Written(o))
  BY ChangeTypes, KeysAssumption, FS_Subset
<1>4. f = [k \in Written(o) |-> f[k]]
  OBVIOUS
<1> HIDE DEF f
<1>5. QED
  BY <1>1, <1>2, <1>3, <1>4, ImageSize

(* Every step keeps the locks in order.                                    *)
LEMMA LockStep ==
  ASSUME TInv, ScopeInv, LockInv, [Next]_vars
  PROVE  LockInv'
<1> USE DEF LockInv, Open
<1>1. lock \in [Keys -> Txs \cup {None}] /\ tx \in [Txs -> TxState]
  BY DEF TInv, Types
<1>2. CASE UNCHANGED <<table, newest, lock, tx>>
  BY <1>2
<1>3. ASSUME NEW o \in Ops, LockRow(o) PROVE LockInv'
  <2>1. tx' = tx /\ table' = table /\ newest' = newest
    BY <1>3 DEF LockRow
  <2>2. op[o].tx \in Txs /\ tx[op[o].tx] \in {"open", "returning"}
    BY <1>3 DEF LockRow, Live, TInv, HookInv, HookOne
  <2>3. PICK k \in op[o].todo :
          lock' = IF newest[k] = None THEN lock ELSE [lock EXCEPT ![k] = op[o].tx]
    BY <1>3 DEF LockRow
  <2>4. \A j \in Keys : lock'[j] = lock[j] \/ lock'[j] = op[o].tx
    BY <1>1, <2>3
  <2>5. QED
    BY <2>1, <2>2, <2>4, NoneAssumption
<1>4. ASSUME NEW o \in Ops, ApplyStmt(o) PROVE LockInv'
  <2>1. op[o].tx \in Txs /\ tx[op[o].tx] \in {"open", "returning"} /\ tx' = tx
    BY <1>4 DEF ApplyStmt, Live, TInv, HookInv, HookOne, ScopeInv
  <2>2. /\ table' = table /\ Written(o) \subseteq op[o].cand
        /\ newest' = [k \in Keys |-> IF k \in Written(o) THEN NewValue(o) ELSE newest[k]]
        /\ lock' = [k \in Keys |-> IF k \in op[o].cand THEN op[o].tx ELSE lock[k]]
    BY <1>4, ApplyEffect DEF ScopeInv
  <2>3. QED
    BY <2>1, <2>2, NoneAssumption
<1>5. ASSUME NEW t \in Txs, TxStep(t) PROVE LockInv'
  <2>1. CASE Begin(t) \/ Return(t)
    BY <1>1, <2>1 DEF Begin, Return, db
  <2>2. CASE Commit(t)
    BY <1>1, <2>2, NoneAssumption DEF Commit
  <2>3. CASE RollBack(t)
    BY <1>1, <2>3, NoneAssumption DEF RollBack, RollBackRows
  <2>4. QED
    BY <1>5, <2>1, <2>2, <2>3 DEF TxStep
<1>6. ASSUME NEW o \in Ops, OpStep(o), ~LockRow(o), ~ApplyStmt(o)
      PROVE  UNCHANGED <<table, newest, lock, tx>>
  BY <1>6 DEF OpStep, Start, PreReadOne, PreReadMany, RefreshRow, SnapshotStmt, NotFound,
     QueryFails, PostRead, AuditFails, InsertRecord, db
<1>7. UNCHANGED vars => UNCHANGED <<table, newest, lock, tx>>
  BY DEF vars, db
<1>8. QED
  BY <1>2, <1>3, <1>4, <1>5, <1>6, <1>7 DEF Next

(* Every step keeps the memories of the operations in order.               *)
LEMMA StageStep ==
  ASSUME TInv, Disciplined, ScopeInv, StageInv, [Next]_vars
  PROVE  StageInv'
<1>1. CASE op' = op
  BY <1>1 DEF StageInv
<1>2. ASSUME NEW o \in Ops, OpStep(o) PROVE StageInv'
  <2> DEFINE a == op[o]
  <2> DEFINE b == op'[o]
  <2>1. \A q \in Ops : q # o => op'[q] = op[q]
    BY <1>2, OpFrame
  <2>2. SUFFICES StageOne(b)
    BY <2>1 DEF StageInv
  <2>3. CASE \E t \in Txs, r \in Requests : Start(o, t, r)
    <3>1. PICK t \in Txs, r \in Requests : Start(o, t, r)
      BY <2>3
    <3>2. Fresh(b, t, r)
      BY <3>1, StartEffect
    <3> HIDE DEF b
    <3>3. QED
      BY <3>2 DEF StageOne, Fresh
  <2>4. SUFFICES ASSUME a.pc # "none" PROVE StageOne(b)
    BY <1>2, <2>3, Called
  <2>5. StageOne(a) /\ b.req = a.req /\ b.tx = a.tx /\ ~a.outer
    BY <1>2, <2>4, OpFrame DEF StageInv, ScopeInv
  <2>6. a.req \in Requests /\ a.req.vals \subseteq Vals /\ a.req.kind \in Kinds
        /\ a.todo \subseteq {c.key : c \in a.captured}
    BY <2>4, RequestAssumption DEF TInv, HookInv, HookOne, Request
  <2>7. CASE PreReadOne(o) \/ PreReadMany(o)
    <3> DEFINE todo == Match(a.tx, a.req)
    <3>1. /\ a.pc = "read" /\ b.did = a.did
          /\ \/ b.pc = "failed" /\ b.captured = a.captured /\ b.todo = a.todo
             \/ /\ b.pc = IF todo = {} THEN "query" ELSE "lock"
                /\ b.todo = todo
                /\ b.captured = {[key |-> k, val |-> View(a.tx, k)] : k \in todo}
      BY <2>7, PreReadEffect
    <3>2. \A k \in todo : k \in a.req.keys /\ View(a.tx, k) # None
      BY <2>6, NoneAssumption DEF Match
    <3> HIDE DEF todo, a, b
    <3>3. CASE b.pc = "failed" /\ b.captured = a.captured /\ b.todo = a.todo
      BY <2>5, <3>1, <3>3 DEF StageOne
    <3>4. CASE /\ b.pc = IF todo = {} THEN "query" ELSE "lock"
               /\ b.todo = todo
               /\ b.captured = {[key |-> k, val |-> View(a.tx, k)] : k \in todo}
      <4>1. \A c \in b.captured : c.key \in a.req.keys /\ c.val # None
        BY <3>2, <3>4
      <4>2. \A c, d \in b.captured : c.key = d.key => c = d
        BY <3>4
      <4>3. QED
        BY <2>5, <3>1, <3>4, <4>1, <4>2 DEF StageOne
    <3>5. QED
      BY <3>1, <3>3, <3>4
  <2>8. CASE LockRow(o) \/ SnapshotStmt(o) \/ NotFound(o) \/ QueryFails(o) \/ AuditFails(o)
    BY <2>5, <2>8, LockEffect, SnapshotEffect, FailureEffect DEF StageOne
  <2>9. CASE RefreshRow(o)
    <3> DEFINE now == View(a.tx, a.at)
    <3>1. /\ a.pc = "refresh" /\ a.at \in a.todo
          /\ b.pc = IF a.todo = {a.at} THEN "query" ELSE "lock"
          /\ b.todo = a.todo \ {a.at} /\ b.did = a.did
          /\ b.captured = {c \in a.captured : c.key # a.at} \cup
               (IF now = None THEN {} ELSE {[key |-> a.at, val |-> now]})
      BY <2>9, RefreshEffect
    <3> HIDE DEF now, a, b
    <3>2. a.at \in a.req.keys
      BY <2>5, <2>6, <3>1 DEF StageOne
    <3>3. \A c \in b.captured : c.key \in a.req.keys /\ c.val # None
      BY <2>5, <3>1, <3>2 DEF StageOne
    <3>4. \A c, d \in b.captured : c.key = d.key => c = d
      BY <2>5, <3>1 DEF StageOne
    <3>5. b.pc = "query" => b.todo = {}
      BY <3>1
    <3>6. QED
      BY <2>5, <3>1, <3>3, <3>4, <3>5 DEF StageOne
  <2>10. CASE ApplyStmt(o)
    <3>1. /\ a.pc = "apply"
          /\ b.pc = IF Short(o) THEN "failed" ELSE AfterStmt(a.req.kind)
          /\ b.did = {Change(o, k) : k \in Written(o)}
          /\ b.todo = a.todo /\ b.captured = a.captured
          /\ Written(o) \subseteq a.cand
      BY <2>5, <2>10, ApplyEffect
    <3>2. Written(o) # {} \/ a.req.kind = "deleteMany"
      BY <2>10 DEF ApplyStmt
    <3>3. \A k :
            Change(o, k).key = k
            /\ (a.req.kind \in {"delete", "deleteMany"} => Change(o, k).after = None)
      BY DEF Change, NewValue
    <3>4. Cardinality(b.did) = Cardinality(Written(o))
      BY <2>4, <3>1, ChangeSize
    <3>5. Short(o) <=> a.req.kind = "deleteMany" /\ Cardinality(b.did) # Cardinality(b.captured)
      BY <3>1, <3>4 DEF Short
    <3> HIDE DEF a, b
    <3>6. \A c \in b.did : /\ c.key \in a.req.keys
                           /\ a.req.kind \in {"delete", "deleteMany"} => c.after = None
      BY <2>5, <3>1, <3>3 DEF StageOne
    <3>7. \A c, d \in b.did : c.key = d.key => c = d
      BY <3>1, <3>3
    <3>8. b.did # {} \/ a.req.kind = "deleteMany"
      BY <3>1, <3>2
    <3>9. QED
      BY <2>5, <2>6, <3>1, <3>5, <3>6, <3>7, <3>8 DEF StageOne, AfterStmt, Kinds
  <2>11. CASE PostRead(o)
    BY <2>5, <2>11, PostReadEffect DEF StageOne
  <2>12. CASE InsertRecord(o)
    BY <2>5, <2>12, InsertEffect DEF StageOne
  <2>13. QED
    BY <1>2, <2>3, <2>7, <2>8, <2>9, <2>10, <2>11, <2>12 DEF OpStep
<1>3. ASSUME NEW t \in Txs, TxStep(t) PROVE op' = op
  BY <1>3 DEF TxStep, Begin, Return, Commit, RollBack
<1>4. QED
  BY <1>1, <1>2, <1>3 DEF Next, vars

(* An operation is not concerned by a step that leaves the rows its        *)
(* transaction has locked as they are, or, once it is settled, locked.     *)
LEMMA MemoryFrame ==
  ASSUME NEW r \in OpRec, r.req \in Request, NEW lk, NEW nw, NEW lk2, NEW nw2,
         MemoryOne(r, lk, nw),
         \A k \in Keys : lk[k] = r.tx => lk2[k] = r.tx,
         r.pc \notin Settled =>
           \A k \in Keys : lk2[k] = r.tx => lk[k] = r.tx /\ nw2[k] = nw[k]
  PROVE  MemoryOne(r, lk2, nw2)
<1>1. /\ \A c \in r.captured : c.key \in Keys
      /\ \A c \in r.did : c.key \in Keys
      /\ r.req.keys \subseteq Keys
  BY DEF OpRec, Found, Changed, Request
<1>2. CASE r.pc \in Settled
  BY <1>1, <1>2 DEF MemoryOne, HeldOne, Settled
<1>3. CASE r.pc \notin Settled
  <2>1. FreshOne(r, lk, nw) => FreshOne(r, lk2, nw2)
    BY <1>1, <1>3 DEF FreshOne
  <2>2. HeldOne(r, lk, nw) => HeldOne(r, lk2, nw2)
    BY <1>1, <1>3 DEF HeldOne
  <2>3. QED
    BY <2>1, <2>2 DEF MemoryOne
<1>4. QED
  BY <1>2, <1>3

(* A row the transaction sees unlocked is its committed version, a locked  *)
(* one its newest.                                                         *)
LEMMA ViewNewest ==
  ASSUME LockInv, NEW t, NEW k \in Keys, lock[k] \in {None, t}
  PROVE  View(t, k) = newest[k]
BY DEF LockInv, View

(* The reads of a hook.                                                    *)
LEMMA PreReadMemory ==
  ASSUME TInv, StageInv, NEW o \in Ops, PreReadOne(o) \/ PreReadMany(o)
  PROVE  MemoryOne(op'[o], lock, newest)
<1> DEFINE a == op[o]
<1> DEFINE b == op'[o]
<1> DEFINE todo == Match(a.tx, a.req)
<1>1. /\ a.pc = "read" /\ b.did = a.did /\ b.tx = a.tx /\ b.req = a.req
      /\ \/ b.pc = "failed"
         \/ /\ b.pc = IF todo = {} THEN "query" ELSE "lock"
            /\ b.todo = todo
            /\ b.captured = {[key |-> k, val |-> View(a.tx, k)] : k \in todo}
  BY PreReadEffect, OpFrame DEF OpStep
<1>2. a.did = {}
  BY <1>1 DEF StageInv, StageOne
<1>3. \A k \in a.req.keys : lock[k] = a.tx /\ newest[k] \in a.req.vals => k \in todo
  BY DEF Match, View
<1> SUFFICES MemoryOne(b, lock, newest)
  OBVIOUS
<1> HIDE DEF a, b, todo
<1>4. CASE b.pc = "failed"
  BY <1>1, <1>2, <1>4 DEF MemoryOne, HeldOne
<1>5. CASE /\ b.pc = IF todo = {} THEN "query" ELSE "lock"
           /\ b.todo = todo
           /\ b.captured = {[key |-> k, val |-> View(a.tx, k)] : k \in todo}
  <2>1. \A c \in b.captured : c.key \in b.todo
    BY <1>5
  <2>2. ASSUME NEW k \in todo PROVE \E c \in b.captured : c.key = k
    <3>1. [key |-> k, val |-> View(a.tx, k)] \in b.captured
      BY <1>5
    <3>2. QED
      BY <3>1
  <2>3. FreshOne(b, lock, newest)
    BY <1>1, <1>3, <2>1, <2>2 DEF FreshOne
  <2>4. QED
    BY <1>1, <1>2, <1>5, <2>3 DEF MemoryOne, HeldOne
<1>6. QED
  BY <1>1, <1>4, <1>5

(* What is read again under the lock is the row as it is.                  *)
LEMMA RefreshMemory ==
  ASSUME TInv, StageInv, MemoryInv, NEW o \in Ops, RefreshRow(o)
  PROVE  MemoryOne(op'[o], lock, newest)
<1> DEFINE a == op[o]
<1> DEFINE b == op'[o]
<1> DEFINE now == View(a.tx, a.at)
<1>1. /\ Live(a.tx) /\ a.pc = "refresh" /\ a.at \in a.todo
      /\ b.pc = IF a.todo = {a.at} THEN "query" ELSE "lock"
      /\ b.todo = a.todo \ {a.at} /\ b.did = a.did
      /\ b.captured = {c \in a.captured : c.key # a.at} \cup
           (IF now = None THEN {} ELSE {[key |-> a.at, val |-> now]})
      /\ b.tx = a.tx /\ b.req = a.req
  BY RefreshEffect, OpFrame DEF OpStep
<1>2. a.did = {} /\ FreshOne(a, lock, newest)
  BY <1>1 DEF StageInv, StageOne, MemoryInv, MemoryOne, Open, Live
<1>3. lock[a.at] = a.tx => now = newest[a.at]
  BY DEF View
<1>4. None \notin a.req.vals
  BY <1>1, RequestAssumption, NoneAssumption DEF TInv, HookInv, HookOne, Request
<1> HIDE DEF a, b, now
<1>5. ASSUME NEW c \in b.captured, c.key \notin b.todo, lock[c.key] = b.tx
      PROVE  c.val = newest[c.key]
  <2>1. CASE c.key = a.at
    BY <1>1, <1>3, <1>5, <2>1
  <2>2. CASE c.key # a.at
    BY <1>1, <1>2, <1>5, <2>2 DEF FreshOne
  <2>3. QED
    BY <2>1, <2>2
<1>6. ASSUME b.req.kind # "create",
             NEW k \in b.req.keys, lock[k] = b.tx, newest[k] \in b.req.vals
      PROVE  \E c \in b.captured : c.key = k
  <2>1. CASE k = a.at
    <3>1. [key |-> a.at, val |-> now] \in b.captured
      BY <1>1, <1>3, <1>4, <1>6, <2>1
    <3>2. QED
      BY <2>1, <3>1
  <2>2. CASE k # a.at
    BY <1>1, <1>2, <1>6, <2>2 DEF FreshOne
  <2>3. QED
    BY <2>1, <2>2
<1>7. FreshOne(b, lock, newest)
  BY <1>5, <1>6 DEF FreshOne
<1>8. QED
  BY <1>1, <1>2, <1>7 DEF MemoryOne, HeldOne, b

(* FOR UPDATE on a candidate leaves the memory of its operation true.      *)
LEMMA LockMemory ==
  ASSUME TInv, StageInv, MemoryInv, NEW o \in Ops, LockRow(o)
  PROVE  MemoryOne(op'[o], lock', newest)
<1> DEFINE a == op[o]
<1> DEFINE b == op'[o]
<1>1. /\ Live(a.tx) /\ a.pc = "lock" /\ b.pc = "refresh"
      /\ b.todo = a.todo /\ b.did = a.did /\ b.captured = a.captured
      /\ b.tx = a.tx /\ b.req = a.req
  BY LockEffect, OpFrame DEF OpStep
<1>2. PICK k \in a.todo :
        lock' = IF newest[k] = None THEN lock ELSE [lock EXCEPT ![k] = a.tx]
  BY LockEffect
<1>3. a.did = {} /\ FreshOne(a, lock, newest) /\ a.todo \subseteq {c.key : c \in a.captured}
  BY <1>1 DEF StageInv, StageOne, MemoryInv, MemoryOne, Open, Live, TInv, HookInv, HookOne
<1>4. /\ \A c \in a.captured : c.key \in Keys
      /\ a.req.keys \subseteq Keys
      /\ lock \in [Keys -> Txs \cup {None}]
  BY <1>1, RequestAssumption DEF TInv, Types, HookInv, HookOne, OpRec, Found, Request
<1>5. \A j \in Keys : lock'[j] = lock[j] \/ j = k
  BY <1>2, <1>4
<1> HIDE DEF a, b
<1>6. FreshOne(b, lock', newest)
  BY <1>1, <1>2, <1>3, <1>4, <1>5 DEF FreshOne
<1>7. QED
  BY <1>1, <1>3, <1>6 DEF MemoryOne, HeldOne, b

(* The statement leaves its rows locked with what it has written; of a row *)
(* locked before, the preimage in memory is the one it has replaced.       *)
LEMMA ApplyMemory ==
  ASSUME TInv, ScopeInv, LockInv, StageInv, MemoryInv, NEW o \in Ops, ApplyStmt(o)
  PROVE  MemoryOne(op'[o], lock', newest')
<1> DEFINE a == op[o]
<1> DEFINE b == op'[o]
<1>1. /\ Live(a.tx) /\ a.pc = "apply" /\ b.tx = a.tx /\ b.req = a.req
      /\ b.pc = IF Short(o) THEN "failed" ELSE AfterStmt(a.req.kind)
      /\ b.did = {Change(o, k) : k \in Written(o)}
      /\ b.captured = a.captured
      /\ newest' = [k \in Keys |-> IF k \in Written(o) THEN NewValue(o) ELSE newest[k]]
      /\ lock' = [k \in Keys |-> IF k \in a.cand THEN a.tx ELSE lock[k]]
      /\ Written(o) \subseteq a.cand
  BY ApplyEffect, OpFrame DEF OpStep, ScopeInv
<1>2. FreshOne(a, lock, newest) /\ a.todo = {} /\ StageOne(a) /\ b.pc # "insert"
  BY <1>1 DEF StageInv, StageOne, MemoryInv, MemoryOne, Open, Live, AfterStmt
<1>3. /\ a.req \in Requests /\ a.req.vals \subseteq Vals /\ a.req.kind \in Kinds
      /\ a.req.kind = "upsert" => a.req.vals = Vals
  BY <1>1, RequestAssumption DEF TInv, HookInv, HookOne, Request
<1>4. Written(o) \subseteq Keys /\ newest \in [Keys -> Cell]
  BY <1>1, ChangeTypes DEF TInv, Types
<1>5. ASSUME NEW k \in Written(o), Change(o, k).held
      PROVE  /\ \A d \in a.captured : d.key = k => d.val = newest[k]
             /\ IF newest[k] = None THEN a.req.kind \in {"create", "upsert"}
                ELSE \E d \in a.captured : d.key = k
  <2>1. CASE a.req.kind = "create"
    <3>1. a.captured = {} /\ k \in a.req.keys
      BY <1>1, <1>2, <2>1 DEF StageOne
    <3>2. newest[k] = None
      BY <2>1, <3>1 DEF ApplyStmt
    <3>3. QED
      BY <2>1, <3>1, <3>2
  <2>2. CASE a.req.kind # "create"
    <3>1. lock[k] = a.tx /\ k \in a.req.keys
      BY <1>1, <1>2, <1>5, <2>2 DEF Change, StageOne
    <3>2. \A d \in a.captured : d.key = k => d.val = newest[k]
      BY <1>2, <3>1 DEF FreshOne
    <3>3. a.req.kind # "upsert" => newest[k] \in a.req.vals
      BY <2>2, <1>5 DEF Written
    <3>4. newest[k] \in a.req.vals => \E d \in a.captured : d.key = k
      BY <1>2, <2>2, <3>1 DEF FreshOne
    <3>5. newest[k] = None \/ newest[k] \in Vals
      BY <1>4 DEF Cell
    <3>6. QED
      BY <1>3, <3>2, <3>3, <3>4, <3>5, NoneAssumption
  <2>3. QED
    BY <2>1, <2>2
<1>6. \A k : /\ Change(o, k).key = k /\ Change(o, k).before = newest[k]
             /\ Change(o, k).after = NewValue(o)
  BY DEF Change
<1> HIDE DEF a, b
<1>7. ExactOne(b)
  <2>1. SUFFICES ASSUME NEW c \in b.did, c.held
        PROVE  /\ \A d \in a.captured : d.key = c.key => d.val = c.before
               /\ IF c.before = None THEN a.req.kind \in {"create", "upsert"}
                  ELSE \E d \in a.captured : d.key = c.key
    BY <1>1 DEF ExactOne
  <2>2. PICK k \in Written(o) : c = Change(o, k)
    BY <1>1, <2>1
  <2>3. QED
    BY <1>5, <1>6, <2>1, <2>2
<1>8. HeldOne(b, lock', newest')
  <2>1. SUFFICES ASSUME NEW c \in b.did
        PROVE  lock'[c.key] = b.tx /\ newest'[c.key] = c.after
    BY DEF HeldOne
  <2>2. PICK k \in Written(o) : c = Change(o, k)
    BY <1>1
  <2>3. QED
    BY <1>1, <1>4, <1>6, <2>2
<1>9. QED
  BY <1>1, <1>2, <1>7, <1>8 DEF MemoryOne, AfterStmt, b

(* The records made of exact preimages are exact, one per row.             *)
LEMMA PostReadMemory ==
  ASSUME TInv, ScopeInv, StageInv, MemoryInv, NEW o \in Ops, PostRead(o), Open(op[o].tx)
  PROVE  MemoryOne(op'[o], lock, newest)
<1> DEFINE a == op[o]
<1> DEFINE b == op'[o]
<1>1. /\ a.pc \in {"post", "record"} /\ (a.pc = "post" => Live(a.tx))
      /\ b.recs = IF a.did = {} THEN {} ELSE Records(o)
      /\ b.pc \in {"done", "insert"}
      /\ b.did = a.did /\ b.tx = a.tx /\ b.req = a.req
  BY PostReadEffect, OpFrame DEF OpStep
<1>2. StageOne(a) /\ ExactOne(a) /\ HeldOne(a, lock, newest) /\ a.req.kind \in Kinds
  BY <1>1, RequestAssumption DEF StageInv, MemoryInv, MemoryOne, TInv, HookInv, HookOne, Request
<1>3. \A c \in a.did :
        /\ a.req.kind \in {"create", "update", "upsert"} => View(a.tx, c.key) = c.after
        /\ a.req.kind \in {"delete", "deleteMany"} => c.after = None
  BY <1>1, <1>2 DEF HeldOne, View, StageOne
<1> DEFINE now(k) == View(a.tx, k)
<1> DEFINE hit == {c.key : c \in a.did}
<1>4. \/ /\ a.req.kind = "create" \/ (a.req.kind = "upsert" /\ a.captured = {})
         /\ b.recs \subseteq {Record(k, None, now(k)) : k \in hit}
      \/ /\ a.req.kind \notin {"create", "upsert"} /\ a.captured = {}
         /\ b.recs \subseteq {Record(k, None, None) : k \in hit}
      \/ /\ a.req.kind \in {"update", "upsert"}
         /\ b.recs \subseteq {Record(c.key, c.val, now(c.key)) : c \in a.captured}
      \/ /\ a.req.kind \in {"delete", "deleteMany"}
         /\ b.recs \subseteq {Record(c.key, c.val, None) : c \in a.captured}
  BY <1>1, <1>2 DEF Records, Kinds
<1>5. \A c \in a.did : c.held =>
        /\ \A d \in a.captured : d.key = c.key => d.val = c.before
        /\ IF c.before = None THEN a.req.kind \in {"create", "upsert"}
           ELSE \E d \in a.captured : d.key = c.key
  BY <1>2 DEF ExactOne
<1>6. a.req.kind = "create" => a.captured = {}
  BY <1>2 DEF StageOne
<1>7. \A c, d \in a.captured : c.key = d.key => c = d
  BY <1>2 DEF StageOne
<1> SUFFICES MemoryOne(b, lock, newest)
  OBVIOUS
<1> HIDE DEF a, b, now
<1>8. \A e, f \in b.recs : e.key = f.key => e = f
  BY <1>4, <1>7 DEF Record
<1>9. ASSUME NEW e \in b.recs, NEW c \in a.did, c.held, e.key = c.key
      PROVE  e.before = c.before /\ e.after = c.after
  BY <1>3, <1>4, <1>5, <1>6, <1>9 DEF Record, now, hit
<1>10. RecordedOne(b)
  BY <1>1, <1>8, <1>9 DEF RecordedOne
<1>11. HeldOne(b, lock, newest)
  BY <1>1, <1>2 DEF HeldOne
<1>12. QED
  BY <1>1, <1>10, <1>11 DEF MemoryOne

(* The other steps keep what the memory of their operation says.           *)
LEMMA OtherMemory ==
  ASSUME TInv, Disciplined, StageInv, MemoryInv, NEW o \in Ops, OpStep(o), Open(op'[o].tx),
         ~(PreReadOne(o) \/ PreReadMany(o) \/ LockRow(o) \/ RefreshRow(o) \/ ApplyStmt(o)
           \/ PostRead(o))
  PROVE  MemoryOne(op'[o], lock, newest)
<1>1. CASE \E t \in Txs, r \in Requests : Start(o, t, r)
  <2>1. PICK t \in Txs, r \in Requests : Start(o, t, r)
    BY <1>1
  <2>2. Fresh(op'[o], t, r)
    BY <2>1, StartEffect
  <2>3. /\ op'[o].did = {} /\ op'[o].captured = {} /\ op'[o].pc \in {"read", "query"}
        /\ op'[o].pc = "query" => op'[o].req.kind = "create"
    BY <2>2 DEF Fresh
  <2>4. QED
    BY <2>3 DEF MemoryOne, HeldOne, FreshOne
<1>2. CASE SnapshotStmt(o)
  <2>1. /\ op[o].pc = "query" /\ op'[o].pc = "apply"
        /\ op'[o].todo = op[o].todo /\ op'[o].did = op[o].did /\ op'[o].captured = op[o].captured
        /\ op'[o].tx = op[o].tx /\ op'[o].req = op[o].req
    BY <1>2, SnapshotEffect, OpFrame DEF OpStep
  <2>2. MemoryOne(op[o], lock, newest)
    BY <2>1 DEF MemoryInv
  <2>3. QED
    BY <2>1, <2>2 DEF MemoryOne, HeldOne, FreshOne
<1>3. CASE NotFound(o) \/ QueryFails(o) \/ AuditFails(o)
  <2>1. op'[o].pc = "failed" /\ op'[o].did = op[o].did /\ op'[o].tx = op[o].tx
        /\ op[o].pc # "none"
    BY <1>3, FailureEffect, OpFrame DEF OpStep, NotFound, QueryFails, AuditFails
  <2>2. MemoryOne(op[o], lock, newest)
    BY <2>1 DEF MemoryInv
  <2>3. QED
    BY <2>1, <2>2 DEF MemoryOne, HeldOne
<1>4. CASE InsertRecord(o)
  <2>1. /\ op[o].pc = "insert" /\ op'[o].pc \in {"insert", "done"}
        /\ op'[o].recs \subseteq op[o].recs /\ op'[o].did = op[o].did
        /\ op'[o].tx = op[o].tx
    BY <1>4, InsertEffect, OpFrame DEF OpStep
  <2>2. MemoryOne(op[o], lock, newest)
    BY <2>1 DEF MemoryInv
  <2>3. QED
    BY <2>1, <2>2 DEF MemoryOne, HeldOne, RecordedOne
<1>5. QED
  BY <1>1, <1>2, <1>3, <1>4 DEF OpStep

(* A step of an operation keeps what its transaction has locked locked,    *)
(* and does not touch what the others have locked.                         *)
LEMMA OpLocks ==
  ASSUME TInv, ScopeInv, NEW o \in Ops, OpStep(o), NEW k \in Keys
  PROVE  /\ lock[k] # None => lock'[k] = lock[k]
         /\ \A t \in Txs : t # op[o].tx /\ lock'[k] = t =>
              lock[k] = t /\ newest'[k] = newest[k]
<1>1. lock \in [Keys -> Txs \cup {None}]
  BY DEF TInv, Types
<1>2. CASE LockRow(o)
  <2>1. newest' = newest
    BY <1>2 DEF LockRow
  <2>2. PICK j \in op[o].todo :
          /\ lock[j] \in {None, op[o].tx}
          /\ lock' = IF newest[j] = None THEN lock ELSE [lock EXCEPT ![j] = op[o].tx]
    BY <1>2, LockEffect
  <2>3. QED
    BY <1>1, <2>1, <2>2
<1>3. CASE ApplyStmt(o)
  BY <1>1, <1>3, ApplyEffect, NoneAssumption DEF ScopeInv
<1>4. ASSUME ~LockRow(o), ~ApplyStmt(o) PROVE lock' = lock /\ newest' = newest
  BY <1>4 DEF OpStep, Start, PreReadOne, PreReadMany, RefreshRow, SnapshotStmt, NotFound,
     QueryFails, PostRead, AuditFails, InsertRecord, db
<1>5. QED
  BY <1>2, <1>3, <1>4

(* Every step keeps the preimages and records exact.                       *)
LEMMA MemoryStep ==
  ASSUME TInv, Disciplined, ScopeInv, LockInv, StageInv, MemoryInv, [Next]_vars
  PROVE  MemoryInv'
<1>1. CASE UNCHANGED vars
  BY <1>1 DEF vars, db, MemoryInv, Open
<1>2. \A q \in Ops : op[q].pc # "none" =>
        op[q] \in OpRec /\ op[q].req \in Request /\ op[q].tx \in Txs
  BY RequestAssumption DEF TInv, Types, HookInv, HookOne
<1>3. lock \in [Keys -> Txs \cup {None}]
  BY DEF TInv, Types
<1>4. ASSUME NEW o \in Ops, OpStep(o) PROVE MemoryInv'
  <2>1. /\ tx' = tx /\ \A q \in Ops : q # o => op'[q] = op[q]
        /\ op[o].pc \notin {"done", "failed"}
        /\ op[o].pc # "none" => op'[o].tx = op[o].tx
    BY <1>4, OpFrame
  <2>2. op[o].pc = "none" => \E t \in Txs, r \in Requests : Start(o, t, r)
    BY <1>4, Called
  <2>3. ASSUME NEW q \in Ops, q # o, op[q].pc # "none", Open(op[q].tx)
        PROVE  MemoryOne(op[q], lock', newest')
    <3>1. MemoryOne(op[q], lock, newest)
      BY <2>3 DEF MemoryInv
    <3>2. \A k \in Keys : lock[k] = op[q].tx => lock'[k] = op[q].tx
      BY <1>2, <1>4, <2>3, OpLocks, NoneAssumption
    <3>3. op[q].pc \notin Settled =>
            \A k \in Keys : lock'[k] = op[q].tx => lock[k] = op[q].tx /\ newest'[k] = newest[k]
      <4>1. CASE op[o].pc = "none"
        <5>1. lock' = lock /\ newest' = newest
          BY <2>2, <4>1 DEF Start, db
        <5>2. QED
          BY <5>1
      <4>2. CASE op[o].pc # "none"
        <5>1. op[o].pc \notin Settled
          BY <2>1, <4>2 DEF Settled
        <5>2. op[q].pc \notin Settled => op[q].tx # op[o].tx
          BY <2>3, <5>1 DEF ScopeInv
        <5>3. QED
          BY <1>2, <1>4, <2>3, <5>2, OpLocks
      <4>3. QED
        BY <4>1, <4>2
    <3>4. QED
      BY <1>2, <2>3, <3>1, <3>2, <3>3, MemoryFrame
  <2>4. ASSUME Open(op'[o].tx) PROVE MemoryOne(op'[o], lock', newest')
    <3>1. CASE PreReadOne(o) \/ PreReadMany(o) \/ RefreshRow(o)
      BY <3>1, PreReadMemory, RefreshMemory DEF PreReadOne, PreReadMany, RefreshRow, db
    <3>2. CASE LockRow(o)
      BY <3>2, LockMemory DEF LockRow
    <3>3. CASE ApplyStmt(o)
      BY <3>3, ApplyMemory
    <3>4. CASE PostRead(o)
      <4>1. op[o].tx = op'[o].tx
        BY <2>1, <3>4 DEF PostRead
      <4>2. QED
        BY <2>4, <3>4, <4>1, PostReadMemory DEF PostRead, db
    <3>5. CASE ~(PreReadOne(o) \/ PreReadMany(o) \/ LockRow(o) \/ RefreshRow(o) \/ ApplyStmt(o)
                 \/ PostRead(o))
      <4>1. MemoryOne(op'[o], lock, newest)
        BY <1>4, <2>4, <3>5, OtherMemory
      <4>2. lock' = lock /\ newest' = newest
        BY <1>4, <3>5 DEF OpStep, Start, SnapshotStmt, NotFound, QueryFails, AuditFails,
           InsertRecord, db
      <4>3. QED
        BY <4>1, <4>2
    <3>6. QED
      BY <3>1, <3>2, <3>3, <3>4, <3>5
  <2>5. QED
    BY <2>1, <2>3, <2>4 DEF MemoryInv, Open
<1>5. ASSUME NEW t \in Txs, TxStep(t) PROVE MemoryInv'
  <2>1. op' = op /\ tx \in [Txs -> TxState]
    BY <1>5 DEF TxStep, Begin, Return, Commit, RollBack, TInv, Types
  <2>2. SUFFICES ASSUME NEW q \in Ops, op[q].pc # "none", Open(op[q].tx)'
        PROVE  MemoryOne(op[q], lock', newest')
    BY <2>1 DEF MemoryInv
  <2>3. op[q].tx \in Txs /\ tx[op[q].tx] # "idle" /\ op[q] \in OpRec /\ op[q].req \in Request
    BY <1>2, <2>2 DEF ScopeInv
  <2>4. tx'[op[q].tx] \in {"open", "returning"}
    BY <2>1, <2>2 DEF Open
  <2>5. CASE Begin(t) \/ Return(t)
    <3>1. lock' = lock /\ newest' = newest /\ Open(op[q].tx)
      BY <2>1, <2>3, <2>4, <2>5 DEF Begin, Return, Open, db
    <3>2. QED
      BY <2>2, <3>1 DEF MemoryInv
  <2>6. CASE Commit(t) \/ RollBack(t)
    <3>1. op[q].tx # t /\ Open(op[q].tx)
      BY <2>1, <2>3, <2>4, <2>6 DEF Commit, RollBack, Open
    <3>2. /\ \A k \in Keys : lock[k] = op[q].tx => lock'[k] = op[q].tx
          /\ \A k \in Keys : lock'[k] = op[q].tx => lock[k] = op[q].tx /\ newest'[k] = newest[k]
      BY <1>3, <2>3, <2>6, <3>1, NoneAssumption DEF Commit, RollBack, RollBackRows
    <3>3. MemoryOne(op[q], lock, newest)
      BY <2>2, <3>1 DEF MemoryInv
    <3>4. QED
      BY <2>3, <3>2, <3>3, MemoryFrame
  <2>7. QED
    BY <1>5, <2>5, <2>6 DEF TxStep
<1>6. QED
  BY <1>1, <1>4, <1>5 DEF Next

-----------------------------------------------------------------------------
(* Audit rows belong to operations.                                        *)
LEMMA EntryTypes ==
  ASSUME TInv
  PROVE  /\ \A t \in Txs : \A i \in DOMAIN staged[t] : staged[t][i].op \in Ops
         /\ \A i \in DOMAIN trail : trail[i].op \in Ops
<1>1. staged \in [Txs -> Seq(Entry)] /\ trail \in Seq(Entry)
  BY DEF TInv, Types
<1>2. \A e \in Entry : e.op \in Ops
  BY DEF Entry
<1>3. \A s \in Seq(Entry) : \A i \in DOMAIN s : s[i] \in Entry
  OBVIOUS
<1>4. QED
  BY <1>1, <1>2, <1>3

(* Every step keeps the audit rows with their transactions.                *)
LEMMA RowsStep ==
  ASSUME TInv, ScopeInv, RowsInv, [Next]_vars
  PROVE  RowsInv'
<1>1. /\ tx \in [Txs -> TxState] /\ staged \in [Txs -> Seq(Entry)] /\ trail \in Seq(Entry)
      /\ \A t \in Txs : \A i \in DOMAIN staged[t] : staged[t][i].op \in Ops
      /\ \A i \in DOMAIN trail : trail[i].op \in Ops
  BY EntryTypes DEF TInv, Types
<1>2. \A o \in Ops : op[o].tx \in Txs => op[o].pc # "none"
  BY NoneAssumption DEF TInv, HookInv, HookOne, Blank
<1>3. ASSUME tx' = tx, trail' = trail, staged' = staged,
             \A o \in Ops : op[o].tx \in Txs => op'[o].tx = op[o].tx
      PROVE  RowsInv'
  <2>1. ASSUME NEW t \in Txs PROVE \A i \in DOMAIN staged[t] : op'[staged[t][i].op].tx = t
    BY <1>1, <1>3 DEF RowsInv
  <2>2. \A i \in DOMAIN trail :
          op'[trail[i].op].tx \in Txs /\ tx[op'[trail[i].op].tx] = "committed"
    BY <1>1, <1>3 DEF RowsInv
  <2>3. QED
    BY <1>3, <2>1, <2>2 DEF RowsInv, Open
<1>4. ASSUME NEW o \in Ops, OpStep(o) PROVE RowsInv'
  <2>1. /\ tx' = tx /\ trail' = trail
        /\ \A q \in Ops : op[q].tx \in Txs => op'[q].tx = op[q].tx
    BY <1>2, <1>4, OpFrame
  <2>2. CASE InsertRecord(o)
    <3>1. Live(op[o].tx) /\ op[o].tx \in Txs
      BY <2>2 DEF InsertRecord, TInv, HookInv, HookOne
    <3>2. PICK e : staged' = [staged EXCEPT ![op[o].tx] = Append(@, AuditRow(o, e))]
      BY <2>2 DEF InsertRecord
    <3>3. ASSUME NEW t \in Txs
          PROVE  /\ \A i \in DOMAIN staged'[t] : op'[staged'[t][i].op].tx = t
                 /\ ~Open(t) => staged'[t] = <<>>
      <4>1. CASE t # op[o].tx
        BY <1>1, <2>1, <3>2, <4>1 DEF RowsInv
      <4>2. CASE t = op[o].tx
        <5>1. staged'[t] = Append(staged[t], AuditRow(o, e))
          BY <1>1, <3>2, <4>2
        <5>2. \A i \in DOMAIN staged'[t] :
                (i \in DOMAIN staged[t] /\ staged'[t][i] = staged[t][i]) \/ staged'[t][i].op = o
          BY <1>1, <5>1 DEF AuditRow
        <5>3. \A i \in DOMAIN staged[t] : op'[staged[t][i].op].tx = t
          BY <1>1, <2>1 DEF RowsInv
        <5>4. op'[o].tx = t /\ Open(t)
          BY <2>1, <3>1, <4>2 DEF Live, Open
        <5>5. QED
          BY <5>2, <5>3, <5>4
      <4>3. QED
        BY <4>1, <4>2
    <3>4. \A i \in DOMAIN trail :
            op'[trail[i].op].tx \in Txs /\ tx[op'[trail[i].op].tx] = "committed"
      BY <1>1, <2>1 DEF RowsInv
    <3>5. QED
      BY <2>1, <3>3, <3>4 DEF RowsInv, Open
  <2>3. CASE ~InsertRecord(o)
    <3>1. staged' = staged
      BY <1>4, <2>3 DEF OpStep, Start, PreReadOne, PreReadMany, LockRow, RefreshRow, SnapshotStmt,
         NotFound, QueryFails, PostRead, AuditFails, ApplyStmt
    <3>2. QED
      BY <1>3, <2>1, <3>1
  <2>4. QED
    BY <2>2, <2>3
<1>5. ASSUME NEW t \in Txs, TxStep(t) PROVE RowsInv'
  <2>1. CASE Begin(t) \/ Return(t)
    <3>1. trail' = trail /\ staged' = staged /\ op' = op
      BY <2>1 DEF Begin, Return, db
    <3>2. \A u \in Txs : Open(u) => Open(u)'
      BY <1>1, <2>1 DEF Begin, Return, Open
    <3>3. \A u \in Txs : tx[u] = "committed" => tx'[u] = "committed"
      BY <1>1, <2>1 DEF Begin, Return
    <3>4. QED
      BY <3>1, <3>2, <3>3 DEF RowsInv
  <2>2. CASE Commit(t)
    <3>1. /\ op' = op /\ tx' = [tx EXCEPT ![t] = "committed"]
          /\ staged' = [staged EXCEPT ![t] = <<>>] /\ trail' = trail \o staged[t]
      BY <2>2 DEF Commit
    <3>2. ASSUME NEW i \in DOMAIN trail'
          PROVE  op[trail'[i].op].tx \in Txs /\ tx'[op[trail'[i].op].tx] = "committed"
      <4>1. CASE i \in DOMAIN trail
        <5>1. trail'[i] = trail[i]
          BY <1>1, <3>1, <4>1
        <5>2. QED
          BY <1>1, <3>1, <4>1, <5>1 DEF RowsInv
      <4>2. CASE i \notin DOMAIN trail
        <5>1. i - Len(trail) \in DOMAIN staged[t] /\ trail'[i] = staged[t][i - Len(trail)]
          BY <1>1, <3>1, <4>2
        <5>2. QED
          BY <1>1, <3>1, <5>1 DEF RowsInv
      <4>3. QED
        BY <4>1, <4>2
    <3>3. \A u \in Txs : /\ u = t \/ staged'[u] = staged[u]
                         /\ staged'[t] = <<>> /\ (u # t => tx'[u] = tx[u])
      BY <1>1, <3>1
    <3>4. QED
      BY <3>1, <3>2, <3>3 DEF RowsInv, Open
  <2>3. CASE RollBack(t)
    <3>1. /\ op' = op /\ tx' = [tx EXCEPT ![t] = "rolledBack"] /\ trail' = trail
          /\ staged' = [staged EXCEPT ![t] = <<>>] /\ tx[t] # "committed"
      BY <2>3 DEF RollBack, RollBackRows
    <3>2. \A u \in Txs : /\ u = t \/ staged'[u] = staged[u]
                         /\ staged'[t] = <<>> /\ (u # t => tx'[u] = tx[u])
      BY <1>1, <3>1
    <3>3. QED
      BY <3>1, <3>2 DEF RowsInv, Open
  <2>4. QED
    BY <1>5, <2>1, <2>2, <2>3 DEF TxStep
<1>6. CASE UNCHANGED vars
  BY <1>3, <1>6 DEF vars, db
<1>7. QED
  BY <1>4, <1>5, <1>6 DEF Next

(* A set with one member per key is finite.                                *)
LEMMA KeyedFinite ==
  ASSUME NEW S, \A c \in S : c.key \in Keys, \A c, d \in S : c.key = d.key => c = d
  PROVE  IsFiniteSet(S)
<1> DEFINE f == [c \in S |-> c.key]
<1>1. f \in Injection(S, Keys)
  BY DEF Injection, IsInjective
<1>2. QED
  BY <1>1, KeysAssumption, FS_Injection

(* An operation that has changed rows makes as many records as changes.    *)
LEMMA RecordsSize ==
  ASSUME TInv, StageInv, NEW o \in Ops, op[o].pc \in {"post", "record"}, op[o].did # {}
  PROVE  Cardinality(Records(o)) = Cardinality(op[o].did)
<1> DEFINE a == op[o]
<1> DEFINE now(k) == View(a.tx, k)
<1>1. StageOne(a) /\ a.req \in Requests /\ a.req.kind \in Kinds
  BY RequestAssumption DEF StageInv, TInv, HookInv, HookOne, Request
<1>2. /\ \A c \in a.did : c.key \in Keys /\ c.key \in a.req.keys
      /\ \A c, d \in a.did : c.key = d.key => c = d
      /\ \A c \in a.captured : c.key \in a.req.keys
      /\ \A c, d \in a.captured : c.key = d.key => c = d
  BY <1>1 DEF StageOne, TInv, Types, OpRec, Changed
<1>3. IsFiniteSet(a.did) /\ IsFiniteSet(a.captured)
  BY <1>2, KeyedFinite DEF TInv, HookInv, HookOne
<1>4. a.req.kind # "deleteMany" /\ a.captured # {} => Cardinality(a.captured) = Cardinality(a.did)
  <2>1. SUFFICES ASSUME a.req.kind # "deleteMany", a.captured # {}
        PROVE  Cardinality(a.captured) = Cardinality(a.did)
    OBVIOUS
  <2>2. PICK k \in Keys : a.req.keys = {k}
    BY <1>1, <2>1, RequestAssumption
  <2>3. PICK c \in a.captured : TRUE
    BY <2>1
  <2>4. PICK d \in a.did : TRUE
    OBVIOUS
  <2>5. a.captured = {c} /\ a.did = {d}
    BY <1>2, <2>2, <2>3, <2>4
  <2>6. QED
    BY <2>5, FS_Singleton
<1>5. a.req.kind = "deleteMany" => Cardinality(a.captured) = Cardinality(a.did) /\ a.captured # {}
  BY <1>1, <1>3, FS_EmptySet DEF StageOne
<1> DEFINE created == [c \in a.did |-> Record(c.key, None, now(c.key))]
<1> DEFINE unknown == [c \in a.did |-> Record(c.key, None, None)]
<1> DEFINE updated == [c \in a.captured |-> Record(c.key, c.val, now(c.key))]
<1> DEFINE deleted == [c \in a.captured |-> Record(c.key, c.val, None)]
<1>6. \/ Records(o) = {created[c] : c \in a.did}
      \/ Records(o) = {unknown[c] : c \in a.did}
      \/ /\ \/ Records(o) = {updated[c] : c \in a.captured}
            \/ Records(o) = {deleted[c] : c \in a.captured}
         /\ a.captured # {}
  BY <1>1 DEF Records, Kinds
<1>7. Cardinality({created[c] : c \in a.did}) = Cardinality(a.did)
  <2> DEFINE S == a.did
  <2>1. /\ IsFiniteSet(S) /\ created = [c \in S |-> created[c]]
        /\ \A c, d \in S : created[c] = created[d] => c = d
    BY <1>2, <1>3 DEF Record
  <2> HIDE DEF created, S
  <2>2. Cardinality({created[c] : c \in S}) = Cardinality(S)
    BY <2>1, ImageSize
  <2>3. QED
    BY <2>2 DEF S
<1>8. Cardinality({unknown[c] : c \in a.did}) = Cardinality(a.did)
  <2> DEFINE S == a.did
  <2>1. /\ IsFiniteSet(S) /\ unknown = [c \in S |-> unknown[c]]
        /\ \A c, d \in S : unknown[c] = unknown[d] => c = d
    BY <1>2, <1>3 DEF Record
  <2> HIDE DEF unknown, S
  <2>2. Cardinality({unknown[c] : c \in S}) = Cardinality(S)
    BY <2>1, ImageSize
  <2>3. QED
    BY <2>2 DEF S
<1>9. Cardinality({updated[c] : c \in a.captured}) = Cardinality(a.captured)
  <2> DEFINE S == a.captured
  <2>1. /\ IsFiniteSet(S) /\ updated = [c \in S |-> updated[c]]
        /\ \A c, d \in S : updated[c] = updated[d] => c = d
    BY <1>2, <1>3 DEF Record
  <2> HIDE DEF updated, S
  <2>2. Cardinality({updated[c] : c \in S}) = Cardinality(S)
    BY <2>1, ImageSize
  <2>3. QED
    BY <2>2 DEF S
<1>10. Cardinality({deleted[c] : c \in a.captured}) = Cardinality(a.captured)
  <2> DEFINE S == a.captured
  <2>1. /\ IsFiniteSet(S) /\ deleted = [c \in S |-> deleted[c]]
        /\ \A c, d \in S : deleted[c] = deleted[d] => c = d
    BY <1>2, <1>3 DEF Record
  <2> HIDE DEF deleted, S
  <2>2. Cardinality({deleted[c] : c \in S}) = Cardinality(S)
    BY <2>1, ImageSize
  <2>3. QED
    BY <2>2 DEF S
<1> HIDE DEF created, unknown, updated, deleted
<1>11. QED
  BY <1>4, <1>5, <1>6, <1>7, <1>8, <1>9, <1>10

(* The rows of an operation are staged in its own transaction only.        *)
LEMMA RowsElsewhere ==
  ASSUME TInv, RowsInv, NEW o \in Ops
  PROVE  /\ \A t \in Txs : t # op[o].tx => RowsOf(staged[t], o) = {}
         /\ ~(op[o].tx \in Txs /\ tx[op[o].tx] = "committed") => RowsOf(trail, o) = {}
BY DEF RowsInv, RowsOf

(* The staged rows of the operation that takes a step.                     *)
LEMMA StagedStep ==
  ASSUME TInv, Disciplined, StageInv, MemoryInv, RowsInv, CountInv, NEW o \in Ops, OpStep(o),
         Open(op'[o].tx), op'[o].tx \notin failed'
  PROVE  StagedOne(o)'
<1> DEFINE a == op[o]
<1> DEFINE b == op'[o]
<1> DEFINE before == RowsOf(staged[a.tx], o)
<1> DEFINE after == RowsOf(staged'[b.tx], o)
<1>1. SUFFICES
        /\ b.pc \notin {"insert", "done"} => after = {}
        /\ b.pc = "failed" => b.did = {}
        /\ b.pc = "insert" => Cardinality(after) + Cardinality(b.recs) = Cardinality(b.did)
        /\ b.pc = "done" => Cardinality(after) = Cardinality(b.did)
  BY DEF StagedOne
<1>2. staged \in [Txs -> Seq(Entry)] /\ failed \subseteq failed'
  BY RowsFrame DEF TInv, Types
<1>3. CASE \E t \in Txs, r \in Requests : Start(o, t, r)
  <2>1. PICK t \in Txs, r \in Requests : Start(o, t, r)
    BY <1>3
  <2>2. b.pc \in {"read", "query"} /\ staged' = staged /\ b.tx \in Txs /\ a.tx = None
    <3>0. Fresh(b, t, r)
      BY <2>1, StartEffect
    <3>1. b.pc \in {"read", "query"} /\ b.tx = t
      BY <3>0 DEF Fresh
    <3>2. staged' = staged /\ a.pc = "none"
      BY <2>1 DEF Start
    <3>3. a.tx = None
      BY <3>2 DEF TInv, HookInv, HookOne, Blank
    <3>4. QED
      BY <3>1, <3>2, <3>3
  <2>3. after = {}
    BY <2>2, RowsElsewhere, NoneAssumption
  <2>4. QED
    BY <2>2, <2>3
<1>4. SUFFICES ASSUME a.pc # "none" PROVE
        /\ b.pc \notin {"insert", "done"} => after = {}
        /\ b.pc = "failed" => b.did = {}
        /\ b.pc = "insert" => Cardinality(after) + Cardinality(b.recs) = Cardinality(b.did)
        /\ b.pc = "done" => Cardinality(after) = Cardinality(b.did)
  BY <1>3, Called
<1>5. b.tx = a.tx /\ b.req = a.req /\ a.tx \in Txs
  BY <1>4, OpFrame DEF TInv, HookInv, HookOne
<1>6. /\ a.pc \notin {"insert", "done"} => before = {}
      /\ a.pc = "insert" => Cardinality(before) + Cardinality(a.recs) = Cardinality(a.did)
      /\ StageOne(a) /\ MemoryOne(a, lock, newest)
  BY <1>2, <1>4, <1>5 DEF CountInv, StagedOne, StageInv, MemoryInv
<1>7. CASE PreReadOne(o) \/ PreReadMany(o) \/ LockRow(o) \/ RefreshRow(o) \/ SnapshotStmt(o)
           \/ NotFound(o) \/ QueryFails(o)
  <2>1. staged' = staged /\ a.pc \in {"read", "lock", "refresh", "query", "apply"}
    BY <1>7 DEF PreReadOne, PreReadMany, LockRow, RefreshRow, SnapshotStmt, NotFound, QueryFails
  <2>2. b.pc \notin {"insert", "done"} /\ b.did = a.did
    BY <1>7, PreReadEffect, LockEffect, RefreshEffect, SnapshotEffect, FailureEffect
  <2>3. a.did = {}
    BY <1>6, <2>1 DEF StageOne
  <2>4. QED
    BY <1>5, <1>6, <2>1, <2>2, <2>3
<1>8. CASE AuditFails(o)
  BY <1>5, <1>8 DEF AuditFails
<1>9. CASE ApplyStmt(o)
  <2>1. staged' = staged /\ a.pc = "apply"
    BY <1>9 DEF ApplyStmt
  <2>2. b.pc \in {"post", "record"} \/ failed' = failed \cup {a.tx}
    BY <1>9 DEF ApplyStmt, AfterStmt, TInv, Types
  <2>3. QED
    BY <1>5, <1>6, <2>1, <2>2
<1>10. CASE PostRead(o)
  <2>1. /\ a.pc \in {"post", "record"} /\ staged' = staged /\ b.did = a.did
        /\ b.recs = IF a.did = {} THEN {} ELSE Records(o)
        /\ b.pc = IF b.recs = {} THEN "done" ELSE "insert"
    BY <1>10, PostReadEffect DEF PostRead
  <2>2. Cardinality(before) = 0 /\ Cardinality({}) = 0
    BY <1>6, <2>1, FS_EmptySet
  <2>3. Cardinality(b.recs) = Cardinality(b.did)
    BY <2>1, <2>2, RecordsSize
  <2>4. Cardinality(b.did) \in Nat
    <3>1. \A c \in a.did : c.key \in Keys
      BY DEF TInv, Types, OpRec, Changed
    <3>2. \A c, d \in a.did : c.key = d.key => c = d
      BY <1>6 DEF StageOne
    <3> HIDE DEF a
    <3>3. IsFiniteSet(a.did)
      BY <3>1, <3>2, KeyedFinite
    <3>4. QED
      BY <2>1, <3>3, FS_CardinalityType
  <2>5. after = before
    BY <1>5, <2>1
  <2> HIDE DEF a, b, before, after
  <2>6. QED
    BY <2>1, <2>2, <2>3, <2>4, <2>5
<1>11. CASE InsertRecord(o)
  <2>1. PICK e \in a.recs :
          /\ staged' = [staged EXCEPT ![a.tx] = Append(@, AuditRow(o, e))]
          /\ b.recs = a.recs \ {e}
          /\ b.pc = IF a.recs = {e} THEN "done" ELSE "insert"
    BY <1>11, InsertEffect
  <2>2. a.pc = "insert" /\ b.did = a.did
    BY <1>11, InsertEffect
  <2>3. \A f \in a.recs : f.key \in Keys /\ f.before \in Cell /\ f.after \in Cell
    BY DEF TInv, Types, OpRec, Rec
  <2>4. IsFiniteSet(a.recs)
    BY <1>6, <2>2, <2>3, KeyedFinite DEF MemoryOne, RecordedOne
  <2>5. AuditRow(o, e) \in Entry /\ AuditRow(o, e).op = o
    BY <2>3 DEF AuditRow, Entry
  <2>6. staged'[b.tx] = Append(staged[a.tx], AuditRow(o, e)) /\ staged[a.tx] \in Seq(Entry)
    BY <1>2, <1>5, <2>1
  <2>7. Cardinality(after) = Cardinality(before) + 1 /\ Cardinality(before) \in Nat
    BY <2>5, <2>6, RowsAppend, RowsFinite
  <2>8. Cardinality(b.recs) = Cardinality(a.recs) - 1 /\ Cardinality(a.recs) \in Nat
    BY <2>1, <2>4, FS_RemoveElement, FS_CardinalityType
  <2>9. a.recs = {e} => Cardinality(a.recs) = 1
    BY FS_Singleton
  <2> HIDE DEF a, b, before, after
  <2>10. QED
    BY <1>6, <2>1, <2>2, <2>7, <2>8, <2>9
<1>12. QED
  BY <1>4, <1>7, <1>8, <1>9, <1>10, <1>11 DEF OpStep, Start

(* Every step keeps the counts.                                            *)
LEMMA CountStep ==
  ASSUME TInv, Disciplined, ScopeInv, StageInv, MemoryInv, RowsInv, CountInv, [Next]_vars
  PROVE  CountInv'
<1>1. /\ tx \in [Txs -> TxState] /\ staged \in [Txs -> Seq(Entry)] /\ trail \in Seq(Entry)
      /\ \A o \in Ops : op[o].pc # "none" => op[o].tx \in Txs
  BY DEF TInv, Types, HookInv, HookOne
<1>2. CASE UNCHANGED vars
  <2>1. op' = op /\ staged' = staged /\ trail' = trail /\ tx' = tx /\ failed' = failed
    BY <1>2 DEF vars, db
  <2>2. \A o \in Ops : StagedOne(o)' <=> StagedOne(o)
    BY <2>1 DEF StagedOne
  <2>3. QED
    BY <2>1, <2>2 DEF CountInv, Open
<1>3. ASSUME NEW o \in Ops, OpStep(o) PROVE CountInv'
  <2>1. /\ tx' = tx /\ trail' = trail
        /\ \A q \in Ops : q # o => op'[q] = op[q]
        /\ op[o].pc \notin {"done", "failed"} /\ op'[o].pc # "none"
        /\ op[o].pc # "none" => op'[o].tx = op[o].tx
    BY <1>3, OpFrame
  <2>2. failed \subseteq failed'
    BY <1>3, RowsFrame
  <2>3. ASSUME NEW q \in Ops, q # o, NEW t \in Txs
        PROVE  RowsOf(staged'[t], q) = RowsOf(staged[t], q)
    <3>1. CASE staged' = staged
      BY <3>1
    <3>2. CASE InsertRecord(o)
      <4>1. PICK e \in op[o].recs :
              staged' = [staged EXCEPT ![op[o].tx] = Append(@, AuditRow(o, e))]
        BY <3>2 DEF InsertRecord
      <4>2. AuditRow(o, e) \in Entry /\ AuditRow(o, e).op = o
        BY DEF AuditRow, Entry, TInv, Types, OpRec, Rec
      <4>3. CASE t = op[o].tx
        BY <1>1, <2>3, <4>1, <4>2, <4>3, RowsAppend
      <4>4. CASE t # op[o].tx
        BY <1>1, <4>1, <4>4
      <4>5. QED
        BY <4>3, <4>4
    <3>3. QED
      BY <1>3, <3>1, <3>2 DEF OpStep, Start, PreReadOne, PreReadMany, LockRow, RefreshRow,
         SnapshotStmt, NotFound, QueryFails, PostRead, AuditFails, ApplyStmt
  <2>4. ASSUME NEW q \in Ops, q # o, op[q].pc # "none", Open(op[q].tx), op[q].tx \notin failed'
        PROVE  StagedOne(q)'
    <3>1. StagedOne(q)
      BY <2>2, <2>4 DEF CountInv
    <3>2. RowsOf(staged'[op[q].tx], q) = RowsOf(staged[op[q].tx], q) /\ op'[q] = op[q]
      BY <1>1, <2>1, <2>3, <2>4
    <3>3. QED
      BY <3>1, <3>2 DEF StagedOne
  <2>5. ASSUME Open(op'[o].tx), op'[o].tx \notin failed' PROVE StagedOne(o)'
    BY <1>3, <2>5, StagedStep
  <2>6. tx[op'[o].tx] # "committed"
    <3>1. CASE op[o].pc = "none"
      <4>1. PICK t \in Txs, r \in Requests : Start(o, t, r)
        BY <1>3, <3>1, Called
      <4>2. Quiet(t) /\ Fresh(op'[o], t, r)
        BY <1>3, <4>1, StartEffect
      <4>3. QED
        BY <4>2 DEF Quiet, Fresh
    <3>2. CASE op[o].pc # "none"
      BY <2>1, <3>2 DEF ScopeInv, Settled
    <3>3. QED
      BY <3>1, <3>2
  <2>7. QED
    BY <2>1, <2>4, <2>5, <2>6 DEF CountInv, Open
<1>4. ASSUME NEW t \in Txs, TxStep(t) PROVE CountInv'
  <2>1. op' = op /\ failed' = failed
    BY <1>4 DEF TxStep, Begin, Return, Commit, RollBack
  <2>2. \A q \in Ops : op[q].pc # "none" => tx[op[q].tx] # "idle"
    BY DEF ScopeInv
  <2>3. ASSUME NEW q \in Ops, StagedOne(q), staged'[op[q].tx] = staged[op[q].tx]
        PROVE  StagedOne(q)'
    BY <2>1, <2>3 DEF StagedOne
  <2>4. CASE Begin(t) \/ Return(t)
    <3>1. /\ \A u \in Txs : tx[u] # "idle" => (Open(u)' <=> Open(u))
          /\ \A u \in Txs : tx'[u] = "committed" => tx[u] = "committed"
          /\ staged' = staged /\ trail' = trail
      BY <1>1, <2>4 DEF Begin, Return, Open, db
    <3>2. QED
      BY <1>1, <2>1, <2>2, <2>3, <3>1 DEF CountInv
  <2>5. CASE Commit(t)
    <3>1. /\ tx' = [tx EXCEPT ![t] = "committed"] /\ tx[t] = "returning"
          /\ staged' = [staged EXCEPT ![t] = <<>>] /\ trail' = trail \o staged[t]
      BY <2>5 DEF Commit
    <3>2. ASSUME NEW q \in Ops, op[q].pc # "none", op[q].tx # t
          PROVE  /\ Open(op[q].tx)' /\ op[q].tx \notin failed => StagedOne(q)'
                 /\ tx'[op[q].tx] = "committed" =>
                      Cardinality(RowsOf(trail', q)) = Cardinality(op[q].did)
      <4>1. tx'[op[q].tx] = tx[op[q].tx] /\ staged'[op[q].tx] = staged[op[q].tx]
        BY <1>1, <3>1, <3>2
      <4>2. RowsOf(trail', q) = RowsOf(trail, q)
        BY <1>1, <3>1, <3>2, RowsElsewhere, RowsConcat
      <4>3. QED
        BY <2>1, <2>3, <3>2, <4>1, <4>2 DEF CountInv, Open
    <3>3. ASSUME NEW q \in Ops, op[q].pc # "none", op[q].tx = t
          PROVE  Cardinality(RowsOf(trail', q)) = Cardinality(op[q].did)
      <4>1. op[q].pc \in {"done", "failed"} /\ t \notin failed
        BY <3>1, <3>3 DEF ScopeInv, Settled
      <4>2. StagedOne(q)
        BY <3>1, <3>3, <4>1 DEF CountInv, Open
      <4>3. Cardinality(RowsOf(staged[t], q)) = Cardinality(op[q].did)
        BY <3>3, <4>1, <4>2 DEF StagedOne
      <4>4. RowsOf(trail, q) = {}
        BY <3>1, <3>3, RowsElsewhere
      <4>5. QED
        BY <1>1, <3>1, <4>3, <4>4, RowsConcat
    <3>4. tx'[t] = "committed"
      BY <1>1, <3>1
    <3>5. QED
      BY <2>1, <3>2, <3>3, <3>4 DEF CountInv, Open
  <2>6. CASE RollBack(t)
    <3>1. /\ tx' = [tx EXCEPT ![t] = "rolledBack"] /\ trail' = trail
          /\ staged' = [staged EXCEPT ![t] = <<>>]
      BY <2>6 DEF RollBack, RollBackRows
    <3>2. tx'[t] = "rolledBack" /\ \A u \in Txs : u # t => tx'[u] = tx[u] /\ staged'[u] = staged[u]
      BY <1>1, <3>1
    <3>3. QED
      BY <1>1, <2>1, <2>3, <3>1, <3>2 DEF CountInv, Open
  <2>7. QED
    BY <1>4, <2>4, <2>5, <2>6 DEF TxStep
<1>5. QED
  BY <1>2, <1>3, <1>4 DEF Next

(* Tracked writes and their audit rows commit or roll back together, for   *)
(* every number of transactions and operations.                            *)
CountedInv ==
  TInv /\ ScopeInv /\ LockInv /\ StageInv /\ MemoryInv /\ RowsInv /\ CountInv

(* Init has the invariant.                                                 *)
LEMMA InitCounted == Init => CountedInv
<1> SUFFICES ASSUME Init PROVE CountedInv
  OBVIOUS
<1>1. \A o \in Ops : op[o].pc = "none" /\ ~op[o].outer
  BY DEF Init, Blank
<1>2. tx = [t \in Txs |-> "idle"] /\ failed = {} /\ staged = [t \in Txs |-> <<>>] /\ trail = <<>>
  BY DEF Init
<1>3. ScopeInv /\ StageInv /\ MemoryInv /\ CountInv
  BY <1>1, <1>2 DEF ScopeInv, StageInv, MemoryInv, CountInv, Settled
<1>4. LockInv
  BY DEF Init, LockInv
<1>5. RowsInv
  BY <1>2 DEF RowsInv
<1>6. QED
  BY InitTInv, <1>3, <1>4, <1>5 DEF CountedInv

(* Every step keeps it.                                                    *)
LEMMA StepCounted == Disciplined /\ CountedInv /\ [Next]_vars => CountedInv'
BY StepTypes, ScopeStep, LockStep, StageStep, MemoryStep, RowsStep, CountStep DEF CountedInv

(* In a state of the invariant they do.                                    *)
LEMMA CountedTogether == CountedInv => CommittedTogether
<1> SUFFICES ASSUME CountedInv, NEW o \in Ops, op[o].tx # None, Over(op[o].tx)
             PROVE  Cardinality(Durable(o)) = Cardinality(RowsOf(trail, o))
  BY DEF CommittedTogether
<1>1. op[o].pc # "none" /\ op[o].tx \in Txs /\ ~op[o].outer
  BY DEF CountedInv, TInv, HookInv, HookOne, Blank, ScopeInv
<1>2. CASE tx[op[o].tx] = "committed"
  <2> DEFINE did == op[o].did
  <2> DEFINE f == [c \in did |-> c.key]
  <2>1. /\ \A c \in did : c.key \in Keys
        /\ \A c, d \in did : c.key = d.key => c = d
    BY <1>1 DEF CountedInv, StageInv, StageOne, TInv, Types, OpRec, Changed
  <2>2. Durable(o) = {f[c] : c \in did}
    BY <1>1, <1>2 DEF Durable
  <2>3. f = [c \in did |-> f[c]] /\ \A c, d \in did : f[c] = f[d] => c = d
    BY <2>1
  <2>4. Cardinality(RowsOf(trail, o)) = Cardinality(did)
    BY <1>1, <1>2 DEF CountedInv, CountInv
  <2> HIDE DEF did, f
  <2>5. IsFiniteSet(did)
    BY <2>1, KeyedFinite
  <2>6. Cardinality({f[c] : c \in did}) = Cardinality(did)
    BY <2>3, <2>5, ImageSize
  <2>7. QED
    BY <2>2, <2>4, <2>6
<1>3. CASE tx[op[o].tx] # "committed"
  <2>1. Durable(o) = {}
    BY <1>1, <1>3 DEF Durable
  <2>2. RowsOf(trail, o) = {}
    BY <1>3, RowsElsewhere DEF CountedInv
  <2>3. QED
    BY <2>1, <2>2
<1>4. QED
  BY <1>2, <1>3

(* When callbacks await their operations on the transaction they are given *)
(* (withAuditTransaction, prisma/audit-extension.ts), each operation of an *)
(* ended transaction has as many audit rows as it has changed rows.        *)
THEOREM TogetherForAll == Disciplined /\ Spec => []CommittedTogether
<1>1. Init => CountedInv
  BY InitCounted
<1>2. Disciplined /\ CountedInv /\ [Next]_vars => CountedInv'
  BY StepCounted
<1>3. CountedInv => CommittedTogether
  BY CountedTogether
<1>4. ASSUME Disciplined PROVE Spec => []CommittedTogether
  <2>1. CountedInv /\ [Next]_vars => CountedInv'
    BY <1>2, <1>4
  <2>2. QED
    BY <1>1, <1>3, <2>1, PTL DEF Spec
<1>5. QED
  BY <1>4

-----------------------------------------------------------------------------
(* A change that is still to be recorded stays the same one, and a row     *)
(* that is clean after a step was clean before it.                         *)
LEMMA ChainFrame ==
  ASSUME NEW t \in Txs, NEW k \in Keys, Clean(t, k) => StagedChain(t, k), Clean(t, k)',
         staged'[t] = staged[t], table'[k] = table[k], View(t, k)' = View(t, k),
         \A q \in Ops : op[q].tx = t => op'[q].tx = t /\ op[q].did \subseteq op'[q].did,
         \A i \in DOMAIN staged[t] : op'[staged[t][i].op].did = op[staged[t][i].op].did,
         \A q \in Ops : \A c : c.key = k =>
           ((op'[q].tx = t /\ Pending(q, k)' /\ c \in op'[q].did) <=>
            (op[q].tx = t /\ Pending(q, k) /\ c \in op[q].did))
  PROVE  StagedChain(t, k)'
<1>1. Clean(t, k)
  BY DEF Clean
<1>2. StagedChain(t, k)
  BY <1>1
<1>3. \A q \in Ops : op'[q].tx = t /\ Pending(q, k)' =>
        \A c \in op'[q].did : c.key = k => Chain(staged[t], k, table[k], c.before)
  BY <1>2 DEF StagedChain
<1>4. (\A q \in Ops : op'[q].tx = t /\ Pending(q, k)' => \A c \in op'[q].did : c.key # k) =>
        Chain(staged[t], k, table[k], View(t, k))
  BY <1>2 DEF StagedChain
<1>5. QED
  BY <1>3, <1>4 DEF StagedChain, Chain

(* The steps of other transactions, and those that change no row.          *)
LEMMA QuietChain ==
  ASSUME TInv, Disciplined, ScopeInv, LockInv, StageInv, RowsInv, ChainInv,
         NEW o \in Ops, OpStep(o), NEW t \in Txs, Open(t), t \notin failed', NEW k \in Keys,
         Clean(t, k)',
         op'[o].tx = t =>
           ~ApplyStmt(o) /\ ~PostRead(o) /\ ~InsertRecord(o)
  PROVE  StagedChain(t, k)'
<1>1. /\ \A q \in Ops : q # o => op'[q] = op[q]
      /\ op[o].pc # "none" => op'[o].tx = op[o].tx
  BY OpFrame
<1>2. /\ table' = table /\ failed \subseteq failed'
  BY ApplyEffect, RowsFrame DEF ScopeInv
<1>3. Clean(t, k) => StagedChain(t, k)
  BY <1>2 DEF ChainInv
<1>4. lock \in [Keys -> Txs \cup {None}] /\ op[o].pc = "none" => op[o].tx = None /\ op[o].did = {}
  BY DEF TInv, Types, HookInv, HookOne, Blank
<1>5. staged'[t] = staged[t]
  <2>1. CASE InsertRecord(o)
    <3>1. op[o].tx # t
      BY <1>1, <2>1 DEF InsertRecord
    <3>2. QED
      BY <2>1, <3>1 DEF InsertRecord, TInv, Types
  <2>2. CASE ~InsertRecord(o)
    BY <2>2 DEF OpStep, Start, PreReadOne, PreReadMany, LockRow, RefreshRow, SnapshotStmt,
       NotFound, QueryFails, PostRead, AuditFails, ApplyStmt
  <2>3. QED
    BY <2>1, <2>2
<1>6. View(t, k)' = View(t, k)
  <2>1. CASE LockRow(o) /\ op[o].tx = t
    <3>1. newest' = newest
      BY <2>1 DEF LockRow
    <3>2. lock'[k] = lock[k] \/ (lock[k] = None /\ lock'[k] = t)
      <4>1. PICK j \in op[o].todo :
              /\ lock[j] \in {None, op[o].tx}
              /\ lock' = IF newest[j] = None THEN lock ELSE [lock EXCEPT ![j] = op[o].tx]
        BY <2>1, LockEffect
      <4>2. QED
        BY <2>1, <4>1 DEF TInv, Types
    <3>3. QED
      BY <1>2, <3>1, <3>2, NoneAssumption DEF View, LockInv
  <2>2. CASE op[o].tx # t
    <3>1. lock[k] # None => lock'[k] = lock[k]
      BY OpLocks
    <3>2. lock'[k] = t => lock[k] = t /\ newest'[k] = newest[k]
      BY <2>2, OpLocks
    <3>3. QED
      BY <1>2, <3>1, <3>2, NoneAssumption DEF View
  <2>3. CASE ~LockRow(o) /\ op[o].tx = t
    <3>1. op[o].pc # "none"
      BY <1>4, <2>3, NoneAssumption DEF TInv, HookInv, HookOne, Blank
    <3>2. lock' = lock /\ newest' = newest
      BY <1>1, <2>3, <3>1, RowsFrame
    <3>3. QED
      BY <1>2, <3>2 DEF View
  <2>4. QED
    BY <2>1, <2>2, <2>3
<1>7. op[o].tx = t => op'[o].tx = t /\ op'[o].did = op[o].did /\ op[o].did = {}
  <2>1. SUFFICES ASSUME op[o].tx = t
        PROVE  op'[o].tx = t /\ op'[o].did = op[o].did /\ op[o].did = {}
    OBVIOUS
  <2>2. op[o].pc # "none"
    BY <2>1, NoneAssumption DEF TInv, HookInv, HookOne, Blank
  <2>3. op'[o].tx = t /\ StageOne(op[o])
    BY <1>1, <2>1, <2>2 DEF StageInv
  <2>4. ~AuditFails(o)
    BY <2>1 DEF AuditFails
  <2>5. PreReadOne(o) \/ PreReadMany(o) \/ LockRow(o) \/ RefreshRow(o) \/ SnapshotStmt(o)
        \/ NotFound(o) \/ QueryFails(o)
    BY <2>2, <2>3, <2>4 DEF OpStep, Start
  <2>6. op'[o].did = op[o].did
    BY <2>5, PreReadEffect, LockEffect, RefreshEffect, SnapshotEffect, FailureEffect
  <2>7. op[o].pc \in {"read", "lock", "refresh", "query", "apply"}
    BY <2>5 DEF PreReadOne, PreReadMany, LockRow, RefreshRow, SnapshotStmt, NotFound, QueryFails
  <2>8. QED
    BY <2>3, <2>6, <2>7 DEF StageOne
<1>8. op[o].tx # t /\ op'[o].tx = t => op'[o].did = {}
  <2>1. SUFFICES ASSUME op[o].tx # t, op'[o].tx = t PROVE op'[o].did = {}
    OBVIOUS
  <2>2. op[o].pc = "none"
    BY <1>1, <2>1
  <2>3. PICK u \in Txs, r \in Requests : Start(o, u, r)
    BY <2>2, Called
  <2>4. Fresh(op'[o], u, r)
    BY <2>3, StartEffect
  <2>5. QED
    BY <2>4 DEF Fresh
<1>9. \A q \in Ops : op[q].tx = t => op'[q].tx = t /\ op'[q].did = op[q].did
  BY <1>1, <1>7
<1>10. \A i \in DOMAIN staged[t] : op'[staged[t][i].op].did = op[staged[t][i].op].did
  <2>1. \A i \in DOMAIN staged[t] : staged[t][i].op \in Ops /\ op[staged[t][i].op].tx = t
    BY EntryTypes DEF RowsInv
  <2>2. QED
    BY <1>9, <2>1
<1>11. \A q \in Ops : \A c :
         (op'[q].tx = t /\ Pending(q, k)' /\ c \in op'[q].did) <=>
         (op[q].tx = t /\ Pending(q, k) /\ c \in op[q].did)
  <2>1. ASSUME NEW q \in Ops, q # o PROVE op'[q] = op[q] /\ (Pending(q, k)' <=> Pending(q, k))
    BY <1>1, <2>1 DEF Pending
  <2>2. QED
    BY <1>7, <1>8, <2>1
<1>12. QED
  BY <1>2, <1>3, <1>5, <1>6, <1>9, <1>10, <1>11, ChainFrame

(* A statement of the transaction itself: its changes start from the       *)
(* versions the chains have reached.                                       *)
LEMMA ApplyChain ==
  ASSUME CountedInv, ChainInv,
         NEW o \in Ops, ApplyStmt(o), NEW t \in Txs, op[o].tx = t, Open(t), t \notin failed',
         NEW k \in Keys, Clean(t, k)'
  PROVE  StagedChain(t, k)'
<1> USE DEF CountedInv
<1>1. /\ \A q \in Ops : q # o => op'[q] = op[q]
      /\ op'[o].tx = t
  BY OpFrame DEF OpStep, ApplyStmt
<1>2. /\ op[o].pc = "apply" /\ op[o].did = {}
      /\ op'[o].pc = IF Short(o) THEN "failed" ELSE AfterStmt(op[o].req.kind)
      /\ op'[o].did = {Change(o, j) : j \in Written(o)}
      /\ failed' = IF Short(o) THEN failed \cup {t} ELSE failed
      /\ table' = table /\ staged' = staged
      /\ newest' = [j \in Keys |-> IF j \in Written(o) THEN NewValue(o) ELSE newest[j]]
      /\ lock' = [j \in Keys |-> IF j \in op[o].cand THEN t ELSE lock[j]]
      /\ Written(o) \subseteq op[o].cand
      /\ \A j \in op[o].cand : lock[j] \in {None, t}
  BY ApplyEffect DEF ScopeInv, StageInv, StageOne
<1>3. op'[o].pc \in {"post", "record"} /\ t \notin failed
  BY <1>2 DEF AfterStmt
<1>4. RowsOf(staged[t], o) = {}
  BY <1>2, <1>3 DEF CountInv, StagedOne
<1>5. \A i \in DOMAIN staged[t] :
        op'[staged[t][i].op] = op[staged[t][i].op]
  BY <1>1, <1>4, EntryTypes DEF RowsOf
<1>6. Clean(t, k)
  <2>1. \A q \in Ops : op[q].tx = t => \A c \in op[q].did : c.key = k => c.held
    BY <1>1, <1>2 DEF Clean
  <2>2. \A i \in DOMAIN staged[t] : staged[t][i].key = k =>
          \E c \in op[staged[t][i].op].did : c.key = k
    BY <1>2, <1>5 DEF Clean
  <2>3. QED
    BY <2>1, <2>2 DEF Clean
<1>7. \A q \in Ops : q # o /\ op[q].tx = t => ~Pending(q, k)
  BY <1>2 DEF ScopeInv, Settled, Pending
<1>8. Chain(staged[t], k, table[k], View(t, k))
  BY <1>2, <1>3, <1>6, <1>7 DEF ChainInv, StagedChain
<1>9. \A q \in Ops : q # o /\ op'[q].tx = t => ~Pending(q, k)'
  BY <1>1, <1>7 DEF Pending
<1>10. CASE k \in Written(o)
  <2>1. \A c \in op'[o].did : c.key = k => c.before = newest[k]
    BY <1>2 DEF Change
  <2>2. View(t, k) = newest[k]
    BY <1>2, <1>10, ViewNewest
  <2>3. \E c \in op'[o].did : c.key = k
    <3>1. Change(o, k) \in op'[o].did /\ Change(o, k).key = k
      BY <1>2, <1>10 DEF Change
    <3>2. QED
      BY <3>1
  <2>4. Pending(o, k)'
    BY <1>3 DEF Pending
  <2>5. \A q \in Ops : op'[q].tx = t /\ Pending(q, k)' =>
          \A c \in op'[q].did : c.key = k => Chain(staged'[t], k, table'[k], c.before)
    BY <1>2, <1>8, <1>9, <2>1, <2>2
  <2>6. QED
    BY <1>1, <2>3, <2>4, <2>5 DEF StagedChain
<1>11. CASE k \notin Written(o)
  <2>1. \A c \in op'[o].did : c.key # k
    BY <1>2, <1>11 DEF Change
  <2>2. View(t, k)' = View(t, k)
    BY <1>2, <1>11, NoneAssumption DEF View, LockInv
  <2>3. QED
    BY <1>2, <1>8, <1>9, <2>1, <2>2 DEF StagedChain
<1>12. QED
  BY <1>10, <1>11

(* Every change made under a lock gets a record.                           *)
LEMMA HeldRecorded ==
  ASSUME CountedInv, NEW o \in Ops, op[o].pc \in {"post", "record"}, Open(op[o].tx),
         NEW c \in op[o].did, c.held
  PROVE  \E e \in Records(o) : e.key = c.key
<1> DEFINE a == op[o]
<1>1. StageOne(a) /\ ExactOne(a) /\ a.req \in Requests /\ a.req.kind \in Kinds
  BY RequestAssumption
  DEF CountedInv, StageInv, MemoryInv, MemoryOne, TInv, HookInv, HookOne, Request
<1>2. /\ \A d \in a.captured : d.key = c.key => d.val = c.before
      /\ IF c.before = None THEN a.req.kind \in {"create", "upsert"}
         ELSE \E d \in a.captured : d.key = c.key
  BY <1>1 DEF ExactOne
<1>3. ASSUME a.captured # {}, a.req.kind # "create" PROVE \E d \in a.captured : d.key = c.key
  <2>1. CASE c.before # None
    BY <1>2, <2>1
  <2>2. CASE c.before = None
    <3>1. a.req.kind = "upsert"
      BY <1>2, <1>3, <2>2
    <3>2. PICK k \in Keys : a.req.keys = {k}
      BY <1>1, <3>1, RequestAssumption
    <3>3. QED
      BY <1>1, <1>3, <3>2 DEF StageOne
  <2>3. QED
    BY <2>1, <2>2
<1>4. \A k, x, y : Record(k, x, y).key = k
  BY DEF Record
<1> DEFINE hit == {d.key : d \in a.did}
<1> DEFINE now(k) == View(a.tx, k)
<1>5. c.key \in hit
  OBVIOUS
<1>6. \/ Records(o) = {Record(k, None, now(k)) : k \in hit}
      \/ Records(o) = {Record(k, None, None) : k \in hit}
      \/ /\ a.captured # {} /\ a.req.kind # "create"
         /\ \/ Records(o) = {Record(d.key, d.val, now(d.key)) : d \in a.captured}
            \/ Records(o) = {Record(d.key, d.val, None) : d \in a.captured}
  BY <1>1 DEF Records, Kinds
<1> HIDE DEF a, now, hit
<1>7. CASE Records(o) = {Record(k, None, now(k)) : k \in hit}
  BY <1>4, <1>5, <1>7
<1>8. CASE Records(o) = {Record(k, None, None) : k \in hit}
  BY <1>4, <1>5, <1>8
<1>9. CASE /\ a.captured # {} /\ a.req.kind # "create"
           /\ Records(o) = {Record(d.key, d.val, now(d.key)) : d \in a.captured}
  BY <1>3, <1>4, <1>9
<1>10. CASE /\ a.captured # {} /\ a.req.kind # "create"
            /\ Records(o) = {Record(d.key, d.val, None) : d \in a.captured}
  BY <1>3, <1>4, <1>10
<1>11. QED
  BY <1>6, <1>7, <1>8, <1>9, <1>10

(* The records of a post-read continue the history of their rows.          *)
LEMMA PostReadChain ==
  ASSUME CountedInv, ChainInv,
         NEW o \in Ops, PostRead(o), NEW t \in Txs, op[o].tx = t, Open(t), t \notin failed',
         NEW k \in Keys, Clean(t, k)'
  PROVE  StagedChain(t, k)'
<1> USE DEF CountedInv
<1>1. /\ \A q \in Ops : q # o => op'[q] = op[q]
      /\ op[o].pc \in {"post", "record"} /\ op'[o].tx = t
  BY OpFrame DEF OpStep, PostRead
<1>2. /\ op'[o].recs = IF op[o].did = {} THEN {} ELSE Records(o)
      /\ op'[o].pc = IF op'[o].recs = {} THEN "done" ELSE "insert"
      /\ op'[o].did = op[o].did
  BY PostReadEffect
<1>3. UNCHANGED <<table, newest, lock, staged, failed>>
  BY DEF PostRead, db
<1>4. \A q \in Ops : op[q].tx = t => op'[q].tx = t /\ op'[q].did = op[q].did
  BY <1>1, <1>2
<1>5. \A i \in DOMAIN staged[t] : op'[staged[t][i].op].did = op[staged[t][i].op].did
  BY <1>4, EntryTypes DEF RowsInv
<1>6. ASSUME NEW c \in op[o].did, c.key = k PROVE Pending(o, k)' /\ Pending(o, k)
  <2>1. c.held
    BY <1>1, <1>2, <1>6 DEF Clean
  <2>2. \E e \in Records(o) : e.key = k
    BY <1>1, <1>6, <2>1, HeldRecorded
  <2>3. op'[o].pc = "insert" /\ \E e \in op'[o].recs : e.key = k
    BY <1>2, <1>6, <2>2
  <2>4. QED
    BY <1>1, <2>3 DEF Pending
<1>7. \A q \in Ops : \A c : c.key = k =>
        ((op'[q].tx = t /\ Pending(q, k)' /\ c \in op'[q].did) <=>
         (op[q].tx = t /\ Pending(q, k) /\ c \in op[q].did))
  <2>1. ASSUME NEW q \in Ops, q # o PROVE op'[q] = op[q] /\ (Pending(q, k)' <=> Pending(q, k))
    BY <1>1, <2>1 DEF Pending
  <2>2. QED
    BY <1>1, <1>2, <1>6, <2>1
<1>8. Clean(t, k) => StagedChain(t, k)
  BY <1>3 DEF ChainInv
<1>9. View(t, k)' = View(t, k)
  BY <1>3 DEF View
<1>10. QED
  BY <1>3, <1>4, <1>5, <1>7, <1>8, <1>9, ChainFrame

(* An inserted record takes the chain of its row to what the operation has *)
(* written.                                                                *)
LEMMA InsertChain ==
  ASSUME CountedInv, ChainInv,
         NEW o \in Ops, InsertRecord(o), NEW t \in Txs, op[o].tx = t, Open(t), t \notin failed',
         NEW k \in Keys, Clean(t, k)'
  PROVE  StagedChain(t, k)'
<1> USE DEF CountedInv
<1>1. /\ \A q \in Ops : q # o => op'[q] = op[q]
      /\ op[o].pc = "insert" /\ op'[o].tx = t
  BY OpFrame DEF OpStep, InsertRecord
<1>2. PICK e \in op[o].recs :
        /\ staged' = [staged EXCEPT ![t] = Append(@, AuditRow(o, e))]
        /\ op'[o].recs = op[o].recs \ {e}
        /\ op'[o].pc = IF op[o].recs = {e} THEN "done" ELSE "insert"
  BY InsertEffect
<1>3. op'[o].did = op[o].did /\ UNCHANGED <<table, newest, lock, failed>>
  BY InsertEffect DEF InsertRecord, db
<1> DEFINE row == AuditRow(o, e)
<1>4. /\ row.op = o /\ row.key = e.key /\ row.before = e.before /\ row.after = e.after
      /\ row \in Entry
  BY DEF AuditRow, Entry, TInv, Types, OpRec, Rec
<1>5. staged[t] \in Seq(Entry) /\ staged'[t] = Append(staged[t], row)
  BY <1>2 DEF TInv, Types
<1> HIDE DEF row
<1>6. \A q \in Ops : op[q].tx = t => op'[q].tx = t /\ op'[q].did = op[q].did
  BY <1>1, <1>3
<1>7. Clean(t, k)
  <2>1. \A i \in DOMAIN staged[t] : /\ i \in DOMAIN staged'[t] /\ staged'[t][i] = staged[t][i]
                                    /\ op'[staged[t][i].op].did = op[staged[t][i].op].did
    BY <1>5, <1>6, EntryTypes DEF RowsInv
  <2>2. \A i \in DOMAIN staged[t] : staged[t][i].key = k =>
          \E c \in op[staged[t][i].op].did : c.key = k
    BY <2>1 DEF Clean
  <2>3. \A q \in Ops : op[q].tx = t => \A c \in op[q].did : c.key = k => c.held
    BY <1>6 DEF Clean
  <2>4. QED
    BY <2>2, <2>3 DEF Clean
<1>8. StagedChain(t, k) /\ RecordedOne(op[o]) /\ HeldOne(op[o], lock, newest)
  BY <1>1, <1>3, <1>7 DEF ChainInv, MemoryInv, MemoryOne
<1>9. \A q \in Ops : q # o /\ op[q].tx = t => ~Pending(q, k)
  BY <1>1 DEF ScopeInv, Settled, Pending
<1>10. \A q \in Ops : q # o /\ op'[q].tx = t => ~Pending(q, k)'
  BY <1>1, <1>9 DEF Pending
<1>11. View(t, k)' = View(t, k)
  BY <1>3 DEF View
<1>12. CASE e.key = k
  <2>1. PICK c \in op[o].did : c.key = k
    <3>1. Len(staged'[t]) \in DOMAIN staged'[t] /\ staged'[t][Len(staged'[t])] = row
      BY <1>4, <1>5
    <3>2. QED
      BY <1>3, <1>4, <1>12, <3>1 DEF Clean
  <2>2. c.held
    BY <1>7, <2>1 DEF Clean
  <2>3. e.before = c.before /\ e.after = c.after
    BY <1>8, <1>12, <2>1, <2>2 DEF RecordedOne
  <2>4. Pending(o, k)
    BY <1>1, <1>12 DEF Pending
  <2>5. Chain(staged[t], k, table[k], c.before)
    BY <1>8, <2>1, <2>4 DEF StagedChain
  <2>6. Chain(staged'[t], k, table[k], c.after)
    BY <1>4, <1>5, <1>12, <2>3, <2>5, ChainAppend
  <2>7. c.after = View(t, k)
    BY <1>1, <1>8, <2>1 DEF HeldOne, View
  <2>8. ~Pending(o, k)'
    <3>1. \A f \in op'[o].recs : f.key # k
      BY <1>2, <1>8, <1>12 DEF RecordedOne
    <3>2. op'[o].pc \in {"done", "insert"}
      BY <1>2
    <3>3. QED
      BY <3>1, <3>2 DEF Pending
  <2>9. QED
    BY <1>3, <1>10, <1>11, <2>6, <2>7, <2>8 DEF StagedChain
<1>13. CASE e.key # k
  <2>1. Pending(o, k)' <=> Pending(o, k)
    BY <1>1, <1>2, <1>13 DEF Pending
  <2>2. \A a, b : Chain(staged[t], k, a, b) => Chain(staged'[t], k, a, b)
    BY <1>4, <1>5, <1>13, ChainAppend
  <2>3. \A q \in Ops : op'[q].tx = t /\ Pending(q, k)' =>
          \A c \in op'[q].did : c.key = k => Chain(staged'[t], k, table'[k], c.before)
    BY <1>3, <1>8, <1>10, <2>1, <2>2 DEF StagedChain
  <2>4. (\A q \in Ops : op'[q].tx = t /\ Pending(q, k)' => \A c \in op'[q].did : c.key # k) =>
          Chain(staged'[t], k, table'[k], View(t, k)')
    <3>1. SUFFICES ASSUME \A q \in Ops : op'[q].tx = t /\ Pending(q, k)' =>
                            \A c \in op'[q].did : c.key # k
          PROVE  Chain(staged[t], k, table[k], View(t, k))
      BY <1>3, <1>11, <2>2
    <3>2. \A q \in Ops : op[q].tx = t /\ Pending(q, k) => \A c \in op[q].did : c.key # k
      BY <1>1, <1>3, <1>9, <2>1, <3>1
    <3>3. QED
      BY <1>8, <3>2 DEF StagedChain
  <2>5. QED
    BY <2>3, <2>4 DEF StagedChain
<1>14. QED
  BY <1>12, <1>13

(* A row without changes of the transaction has no staged audit rows when  *)
(* it is clean.                                                            *)
LEMMA UntouchedChain ==
  ASSUME CountedInv, NEW t \in Txs, Open(t), NEW k \in Keys, Clean(t, k), lock[k] # t
  PROVE  /\ \A i \in DOMAIN staged[t] : staged[t][i].key # k
         /\ \A q \in Ops : op[q].tx = t => \A c \in op[q].did : c.key # k
<1>1. \A q \in Ops : op[q].tx = t => \A c \in op[q].did : lock[c.key] = t
  BY NoneAssumption DEF CountedInv, MemoryInv, MemoryOne, HeldOne, TInv, HookInv, HookOne, Blank
<1>2. \A i \in DOMAIN staged[t] : staged[t][i].op \in Ops /\ op[staged[t][i].op].tx = t
  BY EntryTypes DEF CountedInv, RowsInv
<1>3. QED
  BY <1>1, <1>2 DEF Clean

(* The steps of the transactions themselves.                               *)
LEMMA TxChain ==
  ASSUME CountedInv, ChainInv, NEW u \in Txs, TxStep(u),
         NEW t \in Txs, Open(t)', t \notin failed', NEW k \in Keys, Clean(t, k)'
  PROVE  StagedChain(t, k)'
<1> USE DEF CountedInv
<1>1. op' = op /\ failed' = failed
  BY DEF TxStep, Begin, Return, Commit, RollBack
<1>2. /\ tx \in [Txs -> TxState] /\ staged \in [Txs -> Seq(Entry)]
      /\ table \in [Keys -> Cell] /\ newest \in [Keys -> Cell]
      /\ lock \in [Keys -> Txs \cup {None}]
  BY DEF TInv, Types
<1>3. \A q \in Ops : Pending(q, k)' <=> Pending(q, k)
  BY <1>1 DEF Pending
<1>4. CASE Begin(u) /\ t = u
  <2>1. ~Open(t) /\ UNCHANGED <<table, newest, lock, staged>>
    BY <1>4 DEF Begin, Open, db
  <2>2. staged[t] = <<>> /\ lock[k] # t
    BY <2>1, NoneAssumption DEF RowsInv, LockInv
  <2>3. \A q \in Ops : op[q].tx # t
    BY <1>4, NoneAssumption DEF Begin, ScopeInv, TInv, HookInv, HookOne, Blank
  <2>4. Chain(staged'[t], k, table'[k], View(t, k)')
    BY <2>1, <2>2, ChainNone DEF View
  <2>5. QED
    BY <1>1, <2>3, <2>4 DEF StagedChain
<1>5. CASE ~(Begin(u) /\ t = u)
  <2>1. Open(t) /\ staged'[t] = staged[t]
    BY <1>2, <1>5 DEF TxStep, Begin, Return, Commit, RollBack, RollBackRows, Open, db
  <2>2. Clean(t, k)
    BY <1>1, <2>1 DEF Clean
  <2>3. StagedChain(t, k)
    BY <1>1, <2>1, <2>2 DEF ChainInv
  <2>4. CASE lock[k] = t
    <3>1. table'[k] = table[k] /\ lock'[k] = t /\ newest'[k] = newest[k]
      BY <1>2, <1>5, <2>4 DEF TxStep, Begin, Return, Commit, RollBack, RollBackRows, Open, db
    <3>2. View(t, k)' = View(t, k)
      BY <2>4, <3>1 DEF View
    <3>3. QED
      BY <1>1, <1>3, <2>1, <2>3, <3>1, <3>2 DEF StagedChain
  <2>5. CASE lock[k] # t
    <3>1. lock'[k] # t
      BY <1>2, <2>5, NoneAssumption DEF TxStep, Begin, Return, Commit, RollBack, RollBackRows, db
    <3>2. View(t, k)' = table'[k]
      BY <3>1 DEF View
    <3>3. /\ \A i \in DOMAIN staged[t] : staged[t][i].key # k
          /\ \A q \in Ops : op[q].tx = t => \A c \in op[q].did : c.key # k
      BY <2>1, <2>2, <2>5, UntouchedChain
    <3>4. Chain(staged'[t], k, table'[k], View(t, k)')
      BY <2>1, <3>2, <3>3, ChainNone
    <3>5. QED
      BY <1>1, <3>3, <3>4 DEF StagedChain
  <2>6. QED
    BY <2>4, <2>5
<1>6. QED
  BY <1>4, <1>5

(* Every step keeps the chains of the open transactions.                   *)
LEMMA ChainStep ==
  ASSUME Disciplined, CountedInv, ChainInv, [Next]_vars
  PROVE  ChainInv'
<1> SUFFICES ASSUME NEW t \in Txs, Open(t)', t \notin failed', NEW k \in Keys, Clean(t, k)'
             PROVE  StagedChain(t, k)'
  BY DEF ChainInv
<1>1. CASE UNCHANGED vars
  <2>1. UNCHANGED <<table, newest, lock, staged, tx, failed, op>>
    BY <1>1 DEF vars, db
  <2>2. Open(t) /\ t \notin failed /\ Clean(t, k) /\ View(t, k)' = View(t, k)
    BY <2>1 DEF Open, Clean, View
  <2>3. \A q \in Ops : Pending(q, k)' <=> Pending(q, k)
    BY <2>1 DEF Pending
  <2>4. QED
    BY <2>1, <2>2, <2>3 DEF ChainInv, StagedChain
<1>2. ASSUME NEW o \in Ops, OpStep(o) PROVE StagedChain(t, k)'
  <2>1. tx' = tx /\ (op[o].pc # "none" => op'[o].tx = op[o].tx)
    BY <1>2, OpFrame DEF CountedInv
  <2>2. Open(t)
    BY <2>1 DEF Open
  <2>3. ApplyStmt(o) \/ PostRead(o) \/ InsertRecord(o) => op'[o].tx = op[o].tx
    BY <2>1 DEF ApplyStmt, PostRead, InsertRecord
  <2>4. CASE op'[o].tx = t /\ (ApplyStmt(o) \/ PostRead(o) \/ InsertRecord(o))
    BY <2>2, <2>3, <2>4, ApplyChain, PostReadChain, InsertChain
  <2>5. CASE ~(op'[o].tx = t /\ (ApplyStmt(o) \/ PostRead(o) \/ InsertRecord(o)))
    BY <1>2, <2>2, <2>5, QuietChain DEF CountedInv
  <2>6. QED
    BY <2>4, <2>5
<1>3. QED
  BY <1>1, <1>2, TxChain DEF Next

(* Only a commit changes the table or the trail.                           *)
LEMMA TrailFrame ==
  ASSUME CountedInv, [Next]_vars, \A t \in Txs : ~Commit(t)
  PROVE  trail' = trail /\ table' = table
<1> USE DEF CountedInv
<1>1. CASE UNCHANGED vars
  BY <1>1 DEF vars, db
<1>2. ASSUME NEW o \in Ops, OpStep(o) PROVE trail' = trail /\ table' = table
  BY <1>2, OpFrame, ApplyEffect, RowsFrame DEF ScopeInv
<1>3. ASSUME NEW t \in Txs, TxStep(t) PROVE trail' = trail /\ table' = table
  BY <1>3 DEF TxStep, Begin, Return, RollBack, RollBackRows, db
<1>4. QED
  BY <1>1, <1>2, <1>3 DEF Next

(* What has been committed stays as it is.                                 *)
LEMMA CommittedFrame ==
  ASSUME CountedInv, [Next]_vars, NEW q \in Ops, op[q].tx \in Txs, tx[op[q].tx] = "committed"
  PROVE  op'[q] = op[q] /\ tx'[op[q].tx] = "committed"
<1> USE DEF CountedInv
<1>1. tx \in [Txs -> TxState]
  BY DEF TInv, Types
<1>2. CASE UNCHANGED vars
  BY <1>2 DEF vars
<1>3. ASSUME NEW o \in Ops, OpStep(o) PROVE op'[q] = op[q] /\ tx'[op[q].tx] = "committed"
  <2>1. /\ tx' = tx /\ \A r \in Ops : r # o => op'[r] = op[r]
        /\ op[o].pc \notin {"done", "failed"}
    BY <1>3, OpFrame
  <2>2. ~(op[o].tx \in Txs /\ tx[op[o].tx] = "committed")
    BY <2>1, NoneAssumption DEF ScopeInv, Settled, TInv, HookInv, HookOne, Blank
  <2>3. QED
    BY <2>1, <2>2
<1>4. ASSUME NEW t \in Txs, TxStep(t) PROVE op'[q] = op[q] /\ tx'[op[q].tx] = "committed"
  BY <1>1, <1>4 DEF TxStep, Begin, Return, Commit, RollBack
<1>5. QED
  BY <1>2, <1>3, <1>4 DEF Next

(* A row that is still exact after a step was exact before it.             *)
LEMMA UnderLockStep ==
  ASSUME CountedInv, [Next]_vars, NEW k \in Keys, ChangedUnderLock(k)'
  PROVE  ChangedUnderLock(k)
<1> USE DEF CountedInv
<1>1. trail \in Seq(Entry) /\ staged \in [Txs -> Seq(Entry)]
  BY DEF TInv, Types
<1>2. \A i \in DOMAIN trail :
        /\ trail[i].op \in Ops /\ op[trail[i].op].tx \in Txs
        /\ tx[op[trail[i].op].tx] = "committed"
  BY EntryTypes DEF RowsInv
<1>3. \A i \in DOMAIN trail : i \in DOMAIN trail' /\ trail'[i] = trail[i]
  <2>1. CASE \E t \in Txs : Commit(t)
    BY <1>1, <2>1 DEF Commit
  <2>2. CASE \A t \in Txs : ~Commit(t)
    BY <2>2, TrailFrame
  <2>3. QED
    BY <2>1, <2>2
<1>4. \A o \in Ops : op[o].did # {} => op[o].tx \in Txs
  BY DEF TInv, HookInv, HookOne, Blank
<1>5. \A o \in Ops : \A c \in op[o].did : c.key = k /\ tx[op[o].tx] = "committed" => c.held
  BY <1>4, CommittedFrame DEF ChangedUnderLock
<1>6. \A i \in DOMAIN trail : trail[i].key = k => \E c \in op[trail[i].op].did : c.key = k
  <2>1. \A i \in DOMAIN trail : op'[trail[i].op] = op[trail[i].op]
    BY <1>2, CommittedFrame
  <2>2. QED
    BY <1>3, <2>1 DEF ChangedUnderLock
<1>7. QED
  BY <1>5, <1>6 DEF ChangedUnderLock

(* What a commit adds to the trail of an exact row leads from the version  *)
(* the commit found to the one it leaves.                                  *)
LEMMA CommitChain ==
  ASSUME CountedInv, ChainInv, NEW t \in Txs, Commit(t), NEW k \in Keys, ChangedUnderLock(k)'
  PROVE  Chain(staged[t], k, table[k], table'[k])
<1> USE DEF CountedInv
<1>1. /\ trail \in Seq(Entry) /\ staged \in [Txs -> Seq(Entry)] /\ tx \in [Txs -> TxState]
      /\ table \in [Keys -> Cell] /\ lock \in [Keys -> Txs \cup {None}]
  BY DEF TInv, Types
<1>2. /\ op' = op /\ tx[t] = "returning" /\ tx' = [tx EXCEPT ![t] = "committed"]
      /\ trail' = trail \o staged[t]
      /\ table' = [j \in Keys |-> IF lock[j] = t THEN newest[j] ELSE table[j]]
  BY DEF Commit
<1>3. Clean(t, k)
  <2>1. \A o \in Ops : op[o].tx = t => \A c \in op[o].did : c.key = k => c.held
    BY <1>1, <1>2 DEF ChangedUnderLock
  <2>2. \A i \in DOMAIN staged[t] : /\ Len(trail) + i \in DOMAIN trail'
                                    /\ trail'[Len(trail) + i] = staged[t][i]
    BY <1>1, <1>2
  <2>3. ASSUME NEW i \in DOMAIN staged[t], staged[t][i].key = k
        PROVE  \E c \in op[staged[t][i].op].did : c.key = k
    <3>1. \E c \in op'[trail'[Len(trail) + i].op].did : c.key = k
      BY <2>2, <2>3 DEF ChangedUnderLock
    <3>2. QED
      BY <1>2, <2>2, <3>1
  <2>4. QED
    BY <2>1, <2>3 DEF Clean
<1>4. Open(t) /\ t \notin failed
  BY <1>2 DEF Open, ScopeInv
<1>5. \A q \in Ops : op[q].tx = t => ~Pending(q, k)
  BY <1>2, NoneAssumption DEF ScopeInv, Settled, Pending, TInv, HookInv, HookOne, Blank
<1>6. Chain(staged[t], k, table[k], View(t, k))
  BY <1>3, <1>4, <1>5 DEF ChainInv, StagedChain
<1>7. View(t, k) = table'[k]
  BY <1>2 DEF View
<1>8. QED
  BY <1>6, <1>7

(* Every step keeps the trail replaying.                                   *)
LEMMA TrailStep ==
  ASSUME CountedInv, ChainInv, TrailReplays, [Next]_vars
  PROVE  TrailReplays'
<1> SUFFICES ASSUME NEW k \in Keys, ChangedUnderLock(k)'
             PROVE  Chain(trail', k, InitTable[k], table'[k])
  BY DEF TrailReplays
<1>1. Chain(trail, k, InitTable[k], table[k])
  BY UnderLockStep DEF TrailReplays
<1>2. CASE \A t \in Txs : ~Commit(t)
  BY <1>1, <1>2, TrailFrame
<1>3. ASSUME NEW t \in Txs, Commit(t) PROVE Chain(trail', k, InitTable[k], table'[k])
  <2>1. Chain(staged[t], k, table[k], table'[k])
    BY <1>3, CommitChain
  <2>2. trail \in Seq(Entry) /\ staged[t] \in Seq(Entry) /\ trail' = trail \o staged[t]
    BY <1>3 DEF Commit, CountedInv, TInv, Types
  <2>3. QED
    BY <1>1, <2>1, <2>2, ChainConcat
<1>4. QED
  BY <1>2, <1>3

(* The initial states have no rows to chain.                               *)
LEMMA InitChains == Init => ChainInv /\ TrailReplays
<1> SUFFICES ASSUME Init PROVE ChainInv /\ TrailReplays
  OBVIOUS
<1>1. ChainInv
  BY DEF Init, ChainInv, Open
<1>2. TrailReplays
  BY ChainNone DEF Init, TrailReplays
<1>3. QED
  BY <1>1, <1>2

(* When callbacks await their operations on the transaction they are given *)
(* (withAuditTransaction, prisma/audit-extension.ts), the audit rows of a  *)
(* row that was only changed and recorded under its lock lead, one from    *)
(* the other, from its first value to its committed one.                   *)
THEOREM ReplaysForAll == Disciplined /\ Spec => []TrailReplays
<1> DEFINE Inv == CountedInv /\ ChainInv /\ TrailReplays
<1>1. Init => Inv
  BY InitCounted, InitChains
<1>2. Disciplined /\ Inv /\ [Next]_vars => Inv'
  BY StepCounted, ChainStep, TrailStep
<1>3. ASSUME Disciplined PROVE Spec => []TrailReplays
  <2>1. Inv /\ [Next]_vars => Inv'
    BY <1>2, <1>3
  <2>2. QED
    BY <1>1, <2>1, PTL DEF Spec
<1>4. QED
  BY <1>3

-----------------------------------------------------------------------------
(* Of a longer sequence, the part that was there and the part added to it. *)
LEMMA AddedRows ==
  ASSUME NEW S, NEW s \in Seq(S), NEW r \in Seq(S)
  PROVE  LET w == s \o r
         IN  /\ Len(s) <= Len(w) /\ SubSeq(w, 1, Len(s)) = s
             /\ SubSeq(w, Len(s) + 1, Len(w)) = r
<1> DEFINE w == s \o r
<1>1. /\ w \in Seq(S) /\ Len(w) = Len(s) + Len(r) /\ Len(s) \in Nat /\ Len(r) \in Nat
      /\ \A i \in 1 .. Len(s) : w[i] = s[i]
      /\ \A i \in 1 .. Len(r) : w[Len(s) + i] = r[i]
  OBVIOUS
<1> HIDE DEF w
<1>2. SubSeq(w, 1, Len(s)) = s
  <2> DEFINE u == SubSeq(w, 1, Len(s))
  <2>1. u \in Seq(S) /\ Len(u) = Len(s) /\ \A i \in 1 .. Len(s) : u[i] = s[i]
    BY <1>1
  <2> HIDE DEF u
  <2>2. u = s
    BY <2>1, SeqEqual
  <2>3. QED
    BY <2>2 DEF u
<1>3. SubSeq(w, Len(s) + 1, Len(w)) = r
  <2> DEFINE u == SubSeq(w, Len(s) + 1, Len(w))
  <2>1. u \in Seq(S) /\ Len(u) = Len(r) /\ \A i \in 1 .. Len(r) : u[i] = r[i]
    BY <1>1
  <2> HIDE DEF u
  <2>2. u = r
    BY <2>1, SeqEqual
  <2>3. QED
    BY <2>2 DEF u
<1>4. QED
  BY <1>1, <1>2, <1>3 DEF w

(* A step of the system is a transaction of the audited table, or nothing  *)
(* it can see.                                                             *)
LEMMA AuditedStep ==
  ASSUME CountedInv, ChainInv, [Next]_vars
  PROVE  [Audited!Transact]_(Audited!vars)
<1> DEFINE exact == {k \in Keys : ChangedUnderLock(k)}
<1>1. \A k \in Keys : ChangedUnderLock(k)' => ChangedUnderLock(k)
  BY UnderLockStep
<1>2. trail \in Seq(Entry) /\ table \in [Keys -> Cell] /\ newest \in [Keys -> Cell]
  BY DEF CountedInv, TInv, Types
<1>3. ASSUME NEW r \in Seq(Entry), trail' = trail \o r, table' \in [Keys -> Cell],
             \A k \in Keys : ChangedUnderLock(k)' => Chain(r, k, table[k], table'[k])
      PROVE  Audited!Transact
  <2>1. /\ Len(trail) <= Len(trail') /\ SubSeq(trail', 1, Len(trail)) = trail
        /\ SubSeq(trail', Len(trail) + 1, Len(trail')) = r
    BY <1>2, <1>3, AddedRows
  <2>2. \A k \in Keys : ChangedUnderLock(k)' =>
          Audited!Chain(SubSeq(trail', Len(trail) + 1, Len(trail')), k, table[k], table'[k])
    <3>1. \A u, k, a, b : Chain(u, k, a, b) => Audited!Chain(u, k, a, b)
      BY ONLY DEF Chain, Audited!Chain
    <3>2. QED
      BY ONLY <1>3, <2>1, <3>1
  <2>3. QED
    BY <1>1, <1>3, <2>1, <2>2 DEF Audited!Transact
<1>4. ASSUME NEW t \in Txs, Commit(t) PROVE Audited!Transact
  <2>1. staged[t] \in Seq(Entry) /\ trail' = trail \o staged[t] /\ table' \in [Keys -> Cell]
    BY <1>2, <1>4 DEF Commit, CountedInv, TInv, Types
  <2>2. QED
    BY <1>3, <1>4, <2>1, CommitChain
<1>5. ASSUME \A t \in Txs : ~Commit(t) PROVE Audited!Transact
  <2>1. trail' = trail /\ table' = table
    BY <1>5, TrailFrame
  <2>2. trail' = trail \o <<>> /\ <<>> \in Seq(Entry)
    BY <1>2, <2>1
  <2>3. \A k \in Keys : Chain(<<>>, k, table[k], table'[k])
    BY <2>1, ChainNone
  <2>4. QED
    BY <1>2, <1>3, <2>1, <2>2, <2>3
<1>6. QED
  BY <1>4, <1>5

(* When callbacks await their operations on the transaction they are given *)
(* (withAuditTransaction, prisma/audit-extension.ts), the table and its    *)
(* trail are an audited table: a commit brings the changes and the audit   *)
(* rows that account for them in one step, and nothing else brings either. *)
THEOREM Refinement == Disciplined /\ Spec => ImplementsAuditedTable
<1>1. Init => CountedInv /\ ChainInv /\ Audited!Init
  <2> SUFFICES ASSUME Init PROVE CountedInv /\ ChainInv /\ Audited!Init
    OBVIOUS
  <2>1. trail = <<>> /\ table = InitTable /\ \A o \in Ops : op[o].did = {}
    BY DEF Init, Blank
  <2>2. \A k \in Keys : ChangedUnderLock(k)
    BY <2>1 DEF ChangedUnderLock
  <2>3. Audited!Init
    BY <2>1, <2>2 DEF Audited!Init
  <2>4. QED
    BY <2>3, InitCounted, InitChains
<1>2. CountedInv /\ ChainInv /\ [Next]_vars => [Audited!Transact]_(Audited!vars)
  BY AuditedStep
<1>3. ASSUME Disciplined PROVE Spec => ImplementsAuditedTable
  <2>1. (CountedInv /\ ChainInv) /\ [Next]_vars => (CountedInv /\ ChainInv)'
    BY <1>3, StepCounted, ChainStep
  <2>2. QED
    BY <1>1, <1>2, <2>1, PTL DEF Spec, ImplementsAuditedTable, Audited!Spec
<1>4. QED
  BY <1>3
=============================================================================
