---------------------------- MODULE TrackedWrites ----------------------------
(***************************************************************************)
(* Automatic tracking in atomic-required mode: withAuditTransaction and    *)
(* the query hooks create, update, upsert, delete and deleteMany, run by   *)
(* concurrent PostgreSQL transactions at READ COMMITTED.  A hook reads the *)
(* row it is about to change, locks it, reads it again, runs the query of  *)
(* the caller and writes the audit row on the transaction of the helper.   *)
(***************************************************************************)
EXTENDS Naturals, Sequences, FiniteSets, AuditTrail

CONSTANTS
  Txs,         \* calls of withAuditTransaction
  Ops,         \* tracked operations, each used once
  Keys,        \* primary keys of the tracked model
  Vals,        \* row contents
  None,        \* no row, no value, no transaction
  Requests,    \* the operations callers may ask for
  MaxBatch,    \* maxBatchRecords
  InitTable,   \* the rows at the start
  Sequential,  \* callbacks await each operation before they go on
  OuterClient  \* callbacks may call the client instead of their tx

Kinds   == {"create", "update", "upsert", "delete", "deleteMany"}
Cell    == Vals \cup {None}
(* where: the rows with a key in keys and a content in vals.               *)
Request == [kind : Kinds, keys : SUBSET Keys, vals : SUBSET Vals, data : Cell]

ASSUME NoneAssumption == None \notin Vals /\ None \notin Txs /\ None \notin Keys
ASSUME KeysAssumption == IsFiniteSet(Keys)
(* A single operation names its row by primary key; an upsert names it by  *)
(* nothing else, and only deletions leave no content.                      *)
ASSUME RequestAssumption ==
  /\ Requests \subseteq Request
  /\ \A r \in Requests : r.kind # "deleteMany" => \E k \in Keys : r.keys = {k}
  /\ \A r \in Requests : r.kind \in {"create", "update", "upsert"} => r.data \in Vals
  /\ \A r \in Requests : r.kind = "upsert" => r.vals = Vals
ASSUME BatchAssumption == MaxBatch \in Nat \ {0}
ASSUME TableAssumption == InitTable \in [Keys -> Cell]
ASSUME ModeAssumption == Sequential \in BOOLEAN /\ OuterClient \in BOOLEAN

VARIABLES
  table,    \* the committed rows
  newest,   \* the newest version of each row, committed or not
  lock,     \* the transaction that holds the row lock
  trail,    \* the committed audit rows
  staged,   \* the audit rows of each open transaction
  tx,       \* the state of each transaction
  aborted,  \* transactions in which a statement has failed
  failed,   \* scope.failed of each helper call
  op        \* the progress of each operation

db   == <<table, newest, lock, trail>>
vars == <<db, staged, tx, aborted, failed, op>>

Settled == {"none", "done", "failed"}
Blank ==
  [pc |-> "none", tx |-> None, outer |-> FALSE, req |-> None, todo |-> {}, at |-> None,
   captured |-> {}, cand |-> {}, did |-> {}, recs |-> {}]

Live(t)    == tx[t] \in {"open", "returning"} /\ t \notin aborted
View(t, k) == IF lock[k] = t THEN newest[k] ELSE table[k]
Match(t, r) == {k \in r.keys : View(t, k) \in r.vals}
Free(o, k) == lock[k] = None \/ (lock[k] = op[o].tx /\ ~op[o].outer)

Init ==
  /\ table = InitTable /\ newest = InitTable
  /\ lock = [k \in Keys |-> None]
  /\ trail = <<>>
  /\ staged = [t \in Txs |-> <<>>]
  /\ tx = [t \in Txs |-> "idle"]
  /\ aborted = {} /\ failed = {}
  /\ op = [o \in Ops |-> Blank]

-----------------------------------------------------------------------------
(* Prisma opens the transaction and calls the function of the helper.      *)
Begin(t) ==
  /\ tx[t] = "idle"
  /\ tx' = [tx EXCEPT ![t] = "open"]
  /\ UNCHANGED <<db, staged, aborted, failed, op>>

(* The callback, or code it left running, calls an operation.              *)
Start(o, t, r) ==
  /\ op[o].pc = "none"
  /\ tx[t] = "open" \/ (tx[t] = "returning" /\ ~Sequential)
  /\ Sequential => \A q \in Ops : op[q].tx = t => op[q].pc \in Settled
  /\ \E outer \in {FALSE, OuterClient} :
       op' = [op EXCEPT ![o] = [Blank EXCEPT
                !.pc = IF r.kind = "create" THEN "query" ELSE "read",
                !.tx = t, !.outer = outer, !.req = r]]
  /\ UNCHANGED <<db, staged, tx, aborted, failed>>

(* The rows a hook has found, to be locked one by one before the query.    *)
Captured(o, todo) ==
  [op[o] EXCEPT !.pc = IF todo = {} THEN "query" ELSE "lock", !.todo = todo,
                !.captured = {[key |-> k, val |-> View(op[o].tx, k)] : k \in todo}]

(* update, upsert and delete: findFirst({where}).                          *)
PreReadOne(o) ==
  LET found == Match(op[o].tx, op[o].req)
  IN  /\ op[o].pc = "read" /\ Live(op[o].tx) /\ op[o].req.kind # "deleteMany"
      /\ \E todo \in {{k} : k \in found} \cup (IF found = {} THEN {{}} ELSE {}) :
           op' = [op EXCEPT ![o] = Captured(o, todo)]
      /\ UNCHANGED <<db, staged, tx, aborted, failed>>

(* Mutant: one record more than the limit is let through.                  *)
PreReadManyOverLimit(o) ==
  /\ op[o].pc = "read" /\ Live(op[o].tx) /\ op[o].req.kind = "deleteMany"
  /\ op' = [op EXCEPT ![o] = Captured(o, Match(op[o].tx, op[o].req))]
  /\ UNCHANGED <<db, staged, tx, aborted, failed>>

(* deleteMany: findMany({where, take: maxBatchRecords + 1}), whose overflow *)
(* is thrown without marking the scope.                                    *)
PreReadMany(o) ==
  LET found == Match(op[o].tx, op[o].req)
  IN  /\ op[o].pc = "read" /\ Live(op[o].tx) /\ op[o].req.kind = "deleteMany"
      /\ op' = [op EXCEPT ![o] = IF Cardinality(found) > MaxBatch
                                  THEN [@ EXCEPT !.pc = "failed"] ELSE Captured(o, found)]
      /\ UNCHANGED <<db, staged, tx, aborted, failed>>

(* SELECT ... WHERE pk = $1 FOR UPDATE waits for the row, if there is one. *)
LockRow(o) ==
  /\ op[o].pc = "lock" /\ Live(op[o].tx)
  /\ \E k \in op[o].todo :
       /\ lock[k] \in {None, op[o].tx}
       /\ lock' = IF newest[k] = None THEN lock ELSE [lock EXCEPT ![k] = op[o].tx]
       /\ op' = [op EXCEPT ![o].pc = "refresh", ![o].at = k]
  /\ UNCHANGED <<table, newest, trail, staged, tx, aborted, failed>>

(* Mutant: the candidate read before the lock is the preimage.             *)
RefreshKeepsCandidate(o) ==
  LET k == op[o].at
  IN  /\ op[o].pc = "refresh" /\ Live(op[o].tx)
      /\ op' = [op EXCEPT
           ![o].pc = IF op[o].todo = {k} THEN "query" ELSE "lock",
           ![o].at = None,
           ![o].todo = @ \ {k}]
      /\ UNCHANGED <<db, staged, tx, aborted, failed>>

(* findFirst({where: {pk}}): the refreshed row replaces the candidate.     *)
RefreshRow(o) ==
  LET k == op[o].at   now == View(op[o].tx, k)
  IN  /\ op[o].pc = "refresh" /\ Live(op[o].tx)
      /\ op' = [op EXCEPT
           ![o].pc = IF op[o].todo = {k} THEN "query" ELSE "lock",
           ![o].at = None,
           ![o].todo = @ \ {k},
           ![o].captured = {c \in @ : c.key # k} \cup
             (IF now = None THEN {} ELSE {[key |-> k, val |-> now]})]
      /\ UNCHANGED <<db, staged, tx, aborted, failed>>

-----------------------------------------------------------------------------
(* The snapshot of the query's statement; a row it has selected is locked  *)
(* and its predicate evaluated again before it is changed.                 *)
SnapshotStmt(o) ==
  LET r == op[o].req
  IN  /\ op[o].pc = "query" /\ (op[o].outer \/ Live(op[o].tx))
      /\ op' = [op EXCEPT
           ![o].pc = "apply",
           ![o].cand = IF r.kind \in {"create", "upsert"} THEN r.keys
                       ELSE IF op[o].outer THEN {k \in r.keys : table[k] \in r.vals}
                       ELSE Match(op[o].tx, r)]
      /\ UNCHANGED <<db, staged, tx, aborted, failed>>

(* The rows the statement changes, once it may lock all it has selected.   *)
Written(o) ==
  IF op[o].req.kind \in {"create", "upsert"} THEN op[o].cand
  ELSE {k \in op[o].cand : newest[k] \in op[o].req.vals}

NewValue(o) == IF op[o].req.kind \in {"delete", "deleteMany"} THEN None ELSE op[o].req.data

(* A changed row, and whether the operation's transaction had it locked    *)
(* before the statement.                                                   *)
Change(o, k) ==
  [key |-> k, before |-> newest[k], after |-> NewValue(o),
   held |-> lock[k] = op[o].tx \/ op[o].req.kind = "create"]

StoreRows(o) ==
  LET stored(f) == [k \in Keys |-> IF k \in Written(o) THEN NewValue(o) ELSE f[k]]
  IN  /\ newest' = stored(newest)
      /\ IF op[o].outer
           THEN table' = stored(table) /\ UNCHANGED lock
           ELSE /\ lock' = [k \in Keys |-> IF k \in op[o].cand THEN op[o].tx ELSE lock[k]]
                /\ UNCHANGED table
      /\ UNCHANGED trail

AfterStmt(kind) == IF kind \in {"delete", "deleteMany"} THEN "record" ELSE "post"

(* The query succeeds.  deleteMany compares the count it returns with the  *)
(* number of preimages and fails the scope when they differ.               *)
ApplyStmt(o) ==
  LET r == op[o].req
      short == r.kind = "deleteMany" /\ Cardinality(Written(o)) # Cardinality(op[o].captured)
  IN  /\ op[o].pc = "apply" /\ (op[o].outer \/ Live(op[o].tx))
      /\ \A k \in op[o].cand : Free(o, k)
      /\ r.kind = "create" => \A k \in r.keys : newest[k] = None
      /\ Written(o) # {} \/ r.kind = "deleteMany"
      /\ StoreRows(o)
      /\ op' = [op EXCEPT ![o].pc = IF short THEN "failed" ELSE AfterStmt(r.kind),
                          ![o].did = {Change(o, k) : k \in Written(o)}]
      /\ failed' = IF short THEN failed \cup {op[o].tx} ELSE failed
      /\ UNCHANGED <<staged, tx, aborted>>

(* P2025: no row matches; the transaction goes on and nothing is marked.   *)
NotFound(o) ==
  /\ op[o].pc = "apply" /\ (op[o].outer \/ Live(op[o].tx))
  /\ op[o].req.kind \in {"update", "delete"}
  /\ \A k \in op[o].cand : Free(o, k)
  /\ Written(o) = {}
  /\ op' = [op EXCEPT ![o].pc = "failed"]
  /\ UNCHANGED <<db, staged, tx, aborted, failed>>

(* The query fails: a duplicate key, a deadlock, a closed transaction.     *)
QueryFails(o) ==
  /\ op[o].pc \in {"query", "apply"}
  /\ op' = [op EXCEPT ![o].pc = "failed"]
  /\ aborted' = IF op[o].outer THEN aborted ELSE aborted \cup {op[o].tx}
  /\ UNCHANGED <<db, staged, tx, failed>>

-----------------------------------------------------------------------------
(* The audit rows of an operation: an unknown preimage leaves the changes  *)
(* of an update or a delete empty and makes an upsert a creation.          *)
Record(k, before, after) == [key |-> k, before |-> before, after |-> after]

Records(o) ==
  LET kind == op[o].req.kind
      now(k) == View(op[o].tx, k)
      hit == {c.key : c \in op[o].did}
      unseen == op[o].captured = {}
  IN  IF kind = "create" \/ (kind = "upsert" /\ unseen)
        THEN {Record(k, None, now(k)) : k \in hit}
      ELSE IF unseen THEN {Record(k, None, None) : k \in hit}
      ELSE IF kind \in {"update", "upsert"}
        THEN {Record(c.key, c.val, now(c.key)) : c \in op[o].captured}
      ELSE {Record(c.key, c.val, None) : c \in op[o].captured}

(* findFirst by primary key after the change; delete has no such read.     *)
PostRead(o) ==
  /\ op[o].pc \in {"post", "record"}
  /\ op[o].pc = "post" => Live(op[o].tx)
  /\ LET recs == IF op[o].did = {} THEN {} ELSE Records(o)
     IN  op' = [op EXCEPT ![o].recs = recs,
                          ![o].pc = IF recs = {} THEN "done" ELSE "insert"]
  /\ UNCHANGED <<db, staged, tx, aborted, failed>>

(* The row to insert; actor, tenant and metadata are left out.             *)
AuditRow(o, e) == [op |-> o, key |-> e.key, before |-> e.before, after |-> e.after]

(* Mutant: the INSERT runs on a connection of its own.                     *)
InsertOutside(o) ==
  /\ op[o].pc = "insert" /\ Live(op[o].tx)
  /\ \E e \in op[o].recs :
       /\ trail' = Append(trail, AuditRow(o, e))
       /\ op' = [op EXCEPT ![o].recs = @ \ {e},
                           ![o].pc = IF op[o].recs = {e} THEN "done" ELSE @]
  /\ UNCHANGED <<table, newest, lock, staged, tx, aborted, failed>>

(* One INSERT per record, on the transaction of the helper.                *)
InsertRecord(o) ==
  LET t == op[o].tx
  IN  /\ op[o].pc = "insert" /\ Live(t)
      /\ \E e \in op[o].recs :
           /\ staged' = [staged EXCEPT ![t] = Append(@, AuditRow(o, e))]
           /\ op' = [op EXCEPT ![o].recs = @ \ {e},
                               ![o].pc = IF op[o].recs = {e} THEN "done" ELSE @]
      /\ UNCHANGED <<db, tx, aborted, failed>>

(* reportAuditError: a failed actor snapshot, read, lock, serialisation or *)
(* INSERT marks the scope and rejects the operation.  Only a failure of    *)
(* the database also aborts the transaction.                               *)
AuditFails(o) ==
  LET t == op[o].tx
  IN  /\ \/ op[o].pc \in {"read", "lock", "refresh", "post", "record", "insert"}
         \/ op[o].pc = "query" /\ op[o].req.kind = "create"
      /\ failed' = failed \cup {t}
      /\ aborted' \in {aborted, aborted \cup {t}}
      /\ op' = [op EXCEPT ![o].pc = "failed"]
      /\ UNCHANGED <<db, staged, tx>>

-----------------------------------------------------------------------------
RollBackRows(t) ==
  /\ newest' = [k \in Keys |-> IF lock[k] = t THEN table[k] ELSE newest[k]]
  /\ lock' = [k \in Keys |-> IF lock[k] = t THEN None ELSE lock[k]]
  /\ staged' = [staged EXCEPT ![t] = <<>>]
  /\ UNCHANGED <<table, trail>>

(* Mutant: an audit error the callback has caught is forgotten.            *)
ReturnIgnoresFailure(t) ==
  /\ tx[t] = "open"
  /\ Sequential => \A o \in Ops : op[o].tx = t => op[o].pc \in Settled
  /\ tx' = [tx EXCEPT ![t] = "returning"]
  /\ UNCHANGED <<db, staged, aborted, failed, op>>

(* The callback returns; the helper throws if the scope has failed.        *)
Return(t) ==
  /\ tx[t] = "open" /\ t \notin failed
  /\ Sequential => \A o \in Ops : op[o].tx = t => op[o].pc \in Settled
  /\ tx' = [tx EXCEPT ![t] = "returning"]
  /\ UNCHANGED <<db, staged, aborted, failed, op>>

(* COMMIT of a transaction in which no statement has failed.               *)
Commit(t) ==
  /\ tx[t] = "returning" /\ t \notin aborted
  /\ table' = [k \in Keys |-> IF lock[k] = t THEN newest[k] ELSE table[k]]
  /\ lock' = [k \in Keys |-> IF lock[k] = t THEN None ELSE lock[k]]
  /\ trail' = trail \o staged[t]
  /\ staged' = [staged EXCEPT ![t] = <<>>]
  /\ tx' = [tx EXCEPT ![t] = "committed"]
  /\ UNCHANGED <<newest, aborted, failed, op>>

(* The callback or the helper throws, the transaction times out, the       *)
(* process dies, or COMMIT finds the transaction aborted.                  *)
RollBack(t) ==
  /\ tx[t] \in {"open", "returning"}
  /\ RollBackRows(t)
  /\ tx' = [tx EXCEPT ![t] = "rolledBack"]
  /\ UNCHANGED <<aborted, failed, op>>

OpStep(o) ==
  \/ \E t \in Txs, r \in Requests : Start(o, t, r)
  \/ PreReadOne(o) \/ PreReadMany(o) \/ LockRow(o) \/ RefreshRow(o)
  \/ SnapshotStmt(o) \/ ApplyStmt(o) \/ NotFound(o) \/ QueryFails(o)
  \/ PostRead(o) \/ InsertRecord(o) \/ AuditFails(o)

TxStep(t) == Begin(t) \/ Return(t) \/ Commit(t) \/ RollBack(t)

Next == (\E o \in Ops : OpStep(o)) \/ (\E t \in Txs : TxStep(t))

Spec == Init /\ [][Next]_vars
-----------------------------------------------------------------------------
Entry == [op : Ops, key : Keys, before : Cell, after : Cell]

(* Types of the tables and of the hooks' memory; a deleteMany holds at     *)
(* most maxBatchRecords preimages.                                         *)
TypeOK ==
  /\ table \in [Keys -> Cell] /\ newest \in [Keys -> Cell]
  /\ lock \in [Keys -> Txs \cup {None}]
  /\ trail \in Seq(Entry) /\ staged \in [Txs -> Seq(Entry)]
  /\ tx \in [Txs -> {"idle", "open", "returning", "committed", "rolledBack"}]
  /\ aborted \subseteq Txs /\ failed \subseteq Txs
  /\ \A o \in Ops :
       /\ op[o].todo \cup op[o].cand \subseteq Keys
       /\ op[o].captured \subseteq [key : Keys, val : Cell]
       /\ Cardinality(op[o].captured) <= MaxBatch
       /\ op[o].recs \subseteq [key : Keys, before : Cell, after : Cell]

Over(t) == tx[t] \in {"committed", "rolledBack"}

(* The rows operation o has changed for good.                              *)
Durable(o) ==
  IF op[o].outer \/ tx[op[o].tx] = "committed" THEN {c.key : c \in op[o].did} ELSE {}

(* Tracked writes and their audit rows commit or roll back together: once  *)
(* the helper's transaction is over, an operation has as many audit rows   *)
(* as it has changed rows, even when callbacks catch audit errors.         *)
CommittedTogether ==
  \A o \in Ops : op[o].tx # None /\ Over(op[o].tx) =>
    Cardinality(Durable(o)) = Cardinality(RowsOf(trail, o))

(* Every row a committed deleteMany has deleted has an audit record of its *)
(* own: per-record evidence.                                               *)
PerRecordEvidence ==
  \A o \in Ops : op[o].tx # None /\ op[o].req.kind = "deleteMany" /\ Over(op[o].tx) =>
    Durable(o) \subseteq {trail[i].key : i \in RowsOf(trail, o)}

(* The row was changed only by operations that had it locked before, on    *)
(* the helper's transaction, and each of its audit rows is of such a       *)
(* change: a deleteMany may record a row it has spared instead of the one  *)
(* it has deleted (see PerRecordEvidence).                                 *)
ChangedUnderLock(k) ==
  /\ \A o \in Ops : \A c \in op[o].did :
       c.key = k /\ tx[op[o].tx] = "committed" => c.held
  /\ \A i \in DOMAIN trail : trail[i].key = k =>
       \E c \in op[trail[i].op].did : c.key = k

(* The audit trail of a row explains the row: each entry starts from the   *)
(* value the previous one left, the last one leaves the committed value.   *)
(* Same-row writers are serialised and each records its exact immediate    *)
(* preimage, as long as there was a row to lock.                           *)
TrailReplays ==
  \A k \in Keys : ChangedUnderLock(k) => Chain(trail, k, InitTable[k], table[k])

(* Table and trail are an audited table: no state of the database shows a  *)
(* change without its audit rows or an audit row without its change, and   *)
(* each transaction accounts for every row it changed under its lock.      *)
Audited == INSTANCE AuditedTable
             WITH rows <- table, history <- trail,
                  exact <- {k \in Keys : ChangedUnderLock(k)}
ImplementsAuditedTable == Audited!Spec
=============================================================================
