---------------------------- MODULE AuditedRequest ----------------------------
(***************************************************************************)
(* What the writes of a request leave in the audit trail under each policy *)
(* of the Prisma extension: the checks a hook makes before it runs the     *)
(* query, reportAuditError in both consistency modes, failure rows, the    *)
(* lifecycle callbacks that take the place of an outer delete, and manual  *)
(* logging.  Rows and locks are the subject of TrackedWrites.              *)
(***************************************************************************)
EXTENDS RequestContext, Sequences

CONSTANTS
  Ops,        \* calls of the audited client or of AuditService.log
  Cycles,     \* calls of withAuditLifecycle
  Calls,      \* what the application may ask for
  MaxRecords  \* the most rows a deleteMany finds

(* Where the nested payload of a relation field may sit; the other         *)
(* operators (connect, disconnect, set, delete, deleteMany) carry none.    *)
Inspected == {"create", "createMany.data", "connectOrCreate.create", "update", "update.data",
              "updateMany.data", "upsert.create", "upsert.update"}
Slots == Inspected \cup {"connect", "disconnect", "set", "delete", "deleteMany"}
Hop   == [slot : Slots, tracked : BOOLEAN]
Kinds == {"create", "update", "delete", "deleteMany", "summary", "returning", "log"}
(* payload: the relations a nested write goes through, from the top model. *)
Call  == [kind : Kinds, tracked : BOOLEAN, payload : Seq(Hop), onTx : BOOLEAN]

ASSUME CallAssumption ==
  /\ Calls \subseteq Call
  /\ \A c \in Calls : \A i \in DOMAIN c.payload :
       /\ c.kind \in {"create", "update"}
       /\ i < Len(c.payload) => c.payload[i].slot \in Inspected
ASSUME RecordAssumption == MaxRecords \in Nat \ {0}
(* refused: before the query; limit: too many rows; query: the query fails; *)
(* audit: the record cannot be written.                                    *)
Errors == {"refused", "limit", "query", "audit"}

ASSUME NamesAssumption ==
  Cycles \cap {"request", "runAs"} = {} /\ None \notin Ops \cup Errors

VARIABLES
  tx,      \* the transaction of withAuditTransaction
  failed,  \* scope.failed
  warned,  \* the warn-once sets of the process
  op,      \* the progress of each operation
  cycle,   \* the progress of each lifecycle call
  staged,  \* audit rows written on the open transaction
  trail    \* committed audit rows

vars == <<contextVars, tx, failed, warned, op, cycle, staged, trail>>

Atomic == setup.consistency = "atomic-required"

Idle == [pc |-> "idle", call |-> None, from |-> None, guard |-> FALSE, caller |-> None,
         silent |-> FALSE, audited |-> FALSE, told |-> FALSE, summary |-> FALSE, captured |-> 0,
         changed |-> 0, left |-> 0, error |-> None]
Unused == [pc |-> "unused", from |-> None, outer |-> None, suppress |-> FALSE, store |-> Fresh]

Settled(o) == op[o].pc \in {"idle", "done", "failed"}
Deletes == {"delete", "deleteMany"}

(* The store an operation runs in: the request's, one of AuditContext.runAs *)
(* or the one of a lifecycle callback.                                     *)
StoreAt(from) ==
  IF from = "request" THEN store
  ELSE IF from = "runAs" THEN [actor |-> Other, noAudit |-> FALSE]
  ELSE cycle[from].store
ActorAt(from)   == IF StoreAt(from) = None THEN None ELSE StoreAt(from).actor
NoAuditAt(from) == StoreAt(from) # None /\ StoreAt(from).noAudit

Init ==
  /\ ContextInit
  /\ tx = "none" /\ failed = FALSE /\ warned = {}
  /\ op = [o \in Ops |-> Idle]
  /\ cycle = [c \in Cycles |-> Unused]
  /\ staged = {} /\ trail = {}
-----------------------------------------------------------------------------
(* Mutant: only the relations of the top model are inspected.              *)
NestedTopOnly(c) == c.payload # <<>> /\ c.payload[1].tracked

(* nestedWriteRelationsInData: the walk passes through excluded relations, *)
(* along the slots it inspects, to the first tracked one.                  *)
Nested(c) ==
  \E i \in DOMAIN c.payload :
    /\ c.payload[i].tracked
    /\ \A j \in 1..(i - 1) : ~c.payload[j].tracked /\ c.payload[j].slot \in Inspected

(* The operations of the application run while a guard or the handler does *)
(* and, on the transaction client, while the helper's callback does.       *)
MayCall(c, from) ==
  /\ phase = "handler" \/ (phase = "guards" /\ from = "request" /\ ~c.onTx)
  /\ c.onTx => tx = "open"
  /\ from \in Cycles => cycle[from].pc = "running" /\ c.onTx

Entered(c, from) ==
  [Idle EXCEPT !.call = c, !.from = from, !.guard = (phase = "guards"),
               !.caller = ActorAt(from), !.silent = NoAuditAt(from)]

Exempt(c, from)    == NoAuditAt(from) \/ ~c.tracked
Anonymous(from)    == setup.actorRequired /\ ActorAt(from) = None
NestedIn(c, from)  == ~NoAuditAt(from) /\ Nested(c)
FirstStep(c)       == IF c.kind \in {"update"} \cup Deletes THEN "read" ELSE "query"

(* Best-effort: a hook that cannot record reports it, or has it warned     *)
(* once per process, and runs the query without audit.                     *)
StartBestEffort(o, c, from) ==
  /\ ~Atomic /\ c.kind # "log"
  /\ op[o].pc = "idle" /\ MayCall(c, from)
  /\ LET audited == ~Exempt(c, from) /\ c.kind # "returning" /\ ~Anonymous(from)
     IN  op' = [op EXCEPT ![o] =
           [Entered(c, from) EXCEPT
              !.pc = IF audited THEN FirstStep(c) ELSE "query",
              !.audited = audited,
              !.told = ~Exempt(c, from) /\ c.kind # "returning" /\ Anonymous(from)]]
  /\ warned' = warned \cup (IF NestedIn(c, from) THEN {"nested"} ELSE {})
                      \cup (IF c.kind = "returning" /\ ~Exempt(c, from) THEN {"returning"} ELSE {})
  /\ UNCHANGED <<contextVars, tx, failed, cycle, staged, trail>>

(* Whether an atomic hook passes its checks before the query.              *)
Passes(c, from) ==
  /\ ~NestedIn(c, from)
  /\ \/ Exempt(c, from)
     \/ c.kind \notin {"returning", "summary"} /\ ~Anonymous(from) /\ c.onTx

(* Of the refusals only these go through reportAuditError; a nested write, *)
(* a summary and a write outside the helper are thrown as they are.        *)
Marks(c, from) ==
  ~NestedIn(c, from) /\ ~Exempt(c, from) /\ (c.kind = "returning" \/ Anonymous(from))

StartAtomic(o, c, from) ==
  /\ Atomic /\ c.kind # "log"
  /\ op[o].pc = "idle" /\ MayCall(c, from)
  /\ op' = [op EXCEPT ![o] =
       IF Passes(c, from)
         THEN [Entered(c, from) EXCEPT !.pc = IF Exempt(c, from) THEN "query" ELSE FirstStep(c),
                                       !.audited = ~Exempt(c, from)]
         ELSE [Entered(c, from) EXCEPT !.pc = "failed", !.error = "refused"]]
  /\ failed' = (failed \/ (tx = "open" /\ c.onTx /\ Marks(c, from)))
  /\ UNCHANGED <<contextVars, tx, warned, cycle, staged, trail>>

(* AuditService.log up to its INSERT: it ignores @NoAudit() and rejects    *)
(* when validation, the actor, the tenant or the metadata is not in order. *)
StartLog(o, c, from) ==
  /\ c.kind = "log"
  /\ op[o].pc = "idle" /\ MayCall(c, from)
  /\ \/ ~Anonymous(from) /\ op' = [op EXCEPT ![o] =
          [Entered(c, from) EXCEPT !.pc = "insert", !.audited = TRUE, !.left = 1]]
     \/ op' = [op EXCEPT ![o] =
          [Entered(c, from) EXCEPT !.pc = "failed", !.error = "audit", !.told = TRUE]]
  /\ UNCHANGED <<contextVars, tx, failed, warned, cycle, staged, trail>>
-----------------------------------------------------------------------------
(* A statement on the transaction client needs the transaction.            *)
Alive(o) == op[o].call.onTx => tx = "open"

(* Mutant: the overflow check lets one record too many pass.               *)
PreReadOverLimit(o) ==
  /\ op[o].pc = "read" /\ Alive(o)
  /\ \E n \in 0..(MaxRecords + 1) :
       op' = [op EXCEPT ![o].pc = "query",
                        ![o].captured = IF op[o].call.kind = "deleteMany" THEN n ELSE 0]
  /\ UNCHANGED <<contextVars, tx, failed, warned, cycle, staged, trail>>

(* findFirst or findMany, and the locks, before the change.                *)
PreRead(o) ==
  /\ op[o].pc = "read" /\ Alive(o)
  /\ \E n \in 0..MaxRecords :
       op' = [op EXCEPT ![o].pc = "query",
                        ![o].captured = IF op[o].call.kind = "deleteMany" THEN n ELSE 0]
  /\ UNCHANGED <<contextVars, tx, failed, warned, cycle, staged, trail>>

(* deleteMany matches more than maxBatchRecords: rejected unmarked, or, in *)
(* best-effort with batchOverflow 'summary', recorded by a summary.        *)
Overflow(o) ==
  /\ op[o].pc = "read" /\ Alive(o) /\ op[o].call.kind = "deleteMany"
  /\ op' = [op EXCEPT ![o] =
       IF Atomic \/ setup.overflow = "reject"
         THEN [@ EXCEPT !.pc = "failed", !.error = "limit"]
         ELSE [@ EXCEPT !.pc = "query", !.summary = TRUE]]
  /\ UNCHANGED <<contextVars, tx, failed, warned, cycle, staged, trail>>

(* Mutant: the token of a callback that failed is kept.                    *)
TokensKept(o) == {c \in Cycles : cycle[c].outer = o /\ cycle[c].suppress}

(* A lifecycle callback suppresses the delete it was called from, and that *)
(* delete only, until it fails.                                            *)
Tokens(o) == {c \in Cycles : cycle[c].outer = o /\ cycle[c].suppress
                             /\ cycle[c].pc \in {"running", "succeeded"}}

(* The rows a hook has to write once its query has changed n records.      *)
Due(o, n) ==
  IF ~op[o].audited \/ Tokens(o) # {} THEN 0
  ELSE IF op[o].call.kind = "deleteMany" /\ ~op[o].summary THEN op[o].captured
  ELSE 1

(* The query succeeds.  Whoever runs it awaits the lifecycle calls in it.  *)
(* In atomic mode a deleteMany fails if it changed other than it captured. *)
QuerySucceeds(o) ==
  /\ op[o].pc = "query" /\ Alive(o)
  /\ \A c \in Cycles : cycle[c].outer = o => cycle[c].pc # "running"
  /\ \E n \in (IF op[o].call.kind = "deleteMany" THEN 0..MaxRecords ELSE {1}) :
       LET due == Due(o, n)
           short == Atomic /\ op[o].call.kind = "deleteMany" /\ op[o].audited
                    /\ Tokens(o) = {} /\ n # op[o].captured
       IN  /\ op' = [op EXCEPT
                ![o].changed = n, ![o].left = due,
                ![o].pc = IF short THEN "failed" ELSE IF due = 0 THEN "done"
                          ELSE IF op[o].call.kind \in {"create", "update"} THEN "post" ELSE "insert",
                ![o].error = IF short THEN "audit" ELSE @]
           /\ failed' = (failed \/ short)
  /\ UNCHANGED <<contextVars, tx, warned, cycle, staged, trail>>

(* The query fails: nothing has changed.  Best-effort may log the failure, *)
(* unless the row was not found or the arguments were invalid.             *)
QueryFails(o) ==
  /\ op[o].pc = "query"
  /\ \E loggable \in {FALSE, ~Atomic /\ setup.logFailures /\ op[o].audited} :
       op' = [op EXCEPT ![o].error = "query",
                        ![o].pc = IF loggable THEN "failure" ELSE "failed",
                        ![o].left = IF loggable THEN 1 ELSE 0]
  /\ UNCHANGED <<contextVars, tx, failed, warned, cycle, staged, trail>>

(* findFirst by primary key after the change; update and create only.      *)
PostRead(o) ==
  /\ op[o].pc = "post" /\ Alive(o)
  /\ op' = [op EXCEPT ![o].pc = "insert"]
  /\ UNCHANGED <<contextVars, tx, failed, warned, cycle, staged, trail>>

(* Mutant: the row names whoever is in the store when it is written.       *)
RowNamesStore(o, result) ==
  [op |-> o, n |-> op[o].left, actor |-> ActorAt(op[o].from), result |-> result]

(* buildAuditInsertParams: the actor is the snapshot of the call.          *)
Row(o, result) ==
  [op |-> o, n |-> op[o].left, actor |-> op[o].caller, result |-> result]

(* The INSERT, through the transaction of the helper in atomic mode, and   *)
(* through the base client in best-effort; log uses the client it is given. *)
OnTransaction(o) == IF op[o].call.kind = "log" THEN op[o].call.onTx ELSE Atomic

InsertRow(o) ==
  /\ op[o].pc \in {"insert", "failure"}
  /\ OnTransaction(o) => tx = "open"
  /\ LET row == Row(o, IF op[o].pc = "failure" THEN "failure" ELSE "success")
     IN  IF OnTransaction(o)
           THEN staged' = staged \cup {row} /\ UNCHANGED trail
           ELSE trail' = trail \cup {row} /\ UNCHANGED staged
  /\ op' = [op EXCEPT
       ![o].left = @ - 1,
       ![o].pc = IF @ = "failure" THEN "failed" ELSE IF op[o].left = 1 THEN "done" ELSE @]
  /\ UNCHANGED <<contextVars, tx, failed, warned, cycle>>

(* Mutant: an audit error in best-effort fails the operation too.          *)
TolerateThrows(o) ==
  [op[o] EXCEPT !.told = TRUE, !.pc = "failed", !.error = "audit"]

(* What a best-effort hook does after an audit error: without a preimage   *)
(* it goes on, without the row read back it uses the result, and a row it  *)
(* could not write is given up.                                            *)
Tolerate(o) ==
  LET rec == [op[o] EXCEPT !.told = TRUE]
  IN  CASE rec.pc = "read"    -> [rec EXCEPT !.pc = "query", !.summary = TRUE]
        [] rec.pc = "post"    -> [rec EXCEPT !.pc = "insert"]
        [] rec.pc = "failure" -> [rec EXCEPT !.pc = "failed", !.left = 0]
        [] rec.pc = "insert"  -> [rec EXCEPT !.left = @ - 1,
                                             !.pc = IF rec.left = 1 THEN "done" ELSE @]

(* A read, the tenant, the serialisation or the INSERT fails: it is        *)
(* reported, and in atomic mode marks the scope and rejects the operation. *)
AuditFails(o) ==
  /\ op[o].pc \in {"read", "post", "failure", "insert"}
  /\ op' = [op EXCEPT ![o] = IF Atomic \/ op[o].call.kind = "log"
                               THEN [@ EXCEPT !.pc = "failed", !.error = "audit", !.told = TRUE]
                               ELSE Tolerate(o)]
  /\ failed' = (failed \/ (Atomic /\ op[o].call.kind # "log"))
  /\ UNCHANGED <<contextVars, tx, warned, cycle, staged, trail>>
-----------------------------------------------------------------------------
(* withAuditLifecycle, from the callback of the helper or from within the  *)
(* query of an outer delete; its store is a copy of the caller's.          *)
StartCycle(c, from, outer, suppress) ==
  /\ Atomic /\ tx = "open" /\ phase = "handler"
  /\ cycle[c].pc = "unused"
  /\ IF outer = None THEN ~suppress
     ELSE /\ op[outer].pc = "query" /\ op[outer].audited /\ op[outer].from = from
          /\ op[outer].call.kind \in Deletes
  /\ cycle' = [cycle EXCEPT ![c] =
       [pc |-> "running", from |-> from, outer |-> outer, suppress |-> suppress,
        store |-> [actor |-> ActorAt(from), noAudit |-> NoAuditAt(from)]]]
  /\ UNCHANGED <<contextVars, tx, failed, warned, op, staged, trail>>

EndCycle(c, outcome) ==
  /\ cycle[c].pc = "running"
  /\ \A o \in Ops : op[o].from = c => Settled(o)
  /\ cycle' = [cycle EXCEPT ![c].pc = outcome]
  /\ UNCHANGED <<contextVars, tx, failed, warned, op, staged, trail>>

Begin ==
  /\ tx = "none" /\ phase = "handler"
  /\ tx' = "open"
  /\ UNCHANGED <<contextVars, failed, warned, op, cycle, staged, trail>>

(* The callback returns, having awaited what it has started.               *)
Commit ==
  /\ tx = "open" /\ ~(Atomic /\ failed)
  /\ \A o \in Ops : op[o].pc # "idle" /\ op[o].call.onTx => Settled(o)
  /\ \A c \in Cycles : cycle[c].pc # "running"
  /\ tx' = "committed"
  /\ trail' = trail \cup staged /\ staged' = {}
  /\ UNCHANGED <<contextVars, failed, warned, op, cycle>>

(* The callback or the helper throws, or the transaction is lost.          *)
RollBack ==
  /\ tx = "open"
  /\ tx' = "rolledBack" /\ staged' = {}
  /\ UNCHANGED <<contextVars, failed, warned, op, cycle, trail>>

Places == {"request", "runAs"} \cup Cycles

OpStep(o) ==
  \/ \E c \in Calls, from \in Places :
       StartBestEffort(o, c, from) \/ StartAtomic(o, c, from) \/ StartLog(o, c, from)
  \/ PreRead(o) \/ Overflow(o) \/ QuerySucceeds(o) \/ QueryFails(o)
  \/ PostRead(o) \/ InsertRow(o) \/ AuditFails(o)

CycleStep(c) ==
  \/ \E from \in {"request", "runAs"}, outer \in Ops \cup {None}, suppress \in BOOLEAN :
       StartCycle(c, from, outer, suppress)
  \/ \E outcome \in {"succeeded", "failed"} : EndCycle(c, outcome)

Next ==
  \/ ContextNext /\ UNCHANGED <<tx, failed, warned, op, cycle, staged, trail>>
  \/ (\E o \in Ops : OpStep(o)) \/ (\E c \in Cycles : CycleStep(c))
  \/ Begin \/ Commit \/ RollBack

Spec == Init /\ [][Next]_vars
-----------------------------------------------------------------------------
Rows == [op : Ops, n : 1..MaxRecords, actor : Actors \cup {None},
         result : {"success", "failure"}]

(* Types of the request, the operations and the audit rows.                *)
TypeOK ==
  /\ ContextTypeOK
  /\ tx \in {"none", "open", "committed", "rolledBack"}
  /\ failed \in BOOLEAN /\ warned \subseteq {"nested", "returning"}
  /\ staged \subseteq Rows /\ trail \subseteq Rows
  /\ \A o \in Ops :
       /\ op[o].pc \in {"idle", "read", "query", "post", "insert", "failure", "done", "failed"}
       /\ op[o].pc # "idle" => op[o].call \in Calls /\ op[o].from \in Places
       /\ op[o].captured \in 0..MaxRecords /\ op[o].changed \in 0..MaxRecords
       /\ op[o].left \in 0..MaxRecords
       /\ op[o].error \in Errors \cup {None}
  /\ \A c \in Cycles : cycle[c].pc \in {"unused", "running", "succeeded", "failed"}

Hook(o)    == op[o].pc # "idle" /\ op[o].call.kind # "log"
Tracked(o) == Hook(o) /\ ~op[o].silent /\ op[o].call.tracked
(* The nested writes of the operation change a tracked model.              *)
NestsTracked(o) ==
  Hook(o) /\ ~op[o].silent /\ \E i \in DOMAIN op[o].call.payload : op[o].call.payload[i].tracked
(* Which of its records an operation has a committed success row for.      *)
Recorded(o) == {r.n : r \in {x \in trail : x.op = o /\ x.result = "success"}}
Replaced(o) ==
  \E c \in Cycles : cycle[c].outer = o /\ cycle[c].suppress /\ cycle[c].pc = "succeeded"

(* atomic-required: whatever a tracked write has changed for good has its  *)
(* record, one for one, unless a lifecycle callback that succeeded took    *)
(* its place; and nothing the hooks refuse, outside the helper, nested or  *)
(* in bulk, has changed anything.  Callbacks may catch any error.          *)
AtomicEvidence ==
  Atomic => \A o \in Ops : Hook(o) /\ Settled(o) /\ (op[o].call.onTx => tx = "committed") =>
    /\ Tracked(o) => Recorded(o) = 1..op[o].changed \/ Replaced(o)
    /\ NestsTracked(o) => op[o].changed = 0

(* best-effort: a tracked change without its record has been reported, or  *)
(* its kind has been warned of in this process; it is never just missing.  *)
NoSilentGap ==
  ~Atomic => \A o \in Ops : op[o].pc = "done" /\ op[o].changed > 0 =>
    /\ Tracked(o) => \/ Recorded(o) = 1..(IF op[o].call.kind = "deleteMany" /\ ~op[o].summary
                                         THEN op[o].captured ELSE 1)
                     \/ op[o].told
                     \/ op[o].call.kind = "returning" /\ "returning" \in warned
    /\ NestsTracked(o) => "nested" \in warned

(* best-effort: auditing never makes an operation fail that would have     *)
(* succeeded, but for a deleteMany over its limit.                         *)
BestEffortUnobstructed ==
  ~Atomic => \A o \in Ops : Hook(o) => op[o].error \in {None, "query", "limit"}

(* A row names the actor of the call, whoever the store names when it is   *)
(* written, and one there is if an actor is required; a handler does not   *)
(* run before its actor is known; automatic rows under a @NoAudit() route  *)
(* come only from its guards or from runAs; a row says success only of a   *)
(* query that succeeded.                                                   *)
RowsHonourRequest ==
  /\ phase = "handler" /\ ActorBound => extraction = "settled"
  /\ \A r \in staged \cup trail :
       LET o == r.op
           origin == IF op[o].from \in Cycles THEN cycle[op[o].from].from ELSE op[o].from
       IN  /\ r.actor = op[o].caller
           /\ setup.actorRequired => r.actor # None
           /\ Hook(o) /\ setup.noAudit /\ setup.bindings > 0 /\ ~setup.excluded =>
                op[o].guard \/ origin = "runAs"
           /\ Hook(o) => (r.result = "success" <=> op[o].error # "query")
=============================================================================
