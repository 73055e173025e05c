----------------------------- MODULE AuditStream -----------------------------
(***************************************************************************)
(* The durable tailer of the audit log: AuditStreamRunner.runOnce over     *)
(* AuditScanService.scanPages, the sink, and the checkpoint and dead-      *)
(* letter tables of PostgresAuditStreamStore, together with the two        *)
(* environments that race with it: transactions that commit audit rows,    *)
(* and AuditService.prune guarded by requiredCheckpoints.                  *)
(*                                                                         *)
(* A row is named by its rank in the scan order (created_at, id), a        *)
(* number in Pos; 0 stands for a null cursor.  A position is not a commit  *)
(* order: unless InOrder holds, a transaction may commit a row below rows  *)
(* that are already visible.                                               *)
(***************************************************************************)
EXTENDS Integers, FiniteSets

CONSTANTS
  Runners,      \* overlapping runOnce() calls on one streamId
  NPos,         \* bound: how many audit rows are ever written
  TsOf,         \* created_at of each position; several rows may share one
  BatchSize,    \* AuditScanOptions.batchSize
  MaxRetries,   \* AuditStreamRunnerOptions.maxRetries
  HasDLQ,       \* options.deadLetterStore is configured
  KeyedSink,    \* the sink keeps the first body stored under a batch id
  InOrder,      \* rows become visible in the order of their positions
  StartAt       \* how many rows an earlier deployment has already exported

Pos == 1..NPos

ASSUME RunnersAssumption == Runners # {}
ASSUME NPosAssumption == NPos \in Nat
ASSUME TsAssumption ==
  /\ TsOf \in [Pos -> Nat]
  /\ \A p, q \in Pos : p <= q => TsOf[p] <= TsOf[q]
ASSUME SizeAssumption == BatchSize \in Nat \ {0} /\ MaxRetries \in Nat
ASSUME ModeAssumption ==
  HasDLQ \in BOOLEAN /\ KeyedSink \in BOOLEAN /\ InOrder \in BOOLEAN
ASSUME StartAssumption == StartAt \subseteq 0..NPos

VARIABLES
  log,      \* rows visible in audit_logs
  ever,     \* history: rows ever committed
  late,     \* history: rows committed behind a read frontier, not advanced over since
  stored,   \* the row of audit_log_stream_checkpoints
  sink,     \* what the sink holds, by batch id
  dlq,      \* audit_log_stream_dead_letters, by batch id
  pc,       \* the await each runner is suspended in
  cursor,   \* state.checkpoint, which is also the scan's `after`
  bound,    \* state.highWatermark
  hw,       \* the high watermark the scan resolved
  page,     \* the page in memory
  attempt   \* the delivery attempt

stores == <<stored, sink, dlq>>
rows   == <<log, ever, late>>
locals == <<pc, cursor, bound, hw, page, attempt>>
vars   == <<rows, stores, locals>>

Position   == 0..NPos
BatchIds   == Pos \X Pos
StateRec   == [checkpoint : Position, highWatermark : Position]
PageRec    == [rows : SUBSET Pos, first : Position, last : Position, more : BOOLEAN]
NoPage     == [rows |-> {}, first |-> 0, last |-> 0, more |-> FALSE]
Locations  == {"idle", "reset", "resolve", "read", "persist", "deliver", "dlq", "advance"}
InFlight   == {"persist", "deliver", "dlq", "advance"}

Stored(B)  == UNION {B[b] : b \in BatchIds}
Handled    == Stored(sink) \cup Stored(dlq)

(* Mutant: the batch id names only the first entry.                        *)
BatchIdOfFirst(r) == <<page[r].first, page[r].first>>

BatchId(r) == <<page[r].first, page[r].last>>

(* The rows runner r selects: (after, until] in the scan order.            *)
Window(r, upper) == {p \in log : cursor[r] < p /\ (upper = 0 \/ p <= upper)}

(* INSERT ... ON CONFLICT (stream_id, batch_id) DO NOTHING.                *)
PutOnce(B, b, S) == IF B[b] = {} THEN [B EXCEPT ![b] = S] ELSE B

(* A conditional-create sink acknowledges an object that already exists    *)
(* under the key; any other sink adds what it is sent.                     *)
Receive(B, b, S) ==
  IF KeyedSink THEN PutOnce(B, b, S) ELSE [B EXCEPT ![b] = @ \cup S]

(* p lies behind what some run has already read or what is stored.         *)
BehindFrontier(p) ==
  \/ p <= stored.checkpoint
  \/ \E r \in Runners : pc[r] # "idle" /\ (p <= cursor[r] \/ p <= page[r].last)

-----------------------------------------------------------------------------
(* A deployment that takes over a fully exported log of n rows finds the   *)
(* state {checkpoint, highWatermark} with both equal, which runOnce        *)
(* normalises; n = 0 is a new stream.                                      *)
Init ==
  \E n \in StartAt :
    /\ log = 1..n
    /\ ever = 1..n
    /\ late = {}
    /\ stored = [checkpoint |-> n, highWatermark |-> n]
    /\ sink = [b \in BatchIds |-> IF b = <<1, n>> THEN 1..n ELSE {}]
    /\ dlq = [b \in BatchIds |-> {}]
    /\ pc = [r \in Runners |-> "idle"]
    /\ cursor = [r \in Runners |-> 0]
    /\ bound = [r \in Runners |-> 0]
    /\ hw = [r \in Runners |-> 0]
    /\ page = [r \in Runners |-> NoPage]
    /\ attempt = [r \in Runners |-> 0]

(* The run is over: its call frame and everything in memory is gone.       *)
Stop(r) ==
  /\ pc' = [pc EXCEPT ![r] = "idle"]
  /\ cursor' = [cursor EXCEPT ![r] = 0]
  /\ bound' = [bound EXCEPT ![r] = 0]
  /\ hw' = [hw EXCEPT ![r] = 0]
  /\ page' = [page EXCEPT ![r] = NoPage]
  /\ attempt' = [attempt EXCEPT ![r] = 0]

(* Mutant: an equal pair is passed to the scan as it was stored.           *)
LoadKeepsEqualPair(r) ==
  /\ pc[r] = "idle"
  /\ cursor' = [cursor EXCEPT ![r] = stored.checkpoint]
  /\ bound' = [bound EXCEPT ![r] = stored.highWatermark]
  /\ pc' = [pc EXCEPT ![r] = "resolve"]
  /\ UNCHANGED <<rows, stores, hw, page, attempt>>

(* Mutant: the saved high watermark is not passed on as `until`.           *)
LoadForgetsWindow(r) ==
  /\ pc[r] = "idle"
  /\ cursor' = [cursor EXCEPT ![r] = stored.checkpoint]
  /\ bound' = [bound EXCEPT ![r] = 0]
  /\ pc' = [pc EXCEPT ![r] = "resolve"]
  /\ UNCHANGED <<rows, stores, hw, page, attempt>>

(* load(): an equal pair is replaced by a finished window before scanning. *)
Load(r) ==
  /\ pc[r] = "idle"
  /\ cursor' = [cursor EXCEPT ![r] = stored.checkpoint]
  /\ IF stored.checkpoint # 0 /\ stored.checkpoint = stored.highWatermark
       THEN /\ bound' = [bound EXCEPT ![r] = 0]
            /\ pc' = [pc EXCEPT ![r] = "reset"]
       ELSE /\ bound' = [bound EXCEPT ![r] = stored.highWatermark]
            /\ pc' = [pc EXCEPT ![r] = "resolve"]
  /\ UNCHANGED <<rows, stores, hw, page, attempt>>

(* The save of the normalised state.                                       *)
ResetWindow(r) ==
  /\ pc[r] = "reset"
  /\ stored' = [checkpoint |-> cursor[r], highWatermark |-> 0]
  /\ pc' = [pc EXCEPT ![r] = "resolve"]
  /\ UNCHANGED <<rows, sink, dlq, cursor, bound, hw, page, attempt>>

(* resolveScanHighWatermark: the last row of (after, until], once per run. *)
ResolveWatermark(r) ==
  /\ pc[r] = "resolve"
  /\ \E h \in Window(r, bound[r]) :
       /\ \A p \in Window(r, bound[r]) : p <= h
       /\ hw' = [hw EXCEPT ![r] = h]
  /\ pc' = [pc EXCEPT ![r] = "read"]
  /\ UNCHANGED <<rows, stores, cursor, bound, page, attempt>>

(* No row matches: one empty page, which runOnce skips, and the run ends.  *)
ResolveEmpty(r) ==
  /\ pc[r] = "resolve"
  /\ Window(r, bound[r]) = {}
  /\ Stop(r)
  /\ UNCHANGED <<rows, stores>>

(* SELECT ... ORDER BY created_at, id LIMIT batchSize + 1.                 *)
ReadPage(r) ==
  /\ pc[r] = "read"
  /\ \E first, last \in Window(r, hw[r]) :
       LET W == Window(r, hw[r])
           S == {p \in W : p <= last}
       IN  /\ \A p \in W : first <= p
           /\ Cardinality(S) <= BatchSize
           /\ S # W => Cardinality(S) = BatchSize
           /\ page' = [page EXCEPT ![r] =
                [rows |-> S, first |-> first, last |-> last, more |-> S # W]]
  /\ pc' = [pc EXCEPT ![r] = IF bound[r] = 0 THEN "persist" ELSE "deliver"]
  /\ attempt' = [attempt EXCEPT ![r] = 1]
  /\ UNCHANGED <<rows, stores, cursor, bound, hw>>

(* The rows of the window were pruned since: the generator returns.        *)
ReadEmpty(r) ==
  /\ pc[r] = "read"
  /\ Window(r, hw[r]) = {}
  /\ Stop(r)
  /\ UNCHANGED <<rows, stores>>

(* Mutant: the window is kept in memory only.                              *)
PersistNothing(r) ==
  /\ pc[r] = "persist"
  /\ bound' = [bound EXCEPT ![r] = hw[r]]
  /\ pc' = [pc EXCEPT ![r] = "deliver"]
  /\ UNCHANGED <<rows, stores, cursor, hw, page, attempt>>

(* The bounded run is saved before its first delivery.                     *)
PersistWindow(r) ==
  /\ pc[r] = "persist"
  /\ stored' = [checkpoint |-> cursor[r], highWatermark |-> hw[r]]
  /\ bound' = [bound EXCEPT ![r] = hw[r]]
  /\ pc' = [pc EXCEPT ![r] = "deliver"]
  /\ UNCHANGED <<rows, sink, dlq, cursor, hw, page, attempt>>

(* sink.deliver resolves.                                                  *)
DeliverAck(r) ==
  /\ pc[r] = "deliver"
  /\ sink' = Receive(sink, BatchId(r), page[r].rows)
  /\ pc' = [pc EXCEPT ![r] = "advance"]
  /\ UNCHANGED <<rows, stored, dlq, cursor, bound, hw, page, attempt>>

(* A retryable failure, such as a lost answer: the sink may hold the body. *)
MaybeReceived(r) ==
  sink' \in {sink, Receive(sink, BatchId(r), page[r].rows)}

(* Mutant: the retry budget is never consulted.                            *)
DeliverRetryForever(r) ==
  /\ pc[r] = "deliver"
  /\ MaybeReceived(r)
  /\ attempt' = [attempt EXCEPT ![r] = @ + 1]
  /\ UNCHANGED <<rows, stored, dlq, pc, cursor, bound, hw, page>>

DeliverRetry(r) ==
  /\ pc[r] = "deliver"
  /\ attempt[r] <= MaxRetries
  /\ MaybeReceived(r)
  /\ attempt' = [attempt EXCEPT ![r] = @ + 1]
  /\ UNCHANGED <<rows, stored, dlq, pc, cursor, bound, hw, page>>

DeliverExhausted(r) ==
  /\ pc[r] = "deliver"
  /\ attempt[r] > MaxRetries
  /\ MaybeReceived(r)
  /\ Stop(r)
  /\ UNCHANGED <<rows, stored, dlq>>

(* Mutant: without a dead-letter store a rejected batch is skipped.        *)
DeliverTerminalSkips(r) ==
  /\ pc[r] = "deliver"
  /\ pc' = [pc EXCEPT ![r] = IF HasDLQ THEN "dlq" ELSE "advance"]
  /\ UNCHANGED <<rows, stores, cursor, bound, hw, page, attempt>>

(* A terminal rejection goes to the dead-letter store, or ends the run.    *)
DeliverTerminal(r) ==
  /\ pc[r] = "deliver"
  /\ IF HasDLQ
       THEN /\ pc' = [pc EXCEPT ![r] = "dlq"]
            /\ UNCHANGED <<cursor, bound, hw, page, attempt>>
       ELSE Stop(r)
  /\ UNCHANGED <<rows, stores>>

(* Mutant: the dead-letter write is not awaited and is lost.               *)
DeadLetterLost(r) ==
  /\ pc[r] = "dlq"
  /\ pc' = [pc EXCEPT ![r] = "advance"]
  /\ UNCHANGED <<rows, stores, cursor, bound, hw, page, attempt>>

DeadLetter(r) ==
  /\ pc[r] = "dlq"
  /\ dlq' = PutOnce(dlq, BatchId(r), page[r].rows)
  /\ pc' = [pc EXCEPT ![r] = "advance"]
  /\ UNCHANGED <<rows, stored, sink, cursor, bound, hw, page, attempt>>

(* The checkpoint follows the acknowledgement, then the scan goes on after *)
(* this page or, if the page was the last one, the run ends.               *)
Advance(r) ==
  /\ pc[r] = "advance"
  /\ LET next == [checkpoint |-> page[r].last,
                  highWatermark |-> IF page[r].last = hw[r] THEN 0 ELSE hw[r]]
     IN  /\ stored' = next
         /\ IF page[r].more
              THEN /\ pc' = [pc EXCEPT ![r] = "read"]
                   /\ cursor' = [cursor EXCEPT ![r] = next.checkpoint]
                   /\ bound' = [bound EXCEPT ![r] = next.highWatermark]
                   /\ page' = [page EXCEPT ![r] = NoPage]
                   /\ attempt' = [attempt EXCEPT ![r] = 0]
                   /\ UNCHANGED hw
              ELSE Stop(r)
  /\ late' = late \ page[r].rows
  /\ UNCHANGED <<log, ever, sink, dlq>>

(* Any await of the run rejects, the signal aborts it, or the process dies.*)
Interrupt(r) ==
  /\ pc[r] # "idle"
  /\ Stop(r)
  /\ UNCHANGED <<rows, stores>>

-----------------------------------------------------------------------------
(* An application transaction that wrote an audit row commits.  created_at *)
(* was fixed before the commit, so the row may land below visible rows.    *)
Commit(p) ==
  /\ p \notin ever
  /\ InOrder => \A q \in ever : q < p
  /\ log' = log \cup {p}
  /\ ever' = ever \cup {p}
  /\ late' = IF BehindFrontier(p) THEN late \cup {p} ELSE late
  /\ UNCHANGED <<stores, locals>>

Cutoffs == {TsOf[p] : p \in Pos} \cup {TsOf[p] + 1 : p \in Pos}

(* Mutant: a stream without a checkpoint yet holds nothing back.           *)
CutoffIgnoresNewStream(olderThan) ==
  stored.checkpoint # 0 => olderThan <= TsOf[stored.checkpoint]

(* Mutant: the cutoff may lie just past the checkpoint's timestamp.        *)
CutoffPastCheckpoint(olderThan) ==
  stored.checkpoint # 0 /\ olderThan <= TsOf[stored.checkpoint] + 1

(* validatePruneOptions refuses a cutoff past a required checkpoint.       *)
CutoffAllowed(olderThan) ==
  stored.checkpoint # 0 /\ olderThan <= TsOf[stored.checkpoint]

(* prune(), called with this stream's checkpoint as requiredCheckpoints.   *)
Prune(olderThan) ==
  /\ CutoffAllowed(olderThan)
  /\ log' = {p \in log : TsOf[p] >= olderThan}
  /\ log' # log
  /\ UNCHANGED <<ever, late, stores, locals>>

RunnerStep(r) ==
  \/ Load(r) \/ ResetWindow(r)
  \/ ResolveWatermark(r) \/ ResolveEmpty(r)
  \/ ReadPage(r) \/ ReadEmpty(r)
  \/ PersistWindow(r)
  \/ DeliverAck(r) \/ DeliverRetry(r) \/ DeliverExhausted(r) \/ DeliverTerminal(r)
  \/ DeadLetter(r) \/ Advance(r)
  \/ Interrupt(r)

Next ==
  \/ \E r \in Runners : RunnerStep(r)
  \/ \E p \in Pos : Commit(p)
  \/ \E t \in Cutoffs : Prune(t)

Spec == Init /\ [][Next]_vars

(* runOnce is scheduled again and again, every await settles, and no       *)
(* fault hits the same await for ever: a batch that is offered infinitely  *)
(* often is at last accepted.                                              *)
Fairness ==
  \A r \in Runners :
    /\ WF_vars(Load(r))
    /\ SF_vars(ResetWindow(r))
    /\ SF_vars(ResolveWatermark(r))
    /\ SF_vars(ReadPage(r))
    /\ SF_vars(PersistWindow(r))
    /\ SF_vars(DeliverAck(r))
    /\ SF_vars(DeadLetter(r))
    /\ SF_vars(Advance(r))

FairSpec == Spec /\ Fairness
-----------------------------------------------------------------------------
(* Type correctness of every table and of every runner's memory.           *)
TypeOK ==
  /\ log \subseteq Pos /\ ever \subseteq Pos /\ late \subseteq Pos
  /\ stored \in StateRec
  /\ sink \in [BatchIds -> SUBSET Pos] /\ dlq \in [BatchIds -> SUBSET Pos]
  /\ pc \in [Runners -> Locations]
  /\ cursor \in [Runners -> Position] /\ bound \in [Runners -> Position]
  /\ hw \in [Runners -> Position]
  /\ page \in [Runners -> PageRec]
  /\ attempt \in [Runners -> 0..(MaxRetries + 1)]

(* At-least-once delivery: every row at or below the durable checkpoint    *)
(* has reached the sink or the dead-letter table, whatever runs crashed,   *)
(* overlapped or retried, except the rows that were committed behind the   *)
(* read frontier, the limit the README states for late commits.            *)
NoSilentLoss ==
  \A p \in ever : p <= stored.checkpoint => p \in Handled \cup late

(* Retention never removes a row the guarded stream has still to deliver:  *)
(* what requiredCheckpoints is for.                                        *)
PruneKeepsUndelivered == ever \ log \subseteq Handled \cup late

(* A batch is sent only inside a window that is already durable, so a      *)
(* restart resumes the same upper bound (one runner per stream).           *)
WindowPersistedBeforeDelivery ==
  \A r \in Runners : pc[r] \in {"deliver", "dlq", "advance"} =>
    /\ stored.checkpoint = cursor[r]
    /\ stored.highWatermark = hw[r]
    /\ page[r].last <= stored.highWatermark

(* A durable window left by a finished or crashed run has a row left to    *)
(* deliver.  A window that has none is never closed: every later run       *)
(* resolves to an empty page and saves nothing, so the stream is stuck.    *)
WindowResumable ==
  (/\ \A r \in Runners : pc[r] = "idle"
   /\ stored.highWatermark # 0
   /\ stored.checkpoint # stored.highWatermark)
    => \E p \in log : stored.checkpoint < p /\ p <= stored.highWatermark

(* The durable checkpoint never moves back, and a durable window is left   *)
(* only by reaching its upper bound (one runner per stream).               *)
CheckpointMonotone ==
  [][ /\ stored'.checkpoint >= stored.checkpoint
      /\ stored'.highWatermark # stored.highWatermark /\ stored.highWatermark # 0
           => stored'.checkpoint = stored.highWatermark ]_stored

(* A dead-lettered or delivered batch is durable in full before the        *)
(* checkpoint passes it: the release gate the changelog names.             *)
WholeBatchHandledBeforeAdvance ==
  \A r \in Runners : pc[r] = "advance" => page[r].rows \subseteq Handled

(* Every committed row is at last delivered or dead-lettered, unless it    *)
(* was committed behind the frontier.                                      *)
EveryRowHandled ==
  \A p \in Pos : (p \in ever) ~> (p \in Handled \cup late)

(* A durable window is at last finished: no run is stuck in it.            *)
WindowCloses == (stored.highWatermark # 0) ~> (stored.highWatermark = 0)

(* Over an ordered source the runner, its tables and its sink implement    *)
(* the abstract feed, even when runs overlap.                              *)
Feed == INSTANCE AtLeastOnceFeed
          WITH Rows <- Pos, committed <- ever, delivered <- Handled,
               checkpoint <- stored.checkpoint
ImplementsFeed == Feed!Spec
=============================================================================
