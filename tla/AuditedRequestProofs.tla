------------------------ MODULE AuditedRequestProofs ------------------------
(***************************************************************************)
(* Proofs about AuditedRequest for any configurations, calls, operations   *)
(* and lifecycle callbacks, and any limit on the rows of a deleteMany.     *)
(***************************************************************************)
EXTENDS AuditedRequest, WellFoundedInduction, TLAPS

Progress ==
  [pc : {"idle", "read", "query", "post", "insert", "failure", "done", "failed"},
   call : Calls \cup {None}, from : Places \cup {None}, guard : BOOLEAN,
   caller : Actors \cup {None}, silent : BOOLEAN, audited : BOOLEAN, told : BOOLEAN,
   summary : BOOLEAN, captured : 0..MaxRecords, changed : 0..MaxRecords,
   left : 0..MaxRecords, error : Errors \cup {None}]
Lifecycle ==
  [pc : {"unused", "running", "succeeded", "failed"}, from : {"request", "runAs", None},
   outer : Ops \cup {None}, suppress : BOOLEAN, store : Store]

Types ==
  /\ ContextTypeOK
  /\ tx \in {"none", "open", "committed", "rolledBack"}
  /\ failed \in BOOLEAN /\ warned \subseteq {"nested", "returning"}
  /\ staged \subseteq Rows /\ trail \subseteq Rows
  /\ op \in [Ops -> Progress]
  /\ \A o \in Ops : op[o].pc # "idle" => op[o].call \in Calls /\ op[o].from \in Places
  /\ cycle \in [Cycles -> Lifecycle]

(* The store exists from the middleware on, unless the route is excluded;  *)
(* the extraction is over when the phases that need the actor begin.       *)
ContextInv ==
  /\ phase = "arrived" => store = None /\ extraction = "none"
  /\ setup.excluded => store = None /\ extraction = "none"
  /\ ~setup.excluded /\ phase # "arrived" => store \in Store
  /\ phase = "extracting" => setup.stage = "middleware" /\ extraction = "running"
  /\ setup.stage = "middleware" /\ ~setup.excluded /\ phase \notin {"arrived", "extracting"} =>
       extraction = "settled"
  /\ phase \in {"arrived", "extracting", "guards", "rejected"} => entered = 0
  /\ phase = "handler" => entered = setup.bindings
  /\ phase \in {"interceptors", "handler"} /\ entered > 0 /\ setup.stage = "interceptor"
       /\ setup.http /\ ~setup.excluded => extraction = "settled"
  /\ entered > 0 /\ ~setup.excluded => store.noAudit = setup.noAudit

(* The route is decorated with @NoAudit(), and an interceptor says so.     *)
Muted == setup.noAudit /\ setup.bindings > 0 /\ ~setup.excluded

CycleInv ==
  \A c \in Cycles :
    /\ cycle[c].pc = "unused" => cycle[c].outer = None
    /\ cycle[c].pc # "unused" =>
         /\ Atomic /\ cycle[c].from \in {"request", "runAs"}
         /\ Muted => cycle[c].from = "runAs" \/ cycle[c].store.noAudit

(* The transaction.                                                        *)
TxInv ==
  /\ tx # "none" => phase = "handler"
  /\ tx # "open" => staged = {}
  /\ Atomic /\ tx = "committed" => ~failed

Origin(o) == IF op[o].from \in Cycles THEN cycle[op[o].from].from ELSE op[o].from

(* What an operation was admitted as.                                      *)
Admission(o) ==
  op[o].pc # "idle" =>
    /\ op[o].audited /\ setup.actorRequired => op[o].caller # None
    /\ op[o].audited /\ Hook(o) =>
         /\ Tracked(o) /\ (Atomic => op[o].call.onTx)
         /\ Muted => op[o].guard \/ Origin(o) = "runAs"
    /\ op[o].from \in Cycles => cycle[op[o].from].pc # "unused"
    /\ op[o].call.onTx => tx # "none" /\ (tx = "committed" => Settled(o))

(* How far it has come.                                                    *)
Stage(o) ==
  /\ op[o].pc \in {"read", "post", "insert", "failure"} => op[o].audited
  /\ op[o].pc \in {"read", "query"} => op[o].changed = 0 /\ op[o].left = 0 /\ op[o].error = None
  /\ op[o].pc \in {"post", "insert"} => op[o].left > 0 /\ op[o].error = None
  /\ op[o].pc = "failure" => op[o].left = 1 /\ op[o].error = "query" /\ ~Atomic /\ Hook(o)
  /\ op[o].pc = "done" => op[o].left = 0 /\ op[o].error = None
  /\ op[o].pc = "failed" => op[o].error \in Errors
  /\ op[o].error \in {"refused", "limit", "query"} => op[o].changed = 0
  /\ op[o].pc # "idle" /\ ~Hook(o) => op[o].pc \in {"insert", "done", "failed"}

(* What the consistency mode makes of a failure.                           *)
AtomicPolicy(o) ==
  Atomic /\ Hook(o) =>
    /\ (Tracked(o) /\ ~op[o].audited) \/ NestsTracked(o) =>
         op[o].pc = "failed" /\ op[o].error = "refused"
    /\ ~op[o].summary
    /\ op[o].told => op[o].pc = "failed"
    /\ op[o].error = "audit" => failed
LenientPolicy(o) ==
  ~Atomic /\ Hook(o) =>
    /\ op[o].error \in {None, "query", "limit"}
    /\ Tracked(o) /\ ~op[o].audited =>
         op[o].told \/ (op[o].call.kind = "returning" /\ "returning" \in warned)
    /\ NestsTracked(o) => "nested" \in warned

(* The rows of an operation, staged or committed: it writes them from the  *)
(* last to the first.                                                      *)
Quota(o) == IF op[o].call.kind = "deleteMany" /\ ~op[o].summary THEN op[o].captured ELSE 1
Numbers(o) ==
  {n \in 1..MaxRecords : \E r \in staged \cup trail : r.op = o /\ r.n = n /\ r.result = "success"}
Evidence(o) ==
  Hook(o) /\ op[o].audited /\ op[o].pc \in {"post", "insert", "done"}
    /\ (Atomic => tx # "rolledBack") =>
      \/ Replaced(o)
      \/ /\ Atomic => op[o].changed = Quota(o)
         /\ op[o].left <= Quota(o)
         /\ op[o].told \/ Numbers(o) = (op[o].left + 1)..Quota(o)

OpInv(o) == Admission(o) /\ Stage(o) /\ AtomicPolicy(o) /\ LenientPolicy(o) /\ Evidence(o)

(* A row belongs to an audited operation whose query is over.              *)
RowFits(r) ==
  /\ op[r.op].audited /\ op[r.op].pc \notin {"idle", "read", "query"}
  /\ op[r.op].error \notin {"refused", "limit"}
  /\ r.actor = op[r.op].caller
  /\ Hook(r.op) => (r.result = "success" <=> op[r.op].error # "query")
RowInv ==
  /\ \A r \in staged \cup trail : RowFits(r)
  /\ \A r \in staged : Atomic \/ ~Hook(r.op)

IInv == Types /\ ContextInv /\ CycleInv /\ TxInv /\ RowInv /\ \A o \in Ops : OpInv(o)
-----------------------------------------------------------------------------
(* A set of positions that is not empty has a first one.                   *)
LEMMA FirstPosition ==
  ASSUME NEW S \in SUBSET Nat, S # {}
  PROVE  \E i \in S : \A j \in S : ~(j < i)
  <1> DEFINE R == OpToRel(<, Nat)
  <1>1. IsWellFoundedOn(R, Nat)
    BY NatLessThanWellFounded
  <1>2. PICK i \in S : \A j \in S : <<j, i>> \notin R
    BY <1>1, WFMin, Zenon
  <1> QED BY <1>2 DEF OpToRel

(* The walk over the relations of a payload misses no tracked model.       *)
LEMMA WalkFinds ==
  ASSUME NEW c \in Calls
  PROVE  Nested(c) <=> \E i \in DOMAIN c.payload : c.payload[i].tracked
  <1>1. /\ c.payload \in Seq(Hop) /\ DOMAIN c.payload = 1..Len(c.payload) /\ Len(c.payload) \in Nat
    BY CallAssumption DEF Call
  <1>2. SUFFICES ASSUME NEW k \in DOMAIN c.payload, c.payload[k].tracked PROVE Nested(c)
    BY DEF Nested
  <1> DEFINE S == {i \in DOMAIN c.payload : c.payload[i].tracked}
  <1>3. PICK i \in S : \A j \in S : ~(j < i)
    <2>1. S \in SUBSET Nat /\ S # {}
      BY <1>1, <1>2
    <2> QED BY <2>1, FirstPosition
  <1>4. \A j \in 1..(i - 1) : j \in DOMAIN c.payload /\ j < Len(c.payload) /\ j < i
    BY <1>1, <1>3
  <1>5. \A j \in 1..(i - 1) : ~c.payload[j].tracked /\ c.payload[j].slot \in Inspected
    BY <1>3, <1>4, CallAssumption
  <1> QED BY <1>3, <1>5 DEF Nested

(* The invariant holds before the request has arrived.                     *)
LEMMA InitInv == Init => IInv
  <1> SUFFICES ASSUME Init PROVE IInv
    OBVIOUS
  <1> USE ActorAssumption, SetupAssumption, RecordAssumption DEF Init, ContextInit
  <1>1. Types
    <2>1. Idle \in Progress /\ Unused \in Lifecycle
      BY DEF Idle, Unused, Progress, Lifecycle, Fresh, Store
    <2>2. ContextTypeOK
      BY DEF ContextTypeOK
    <2>3. \A o \in Ops : op[o].pc = "idle"
      BY DEF Idle
    <2> QED BY <2>1, <2>2, <2>3 DEF Types
  <1>2. ContextInv /\ CycleInv /\ TxInv /\ RowInv
    BY DEF ContextInv, CycleInv, TxInv, RowInv, Unused, Setup
  <1>3. ASSUME NEW o \in Ops PROVE OpInv(o)
    BY NamesAssumption DEF OpInv, Admission, Stage, AtomicPolicy, LenientPolicy, Evidence, Hook, Idle
  <1> QED BY <1>1, <1>2, <1>3 DEF IInv
-----------------------------------------------------------------------------
(* What a step has to keep for an operation it does not touch.             *)
LEMMA Unmoved ==
  ASSUME IInv, NEW q \in Ops, op'[q] = op[q], setup' = setup,
         failed => failed', warned \subseteq warned',
         tx # "none" => tx' # "none", tx = "rolledBack" => tx' = "rolledBack",
         op[q].pc # "idle" /\ op[q].call.onTx /\ tx' = "committed" => Settled(q),
         \A c \in Cycles : cycle[c].pc # "unused" =>
           cycle'[c].pc # "unused" /\ cycle'[c].from = cycle[c].from,
         Replaced(q) => Replaced(q)',
         Numbers(q)' = Numbers(q) \/ ~Hook(q) \/ (Atomic /\ tx' = "rolledBack")
  PROVE  OpInv(q)'
  <1>1. OpInv(q)
    BY DEF IInv
  <1>2. Atomic' = Atomic /\ Muted' = Muted
    BY DEF Atomic, Muted
  <1>3. Hook(q)' = Hook(q) /\ Tracked(q)' = Tracked(q) /\ NestsTracked(q)' = NestsTracked(q)
    BY DEF Hook, Tracked, NestsTracked
  <1>4. Admission(q)'
    <2>1. Admission(q) /\ (op[q].from \in Cycles /\ op[q].pc # "idle" => Origin(q)' = Origin(q))
      BY <1>1 DEF OpInv, Admission, Origin
    <2>2. op[q].from \notin Cycles => Origin(q)' = Origin(q)
      BY DEF Origin
    <2> QED BY <1>2, <1>3, <2>1, <2>2 DEF Admission, Settled
  <1>5. Stage(q)'
    BY <1>1, <1>2, <1>3 DEF OpInv, Stage
  <1>6. AtomicPolicy(q)' /\ LenientPolicy(q)'
    BY <1>1, <1>2, <1>3 DEF OpInv, AtomicPolicy, LenientPolicy
  <1>7. Evidence(q)'
    BY <1>1, <1>2, <1>3 DEF OpInv, Evidence, Quota
  <1> QED BY <1>4, <1>5, <1>6, <1>7 DEF OpInv

(* The request comes further; no operation moves.                          *)
LEMMA ContextStep ==
  ASSUME IInv, ContextNext, UNCHANGED <<tx, failed, warned, op, cycle, staged, trail>>
  PROVE  IInv'
  <1> USE DEF ContextNext, Use, ActorExtracted, GuardsPass, GuardsReject, Intercept, ActorReady,
              Handle
  <1>1. setup' = setup
    OBVIOUS
  <1>2. ContextTypeOK /\ ContextInv /\ setup \in Setup
    BY SetupAssumption DEF IInv, Types, ContextTypeOK
  <1>3. ContextTypeOK' /\ ContextInv'
    <2> USE <1>2
    <2>1. CASE Use
      BY <2>1 DEF ContextTypeOK, ContextInv, Store, Fresh, Setup
    <2>2. CASE ActorExtracted
      <3>1. store \in Store /\ ~setup.excluded /\ phase # "arrived"
        BY <2>2 DEF ContextInv
      <3>2. store' \in Store /\ store'.noAudit = store.noAudit
        BY <2>2, <3>1 DEF Store, Actors
      <3>3. ContextTypeOK'
        BY <2>2, <3>2 DEF ContextTypeOK
      <3> QED BY <2>2, <3>1, <3>2, <3>3 DEF ContextInv
    <2>3. CASE GuardsPass \/ GuardsReject \/ ActorReady \/ Handle
      BY <2>3 DEF ContextTypeOK, ContextInv, Setup
    <2>4. CASE Intercept
      <3>1. store # None => store \in Store
        BY DEF ContextTypeOK
      <3>2. store # None => store' \in Store /\ store'.noAudit = setup.noAudit
        BY <2>4, <3>1 DEF Store, Setup
      <3>3. setup.excluded <=> store = None
        BY <2>4, <3>1, StoreAssumption DEF ContextInv
      <3>4. ContextTypeOK'
        BY <2>4, <3>2 DEF ContextTypeOK, Setup
      <3> QED BY <2>4, <3>2, <3>3, <3>4 DEF ContextTypeOK, ContextInv, Deferred, Setup
    <2> QED BY <2>1, <2>2, <2>3, <2>4
  <1>4. TxInv'
    BY <1>1 DEF IInv, TxInv, Atomic
  <1>5. CycleInv' /\ RowInv'
    BY <1>1 DEF IInv, CycleInv, RowInv, RowFits, Atomic, Muted, Hook
  <1>6. ASSUME NEW q \in Ops PROVE OpInv(q)'
    <2>1. op[q].pc # "idle" /\ op[q].call.onTx /\ tx = "committed" => Settled(q)
      BY DEF IInv, OpInv, Admission
    <2> QED BY <1>1, <2>1, Unmoved DEF Replaced, Numbers
  <1> QED BY <1>3, <1>4, <1>5, <1>6 DEF IInv, Types

(* No operation has a row before its query is over.                        *)
LEMMA RowsLate ==
  ASSUME IInv, NEW o \in Ops, op[o].pc \in {"idle", "read", "query"}
  PROVE  (\A r \in staged \cup trail : r.op # o) /\ Numbers(o) = {}
  BY DEF IInv, RowInv, RowFits, Numbers

(* An operation moves on without writing a row.                            *)
LEMMA OpFrame ==
  ASSUME IInv, NEW o \in Ops, NEW rec \in Progress, op' = [op EXCEPT ![o] = rec],
         rec.call \in Calls, rec.from \in Places,
         UNCHANGED <<contextVars, tx, cycle, staged, trail>>,
         failed' \in BOOLEAN, failed => failed', Atomic /\ tx = "committed" => ~failed',
         warned \subseteq warned', warned' \subseteq {"nested", "returning"},
         OpInv(o)',
         \/ op[o].pc \in {"idle", "read", "query"}
         \/ /\ rec.audited /\ rec.pc \notin {"idle", "read", "query"}
            /\ rec.caller = op[o].caller /\ rec.call = op[o].call
            /\ rec.error \notin {"refused", "limit"}
            /\ rec.error = "query" <=> op[o].error = "query"
  PROVE  IInv'
  <1> USE DEF contextVars
  <1>1. op \in [Ops -> Progress] /\ op'[o] = rec /\ \A q \in Ops : q # o => op'[q] = op[q]
    BY DEF IInv, Types
  <1>2. Types'
    BY <1>1 DEF IInv, Types, ContextTypeOK
  <1>3. ContextInv' /\ CycleInv' /\ TxInv'
    BY DEF IInv, ContextInv, CycleInv, TxInv, Atomic, Muted
  <1>4. RowInv'
    <2>1. ASSUME NEW r \in staged \cup trail
          PROVE  RowFits(r)' /\ (r \in staged => Atomic' \/ ~Hook(r.op)')
      <3>1. r.op \in Ops /\ RowFits(r) /\ (r \in staged => Atomic \/ ~Hook(r.op))
        BY DEF IInv, Types, Rows, RowInv
      <3>2. CASE r.op # o
        BY <1>1, <3>1, <3>2 DEF RowFits, Hook, Atomic
      <3>3. CASE r.op = o
        BY <1>1, <3>1, <3>3, RowsLate DEF RowFits, Hook, Atomic
      <3> QED BY <3>2, <3>3
    <2> QED BY <2>1 DEF RowInv
  <1>5. ASSUME NEW q \in Ops, q # o PROVE OpInv(q)'
    <2>1. op[q].pc # "idle" /\ op[q].call.onTx /\ tx = "committed" => Settled(q)
      BY DEF IInv, OpInv, Admission
    <2> QED BY <1>1, <1>5, <2>1, Unmoved DEF Replaced, Numbers
  <1> QED BY <1>2, <1>3, <1>4, <1>5 DEF IInv
-----------------------------------------------------------------------------
(* Every place an operation may run in has a store of the right type.      *)
LEMMA StoreTyped ==
  ASSUME IInv, NEW from \in Places
  PROVE  /\ StoreAt(from) \in Store \cup {None}
         /\ ActorAt(from) \in Actors \cup {None} /\ NoAuditAt(from) \in BOOLEAN
  <1>1. StoreAt(from) \in Store \cup {None}
    BY DEF IInv, Types, ContextTypeOK, StoreAt, Places, Lifecycle, Store, Actors
  <1> QED BY <1>1 DEF ActorAt, NoAuditAt, Store

(* Under a @NoAudit() route only its guards and runAs are heard.           *)
LEMMA Silenced ==
  ASSUME IInv, NEW c \in Calls, NEW from \in Places, MayCall(c, from), Muted, ~NoAuditAt(from)
  PROVE  \/ phase = "guards"
         \/ from = "runAs"
         \/ from \in Cycles /\ cycle[from].from = "runAs"
  <1> USE NamesAssumption, StoreAssumption
  <1>1. CASE from = "request" /\ phase = "handler"
    <2>1. store \in Store /\ store.noAudit = setup.noAudit
      BY <1>1, SetupAssumption DEF IInv, Types, ContextTypeOK, ContextInv, Muted, Setup
    <2> QED BY <1>1, <2>1 DEF NoAuditAt, StoreAt, Muted
  <1>2. CASE from \in Cycles
    <2>1. cycle[from].pc # "unused" /\ cycle[from].store \in Store
      BY <1>2 DEF MayCall, IInv, Types, Lifecycle
    <2> QED BY <1>2, <2>1 DEF IInv, CycleInv, NoAuditAt, StoreAt
  <1> QED BY <1>1, <1>2 DEF MayCall, Places

(* The record of an operation that begins.                                 *)
LEMMA EnteredFields ==
  ASSUME IInv, NEW c \in Calls, NEW from \in Places
  PROVE  LET e == Entered(c, from) IN
         /\ e \in Progress /\ e.call = c /\ e.from = from /\ (e.guard <=> phase = "guards")
         /\ e.caller = ActorAt(from) /\ e.silent = NoAuditAt(from)
         /\ ~e.audited /\ ~e.told /\ ~e.summary
         /\ e.captured = 0 /\ e.changed = 0 /\ e.left = 0 /\ e.error = None
  <1>1. Idle \in Progress
    BY RecordAssumption DEF Idle, Progress
  <1>2. Entered(c, from) \in Progress
    BY <1>1, StoreTyped DEF Entered, Progress
  <1>3. /\ Entered(c, from).call = c /\ Entered(c, from).from = from
        /\ Entered(c, from).guard <=> phase = "guards"
        /\ Entered(c, from).caller = ActorAt(from)
    BY DEF Entered, Idle
  <1>4. Entered(c, from).silent = NoAuditAt(from)
    BY DEF Entered, Idle
  <1>5. LET e == Entered(c, from) IN
        /\ ~e.audited /\ ~e.told /\ ~e.summary
        /\ e.captured = 0 /\ e.changed = 0 /\ e.left = 0 /\ e.error = None
    BY DEF Entered, Idle
  <1> QED BY <1>2, <1>3, <1>4, <1>5

(* The records a start may leave are records of progress.                  *)
LEMMA Admitted ==
  ASSUME NEW e \in Progress, NEW p \in {"read", "query", "insert"}, NEW a \in BOOLEAN,
         NEW t \in BOOLEAN, NEW l \in 0..MaxRecords
  PROVE  /\ [e EXCEPT !.pc = p, !.audited = a] \in Progress
         /\ [e EXCEPT !.pc = p, !.audited = a, !.told = t] \in Progress
         /\ [e EXCEPT !.pc = p, !.audited = a, !.left = l] \in Progress
  <1>1. [e EXCEPT !.pc = p, !.audited = a] \in Progress
    BY DEF Progress
  <1>2. [e EXCEPT !.pc = p, !.audited = a, !.told = t] \in Progress
    BY DEF Progress
  <1>3. [e EXCEPT !.pc = p, !.audited = a, !.left = l] \in Progress
    BY DEF Progress
  <1> QED BY <1>1, <1>2, <1>3

(* What holds of an operation in its first state.                          *)
LEMMA Begins ==
  ASSUME IInv, NEW o \in Ops, NEW c \in Calls, NEW from \in Places, NEW rec \in Progress,
         op[o].pc = "idle", MayCall(c, from), op' = [op EXCEPT ![o] = rec],
         UNCHANGED <<contextVars, tx, cycle, staged, trail>>,
         failed' \in BOOLEAN, failed => failed', Atomic /\ tx = "committed" => ~failed',
         warned \subseteq warned', warned' \subseteq {"nested", "returning"},
         rec.call = c, rec.from = from, rec.guard <=> phase = "guards",
         rec.caller = ActorAt(from), rec.silent = NoAuditAt(from), ~rec.summary, rec.changed = 0,
         rec.audited => ~Anonymous(from),
         c.kind # "log" => (rec.audited => ~Exempt(c, from) /\ (Atomic => c.onTx)),
         rec.pc = "failed" \/ tx # "committed" \/ ~c.onTx,
         \/ rec.pc = "read" /\ rec.audited /\ rec.left = 0 /\ rec.error = None /\ c.kind # "log"
         \/ rec.pc = "query" /\ rec.left = 0 /\ rec.error = None /\ c.kind # "log"
         \/ rec.pc = "insert" /\ rec.audited /\ rec.left = 1 /\ rec.error = None /\ c.kind = "log"
         \/ rec.pc = "failed" /\ rec.error = "refused" /\ c.kind # "log"
         \/ rec.pc = "failed" /\ rec.error = "audit" /\ c.kind = "log",
         AtomicPolicy(o)', LenientPolicy(o)'
  PROVE  IInv'
  <1> USE DEF contextVars
  <1>1. op'[o] = rec
    BY DEF IInv, Types
  <1>2. Hook(o)' <=> c.kind # "log"
    BY <1>1 DEF Hook
  <1>3. Admission(o)'
    <2>1. rec.audited /\ setup.actorRequired => rec.caller # None
      BY DEF Anonymous
    <2>2. rec.audited /\ c.kind # "log" => Tracked(o)' /\ (Atomic => c.onTx)
      BY <1>1, <1>2 DEF Tracked, Exempt
    <2>3. rec.audited /\ c.kind # "log" /\ Muted => rec.guard \/ Origin(o)' = "runAs"
      <3>1. rec.audited /\ c.kind # "log" => ~NoAuditAt(from)
        BY DEF Exempt
      <3> QED BY <1>1, <3>1, Silenced, NamesAssumption DEF Origin
    <2>4. from \in Cycles => cycle[from].pc # "unused"
      BY DEF MayCall
    <2>5. c.onTx => tx # "none"
      BY DEF MayCall
    <2> QED BY <1>1, <1>2, <2>1, <2>2, <2>3, <2>4, <2>5 DEF Admission, Atomic, Muted, Settled
  <1>4. Stage(o)'
    BY <1>1, <1>2, NamesAssumption DEF Stage, Errors
  <1>5. Evidence(o)'
    BY <1>1, <1>2 DEF Evidence
  <1> QED BY <1>1, <1>3, <1>4, <1>5, OpFrame DEF OpInv

(* A hook starts in best-effort mode.                                      *)
LEMMA StartBestEffortStep ==
  ASSUME IInv, NEW o \in Ops, NEW c \in Calls, NEW from \in Places, StartBestEffort(o, c, from)
  PROVE  IInv'
  <1> DEFINE e == Entered(c, from)
             audited == ~Exempt(c, from) /\ c.kind # "returning" /\ ~Anonymous(from)
             rec == [e EXCEPT
                       !.pc = IF audited THEN FirstStep(c) ELSE "query",
                       !.audited = audited,
                       !.told = ~Exempt(c, from) /\ c.kind # "returning" /\ Anonymous(from)]
  <1>1. /\ op' = [op EXCEPT ![o] = rec] /\ ~Atomic /\ c.kind # "log" /\ op[o].pc = "idle"
        /\ MayCall(c, from) /\ UNCHANGED <<contextVars, tx, failed, cycle, staged, trail>>
    BY DEF StartBestEffort
  <1>2. /\ warned' = warned \cup (IF NestedIn(c, from) THEN {"nested"} ELSE {})
                       \cup (IF c.kind = "returning" /\ ~Exempt(c, from) THEN {"returning"} ELSE {})
        /\ warned \subseteq {"nested", "returning"}
    BY DEF StartBestEffort, IInv, Types
  <1>3. FirstStep(c) \in {"read", "query"}
    BY DEF FirstStep
  <1>4. /\ e \in Progress /\ e.call = c /\ e.from = from /\ (e.guard <=> phase = "guards")
        /\ e.caller = ActorAt(from) /\ e.silent = NoAuditAt(from) /\ ~e.summary
        /\ e.changed = 0 /\ e.left = 0 /\ e.error = None
    BY EnteredFields
  <1>5. rec \in Progress
    <2> DEFINE p == IF audited THEN FirstStep(c) ELSE "query"
               t == ~Exempt(c, from) /\ c.kind # "returning" /\ Anonymous(from)
    <2>1. p \in {"read", "query", "insert"} /\ audited \in BOOLEAN /\ t \in BOOLEAN
      BY <1>3
    <2>2. e \in Progress
      BY <1>4
    <2> HIDE DEF p, audited, t, e
    <2>3. [e EXCEPT !.pc = p, !.audited = audited, !.told = t] \in Progress
      <3>1. 0 \in 0..MaxRecords
        BY RecordAssumption
      <3> QED BY <2>1, <2>2, <3>1, Admitted, Zenon
    <2> QED BY <2>3 DEF p, t
  <1>6. /\ rec.call = c /\ rec.from = from /\ (rec.guard <=> phase = "guards")
        /\ rec.caller = ActorAt(from) /\ rec.silent = NoAuditAt(from) /\ ~rec.summary
        /\ rec.changed = 0 /\ rec.left = 0 /\ rec.error = None
        /\ rec.audited = audited
        /\ rec.told = (~Exempt(c, from) /\ c.kind # "returning" /\ Anonymous(from))
        /\ rec.pc = IF audited THEN FirstStep(c) ELSE "query"
    <2>1. rec.audited = audited
      BY <1>4 DEF Progress
    <2>2. rec.told = (~Exempt(c, from) /\ c.kind # "returning" /\ Anonymous(from))
      BY <1>4 DEF Progress
    <2>3. rec.pc = IF audited THEN FirstStep(c) ELSE "query"
      BY <1>4 DEF Progress
    <2>4. /\ rec.call = c /\ rec.from = from /\ rec.caller = ActorAt(from)
          /\ rec.changed = 0 /\ rec.left = 0 /\ rec.error = None
      BY <1>4 DEF Progress
    <2>5. rec.guard = e.guard /\ rec.silent = e.silent /\ rec.summary = e.summary
      BY <1>4 DEF Progress
    <2> HIDE DEF rec, audited, e
    <2> QED BY <1>4, <2>1, <2>2, <2>3, <2>4, <2>5
  <1> HIDE DEF rec, e
  <1>7. op'[o] = rec
    BY <1>1 DEF IInv, Types
  <1>8. AtomicPolicy(o)' /\ LenientPolicy(o)'
    <2>1. ~Atomic'
      BY <1>1 DEF Atomic, contextVars
    <2>2. Tracked(o)' => ~Exempt(c, from)
      BY <1>6, <1>7 DEF Tracked, Exempt
    <2>3. NestsTracked(o)' => "nested" \in warned'
      BY <1>2, <1>6, <1>7, WalkFinds DEF NestsTracked, NestedIn
    <2> QED BY <1>2, <1>6, <1>7, <2>1, <2>2, <2>3 DEF AtomicPolicy, LenientPolicy
  <1>9. c.onTx => tx # "committed"
    BY <1>1 DEF MayCall
  <1>10. failed \in BOOLEAN
    BY DEF IInv, Types
  <1> QED BY <1>1, <1>2, <1>3, <1>5, <1>6, <1>8, <1>9, <1>10, Begins

(* A hook starts, or refuses, in atomic-required mode.                     *)
LEMMA StartAtomicStep ==
  ASSUME IInv, NEW o \in Ops, NEW c \in Calls, NEW from \in Places, StartAtomic(o, c, from)
  PROVE  IInv'
  <1> DEFINE e == Entered(c, from)
             go == [e EXCEPT !.pc = IF Exempt(c, from) THEN "query" ELSE FirstStep(c),
                             !.audited = ~Exempt(c, from)]
             no == [e EXCEPT !.pc = "failed", !.error = "refused"]
  <1>1. /\ op' = [op EXCEPT ![o] = IF Passes(c, from) THEN go ELSE no]
        /\ Atomic /\ c.kind # "log" /\ op[o].pc = "idle" /\ MayCall(c, from)
        /\ failed' = (failed \/ (tx = "open" /\ c.onTx /\ Marks(c, from)))
        /\ UNCHANGED <<contextVars, tx, warned, cycle, staged, trail>>
    BY DEF StartAtomic
  <1>2. FirstStep(c) \in {"read", "query"}
    BY DEF FirstStep
  <1>3. /\ e \in Progress /\ e.call = c /\ e.from = from /\ (e.guard <=> phase = "guards")
        /\ e.caller = ActorAt(from) /\ e.silent = NoAuditAt(from)
        /\ ~e.audited /\ ~e.told /\ ~e.summary
        /\ e.changed = 0 /\ e.left = 0 /\ e.error = None
    BY EnteredFields
  <1>4. /\ go \in Progress /\ go.call = c /\ go.from = from /\ (go.guard <=> phase = "guards")
        /\ go.caller = ActorAt(from) /\ go.silent = NoAuditAt(from)
        /\ go.audited = ~Exempt(c, from) /\ ~go.told /\ ~go.summary
        /\ go.changed = 0 /\ go.left = 0 /\ go.error = None
        /\ go.pc = IF Exempt(c, from) THEN "query" ELSE FirstStep(c)
    <2>1. go \in Progress
      <3> DEFINE p == IF Exempt(c, from) THEN "query" ELSE FirstStep(c)
                 a == ~Exempt(c, from)
      <3>1. p \in {"read", "query", "insert"} /\ a \in BOOLEAN
        BY <1>2
      <3>2. e \in Progress
        BY <1>3
      <3> HIDE DEF p, a, e
      <3>3. [e EXCEPT !.pc = p, !.audited = a] \in Progress
        <4>1. 0 \in 0..MaxRecords
          BY RecordAssumption
        <4> QED BY <3>1, <3>2, <4>1, Admitted, Zenon
      <3> QED BY <3>3 DEF p, a
    <2>2. go.audited = ~Exempt(c, from)
      BY <1>3 DEF Progress
    <2>3. go.pc = IF Exempt(c, from) THEN "query" ELSE FirstStep(c)
      BY <1>3 DEF Progress
    <2>4. /\ go.call = c /\ go.from = from /\ go.caller = ActorAt(from)
          /\ go.changed = 0 /\ go.left = 0 /\ go.error = None
      BY <1>3 DEF Progress
    <2>5. go.guard = e.guard /\ go.silent = e.silent /\ go.told = e.told /\ go.summary = e.summary
      BY <1>3 DEF Progress
    <2> HIDE DEF go, e
    <2> QED BY <1>3, <2>1, <2>2, <2>3, <2>4, <2>5
  <1>5. /\ no \in Progress /\ no.call = c /\ no.from = from /\ (no.guard <=> phase = "guards")
        /\ no.caller = ActorAt(from) /\ no.silent = NoAuditAt(from)
        /\ ~no.audited /\ ~no.told /\ ~no.summary
        /\ no.changed = 0 /\ no.left = 0 /\ no.error = "refused" /\ no.pc = "failed"
    BY <1>3 DEF Progress, Errors
  <1> HIDE DEF go, no, e
  <1>6. op'[o] = IF Passes(c, from) THEN go ELSE no
    BY <1>1 DEF IInv, Types
  <1>7. Tracked(o)' => ~Exempt(c, from)
    BY <1>4, <1>5, <1>6 DEF Tracked, Exempt
  <1>8. NestsTracked(o)' => NestedIn(c, from)
    BY <1>4, <1>5, <1>6, WalkFinds DEF NestsTracked, NestedIn
  <1>9. AtomicPolicy(o)' /\ LenientPolicy(o)'
    BY <1>1, <1>4, <1>5, <1>6, <1>7, <1>8, NamesAssumption
       DEF AtomicPolicy, LenientPolicy, Passes, Atomic, contextVars, Errors
  <1>10. /\ failed' \in BOOLEAN /\ (failed => failed') /\ (Atomic /\ tx = "committed" => ~failed')
         /\ warned \subseteq {"nested", "returning"}
    BY <1>1 DEF IInv, Types, TxInv
  <1>11. c.onTx => tx # "committed"
    BY <1>1 DEF MayCall
  <1>12. CASE Passes(c, from)
    <2>1. go.audited => ~Anonymous(from) /\ c.onTx
      BY <1>4, <1>12 DEF Passes
    <2> QED BY <1>1, <1>2, <1>4, <1>9, <1>10, <1>11, <1>12, <2>1, Begins
  <1>13. CASE ~Passes(c, from)
    BY <1>1, <1>5, <1>9, <1>10, <1>11, <1>13, Begins
  <1> QED BY <1>12, <1>13

(* AuditService.log starts or rejects.                                     *)
LEMMA StartLogStep ==
  ASSUME IInv, NEW o \in Ops, NEW c \in Calls, NEW from \in Places, StartLog(o, c, from)
  PROVE  IInv'
  <1> DEFINE e == Entered(c, from)
             go == [e EXCEPT !.pc = "insert", !.audited = TRUE, !.left = 1]
             no == [e EXCEPT !.pc = "failed", !.error = "audit", !.told = TRUE]
  <1>1. /\ c.kind = "log" /\ op[o].pc = "idle" /\ MayCall(c, from)
        /\ \/ ~Anonymous(from) /\ op' = [op EXCEPT ![o] = go]
           \/ op' = [op EXCEPT ![o] = no]
        /\ UNCHANGED <<contextVars, tx, failed, warned, cycle, staged, trail>>
    BY DEF StartLog
  <1>2. /\ e \in Progress /\ e.call = c /\ e.from = from /\ (e.guard <=> phase = "guards")
        /\ e.caller = ActorAt(from) /\ e.silent = NoAuditAt(from)
        /\ ~e.audited /\ ~e.summary /\ e.changed = 0 /\ e.error = None
    BY EnteredFields
  <1>3. /\ go \in Progress /\ go.call = c /\ go.from = from /\ (go.guard <=> phase = "guards")
        /\ go.caller = ActorAt(from) /\ go.silent = NoAuditAt(from) /\ ~go.summary
        /\ go.changed = 0 /\ go.left = 1 /\ go.error = None /\ go.pc = "insert" /\ go.audited
    <2>1. go \in Progress
      <3> HIDE DEF e
      <3>1. 1 \in 0..MaxRecords
        BY RecordAssumption
      <3> QED BY <1>2, <3>1, Admitted
    <2>2. go.audited = TRUE
      BY <1>2 DEF Progress
    <2>3. /\ go.call = c /\ go.from = from /\ go.caller = ActorAt(from)
          /\ go.changed = 0 /\ go.left = 1 /\ go.error = None /\ go.pc = "insert"
      BY <1>2 DEF Progress
    <2>4. go.guard = e.guard /\ go.silent = e.silent /\ go.summary = e.summary
      BY <1>2 DEF Progress
    <2> HIDE DEF go, e
    <2> QED BY <1>2, <2>1, <2>2, <2>3, <2>4
  <1>4. /\ no \in Progress /\ no.call = c /\ no.from = from /\ (no.guard <=> phase = "guards")
        /\ no.caller = ActorAt(from) /\ no.silent = NoAuditAt(from) /\ ~no.summary
        /\ no.changed = 0 /\ no.error = "audit" /\ no.pc = "failed" /\ ~no.audited
    <2>1. no \in Progress
      <3> HIDE DEF e
      <3> QED BY <1>2 DEF Progress, Errors
    <2>2. /\ no.call = c /\ no.from = from /\ no.caller = ActorAt(from)
          /\ no.changed = 0 /\ no.error = "audit" /\ no.pc = "failed"
      BY <1>2 DEF Progress
    <2>3. /\ no.guard = e.guard /\ no.silent = e.silent /\ no.summary = e.summary
          /\ no.audited = e.audited
      BY <1>2 DEF Progress
    <2> HIDE DEF no, e
    <2> QED BY <1>2, <2>1, <2>2, <2>3
  <1> HIDE DEF go, no, e
  <1>5. /\ failed \in BOOLEAN /\ warned \subseteq {"nested", "returning"}
        /\ (Atomic /\ tx = "committed" => ~failed) /\ (c.onTx => tx # "committed")
    BY <1>1 DEF IInv, Types, TxInv, MayCall
  <1>6. CASE ~Anonymous(from) /\ op' = [op EXCEPT ![o] = go]
    <2>1. op'[o] = go
      BY <1>6 DEF IInv, Types
    <2>2. AtomicPolicy(o)' /\ LenientPolicy(o)'
      BY <1>1, <1>3, <2>1 DEF AtomicPolicy, LenientPolicy, Hook
    <2> QED BY <1>1, <1>3, <1>5, <1>6, <2>2, Begins
  <1>7. CASE op' = [op EXCEPT ![o] = no]
    <2>1. op'[o] = no
      BY <1>7 DEF IInv, Types
    <2>2. AtomicPolicy(o)' /\ LenientPolicy(o)'
      BY <1>1, <1>4, <2>1 DEF AtomicPolicy, LenientPolicy, Hook
    <2> QED BY <1>1, <1>4, <1>5, <1>7, <2>2, Begins
  <1> QED BY <1>1, <1>6, <1>7
-----------------------------------------------------------------------------
(* What an operation on its way keeps.                                     *)
LEMMA Carried ==
  ASSUME IInv, NEW o \in Ops, NEW rec \in Progress, op' = [op EXCEPT ![o] = rec],
         UNCHANGED <<setup, tx, cycle>>, ~Settled(o), rec.pc # "idle",
         rec.call = op[o].call, rec.from = op[o].from, rec.guard = op[o].guard,
         rec.caller = op[o].caller, rec.silent = op[o].silent, rec.audited = op[o].audited
  PROVE  /\ op'[o] = rec /\ op[o] \in Progress /\ rec.call \in Calls /\ rec.from \in Places
         /\ Atomic' = Atomic /\ Hook(o)' = Hook(o) /\ Tracked(o)' = Tracked(o)
         /\ NestsTracked(o)' = NestsTracked(o) /\ Replaced(o)' = Replaced(o)
         /\ ~(op[o].call.onTx /\ tx = "committed") /\ Admission(o)'
         /\ OpInv(o)
  <1>1. op'[o] = rec /\ op[o] \in Progress /\ OpInv(o) /\ op[o].pc # "idle"
    BY DEF IInv, Types, Settled
  <1>2. Atomic' = Atomic /\ Muted' = Muted
    BY DEF Atomic, Muted
  <1>3. Hook(o)' = Hook(o) /\ Tracked(o)' = Tracked(o) /\ NestsTracked(o)' = NestsTracked(o)
    BY <1>1 DEF Hook, Tracked, NestsTracked
  <1>4. Replaced(o)' = Replaced(o) /\ Origin(o)' = Origin(o)
    BY <1>1 DEF Replaced, Origin
  <1>5. ~(op[o].call.onTx /\ tx = "committed")
    BY <1>1 DEF OpInv, Admission
  <1>6. Admission(o)'
    BY <1>1, <1>2, <1>3, <1>4, <1>5 DEF OpInv, Admission
  <1>7. rec.call \in Calls /\ rec.from \in Places
    BY <1>1 DEF IInv, Types
  <1> QED BY <1>1, <1>2, <1>3, <1>4, <1>5, <1>6, <1>7

(* An operation on its way moves on without writing a row.                 *)
LEMMA Moves ==
  ASSUME IInv, NEW o \in Ops, NEW rec \in Progress, op' = [op EXCEPT ![o] = rec],
         UNCHANGED <<contextVars, tx, warned, cycle, staged, trail>>,
         failed' \in BOOLEAN, failed => failed', failed' => failed \/ op[o].call.onTx,
         ~Settled(o), rec.pc # "idle",
         rec.call = op[o].call, rec.from = op[o].from, rec.guard = op[o].guard,
         rec.caller = op[o].caller, rec.silent = op[o].silent, rec.audited = op[o].audited,
         Stage(o)', AtomicPolicy(o)', LenientPolicy(o)', Evidence(o)',
         \/ op[o].pc \in {"read", "query"}
         \/ /\ rec.audited /\ rec.pc \notin {"idle", "read", "query"}
            /\ rec.error \notin {"refused", "limit"}
            /\ rec.error = "query" <=> op[o].error = "query"
  PROVE  IInv'
  <1>1. UNCHANGED <<setup, tx, cycle>>
    BY DEF contextVars
  <1>2. /\ Admission(o)' /\ rec.call \in Calls /\ rec.from \in Places
        /\ ~(op[o].call.onTx /\ tx = "committed")
    BY <1>1, Carried
  <1>3. OpInv(o)'
    BY <1>2 DEF OpInv
  <1>4. Atomic /\ tx = "committed" => ~failed'
    BY <1>2 DEF IInv, TxInv
  <1>5. warned \subseteq {"nested", "returning"}
    BY DEF IInv, Types
  <1> QED BY <1>2, <1>3, <1>4, <1>5, OpFrame

(* The rows are read before the change.                                    *)
LEMMA PreReadStep ==
  ASSUME IInv, NEW o \in Ops, PreRead(o)
  PROVE  IInv'
  <1>1. PICK n \in 0..MaxRecords :
          op' = [op EXCEPT ![o].pc = "query",
                           ![o].captured = IF op[o].call.kind = "deleteMany" THEN n ELSE 0]
    BY DEF PreRead
  <1> DEFINE k == IF op[o].call.kind = "deleteMany" THEN n ELSE 0
             rec == [op[o] EXCEPT !.pc = "query", !.captured = k]
  <1>2. /\ op[o] \in Progress /\ op[o].pc = "read" /\ k \in 0..MaxRecords
        /\ UNCHANGED <<contextVars, tx, failed, warned, cycle, staged, trail>>
    BY RecordAssumption DEF IInv, Types, PreRead
  <1>3. op' = [op EXCEPT ![o] = rec]
    BY <1>1, <1>2 DEF IInv, Types
  <1>4. rec \in Progress
    BY <1>2 DEF Progress
  <1>5. /\ rec.call = op[o].call /\ rec.from = op[o].from /\ rec.guard = op[o].guard
        /\ rec.caller = op[o].caller /\ rec.silent = op[o].silent /\ rec.audited = op[o].audited
        /\ rec.told = op[o].told /\ rec.summary = op[o].summary /\ rec.changed = op[o].changed
        /\ rec.left = op[o].left /\ rec.error = op[o].error /\ rec.pc = "query"
    BY <1>2 DEF Progress
  <1> HIDE DEF rec, k
  <1>6. /\ op'[o] = rec /\ OpInv(o) /\ Atomic' = Atomic /\ Hook(o)' = Hook(o)
        /\ Tracked(o)' = Tracked(o) /\ NestsTracked(o)' = NestsTracked(o) /\ Replaced(o)' = Replaced(o)
    BY <1>2, <1>3, <1>4, <1>5, Carried DEF contextVars, Settled
  <1>7. Stage(o)' /\ AtomicPolicy(o)' /\ LenientPolicy(o)' /\ Evidence(o)'
    BY <1>2, <1>5, <1>6 DEF OpInv, Stage, AtomicPolicy, LenientPolicy, Evidence
  <1>8. failed \in BOOLEAN
    BY DEF IInv, Types
  <1> QED BY <1>2, <1>3, <1>4, <1>5, <1>7, <1>8, Moves DEF Settled

(* A deleteMany matches too many rows.                                     *)
LEMMA OverflowStep ==
  ASSUME IInv, NEW o \in Ops, Overflow(o)
  PROVE  IInv'
  <1> DEFINE refuse == Atomic \/ setup.overflow = "reject"
             no  == [op[o] EXCEPT !.pc = "failed", !.error = "limit"]
             go  == [op[o] EXCEPT !.pc = "query", !.summary = TRUE]
             rec == IF refuse THEN no ELSE go
  <1>1. /\ op[o] \in Progress /\ op[o].pc = "read" /\ op' = [op EXCEPT ![o] = rec]
        /\ op[o].call.kind = "deleteMany"
        /\ UNCHANGED <<contextVars, tx, failed, warned, cycle, staged, trail>>
    BY DEF IInv, Types, Overflow
  <1>2. /\ no \in Progress /\ no.call = op[o].call /\ no.from = op[o].from
        /\ no.guard = op[o].guard /\ no.caller = op[o].caller /\ no.silent = op[o].silent
        /\ no.audited = op[o].audited /\ no.told = op[o].told /\ no.summary = op[o].summary
        /\ no.changed = op[o].changed /\ no.left = op[o].left /\ no.error = "limit"
        /\ no.pc = "failed"
    BY <1>1 DEF Progress, Errors
  <1>3. /\ go \in Progress /\ go.call = op[o].call /\ go.from = op[o].from
        /\ go.guard = op[o].guard /\ go.caller = op[o].caller /\ go.silent = op[o].silent
        /\ go.audited = op[o].audited /\ go.told = op[o].told /\ go.changed = op[o].changed
        /\ go.left = op[o].left /\ go.error = op[o].error /\ go.pc = "query"
    BY <1>1 DEF Progress
  <1> HIDE DEF no, go
  <1>4. /\ rec \in Progress /\ rec.call = op[o].call /\ rec.from = op[o].from
        /\ rec.guard = op[o].guard /\ rec.caller = op[o].caller /\ rec.silent = op[o].silent
        /\ rec.audited = op[o].audited /\ rec.told = op[o].told /\ rec.changed = op[o].changed
        /\ rec.left = op[o].left
        /\ IF refuse THEN rec.pc = "failed" /\ rec.error = "limit" /\ rec.summary = op[o].summary
                     ELSE rec.pc = "query" /\ rec.error = op[o].error
    BY <1>2, <1>3
  <1> HIDE DEF rec
  <1>5. /\ op'[o] = rec /\ OpInv(o) /\ Atomic' = Atomic /\ Hook(o)' = Hook(o)
        /\ Tracked(o)' = Tracked(o) /\ NestsTracked(o)' = NestsTracked(o) /\ Replaced(o)' = Replaced(o)
    BY <1>1, <1>4, Carried DEF contextVars, Settled
  <1>6. Stage(o)' /\ AtomicPolicy(o)' /\ LenientPolicy(o)' /\ Evidence(o)'
    BY <1>1, <1>4, <1>5, NamesAssumption
       DEF OpInv, Stage, AtomicPolicy, LenientPolicy, Evidence, Errors
  <1>7. failed \in BOOLEAN
    BY DEF IInv, Types
  <1> QED BY <1>1, <1>4, <1>6, <1>7, Moves DEF Settled

(* The query fails.                                                        *)
LEMMA QueryFailsStep ==
  ASSUME IInv, NEW o \in Ops, QueryFails(o)
  PROVE  IInv'
  <1>1. PICK loggable \in {FALSE, ~Atomic /\ setup.logFailures /\ op[o].audited} :
          op' = [op EXCEPT ![o].error = "query",
                           ![o].pc = IF loggable THEN "failure" ELSE "failed",
                           ![o].left = IF loggable THEN 1 ELSE 0]
    BY DEF QueryFails
  <1> DEFINE p == IF loggable THEN "failure" ELSE "failed"
             l == IF loggable THEN 1 ELSE 0
             rec == [op[o] EXCEPT !.error = "query", !.pc = p, !.left = l]
  <1>2. /\ op[o] \in Progress /\ op[o].pc = "query" /\ l \in 0..MaxRecords
        /\ UNCHANGED <<contextVars, tx, failed, warned, cycle, staged, trail>>
    BY RecordAssumption DEF IInv, Types, QueryFails
  <1>3. op' = [op EXCEPT ![o] = rec]
    BY <1>1, <1>2 DEF IInv, Types
  <1>4. /\ p \in {"failure", "failed"} /\ (p = "failure" => l = 1 /\ ~Atomic /\ op[o].audited)
    BY <1>1
  <1> HIDE DEF p, l
  <1>5. rec \in Progress
    BY <1>2, <1>4 DEF Progress, Errors
  <1>6. /\ rec.call = op[o].call /\ rec.from = op[o].from /\ rec.guard = op[o].guard
        /\ rec.caller = op[o].caller /\ rec.silent = op[o].silent /\ rec.audited = op[o].audited
        /\ rec.told = op[o].told /\ rec.summary = op[o].summary /\ rec.changed = op[o].changed
        /\ rec.left = l /\ rec.error = "query" /\ rec.pc = p
    BY <1>2 DEF Progress
  <1> HIDE DEF rec
  <1>7. /\ op'[o] = rec /\ OpInv(o) /\ Atomic' = Atomic /\ Hook(o)' = Hook(o)
        /\ Tracked(o)' = Tracked(o) /\ NestsTracked(o)' = NestsTracked(o) /\ Replaced(o)' = Replaced(o)
    BY <1>2, <1>3, <1>4, <1>5, <1>6, Carried DEF contextVars, Settled
  <1>8. Stage(o)' /\ AtomicPolicy(o)' /\ LenientPolicy(o)' /\ Evidence(o)'
    BY <1>2, <1>4, <1>6, <1>7, NamesAssumption
       DEF OpInv, Stage, AtomicPolicy, LenientPolicy, Evidence, Errors
  <1>9. failed \in BOOLEAN
    BY DEF IInv, Types
  <1> QED BY <1>2, <1>3, <1>4, <1>5, <1>6, <1>8, <1>9, Moves DEF Settled

(* The row is read back.                                                   *)
LEMMA PostReadStep ==
  ASSUME IInv, NEW o \in Ops, PostRead(o)
  PROVE  IInv'
  <1> DEFINE rec == [op[o] EXCEPT !.pc = "insert"]
  <1>1. /\ op[o] \in Progress /\ op[o].pc = "post" /\ op' = [op EXCEPT ![o] = rec]
        /\ UNCHANGED <<contextVars, tx, failed, warned, cycle, staged, trail>>
    BY DEF IInv, Types, PostRead
  <1>2. /\ rec \in Progress /\ rec.call = op[o].call /\ rec.from = op[o].from
        /\ rec.guard = op[o].guard /\ rec.caller = op[o].caller /\ rec.silent = op[o].silent
        /\ rec.audited = op[o].audited /\ rec.told = op[o].told /\ rec.summary = op[o].summary
        /\ rec.captured = op[o].captured /\ rec.changed = op[o].changed
        /\ rec.left = op[o].left /\ rec.error = op[o].error /\ rec.pc = "insert"
    BY <1>1 DEF Progress
  <1> HIDE DEF rec
  <1>3. /\ op'[o] = rec /\ OpInv(o) /\ Atomic' = Atomic /\ Hook(o)' = Hook(o)
        /\ Tracked(o)' = Tracked(o) /\ NestsTracked(o)' = NestsTracked(o) /\ Replaced(o)' = Replaced(o)
    BY <1>1, <1>2, Carried DEF contextVars, Settled
  <1>4. Numbers(o)' = Numbers(o) /\ Quota(o)' = Quota(o)
    BY <1>1, <1>2, <1>3 DEF Numbers, Quota
  <1>5. Stage(o)' /\ AtomicPolicy(o)' /\ LenientPolicy(o)' /\ Evidence(o)'
    BY <1>1, <1>2, <1>3, <1>4, NamesAssumption
       DEF OpInv, Stage, AtomicPolicy, LenientPolicy, Evidence, Errors
  <1>6. failed \in BOOLEAN /\ op[o].audited /\ op[o].error = None /\ None \notin Errors
    BY <1>1, <1>3, NamesAssumption DEF IInv, Types, OpInv, Stage
  <1> QED BY <1>1, <1>2, <1>5, <1>6, Moves DEF Settled, Errors

(* The query succeeds, and its rows become due.                            *)
LEMMA QuerySucceedsStep ==
  ASSUME IInv, NEW o \in Ops, QuerySucceeds(o)
  PROVE  IInv'
  <1> DEFINE bulk == op[o].call.kind = "deleteMany"
  <1>1. PICK n \in (IF bulk THEN 0..MaxRecords ELSE {1}) :
          LET due == Due(o, n)
              short == Atomic /\ bulk /\ op[o].audited /\ Tokens(o) = {} /\ n # op[o].captured
          IN  /\ op' = [op EXCEPT
                   ![o].changed = n, ![o].left = due,
                   ![o].pc = IF short THEN "failed" ELSE IF due = 0 THEN "done"
                             ELSE IF op[o].call.kind \in {"create", "update"} THEN "post"
                             ELSE "insert",
                   ![o].error = IF short THEN "audit" ELSE @]
              /\ failed' = (failed \/ short)
    BY DEF QuerySucceeds
  <1> DEFINE due == Due(o, n)
             short == Atomic /\ bulk /\ op[o].audited /\ Tokens(o) = {} /\ n # op[o].captured
             p == IF short THEN "failed" ELSE IF due = 0 THEN "done"
                  ELSE IF op[o].call.kind \in {"create", "update"} THEN "post" ELSE "insert"
             x == IF short THEN "audit" ELSE op[o].error
             rec == [op[o] EXCEPT !.changed = n, !.left = due, !.pc = p, !.error = x]
  <1>2. /\ op[o] \in Progress /\ op[o].pc = "query"
        /\ UNCHANGED <<contextVars, tx, warned, cycle, staged, trail>>
        /\ \A c \in Cycles : cycle[c].outer = o => cycle[c].pc # "running"
    BY DEF IInv, Types, QuerySucceeds
  <1>3. n \in 0..MaxRecords /\ due \in 0..MaxRecords
    BY <1>2, RecordAssumption DEF Due, Progress
  <1>4. op' = [op EXCEPT ![o] = rec]
    BY <1>1, <1>2 DEF IInv, Types
  <1>5. /\ p \in {"failed", "done", "post", "insert"} /\ x \in Errors \cup {None}
        /\ short => p = "failed" /\ x = "audit"
        /\ ~short => x = op[o].error /\ (IF due = 0 THEN p = "done" ELSE p \in {"post", "insert"})
    BY <1>2 DEF Progress, Errors
  <1>6. Tokens(o) # {} => Replaced(o)
    BY <1>2 DEF Tokens, Replaced
  <1>7. /\ due # 0 => op[o].audited
        /\ op[o].audited /\ Tokens(o) = {} =>
             due = (IF bulk /\ ~op[o].summary THEN op[o].captured ELSE 1)
    BY DEF Due
  <1>8. short \in BOOLEAN /\ failed' = (failed \/ short)
    BY <1>1
  <1>9. /\ short => Atomic /\ op[o].audited
        /\ ~short /\ Atomic /\ bulk /\ op[o].audited /\ Tokens(o) = {} => n = op[o].captured
        /\ ~bulk => n = 1
    OBVIOUS
  <1> HIDE DEF due, short, p, x
  <1>10. rec \in Progress
    BY <1>2, <1>3, <1>5 DEF Progress
  <1>11. /\ rec.call = op[o].call /\ rec.from = op[o].from /\ rec.guard = op[o].guard
         /\ rec.caller = op[o].caller /\ rec.silent = op[o].silent /\ rec.audited = op[o].audited
         /\ rec.told = op[o].told /\ rec.summary = op[o].summary /\ rec.captured = op[o].captured
         /\ rec.changed = n /\ rec.left = due /\ rec.error = x /\ rec.pc = p
    BY <1>2 DEF Progress
  <1> HIDE DEF rec
  <1>12. /\ op'[o] = rec /\ OpInv(o) /\ Atomic' = Atomic /\ Hook(o)' = Hook(o)
         /\ Tracked(o)' = Tracked(o) /\ NestsTracked(o)' = NestsTracked(o) /\ Replaced(o)' = Replaced(o)
    BY <1>2, <1>4, <1>5, <1>10, <1>11, Carried DEF contextVars, Settled
  <1>13. Hook(o) /\ op[o].error = None /\ op[o].changed = 0 /\ None \notin Errors
    BY <1>2, <1>12, NamesAssumption DEF OpInv, Stage
  <1>14. Stage(o)'
    BY <1>3, <1>5, <1>7, <1>9, <1>11, <1>12, <1>13 DEF Stage, Errors
  <1>15. AtomicPolicy(o)'
    BY <1>2, <1>5, <1>8, <1>9, <1>11, <1>12, <1>13 DEF OpInv, AtomicPolicy, Errors
  <1>16. LenientPolicy(o)'
    BY <1>2, <1>5, <1>9, <1>11, <1>12, <1>13 DEF OpInv, LenientPolicy, contextVars
  <1>17. Evidence(o)'
    <2>1. SUFFICES ASSUME op[o].audited, p # "failed", ~Replaced(o) PROVE Evidence(o)'
      BY <1>5, <1>11, <1>12 DEF Evidence
    <2>2. ~short /\ Tokens(o) = {}
      BY <1>5, <1>6, <2>1
    <2>3. Atomic => ~op[o].summary
      BY <1>12, <1>13 DEF OpInv, AtomicPolicy
    <2>4. Quota(o)' = due /\ (Atomic => n = due) /\ due \in Nat
      BY <1>3, <1>7, <1>9, <1>11, <1>12, <2>1, <2>2, <2>3 DEF Quota
    <2>5. Numbers(o)' = {}
      <3>1. Numbers(o) = {}
        BY <1>2, RowsLate
      <3> QED BY <1>2, <3>1 DEF Numbers
    <2> QED BY <1>11, <1>12, <2>4, <2>5 DEF Evidence
  <1>18. /\ failed' \in BOOLEAN /\ (failed => failed')
         /\ (failed' => failed \/ op[o].call.onTx)
    <2>1. short => op[o].call.onTx
      BY <1>2, <1>9, <1>12, <1>13 DEF OpInv, Admission
    <2> QED BY <1>8, <2>1 DEF IInv, Types
  <1> QED BY <1>2, <1>4, <1>5, <1>10, <1>11, <1>14, <1>15, <1>16, <1>17, <1>18, Moves DEF Settled

(* The records a tolerated failure may leave are records of progress.      *)
LEMMA GivenUp ==
  ASSUME NEW e \in Progress, NEW p \in {"failed", "done", "insert"}, NEW l \in 0..MaxRecords
  PROVE  /\ [e EXCEPT !.pc = p, !.left = l] \in Progress
         /\ [e EXCEPT !.left = l, !.pc = p] \in Progress
  BY DEF Progress

(* An audit error, in either mode.                                         *)
LEMMA AuditFailsStep ==
  ASSUME IInv, NEW o \in Ops, AuditFails(o)
  PROVE  IInv'
  <1> DEFINE strict == Atomic \/ op[o].call.kind = "log"
             Kept(r) == /\ r.call = op[o].call /\ r.from = op[o].from /\ r.guard = op[o].guard
                        /\ r.caller = op[o].caller /\ r.silent = op[o].silent
                        /\ r.audited = op[o].audited /\ r.changed = op[o].changed /\ r.told = TRUE
  <1>1. /\ op[o] \in Progress /\ op[o].pc \in {"read", "post", "failure", "insert"}
        /\ UNCHANGED <<contextVars, tx, warned, cycle, staged, trail>>
        /\ failed' = (failed \/ (Atomic /\ op[o].call.kind # "log")) /\ failed \in BOOLEAN
    BY DEF IInv, Types, AuditFails
  <1>2. /\ failed' \in BOOLEAN /\ (failed => failed') /\ op[o].audited
        /\ (failed' => failed \/ op[o].call.onTx) /\ OpInv(o) /\ None \notin Errors
    <2>1. OpInv(o) /\ op[o].audited
      BY <1>1 DEF IInv, OpInv, Stage
    <2> QED BY <1>1, <2>1, NamesAssumption DEF OpInv, Admission, Hook
  <1>3. CASE strict
    <2> DEFINE rec == [op[o] EXCEPT !.pc = "failed", !.error = "audit", !.told = TRUE]
    <2>1. op' = [op EXCEPT ![o] = rec]
      BY <1>1, <1>3 DEF AuditFails
    <2>2. rec \in Progress
      BY <1>1 DEF Progress, Errors
    <2>3. rec.pc = "failed" /\ rec.error = "audit" /\ rec.summary = op[o].summary
      BY <1>1 DEF Progress
    <2>4. Kept(rec)
      BY <1>1 DEF Progress
    <2> HIDE DEF rec
    <2>5. /\ op'[o] = rec /\ Atomic' = Atomic /\ Hook(o)' = Hook(o)
          /\ Tracked(o)' = Tracked(o) /\ NestsTracked(o)' = NestsTracked(o)
      BY <1>1, <2>1, <2>2, <2>3, <2>4, Carried DEF contextVars, Settled
    <2>6. op[o].pc # "failure" /\ (op[o].pc \in {"post", "insert"} => op[o].error = None)
      BY <1>1, <1>2, <1>3 DEF OpInv, Stage, Hook
    <2>7. Stage(o)' /\ LenientPolicy(o)' /\ Evidence(o)'
      BY <1>1, <1>2, <1>3, <2>3, <2>4, <2>5 DEF OpInv, Stage, LenientPolicy, Evidence, Errors, Hook
    <2>8. AtomicPolicy(o)'
      <3>1. Atomic /\ Hook(o) => failed'
        BY <1>1 DEF Hook
      <3> QED BY <1>1, <1>2, <2>3, <2>4, <2>5, <3>1 DEF OpInv, AtomicPolicy
    <2>9. \/ op[o].pc = "read"
          \/ /\ rec.audited /\ rec.pc \notin {"idle", "read", "query"}
             /\ rec.error \notin {"refused", "limit"}
             /\ rec.error = "query" <=> op[o].error = "query"
      BY <1>1, <1>2, <2>3, <2>4, <2>6 DEF Errors
    <2> QED BY <1>1, <1>2, <2>1, <2>2, <2>3, <2>4, <2>7, <2>8, <2>9, Moves DEF Settled
  <1>4. CASE ~strict
    <2>1. Hook(o) /\ ~Atomic /\ failed' = failed /\ op' = [op EXCEPT ![o] = Tolerate(o)]
      BY <1>1, <1>4 DEF AuditFails, Hook
    <2>2. PICK rec \in Progress :
            /\ op' = [op EXCEPT ![o] = rec] /\ Kept(rec) /\ rec.error = op[o].error
            /\ \/ op[o].pc = "read" /\ rec.pc = "query" /\ rec.left = op[o].left
               \/ /\ op[o].pc = "failure" /\ rec.pc = "failed"
               \/ /\ op[o].pc = "post" /\ rec.pc = "insert" /\ rec.left = op[o].left
                  /\ rec.captured = op[o].captured /\ rec.summary = op[o].summary
               \/ /\ op[o].pc = "insert" /\ rec.left = op[o].left - 1
                  /\ rec.pc = IF op[o].left = 1 THEN "done" ELSE "insert"
                  /\ rec.captured = op[o].captured /\ rec.summary = op[o].summary
      <3> DEFINE t == [op[o] EXCEPT !.told = TRUE]
      <3>1. /\ t \in Progress /\ t.pc = op[o].pc /\ t.error = op[o].error /\ t.left = op[o].left
            /\ t.captured = op[o].captured /\ t.summary = op[o].summary /\ Kept(t)
        <4>1. /\ t \in Progress /\ t.pc = op[o].pc /\ t.error = op[o].error /\ t.left = op[o].left
              /\ t.captured = op[o].captured /\ t.summary = op[o].summary
          BY <1>1 DEF Progress
        <4>2. Kept(t)
          BY <1>1 DEF Progress
        <4> QED BY <4>1, <4>2
      <3>2. CASE op[o].pc = "read"
        <4> DEFINE r == [t EXCEPT !.pc = "query", !.summary = TRUE]
        <4>1. Tolerate(o) = r
          BY <3>1, <3>2 DEF Tolerate
        <4>2. r \in Progress
          BY <3>1 DEF Progress
        <4>3. r.error = op[o].error /\ r.pc = "query" /\ r.left = op[o].left
          BY <3>1 DEF Progress
        <4>4. Kept(r)
          BY <3>1 DEF Progress
        <4> HIDE DEF r
        <4> QED BY <2>1, <3>2, <4>1, <4>2, <4>3, <4>4
      <3>3. CASE op[o].pc = "post"
        <4> DEFINE r == [t EXCEPT !.pc = "insert"]
        <4>1. Tolerate(o) = r
          BY <3>1, <3>3 DEF Tolerate
        <4>2. r \in Progress
          BY <3>1 DEF Progress
        <4>3. /\ r.error = op[o].error /\ r.pc = "insert" /\ r.left = op[o].left
              /\ r.captured = op[o].captured /\ r.summary = op[o].summary
          BY <3>1 DEF Progress
        <4>4. Kept(r)
          BY <3>1 DEF Progress
        <4> HIDE DEF r
        <4> QED BY <2>1, <3>3, <4>1, <4>2, <4>3, <4>4
      <3>4. CASE op[o].pc = "failure"
        <4> DEFINE r == [t EXCEPT !.pc = "failed", !.left = 0]
        <4>1. Tolerate(o) = r
          BY <3>1, <3>4 DEF Tolerate
        <4>2. r \in Progress
          <5>1. t \in Progress /\ 0 \in 0..MaxRecords
            BY <3>1, RecordAssumption
          <5> HIDE DEF t
          <5> QED BY <5>1, GivenUp
        <4>3. r.error = op[o].error /\ r.pc = "failed"
          BY <3>1 DEF Progress
        <4>4. Kept(r)
          BY <3>1 DEF Progress
        <4> HIDE DEF r
        <4> QED BY <2>1, <3>4, <4>1, <4>2, <4>3, <4>4
      <3>5. op[o].pc = "insert" => op[o].left \in 1..MaxRecords
        <4>1. Stage(o) /\ op[o].left \in 0..MaxRecords
          BY <1>1, <1>2 DEF OpInv, Progress
        <4> QED BY <4>1, RecordAssumption DEF Stage
      <3>6. CASE op[o].pc = "insert"
        <4> DEFINE r == [t EXCEPT !.left = @ - 1, !.pc = IF t.left = 1 THEN "done" ELSE @]
        <4>1. Tolerate(o) = r
          BY <3>1, <3>6 DEF Tolerate
        <4>2. r \in Progress
          <5> DEFINE p == IF t.left = 1 THEN "done" ELSE t.pc
                     l == t.left - 1
          <5>1. t \in Progress /\ l \in 0..MaxRecords /\ p \in {"failed", "done", "insert"}
            BY <3>1, <3>5, <3>6, RecordAssumption
          <5> HIDE DEF t, p, l
          <5>2. [t EXCEPT !.left = l, !.pc = p] \in Progress
            BY <5>1, GivenUp, Zenon
          <5> QED BY <5>2 DEF p, l
        <4>3. /\ r.error = op[o].error /\ r.left = op[o].left - 1
              /\ r.pc = IF op[o].left = 1 THEN "done" ELSE "insert"
              /\ r.captured = op[o].captured /\ r.summary = op[o].summary
          BY <3>1, <3>6 DEF Progress
        <4>4. Kept(r)
          BY <3>1 DEF Progress
        <4> HIDE DEF r
        <4> QED BY <2>1, <3>6, <4>1, <4>2, <4>3, <4>4
      <3> QED BY <1>1, <3>2, <3>3, <3>4, <3>6
    <2>3. /\ op'[o] = rec /\ Atomic' = Atomic /\ Hook(o)' = Hook(o) /\ Tracked(o)' = Tracked(o)
          /\ NestsTracked(o)' = NestsTracked(o) /\ Replaced(o)' = Replaced(o)
      BY <1>1, <2>2, Carried DEF contextVars, Settled
    <2>4. Stage(o)'
      <3>1. op[o].left \in Nat
        BY <1>1, RecordAssumption DEF Progress
      <3>2. Stage(o)
        BY <1>2 DEF OpInv
      <3>3. rec.audited /\ rec.changed = op[o].changed /\ rec.error = op[o].error
        BY <1>2, <2>2
      <3>4. CASE op[o].pc = "read"
        BY <2>1, <2>2, <2>3, <3>2, <3>3, <3>4 DEF Stage
      <3>5. CASE op[o].pc = "failure"
        BY <2>1, <2>2, <2>3, <3>2, <3>3, <3>5 DEF Stage, Errors
      <3>6. CASE op[o].pc = "post"
        BY <2>1, <2>2, <2>3, <3>1, <3>2, <3>3, <3>6 DEF Stage
      <3>7. CASE op[o].pc = "insert"
        BY <2>1, <2>2, <2>3, <3>1, <3>2, <3>3, <3>7 DEF Stage
      <3> QED BY <1>1, <3>4, <3>5, <3>6, <3>7
    <2>5. AtomicPolicy(o)' /\ LenientPolicy(o)'
      BY <1>1, <1>2, <2>1, <2>2, <2>3 DEF OpInv, AtomicPolicy, LenientPolicy
    <2>6. Evidence(o)'
      BY <1>1, <1>2, <2>1, <2>2, <2>3 DEF OpInv, Stage, Evidence, Quota, Progress
    <2>7. \/ op[o].pc = "read"
          \/ /\ rec.audited /\ rec.pc \notin {"idle", "read", "query"}
             /\ rec.error \notin {"refused", "limit"}
      <3>1. Stage(o)
        BY <1>2 DEF OpInv
      <3> QED BY <1>1, <1>2, <2>2, <3>1 DEF Stage, Errors
    <2> QED BY <1>1, <1>2, <2>2, <2>4, <2>5, <2>6, <2>7, Moves DEF Settled
  <1> QED BY <1>3, <1>4

(* A row is written, on the transaction or beside it.                      *)
LEMMA InsertRowStep ==
  ASSUME IInv, NEW o \in Ops, InsertRow(o)
  PROVE  IInv'
  <1>0. PICK row : row = Row(o, IF op[o].pc = "failure" THEN "failure" ELSE "success")
    OBVIOUS
  <1> DEFINE l == op[o].left - 1
             p == IF op[o].pc = "failure" THEN "failed"
                  ELSE IF op[o].left = 1 THEN "done" ELSE op[o].pc
             rec == [op[o] EXCEPT !.left = l, !.pc = p]
  <1>1. /\ op[o] \in Progress /\ op[o].pc \in {"insert", "failure"}
        /\ OnTransaction(o) => tx = "open"
        /\ IF OnTransaction(o)
             THEN staged' = staged \cup {row} /\ trail' = trail
             ELSE trail' = trail \cup {row} /\ staged' = staged
        /\ UNCHANGED <<contextVars, tx, failed, warned, cycle>>
        /\ OpInv(o)
    BY <1>0 DEF IInv, Types, InsertRow
  <1>2. op' = [op EXCEPT ![o] = rec]
    BY DEF IInv, Types, InsertRow
  <1>3. /\ op[o].left \in 1..MaxRecords /\ op[o].audited /\ None \notin Errors
        /\ op[o].error = (IF op[o].pc = "failure" THEN "query" ELSE None)
    <2>1. op[o].left \in 0..MaxRecords
      BY <1>1 DEF Progress
    <2> QED BY <1>1, <2>1, RecordAssumption, NamesAssumption DEF OpInv, Stage
  <1>4. row \in Rows
    BY <1>0, <1>1, <1>3 DEF Row, Rows, Progress
  <1>5. /\ row.op = o /\ row.n = op[o].left /\ row.actor = op[o].caller
        /\ row.result = (IF op[o].pc = "failure" THEN "failure" ELSE "success")
    BY <1>0 DEF Row
  <1>6. /\ staged' \cup trail' = staged \cup trail \cup {row}
        /\ staged' \subseteq staged \cup {row}
        /\ row \in staged' /\ row \notin staged => OnTransaction(o)
    BY <1>1
  <1>7. l \in 0..MaxRecords /\ p \in {"failed", "done", "insert"}
    BY <1>1, <1>3, RecordAssumption
  <1>8. rec \in Progress
    BY <1>1, <1>7 DEF Progress
  <1>9. /\ rec.call = op[o].call /\ rec.from = op[o].from /\ rec.guard = op[o].guard
        /\ rec.caller = op[o].caller /\ rec.silent = op[o].silent /\ rec.audited = op[o].audited
        /\ rec.told = op[o].told /\ rec.summary = op[o].summary /\ rec.captured = op[o].captured
        /\ rec.changed = op[o].changed /\ rec.error = op[o].error
        /\ rec.left = op[o].left - 1
        /\ rec.pc = IF op[o].pc = "failure" THEN "failed"
                    ELSE IF op[o].left = 1 THEN "done" ELSE op[o].pc
    BY <1>1 DEF Progress
  <1> HIDE DEF rec, l, p
  <1>10. /\ op'[o] = rec /\ Atomic' = Atomic /\ Hook(o)' = Hook(o) /\ Tracked(o)' = Tracked(o)
         /\ NestsTracked(o)' = NestsTracked(o) /\ Replaced(o)' = Replaced(o) /\ Admission(o)'
         /\ rec.call \in Calls /\ rec.from \in Places
    BY <1>1, <1>2, <1>8, <1>9, Carried DEF contextVars, Settled
  <1>11. op \in [Ops -> Progress] /\ \A q \in Ops : q # o => op'[q] = op[q]
    BY <1>2 DEF IInv, Types
  <1>12. Types'
    BY <1>1, <1>2, <1>4, <1>6, <1>8, <1>10, <1>11
       DEF IInv, Types, ContextTypeOK, contextVars
  <1>13. ContextInv' /\ CycleInv'
    BY <1>1 DEF IInv, ContextInv, CycleInv, Atomic, Muted, contextVars
  <1>14. TxInv'
    BY <1>1 DEF IInv, TxInv, Atomic, contextVars
  <1>15. RowInv'
    <2>1. RowFits(row)'
      <3>1. row.op = o /\ op'[o] = rec /\ rec.audited
        BY <1>3, <1>5, <1>9, <1>10
      <3>2. rec.pc \notin {"idle", "read", "query"}
        BY <1>1, <1>9
      <3>3. rec.error = (IF op[o].pc = "failure" THEN "query" ELSE None)
        BY <1>3, <1>9
      <3>4. rec.error \notin {"refused", "limit"}
        BY <1>3, <3>3 DEF Errors
      <3>5. None # "query"
        BY <1>3 DEF Errors
      <3>6. row.result = "success" <=> rec.error # "query"
        BY <1>1, <1>5, <3>3, <3>5
      <3>7. row.actor = rec.caller
        BY <1>5, <1>9
      <3> QED BY <3>1, <3>2, <3>4, <3>6, <3>7 DEF RowFits
    <2>2. ASSUME NEW r \in staged \cup trail
          PROVE  RowFits(r)' /\ (r \in staged => Atomic' \/ ~Hook(r.op)')
      <3>1. r.op \in Ops /\ RowFits(r) /\ (r \in staged => Atomic \/ ~Hook(r.op))
        BY DEF IInv, Types, Rows, RowInv
      <3>2. CASE r.op # o
        BY <1>10, <1>11, <3>1, <3>2 DEF RowFits, Hook
      <3>3. CASE r.op = o
        BY <1>1, <1>3, <1>9, <1>10, <3>1, <3>3 DEF RowFits
      <3> QED BY <3>2, <3>3
    <2>3. OnTransaction(o) => Atomic' \/ ~Hook(row.op)'
      BY <1>5, <1>10 DEF OnTransaction, Hook
    <2> QED BY <1>6, <2>1, <2>2, <2>3 DEF RowInv
  <1>16. ASSUME NEW q \in Ops, q # o PROVE OpInv(q)'
    <2>1. op[q].pc # "idle" /\ op[q].call.onTx /\ tx = "committed" => Settled(q)
      BY DEF IInv, OpInv, Admission
    <2>2. Numbers(q)' = Numbers(q)
      BY <1>5, <1>6, <1>16 DEF Numbers
    <2> QED BY <1>1, <1>11, <1>16, <2>1, <2>2, Unmoved DEF Replaced, contextVars
  <1>17. Stage(o)'
    <2>1. Stage(o) /\ rec.audited /\ op[o].left \in Nat
      BY <1>1, <1>3, <1>9, RecordAssumption DEF OpInv
    <2>2. CASE op[o].pc = "failure"
      BY <1>9, <1>10, <2>1, <2>2 DEF Stage, Errors
    <2>3. CASE op[o].pc = "insert"
      BY <1>9, <1>10, <2>1, <2>3 DEF Stage
    <2> QED BY <1>1, <2>2, <2>3
  <1>18. AtomicPolicy(o)' /\ LenientPolicy(o)'
    BY <1>1, <1>3, <1>9, <1>10 DEF OpInv, Stage, AtomicPolicy, LenientPolicy
  <1>19. Evidence(o)'
    <2>1. SUFFICES ASSUME Hook(o), op[o].pc = "insert", Atomic => tx # "rolledBack", ~Replaced(o)
                   PROVE  Evidence(o)'
      BY <1>1, <1>9, <1>10 DEF Evidence, contextVars
    <2>2. Quota(o)' = Quota(o) /\ Quota(o) \in 0..MaxRecords
      BY <1>1, <1>9, <1>10, RecordAssumption DEF Quota, Progress
    <2>3. /\ Atomic => op[o].changed = Quota(o)
          /\ op[o].left <= Quota(o)
          /\ op[o].told \/ Numbers(o) = (op[o].left + 1)..Quota(o)
      BY <1>1, <1>3, <2>1 DEF OpInv, Evidence
    <2>4. Numbers(o)' = Numbers(o) \cup {op[o].left}
      BY <1>3, <1>5, <1>6, <2>1 DEF Numbers
    <2>5. op[o].told \/ Numbers(o)' = op[o].left..Quota(o)
      BY <1>3, <2>2, <2>3, <2>4
    <2>6. (rec.left + 1)..Quota(o) = op[o].left..Quota(o) /\ rec.left <= Quota(o)
      BY <1>3, <1>9, <2>2, <2>3
    <2> QED BY <1>9, <1>10, <2>2, <2>3, <2>5, <2>6 DEF Evidence
  <1> QED BY <1>10, <1>12, <1>13, <1>14, <1>15, <1>16, <1>17, <1>18, <1>19 DEF IInv, OpInv
-----------------------------------------------------------------------------
(* A step of the lifecycle calls or of the transaction.                    *)
LEMMA ScopeFrame ==
  ASSUME IInv, UNCHANGED <<contextVars, failed, warned, op>>,
         tx' \in {"none", "open", "committed", "rolledBack"},
         cycle' \in [Cycles -> Lifecycle], staged' \subseteq Rows, trail' \subseteq Rows,
         CycleInv', TxInv', staged' \cup trail' \subseteq staged \cup trail,
         staged' \subseteq staged, \A q \in Ops : OpInv(q)'
  PROVE  IInv'
  <1>1. Types' /\ ContextInv'
    BY DEF IInv, Types, ContextTypeOK, ContextInv, contextVars
  <1>2. RowInv'
    BY DEF IInv, RowInv, RowFits, Hook, Atomic, contextVars
  <1> QED BY <1>1, <1>2 DEF IInv

(* A lifecycle call starts.                                                *)
LEMMA StartCycleStep ==
  ASSUME IInv, NEW c \in Cycles, NEW from \in {"request", "runAs"}, NEW outer \in Ops \cup {None},
         NEW suppress \in BOOLEAN, StartCycle(c, from, outer, suppress)
  PROVE  IInv'
  <1>1. PICK s : s = [actor |-> ActorAt(from), noAudit |-> NoAuditAt(from)]
    OBVIOUS
  <1>2. PICK k : k = [pc |-> "running", from |-> from, outer |-> outer, suppress |-> suppress,
                      store |-> s]
    OBVIOUS
  <1>3. /\ Atomic /\ tx = "open" /\ phase = "handler" /\ cycle[c].pc = "unused"
        /\ cycle' = [cycle EXCEPT ![c] = k]
        /\ UNCHANGED <<contextVars, tx, failed, warned, op, staged, trail>>
    BY <1>1, <1>2 DEF StartCycle
  <1>4. s \in Store /\ s.noAudit = NoAuditAt(from)
    BY <1>1, StoreTyped DEF Store, Places
  <1>5. k \in Lifecycle /\ k.pc = "running" /\ k.from = from /\ k.store = s
    BY <1>2, <1>4 DEF Lifecycle
  <1>6. Muted /\ from = "request" => s.noAudit
    <2>1. ASSUME Muted PROVE store \in Store /\ store.noAudit = setup.noAudit
      BY <1>3, <2>1, SetupAssumption
         DEF IInv, Types, ContextTypeOK, ContextInv, Muted, Setup
    <2> QED BY <1>4, <2>1, StoreAssumption DEF NoAuditAt, StoreAt, Muted
  <1>7. cycle \in [Cycles -> Lifecycle] /\ cycle'[c] = k
        /\ \A d \in Cycles : d # c => cycle'[d] = cycle[d]
    BY <1>3 DEF IInv, Types
  <1>8. CycleInv'
    BY <1>3, <1>4, <1>5, <1>6, <1>7 DEF IInv, CycleInv, Atomic, Muted, contextVars
  <1>9. ASSUME NEW q \in Ops PROVE OpInv(q)'
    <2>1. Numbers(q)' = Numbers(q)
      BY <1>3 DEF Numbers
    <2>2. Replaced(q) => Replaced(q)'
      BY <1>3, <1>7 DEF Replaced
    <2> QED BY <1>3, <1>5, <1>7, <2>1, <2>2, Unmoved DEF contextVars
  <1>10. TxInv'
    BY <1>3 DEF IInv, TxInv, Atomic, contextVars
  <1>11. cycle' \in [Cycles -> Lifecycle] /\ staged \subseteq Rows /\ trail \subseteq Rows
    BY <1>3, <1>5, <1>7 DEF IInv, Types
  <1> QED BY <1>3, <1>8, <1>9, <1>10, <1>11, ScopeFrame

(* A lifecycle call ends.                                                  *)
LEMMA EndCycleStep ==
  ASSUME IInv, NEW c \in Cycles, NEW outcome \in {"succeeded", "failed"}, EndCycle(c, outcome)
  PROVE  IInv'
  <1> DEFINE k == [cycle[c] EXCEPT !.pc = outcome]
  <1>1. /\ cycle \in [Cycles -> Lifecycle] /\ cycle[c].pc = "running"
        /\ cycle' = [cycle EXCEPT ![c] = k]
        /\ UNCHANGED <<contextVars, tx, failed, warned, op, staged, trail>>
    BY DEF IInv, Types, EndCycle
  <1>2. /\ k \in Lifecycle /\ k.pc = outcome /\ k.from = cycle[c].from /\ k.outer = cycle[c].outer
        /\ k.suppress = cycle[c].suppress /\ k.store = cycle[c].store
    BY <1>1 DEF Lifecycle
  <1> HIDE DEF k
  <1>3. cycle'[c] = k /\ \A d \in Cycles : d # c => cycle'[d] = cycle[d]
    BY <1>1
  <1>4. CycleInv'
    BY <1>1, <1>2, <1>3 DEF IInv, CycleInv, Atomic, Muted, contextVars
  <1>5. ASSUME NEW q \in Ops PROVE OpInv(q)'
    <2>1. Numbers(q)' = Numbers(q)
      BY <1>1 DEF Numbers
    <2>2. Replaced(q) => Replaced(q)'
      BY <1>1, <1>2, <1>3 DEF Replaced
    <2>3. op[q].pc # "idle" /\ op[q].call.onTx /\ tx = "committed" => Settled(q)
      BY DEF IInv, OpInv, Admission
    <2> QED BY <1>1, <1>2, <1>3, <2>1, <2>2, <2>3, Unmoved DEF contextVars
  <1>6. TxInv'
    BY <1>1 DEF IInv, TxInv, Atomic, contextVars
  <1>7. /\ cycle' \in [Cycles -> Lifecycle] /\ staged \subseteq Rows /\ trail \subseteq Rows
        /\ tx \in {"none", "open", "committed", "rolledBack"}
    BY <1>1, <1>2 DEF IInv, Types
  <1> QED BY <1>1, <1>4, <1>5, <1>6, <1>7, ScopeFrame

(* The helper begins, commits or rolls back its transaction.               *)
LEMMA TransactionStep ==
  ASSUME IInv, Begin \/ Commit \/ RollBack
  PROVE  IInv'
  <1>1. UNCHANGED <<contextVars, failed, warned, op, cycle>>
    BY DEF Begin, Commit, RollBack
  <1>2. /\ cycle \in [Cycles -> Lifecycle] /\ staged \subseteq Rows /\ trail \subseteq Rows
        /\ CycleInv'
    BY <1>1 DEF IInv, Types, CycleInv, Atomic, Muted, contextVars
  <1>3. CASE Begin
    <2>1. tx = "none" /\ tx' = "open" /\ phase = "handler" /\ UNCHANGED <<staged, trail>>
      BY <1>3 DEF Begin
    <2>2. ASSUME NEW q \in Ops PROVE OpInv(q)'
      BY <1>1, <2>1, Unmoved DEF Replaced, Numbers, contextVars
    <2>3. TxInv'
      BY <1>1, <2>1 DEF IInv, TxInv, Atomic, contextVars
    <2> QED BY <1>1, <1>2, <2>1, <2>2, <2>3, ScopeFrame
  <1>4. CASE Commit
    <2>1. /\ tx = "open" /\ tx' = "committed" /\ ~(Atomic /\ failed)
          /\ trail' = trail \cup staged /\ staged' = {}
          /\ \A q \in Ops : op[q].pc # "idle" /\ op[q].call.onTx => Settled(q)
      BY <1>4 DEF Commit
    <2>2. ASSUME NEW q \in Ops PROVE OpInv(q)'
      <3>1. Numbers(q)' = Numbers(q)
        BY <2>1 DEF Numbers
      <3> QED BY <1>1, <2>1, <3>1, Unmoved DEF Replaced, contextVars
    <2>3. TxInv'
      BY <1>1, <2>1 DEF IInv, TxInv, Atomic, contextVars
    <2> QED BY <1>1, <1>2, <2>1, <2>2, <2>3, ScopeFrame
  <1>5. CASE RollBack
    <2>1. tx = "open" /\ tx' = "rolledBack" /\ staged' = {} /\ trail' = trail
      BY <1>5 DEF RollBack
    <2>2. ASSUME NEW q \in Ops PROVE OpInv(q)'
      <3>1. Numbers(q)' = Numbers(q) \/ ~Hook(q) \/ Atomic
        BY <2>1 DEF IInv, RowInv, Numbers
      <3> QED BY <1>1, <2>1, <3>1, Unmoved DEF Replaced, contextVars
    <2>3. TxInv'
      BY <1>1, <2>1 DEF IInv, TxInv, Atomic, contextVars
    <2> QED BY <1>1, <1>2, <2>1, <2>2, <2>3, ScopeFrame
  <1> QED BY <1>3, <1>4, <1>5

(* Every step keeps the invariant.                                         *)
LEMMA StepInv == IInv /\ [Next]_vars => IInv'
  <1> SUFFICES ASSUME IInv, [Next]_vars PROVE IInv'
    OBVIOUS
  <1>1. CASE UNCHANGED vars
    <2>1. UNCHANGED <<contextVars, tx, failed, warned, op, cycle, staged, trail>>
      BY <1>1 DEF vars
    <2>2. ASSUME NEW q \in Ops PROVE OpInv(q)'
      <3>1. op[q].pc # "idle" /\ op[q].call.onTx /\ tx = "committed" => Settled(q)
        BY DEF IInv, OpInv, Admission
      <3> QED BY <2>1, <3>1, Unmoved DEF Replaced, Numbers, contextVars
    <2>3. CycleInv' /\ TxInv'
      BY <2>1 DEF IInv, CycleInv, TxInv, Atomic, Muted, contextVars
    <2>4. /\ cycle \in [Cycles -> Lifecycle] /\ staged \subseteq Rows /\ trail \subseteq Rows
          /\ tx \in {"none", "open", "committed", "rolledBack"}
      BY DEF IInv, Types
    <2> QED BY <2>1, <2>2, <2>3, <2>4, ScopeFrame
  <1>2. CASE ContextNext /\ UNCHANGED <<tx, failed, warned, op, cycle, staged, trail>>
    BY <1>2, ContextStep
  <1>3. ASSUME NEW o \in Ops, OpStep(o) PROVE IInv'
    <2>1. CASE \E c \in Calls, from \in Places :
                 StartBestEffort(o, c, from) \/ StartAtomic(o, c, from) \/ StartLog(o, c, from)
      BY <2>1, StartBestEffortStep, StartAtomicStep, StartLogStep
    <2>2. CASE PreRead(o) \/ Overflow(o) \/ QuerySucceeds(o) \/ QueryFails(o)
      BY <2>2, PreReadStep, OverflowStep, QuerySucceedsStep, QueryFailsStep
    <2>3. CASE PostRead(o) \/ InsertRow(o) \/ AuditFails(o)
      BY <2>3, PostReadStep, InsertRowStep, AuditFailsStep
    <2> QED BY <1>3, <2>1, <2>2, <2>3 DEF OpStep
  <1>4. ASSUME NEW c \in Cycles, CycleStep(c) PROVE IInv'
    BY <1>4, StartCycleStep, EndCycleStep DEF CycleStep
  <1> QED BY <1>1, <1>2, <1>3, <1>4, TransactionStep DEF Next

(* The inductive invariant holds in every reachable state.                 *)
LEMMA Invariance == Spec => []IInv
  <1> QED BY InitInv, StepInv, PTL DEF Spec
-----------------------------------------------------------------------------
(* Whatever the application calls, in whatever order, the request, its     *)
(* operations and its audit rows keep their types.                         *)
THEOREM TypeCorrect == Spec => []TypeOK
  <1>1. IInv => TypeOK
    <2> SUFFICES ASSUME IInv PROVE TypeOK
      OBVIOUS
    <2>1. ASSUME NEW o \in Ops
          PROVE  /\ op[o].pc \in {"idle", "read", "query", "post", "insert", "failure", "done", "failed"}
                 /\ op[o].captured \in 0..MaxRecords /\ op[o].changed \in 0..MaxRecords
                 /\ op[o].left \in 0..MaxRecords /\ op[o].error \in Errors \cup {None}
      <3>1. op[o] \in Progress
        BY DEF IInv, Types
      <3> QED BY <3>1 DEF Progress
    <2>2. \A c \in Cycles : cycle[c].pc \in {"unused", "running", "succeeded", "failed"}
      BY DEF IInv, Types, Lifecycle
    <2> QED BY <2>1, <2>2 DEF IInv, Types, TypeOK
  <1> QED BY <1>1, Invariance, PTL

(* The rows counted and those committed are the same, unless the rows of   *)
(* the operation still wait for their transaction.                         *)
LEMMA RecordedIsNumbers ==
  ASSUME IInv, NEW o \in Ops, \A r \in staged : r.op # o
  PROVE  Recorded(o) = Numbers(o)
  <1>1. \A r \in trail : r.n \in 1..MaxRecords
    BY DEF IInv, Types, Rows
  <1> QED BY <1>1 DEF Recorded, Numbers

(* In atomic-required mode a tracked write that has changed anything for   *)
(* good has its records, one for one, or a lifecycle callback in its place *)
(* (reportAuditError marks the scope and the helper then cannot commit);   *)
(* a nested tracked write has changed nothing.                             *)
THEOREM AtomicRequiredLeavesEvidence == Spec => []AtomicEvidence
  <1>1. ASSUME IInv, Atomic, NEW o \in Ops, Hook(o), Settled(o),
               op[o].call.onTx => tx = "committed"
        PROVE  /\ Tracked(o) => Recorded(o) = 1..op[o].changed \/ Replaced(o)
               /\ NestsTracked(o) => op[o].changed = 0
    <2>1. OpInv(o) /\ op[o].pc \in {"done", "failed"}
      BY <1>1 DEF IInv, Hook, Settled
    <2>2. NestsTracked(o) => op[o].changed = 0
      BY <1>1, <2>1 DEF OpInv, AtomicPolicy, Stage
    <2>3. op[o].error \in {"refused", "limit", "query"} =>
            op[o].changed = 0 /\ Recorded(o) = {}
      <3>1. \A r \in trail : RowFits(r)
        BY <1>1 DEF IInv, RowInv
      <3>2. op[o].error \in {"refused", "limit", "query"} =>
              \A r \in trail : ~(r.op = o /\ r.result = "success")
        BY <1>1, <3>1 DEF RowFits
      <3> QED BY <2>1, <3>2 DEF Recorded, OpInv, Stage
    <2>4. 1..0 = {}
      OBVIOUS
    <2>5. CASE ~op[o].audited
      BY <1>1, <2>1, <2>2, <2>3, <2>4, <2>5 DEF OpInv, AtomicPolicy
    <2>6. CASE op[o].audited
      <3>1. tx = "committed" /\ ~failed /\ staged = {}
        BY <1>1, <2>1, <2>6 DEF OpInv, Admission, IInv, TxInv
      <3>2. CASE op[o].pc = "done"
        <4>1. op[o].left = 0 /\ ~op[o].told
          BY <1>1, <2>1, <3>2 DEF OpInv, Stage, AtomicPolicy
        <4>2. Replaced(o) \/ (op[o].changed = Quota(o) /\ Numbers(o) = (0 + 1)..Quota(o))
          BY <1>1, <2>1, <2>6, <3>1, <3>2, <4>1 DEF OpInv, Evidence
        <4>3. Recorded(o) = Numbers(o)
          BY <1>1, <3>1, RecordedIsNumbers
        <4> QED BY <2>2, <4>2, <4>3
      <3>3. CASE op[o].pc = "failed"
        <4>1. op[o].error \in Errors /\ op[o].error # "audit"
          BY <1>1, <2>1, <3>1, <3>3 DEF OpInv, Stage, AtomicPolicy
        <4> QED BY <2>2, <2>3, <2>4, <4>1 DEF Errors
      <3> QED BY <2>1, <3>2, <3>3
    <2> QED BY <2>5, <2>6
  <1>2. IInv => AtomicEvidence
    BY <1>1 DEF AtomicEvidence
  <1> QED BY <1>2, Invariance, PTL

(* In best-effort mode a tracked change that has no record has been        *)
(* reported through reportAuditError or warned of by its kind.             *)
THEOREM BestEffortTellsOfGaps == Spec => []NoSilentGap
  <1>1. ASSUME IInv, ~Atomic, NEW o \in Ops, op[o].pc = "done"
        PROVE  /\ Tracked(o) =>
                    \/ Recorded(o) = 1..(IF op[o].call.kind = "deleteMany" /\ ~op[o].summary
                                           THEN op[o].captured ELSE 1)
                    \/ op[o].told
                    \/ op[o].call.kind = "returning" /\ "returning" \in warned
               /\ NestsTracked(o) => "nested" \in warned
    <2>1. OpInv(o) /\ op[o].left = 0
      BY <1>1 DEF IInv, OpInv, Stage
    <2>2. NestsTracked(o) => "nested" \in warned
      BY <1>1, <2>1 DEF OpInv, LenientPolicy, NestsTracked
    <2>3. CASE Tracked(o) /\ op[o].audited
      <3>1. Hook(o) /\ ~Replaced(o)
        BY <1>1, <2>3 DEF Tracked, Replaced, IInv, CycleInv
      <3>2. op[o].told \/ Numbers(o) = (0 + 1)..Quota(o)
        BY <1>1, <2>1, <2>3, <3>1 DEF OpInv, Evidence
      <3>3. Recorded(o) = Numbers(o)
        BY <1>1, <3>1, RecordedIsNumbers DEF IInv, RowInv
      <3> QED BY <2>2, <3>2, <3>3 DEF Quota
    <2>4. CASE Tracked(o) /\ ~op[o].audited
      BY <1>1, <2>1, <2>2, <2>4 DEF OpInv, LenientPolicy, Tracked
    <2> QED BY <2>2, <2>3, <2>4
  <1>2. IInv => NoSilentGap
    BY <1>1 DEF NoSilentGap
  <1> QED BY <1>2, Invariance, PTL

(* In best-effort mode an operation fails only by its own query or because *)
(* a deleteMany is over its limit; no audit error reaches the application. *)
THEOREM BestEffortNeverObstructs == Spec => []BestEffortUnobstructed
  <1>1. IInv => BestEffortUnobstructed
    BY DEF IInv, OpInv, LenientPolicy, BestEffortUnobstructed
  <1> QED BY <1>1, Invariance, PTL

(* Rows carry the actor of their call, handlers start with their actor     *)
(* known, @NoAudit() silences the hooks of the handler, and a row says     *)
(* success only of a query that succeeded.                                 *)
THEOREM RequestIsHonoured == Spec => []RowsHonourRequest
  <1>1. ASSUME IInv, phase = "handler", ActorBound PROVE extraction = "settled"
    <2>1. setup \in Setup
      BY <1>1, SetupAssumption DEF IInv, Types, ContextTypeOK
    <2> QED BY <1>1, <2>1 DEF IInv, ContextInv, ActorBound, Setup
  <1>2. ASSUME IInv, NEW r \in staged \cup trail
        PROVE  /\ r.actor = op[r.op].caller
               /\ setup.actorRequired => r.actor # None
               /\ Hook(r.op) /\ Muted => op[r.op].guard \/ Origin(r.op) = "runAs"
               /\ Hook(r.op) => (r.result = "success" <=> op[r.op].error # "query")
    <2>1. r.op \in Ops /\ RowFits(r)
      BY <1>2 DEF IInv, Types, Rows, RowInv
    <2>2. Admission(r.op) /\ op[r.op].pc # "idle" /\ op[r.op].audited
      BY <1>2, <2>1 DEF IInv, OpInv, RowFits
    <2> QED BY <2>1, <2>2 DEF RowFits, Admission
  <1>3. IInv => RowsHonourRequest
    BY <1>1, <1>2 DEF RowsHonourRequest, Muted, Origin
  <1> QED BY <1>3, Invariance, PTL
=============================================================================
