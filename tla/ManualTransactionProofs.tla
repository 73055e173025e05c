----------------------- MODULE ManualTransactionProofs -----------------------
(***************************************************************************)
(* Proofs about ManualTransaction for any number of helper and log calls.  *)
(***************************************************************************)
EXTENDS ManualTransaction, TLAPS

(* A scope exists from the moment its transaction is open, and its flags   *)
(* follow the helper's promise and the callback.                           *)
ScopeInv ==
  \A s \in Scopes :
    /\ tx[s] = "none" <=> body[s] = "none"
    /\ host[s] \in {"idle", "waiting"} => body[s] = "none"
    /\ tx[s] = "open" => host[s] = "open"
    /\ s \in active <=> host[s] = "open"
    /\ s \in accepting => body[s] = "callback" /\ host[s] = "open"
    /\ body[s] \in {"none", "callback"} => s \notin callbackFailed
    /\ host[s] = "resolved" => tx[s] = "committed"

(* A scope that was called from another's context waits or runs only after *)
(* that one has settled.                                                   *)
NestingInv ==
  \A s \in Scopes : host[s] \in {"waiting", "open"} /\ parent[s] # None =>
    host[parent[s]] \in {"resolved", "rejected"}

(* A log call belongs to the scope it was made on; its row is staged       *)
(* exactly when its INSERT succeeded.                                      *)
CallInv ==
  \A c \in Calls :
    /\ owner[c] = None <=> call[c] = "none"
    /\ \A s \in Scopes :
         c \in staged[s] <=> owner[c] = s /\ call[c] \in {"inserted", "ok"}
    /\ call[c] = "failed" => owner[c] \in auditFailed

(* When the body is over every accepted call is settled, and it returns    *)
(* only if nothing failed; only such a body is committed.                  *)
Over(s) == body[s] \in {"return", "throw"}

Drained(s) ==
  /\ Over(s) => \A c \in Calls : owner[c] = s => call[c] \in {"ok", "failed", "refused"}
  /\ body[s] = "return" => s \notin auditFailed /\ s \notin callbackFailed
  /\ tx[s] = "committed" => body[s] = "return"

DrainInv == \A s \in Scopes : Drained(s)

IInv == TypeOK /\ ScopeInv /\ NestingInv /\ CallInv /\ DrainInv

(* Nothing has started.                                                    *)
LEMMA InitInv == Init => IInv
  BY NoneAssumption
     DEF Init, IInv, TypeOK, ScopeInv, NestingInv, CallInv, DrainInv, Drained, Over

(* Every step keeps the types.                                             *)
LEMMA TypeStep ==
  ASSUME IInv, [Next]_vars
  PROVE  TypeOK'
  <1> USE DEF IInv, TypeOK, flags, vars
  <1>1. ASSUME NEW s \in Scopes, ScopeStep(s) PROVE TypeOK'
    BY <1>1 DEF ScopeStep, Open, MaxWait, Begin, CallbackEnds, Drain, Commit, RollBack, Settle
  <1>2. ASSUME NEW c \in Calls, NEW s \in Scopes, Log(c, s) PROVE TypeOK'
    BY <1>2 DEF Log
  <1>3. ASSUME NEW c \in Calls, Insert(c) PROVE TypeOK'
    BY <1>3 DEF Insert
  <1>4. ASSUME NEW c \in Calls, Reject(c) PROVE TypeOK'
    BY <1>4 DEF Reject
  <1>5. ASSUME NEW c \in Calls, ObserveSuccess(c) PROVE TypeOK'
    BY <1>5 DEF ObserveSuccess
  <1>6. ASSUME NEW c \in Calls, ObserveFailure(c) PROVE TypeOK'
    BY <1>6 DEF CallInv, ObserveFailure
  <1>7. CASE UNCHANGED vars
    BY <1>7
  <1> QED BY <1>1, <1>2, <1>3, <1>4, <1>5, <1>6, <1>7 DEF Next, CallStep

(* A step of one scope keeps its flags and its promise in line.            *)
LEMMA ScopeStepInv ==
  ASSUME IInv, TypeOK', NEW s \in Scopes, ScopeStep(s)
  PROVE  ScopeInv' /\ NestingInv'
  <1> USE DEF IInv, TypeOK, flags
  <1>1. CASE Open(s)
    <2>1. ScopeInv'
      BY <1>1 DEF Open, ScopeInv
    <2>2. NestingInv'
      BY <1>1, NoneAssumption DEF Open, ScopeInv, NestingInv
    <2> QED BY <2>1, <2>2
  <1>2. CASE MaxWait(s)
    BY <1>2, NoneAssumption DEF MaxWait, ScopeInv, NestingInv
  <1>3. CASE Begin(s)
    BY <1>3, NoneAssumption DEF Begin, ScopeInv, NestingInv
  <1>4. CASE CallbackEnds(s)
    BY <1>4, NoneAssumption DEF CallbackEnds, ScopeInv, NestingInv
  <1>5. CASE Drain(s)
    BY <1>5, NoneAssumption DEF Drain, ScopeInv, NestingInv
  <1>6. CASE Commit(s)
    BY <1>6, NoneAssumption DEF Commit, ScopeInv, NestingInv
  <1>7. CASE RollBack(s)
    BY <1>7, NoneAssumption DEF RollBack, ScopeInv, NestingInv
  <1>8. CASE Settle(s)
    <2>1. ScopeInv'
      BY <1>8 DEF Settle, ScopeInv
    <2>2. NestingInv'
      BY <1>8, NoneAssumption DEF Settle, NestingInv
    <2> QED BY <2>1, <2>2
  <1> QED BY <1>1, <1>2, <1>3, <1>4, <1>5, <1>6, <1>7, <1>8 DEF ScopeStep

(* A step of one scope keeps what is known of its calls.                   *)
LEMMA ScopeStepCalls ==
  ASSUME IInv, TypeOK', NEW s \in Scopes, ScopeStep(s)
  PROVE  CallInv' /\ DrainInv'
  <1> USE DEF IInv, TypeOK, flags
  <1>1. UNCHANGED <<auditFailed, staged, owner, call>>
    BY DEF ScopeStep, Open, MaxWait, Begin, CallbackEnds, Drain, Commit, RollBack, Settle
  <1>2. CallInv'
    BY <1>1 DEF CallInv
  <1>3. SUFFICES ASSUME NEW q \in Scopes PROVE Drained(q)'
    BY <1>2 DEF DrainInv
  <1>4. Drained(q)
    BY DEF DrainInv
  <1>5. CASE q # s
    <2>1. /\ body'[q] = body[q] /\ tx'[q] = tx[q]
          /\ q \in callbackFailed' => q \in callbackFailed
      BY <1>5 DEF ScopeStep, Open, MaxWait, Begin, CallbackEnds, Drain, Commit, RollBack, Settle
    <2> QED BY <1>1, <1>4, <2>1 DEF Drained, Over
  <1>6. CASE q = s /\ Drain(s)
    <2>1. \A c \in Calls : owner[c] = s => call[c] \in {"ok", "failed", "refused"}
      BY <1>6 DEF Drain, Accepted, Settled
    <2>2. body'[s] = "return" => s \notin auditFailed /\ s \notin callbackFailed
      BY <1>6 DEF Drain
    <2>3. tx'[s] # "committed" /\ callbackFailed' = callbackFailed
      BY <1>4, <1>6 DEF Drain, Drained
    <2> QED BY <1>1, <1>6, <2>1, <2>2, <2>3 DEF Drained
  <1>7. CASE q = s /\ ~Drain(s)
    <2>1. body'[s] = body[s] \/ body'[s] \in {"callback", "draining"}
      BY <1>7 DEF ScopeStep, Open, MaxWait, Begin, CallbackEnds, Drain, Commit, RollBack, Settle
    <2>2. Over(s)' => body'[s] = body[s] /\ callbackFailed' = callbackFailed
      BY <1>7, <2>1
         DEF Over, ScopeStep, Open, MaxWait, Begin, CallbackEnds, Commit, RollBack, Settle
    <2>3. tx'[s] = "committed" => body'[s] = "return"
      BY <1>4, <1>7 DEF Drained, ScopeStep, ScopeInv, Open, MaxWait, Begin, CallbackEnds,
                        Commit, RollBack, Settle
    <2> QED BY <1>1, <1>4, <1>7, <2>2, <2>3 DEF Drained, Over
  <1> QED BY <1>5, <1>6, <1>7

(* A step of one log call keeps the invariant.                             *)
LEMMA CallStepInv ==
  ASSUME IInv, TypeOK', NEW c \in Calls, CallStep(c)
  PROVE  IInv'
  <1> USE DEF IInv, TypeOK, flags
  <1>1. UNCHANGED <<host, parent, active, accepting, callbackFailed, body, tx>>
    BY DEF CallStep, Log, Insert, Reject, ObserveSuccess, ObserveFailure
  <1>2. ScopeInv' /\ NestingInv'
    BY <1>1 DEF ScopeInv, NestingInv
  <1>3. owner[c] \in Scopes \/ call[c] = "none"
    BY DEF CallInv
  <1>4. CallInv'
    <2>1. ASSUME NEW s \in Scopes, Log(c, s) PROVE CallInv'
      BY <2>1, NoneAssumption DEF Log, CallInv
    <2>2. CASE Insert(c)
      BY <1>3, <2>2 DEF Insert, CallInv
    <2>3. CASE Reject(c)
      BY <1>3, <2>3 DEF Reject, CallInv
    <2>4. CASE ObserveSuccess(c)
      BY <1>3, <2>4 DEF ObserveSuccess, CallInv
    <2>5. CASE ObserveFailure(c)
      BY <1>3, <2>5 DEF ObserveFailure, CallInv
    <2> QED BY <2>1, <2>2, <2>3, <2>4, <2>5 DEF CallStep
  <1>5. DrainInv'
    <2>1. \A d \in Calls \ {c} : call'[d] = call[d] /\ owner'[d] = owner[d]
      BY DEF CallStep, Log, Insert, Reject, ObserveSuccess, ObserveFailure
    <2>2. \/ call'[c] = "refused" /\ auditFailed' = auditFailed
          \/ /\ owner'[c] \in Scopes /\ ~Over(owner'[c])
             /\ auditFailed' \subseteq auditFailed \cup {owner'[c]}
      <3>1. ASSUME NEW s \in Scopes, Log(c, s)
            PROVE  call'[c] = "refused" \/ ~Over(owner'[c])
        BY <3>1 DEF Log, ScopeInv, Over
      <3>2. call[c] \in {"running", "inserted", "rejecting"} => ~Over(owner[c])
        BY <1>3 DEF DrainInv, Drained
      <3> QED BY <1>3, <3>1, <3>2
              DEF CallStep, Log, Insert, Reject, ObserveSuccess, ObserveFailure
    <2>3. SUFFICES ASSUME NEW s \in Scopes PROVE Drained(s)'
      BY DEF DrainInv
    <2>4. Drained(s)
      BY DEF DrainInv
    <2> QED BY <1>1, <2>1, <2>2, <2>4 DEF Drained, Over
  <1> QED BY <1>2, <1>4, <1>5

(* The inductive invariant holds in every reachable state.                 *)
THEOREM Invariance == Spec => []IInv
  <1>1. IInv /\ [Next]_vars => IInv'
    <2> SUFFICES ASSUME IInv, [Next]_vars PROVE IInv'
      OBVIOUS
    <2>1. TypeOK'
      BY TypeStep DEF IInv
    <2>2. ASSUME NEW s \in Scopes, ScopeStep(s) PROVE IInv'
      BY <2>1, <2>2, ScopeStepInv, ScopeStepCalls DEF IInv
    <2>3. CASE UNCHANGED vars
      BY <2>3 DEF IInv, TypeOK, ScopeInv, NestingInv, CallInv, DrainInv, Drained, Over,
                  vars, flags
    <2> QED BY <2>1, <2>2, <2>3, CallStepInv DEF Next
  <1> QED BY <1>1, InitInv, PTL DEF Spec

(* Type correctness of the helper's state; it takes CallInv, since the     *)
(* scope of a failed call is recorded as failed.                           *)
THEOREM TypeCorrect == Spec => []TypeOK
  BY Invariance, PTL DEF IInv

(* The transaction commits with all its evidence or not at all.            *)
THEOREM Evidence == Spec => []EvidenceCommitsWithTransaction
  <1>1. IInv => EvidenceCommitsWithTransaction
    <2> SUFFICES ASSUME IInv, NEW s \in Scopes, tx[s] = "committed"
                 PROVE  staged[s] = Accepted(s) /\ s \notin callbackFailed
      BY DEF EvidenceCommitsWithTransaction
    <2>1. /\ body[s] = "return" /\ s \notin auditFailed /\ s \notin callbackFailed
          /\ \A c \in Accepted(s) : call[c] \in Settled
      BY DEF IInv, DrainInv, Drained, Over, Accepted, Settled
    <2>2. \A c \in Accepted(s) : c \in staged[s]
      BY <2>1 DEF IInv, CallInv, Accepted, Settled
    <2>3. \A c \in staged[s] : c \in Accepted(s)
      BY DEF IInv, TypeOK, CallInv, Accepted
    <2> QED BY <2>1, <2>2, <2>3
  <1> QED BY <1>1, Invariance, PTL

(* When the helper reports success its log calls are over.                 *)
THEOREM NothingOutlives == Spec => []NothingOutlivesSuccess
  <1>1. IInv => NothingOutlivesSuccess
    BY DEF IInv, ScopeInv, DrainInv, Drained, Over, CallInv, Accepted, NothingOutlivesSuccess
  <1> QED BY <1>1, Invariance, PTL

(* No nested transaction runs beside the one it was called in.             *)
THEOREM NoNesting == Spec => []OneTransactionPerContext
  <1>1. IInv => OneTransactionPerContext
    BY DEF IInv, TypeOK, ScopeInv, NestingInv, OneTransactionPerContext
  <1> QED BY <1>1, Invariance, PTL

(* A settled helper accepts nothing more.                                  *)
THEOREM NoLateWrite == Spec => NoWriteAfterSettling
  <1>1. IInv /\ [Next]_vars =>
          [\A c \in Calls : call[c] = "none" /\ call'[c] = "running"
             => host[owner'[c]] = "open"]_vars
    <2> SUFFICES ASSUME IInv, [Next]_vars, NEW c \in Calls,
                        call[c] = "none", call'[c] = "running"
                 PROVE  host[owner'[c]] = "open"
      OBVIOUS
    <2>1. ASSUME NEW d \in Calls, CallStep(d) PROVE \E s \in Scopes : Log(c, s)
      BY <2>1 DEF IInv, TypeOK, CallStep, Log, Insert, Reject, ObserveSuccess, ObserveFailure
    <2>2. ASSUME NEW s \in Scopes PROVE ~ScopeStep(s)
      BY <2>2 DEF ScopeStep, Open, MaxWait, Begin, CallbackEnds, Drain, Commit, RollBack, Settle
    <2>3. PICK s \in Scopes : Log(c, s)
      BY <2>1, <2>2 DEF Next, vars
    <2>4. s \in accepting /\ owner'[c] = s
      BY <2>3 DEF Log, IInv, TypeOK
    <2> QED BY <2>4 DEF IInv, ScopeInv
  <1> QED BY <1>1, Invariance, PTL DEF Spec, NoWriteAfterSettling
=============================================================================
