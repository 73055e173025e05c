-------------------------- MODULE ManualTransaction --------------------------
(***************************************************************************)
(* runManualAuditTransaction: a helper that owns a Prisma transaction and  *)
(* hands its callback a log() bound to it.  The callback may leave log     *)
(* calls unawaited, catch their errors, keep running after a timeout, call *)
(* log() after it returned, and call the helper again from its own async   *)
(* context.  Prisma may reject before the callback starts (maxWait), roll  *)
(* back while it runs (timeout), or lose the answer to a COMMIT.           *)
(***************************************************************************)
EXTENDS Naturals

CONSTANTS
  Scopes,   \* calls of the helper
  Calls,    \* calls of scope.log()
  None      \* no scope: code outside every helper's async context

ASSUME NoneAssumption == None \notin Scopes

VARIABLES
  host,            \* the promise the helper returned
  parent,          \* the scope whose async context called the helper
  active,          \* the scopes whose state.active is set
  accepting,       \* the scopes whose state.acceptingWrites is set
  body,            \* how far the function given to $transaction is
  callbackFailed,
  auditFailed,
  tx,              \* the database transaction
  staged,          \* audit rows inserted in the transaction
  owner,           \* the scope a log call was made on
  call             \* the progress of a log call

flags == <<active, accepting, callbackFailed, auditFailed>>
vars  == <<host, parent, flags, body, tx, staged, owner, call>>

Settled     == {"ok", "failed"}
Accepted(s) == {c \in Calls : owner[c] = s /\ call[c] # "refused"}

Init ==
  /\ host = [s \in Scopes |-> "idle"]
  /\ parent = [s \in Scopes |-> None]
  /\ active = {}
  /\ accepting = {}
  /\ body = [s \in Scopes |-> "none"]
  /\ callbackFailed = {}
  /\ auditFailed = {}
  /\ tx = [s \in Scopes |-> "none"]
  /\ staged = [s \in Scopes |-> {}]
  /\ owner = [c \in Calls |-> None]
  /\ call = [c \in Calls |-> "none"]

-----------------------------------------------------------------------------
(* Mutant: nesting is not looked for.                                      *)
OpenAnywhere(s) ==
  /\ host[s] = "idle"
  /\ \E p \in {None} \cup {q \in Scopes \ {s} : body[q] # "none"} :
       parent' = [parent EXCEPT ![s] = p]
  /\ host' = [host EXCEPT ![s] = "waiting"]
  /\ UNCHANGED <<flags, body, tx, staged, owner, call>>

(* The helper is called, from outside or from the async context of p.      *)
Open(s) ==
  /\ host[s] = "idle"
  /\ \E p \in {None} \cup {q \in Scopes \ {s} : body[q] # "none"} :
       /\ parent' = [parent EXCEPT ![s] = p]
       /\ host' = [host EXCEPT ![s] =
            IF p # None /\ p \in active THEN "rejected" ELSE "waiting"]
  /\ UNCHANGED <<flags, body, tx, staged, owner, call>>

(* $transaction rejects before it calls the function: no state exists yet. *)
MaxWait(s) ==
  /\ host[s] = "waiting"
  /\ host' = [host EXCEPT ![s] = "rejected"]
  /\ UNCHANGED <<parent, flags, body, tx, staged, owner, call>>

Begin(s) ==
  /\ host[s] = "waiting"
  /\ host' = [host EXCEPT ![s] = "open"]
  /\ tx' = [tx EXCEPT ![s] = "open"]
  /\ active' = active \cup {s}
  /\ accepting' = accepting \cup {s}
  /\ body' = [body EXCEPT ![s] = "callback"]
  /\ UNCHANGED <<parent, callbackFailed, auditFailed, staged, owner, call>>

(* log(): by the callback, or by work it left running after it returned.   *)
Log(c, s) ==
  /\ call[c] = "none" /\ body[s] # "none"
  /\ owner' = [owner EXCEPT ![c] = s]
  /\ call' = [call EXCEPT ![c] = IF s \in accepting THEN "running" ELSE "refused"]
  /\ UNCHANGED <<host, parent, flags, body, tx, staged>>

(* The INSERT of an audit row; the database refuses it on a closed tx.     *)
Insert(c) ==
  /\ call[c] = "running" /\ tx[owner[c]] = "open"
  /\ staged' = [staged EXCEPT ![owner[c]] = @ \cup {c}]
  /\ call' = [call EXCEPT ![c] = "inserted"]
  /\ UNCHANGED <<host, parent, flags, body, tx, owner>>

(* Invalid input, a missing tenant, or a refused INSERT.                   *)
Reject(c) ==
  /\ call[c] = "running"
  /\ call' = [call EXCEPT ![c] = "rejecting"]
  /\ UNCHANGED <<host, parent, flags, body, tx, staged, owner>>

(* The reaction attached in `pending` runs, awaited by the caller or not.  *)
ObserveSuccess(c) ==
  /\ call[c] = "inserted"
  /\ call' = [call EXCEPT ![c] = "ok"]
  /\ UNCHANGED <<host, parent, flags, body, tx, staged, owner>>

(* Mutant: the failure is kept by its value, which may be null.            *)
ObserveFailureValue(c) ==
  /\ call[c] = "rejecting"
  /\ call' = [call EXCEPT ![c] = "failed"]
  /\ auditFailed' = auditFailed \cup {None}
  /\ UNCHANGED <<host, parent, active, accepting, callbackFailed, body, tx, staged, owner>>

(* Mutant: only a failure the callback rethrows counts.                    *)
ObserveFailureOnly(c) ==
  /\ call[c] = "rejecting"
  /\ call' = [call EXCEPT ![c] = "failed"]
  /\ UNCHANGED <<host, parent, flags, body, tx, staged, owner>>

ObserveFailure(c) ==
  /\ call[c] = "rejecting"
  /\ call' = [call EXCEPT ![c] = "failed"]
  /\ auditFailed' = auditFailed \cup {owner[c]}
  /\ UNCHANGED <<host, parent, active, accepting, callbackFailed, body, tx, staged, owner>>

CallbackEnds(s) ==
  /\ body[s] = "callback"
  /\ callbackFailed' \in {callbackFailed, callbackFailed \cup {s}}
  /\ accepting' = accepting \ {s}
  /\ body' = [body EXCEPT ![s] = "draining"]
  /\ UNCHANGED <<host, parent, active, auditFailed, tx, staged, owner, call>>

(* Mutant: the calls still in flight are not waited for.                   *)
DrainNothing(s) ==
  /\ body[s] = "draining"
  /\ body' = [body EXCEPT ![s] =
       IF s \in callbackFailed \cup auditFailed THEN "throw" ELSE "return"]
  /\ UNCHANGED <<host, parent, flags, tx, staged, owner, call>>

(* Promise.all(pending), then throw the first failure or return.           *)
Drain(s) ==
  /\ body[s] = "draining"
  /\ \A c \in Accepted(s) : call[c] \in Settled
  /\ body' = [body EXCEPT ![s] =
       IF s \in callbackFailed \cup auditFailed THEN "throw" ELSE "return"]
  /\ UNCHANGED <<host, parent, flags, tx, staged, owner, call>>

(* Prisma commits when the function returned, rolls back when it threw,    *)
(* and rolls back at any time when the transaction has timed out.          *)
Commit(s) ==
  /\ tx[s] = "open" /\ body[s] = "return"
  /\ tx' = [tx EXCEPT ![s] = "committed"]
  /\ UNCHANGED <<host, parent, flags, body, staged, owner, call>>

RollBack(s) ==
  /\ tx[s] = "open"
  /\ tx' = [tx EXCEPT ![s] = "rolledBack"]
  /\ UNCHANGED <<host, parent, flags, body, staged, owner, call>>

(* Mutant: the writer stays open when $transaction settles first.          *)
SettleKeepsWriter(s) ==
  /\ host[s] = "open" /\ tx[s] # "open"
  /\ host' = [host EXCEPT ![s] = IF tx[s] = "committed" THEN "resolved" ELSE "rejected"]
  /\ active' = active \ {s}
  /\ UNCHANGED <<parent, accepting, callbackFailed, auditFailed, body, tx, staged, owner, call>>

(* Mutant: the helper waits for its callback even after a timeout.         *)
SettleAfterBody(s) ==
  /\ host[s] = "open" /\ tx[s] # "open" /\ body[s] \in {"return", "throw"}
  /\ host' = [host EXCEPT ![s] = IF tx[s] = "committed" THEN "resolved" ELSE "rejected"]
  /\ active' = active \ {s}
  /\ accepting' = accepting \ {s}
  /\ UNCHANGED <<parent, callbackFailed, auditFailed, body, tx, staged, owner, call>>

(* $transaction settles, a lost answer to COMMIT as a rejection, and the   *)
(* finally block revokes the writer, whether or not the callback is over.  *)
Settle(s) ==
  /\ host[s] = "open" /\ tx[s] # "open"
  /\ \/ tx[s] = "committed" /\ host' = [host EXCEPT ![s] = "resolved"]
     \/ host' = [host EXCEPT ![s] = "rejected"]
  /\ active' = active \ {s}
  /\ accepting' = accepting \ {s}
  /\ UNCHANGED <<parent, callbackFailed, auditFailed, body, tx, staged, owner, call>>

ScopeStep(s) ==
  \/ Open(s) \/ MaxWait(s) \/ Begin(s) \/ CallbackEnds(s) \/ Drain(s)
  \/ Commit(s) \/ RollBack(s) \/ Settle(s)

CallStep(c) ==
  \/ \E s \in Scopes : Log(c, s)
  \/ Insert(c) \/ Reject(c) \/ ObserveSuccess(c) \/ ObserveFailure(c)

Next == (\E s \in Scopes : ScopeStep(s)) \/ (\E c \in Calls : CallStep(c))

Spec == Init /\ [][Next]_vars

(* Prisma answers a request for a connection within maxWait, ends every    *)
(* transaction within its timeout and then settles its promise.  Nothing   *)
(* is assumed of the callback, which may hang.                             *)
Fairness ==
  \A s \in Scopes :
    /\ WF_vars(Begin(s) \/ MaxWait(s))
    /\ WF_vars(RollBack(s))
    /\ WF_vars(Settle(s))

FairSpec == Spec /\ Fairness
-----------------------------------------------------------------------------
TypeOK ==
  /\ host \in [Scopes -> {"idle", "waiting", "open", "resolved", "rejected"}]
  /\ parent \in [Scopes -> Scopes \cup {None}]
  /\ active \subseteq Scopes /\ accepting \subseteq Scopes
  /\ body \in [Scopes -> {"none", "callback", "draining", "return", "throw"}]
  /\ callbackFailed \subseteq Scopes /\ auditFailed \subseteq Scopes
  /\ tx \in [Scopes -> {"none", "open", "committed", "rolledBack"}]
  /\ staged \in [Scopes -> SUBSET Calls]
  /\ owner \in [Calls -> Scopes \cup {None}]
  /\ call \in [Calls -> {"none", "running", "inserted", "rejecting",
                         "ok", "failed", "refused"}]

(* A transaction commits with the audit row of every log call it accepted, *)
(* awaited or not, and never when one of them failed, caught or not.       *)
EvidenceCommitsWithTransaction ==
  \A s \in Scopes : tx[s] = "committed" =>
    /\ staged[s] = Accepted(s)
    /\ s \notin callbackFailed

(* "Started audit calls settle before completion": when the helper reports *)
(* success, no log call of its scope is still in flight.                   *)
NothingOutlivesSuccess ==
  \A s \in Scopes : host[s] = "resolved" =>
    \A c \in Accepted(s) : call[c] = "ok"

(* A helper called from the async context of another never holds a         *)
(* transaction open beside it.                                             *)
OneTransactionPerContext ==
  \A s \in Scopes : tx[s] = "open" /\ parent[s] # None => tx[parent[s]] # "open"

(* Once the helper has settled, even on a timeout that its callback has    *)
(* not noticed, no log call is accepted any more.                          *)
NoWriteAfterSettling ==
  [][\A c \in Calls : call[c] = "none" /\ call'[c] = "running"
       => host[owner'[c]] = "open"]_vars

(* Every call of the helper settles, whatever its callback does.           *)
HelperSettles ==
  \A s \in Scopes : (host[s] \in {"waiting", "open"}) ~> (host[s] \in {"resolved", "rejected"})
=============================================================================
