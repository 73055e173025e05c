--------------------------- MODULE MCAuditedRequest ---------------------------
(* Configurations and calls for the model-checking run of AuditedRequest.  *)
EXTENDS AuditedRequest, TLC

Base == [stage |-> "interceptor", excluded |-> FALSE, http |-> TRUE, bindings |-> 1,
         noAudit |-> FALSE, consistency |-> "atomic-required", actorRequired |-> FALSE,
         logFailures |-> FALSE, overflow |-> "reject"]
Lenient == [Base EXCEPT !.consistency = "best-effort", !.logFailures = TRUE]

MCSetups ==
  {[Base EXCEPT !.bindings = 2],
   [Base EXCEPT !.stage = "middleware", !.actorRequired = TRUE],
   [Base EXCEPT !.noAudit = TRUE],
   [Lenient EXCEPT !.actorRequired = TRUE, !.overflow = "summary"],
   [Lenient EXCEPT !.noAudit = TRUE],
   [Lenient EXCEPT !.excluded = TRUE]}

Plain(kind) == [kind |-> kind, tracked |-> TRUE, payload |-> <<>>, onTx |-> TRUE]
Through(slot) == <<[slot |-> slot, tracked |-> FALSE], [slot |-> "set", tracked |-> TRUE]>>

MCCalls ==
  {Plain(k) : k \in {"create", "delete", "deleteMany", "summary", "returning", "log"}} \cup
  {[Plain("update") EXCEPT !.onTx = FALSE],
   [Plain("update") EXCEPT !.tracked = FALSE, !.payload = Through("upsert.update")],
   [Plain("create") EXCEPT !.payload = <<[slot |-> "connect", tracked |-> TRUE]>>]}

MCSymmetry == Permutations(Ops)
=============================================================================
