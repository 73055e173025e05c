---------------------------- MODULE MCAuditStream ----------------------------
(* Constants for the model-checking runs of AuditStream.                   *)
EXTENDS AuditStream, TLC

MCTsOf == [p \in 1..NPos |-> (p + 1) \div 2]
MCStartAt == {0, 1}
MCSymmetry == Permutations(Runners)
=============================================================================
