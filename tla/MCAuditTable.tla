---------------------------- MODULE MCAuditTable ----------------------------
(* Three maintenance calls of any kinds.                                   *)
EXTENDS AuditTable, TLC

CONSTANTS c1, c2, c3

Symmetry == Permutations(Calls)
=============================================================================
