----------------------------- MODULE MCAuditPages -----------------------------
(* Four rows of two tenants, with ties of created_at.                      *)
EXTENDS AuditPages, TLC

CONSTANTS t1, t2

MCStamp == (1 :> 1) @@ (2 :> 2) @@ (3 :> 1) @@ (4 :> 2)
MCOwner == (1 :> t1) @@ (2 :> t1) @@ (3 :> t2) @@ (4 :> t1)
=============================================================================
