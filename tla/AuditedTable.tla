----------------------------- MODULE AuditedTable -----------------------------
(***************************************************************************)
(* What atomic tracking promises of a table and its audit trail: they only *)
(* change together, in one step per transaction, the trail only grows, and *)
(* what a transaction adds to it accounts for what the transaction has     *)
(* done to each row, from the value it found to the value it leaves.  A    *)
(* row that some transaction has changed without holding its lock is given *)
(* up for good; it leaves exact.                                           *)
(***************************************************************************)
EXTENDS AuditTrail, Sequences

CONSTANTS Keys,       \* primary keys of the table
          Cell,       \* row contents, and the absence of a row
          InitTable   \* the rows at the start

VARIABLES rows, history, exact

vars == <<rows, history, exact>>

Init ==
  /\ rows = InitTable
  /\ history = <<>>
  /\ exact = Keys

(* One transaction commits: the rows it has added to the trail begin after *)
(* those that were there.                                                  *)
Transact ==
  LET n     == Len(history)
      added == SubSeq(history', n + 1, Len(history'))
  IN  /\ n <= Len(history') /\ SubSeq(history', 1, n) = history
      /\ rows' \in [Keys -> Cell]
      /\ exact' \subseteq exact
      /\ \A k \in exact' : Chain(added, k, rows[k], rows'[k])

Spec == Init /\ [][Transact]_vars
=============================================================================
