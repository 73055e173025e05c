--------------------------- MODULE AtLeastOnceFeed ---------------------------
(***************************************************************************)
(* What a durable at-least-once tailer promises over a source whose rows   *)
(* appear in the order of their positions: rows are handed over any number *)
(* of times, and the durable checkpoint only ever rests on a row all of    *)
(* whose predecessors have been handed over.  The checkpoint may move      *)
(* back; a redelivery is then all that happens.                            *)
(***************************************************************************)
EXTENDS Naturals

CONSTANTS Rows,     \* positions a row may take, positive numbers
          StartAt   \* checkpoints a stream may start from

VARIABLES committed, delivered, checkpoint

vars == <<committed, delivered, checkpoint>>

(* Everything at or below c has been handed over.                          *)
Covered(c) == \A p \in committed : p <= c => p \in delivered

Init ==
  /\ checkpoint \in StartAt
  /\ committed = 1..checkpoint
  /\ delivered = committed

Commit(p) ==
  /\ p \notin committed
  /\ p > checkpoint
  /\ committed' = committed \cup {p}
  /\ UNCHANGED <<delivered, checkpoint>>

Deliver ==
  /\ delivered' \in SUBSET committed
  /\ delivered \subseteq delivered'
  /\ UNCHANGED <<committed, checkpoint>>

MoveCheckpoint ==
  /\ checkpoint' \in committed \cup {0}
  /\ Covered(checkpoint')
  /\ UNCHANGED <<committed, delivered>>

Next == (\E p \in Rows : Commit(p)) \/ Deliver \/ MoveCheckpoint

Spec == Init /\ [][Next]_vars
=============================================================================
