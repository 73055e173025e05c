------------------------------ MODULE AuditTrail ------------------------------
(* Sequences of audit rows: which rows are an operation's, and when the    *)
(* rows of a key account for its value.                                    *)
EXTENDS Naturals

(* The places of the rows of operation o in a sequence of audit rows.      *)
RowsOf(s, o) == {i \in DOMAIN s : s[i].op = o}

(* The rows of key k in s lead from value first to value last, each from   *)
(* the value the one before it has left.                                   *)
Chain(s, k, first, last) ==
  LET mine == {i \in DOMAIN s : s[i].key = k}
  IN  /\ mine = {} => first = last
      /\ \A i \in mine : (\A j \in mine : i <= j) => s[i].before = first
      /\ \A i, j \in mine : i < j /\ (\A n \in mine : n <= i \/ j <= n) =>
           s[j].before = s[i].after
      /\ \A i \in mine : (\A j \in mine : j <= i) => s[i].after = last
=============================================================================
