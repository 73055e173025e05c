------------------------------ MODULE AuditTable ------------------------------
(***************************************************************************)
(* The audit table and those who maintain it: applyAuditTableSchema, run   *)
(* statement by statement, ensurePartitions and prune, with the requests   *)
(* that insert rows and the application that tries to delete some.  Every  *)
(* statement is a transaction of its own, but for those of a flat prune.   *)
(* Time is counted in half months; a row is the instant it is stamped with.*)
(***************************************************************************)
EXTENDS Naturals, Sequences, FiniteSets

CONSTANTS
  Calls,       \* maintenance calls, each of one of the three functions
  Modes,       \* the enforcements installers may ask for
  Layouts,     \* the layouts they may ask for
  Aheads,      \* the months ahead ensurePartitions may be asked for
  Cutoffs,     \* the cutoffs retention may be asked for
  Start,       \* the instant at the start
  MaxTime,     \* the last instant
  MaxRows      \* bound on the rows written

ASSUME ModesAssumption == Modes \subseteq {"trigger", "rule"}
ASSUME LayoutsAssumption == Layouts \subseteq {"flat", "partitioned"}
ASSUME TimeAssumption ==
  /\ MaxTime \in Nat /\ Start \in 0 .. MaxTime /\ MaxRows \in Nat
  /\ Aheads \subseteq Nat /\ Cutoffs \subseteq Nat

VARIABLES
  layout,    \* relkind of the table
  trigger,   \* the delete trigger in the committed catalog
  rule,      \* the delete rule in the committed catalog
  rows,      \* the rows of the table
  written,   \* every row ever committed to it
  attached,  \* the months that have a partition
  archived,  \* the months whose partition was detached and still exists
  now,       \* the clock of the database
  inst, prune, ens  \* the progress of the calls

catalog == <<layout, trigger, rule, attached, archived>>
calls   == <<inst, prune, ens>>
vars    == <<catalog, rows, written, now, calls>>

Month(t) == t \div 2
End(m)   == 2 * (m + 1)  \* the exclusive upper bound of a partition
Exists   == attached \cup archived

(* Mutant: the rule is dropped last.                                       *)
TriggerStatementsRuleLast ==
  << [do |-> "drop", arg |-> "trigger"], [do |-> "create", arg |-> "trigger"],
     [do |-> "drop", arg |-> "rule"] >>

TriggerStatements ==
  << [do |-> "drop", arg |-> "rule"], [do |-> "drop", arg |-> "trigger"],
     [do |-> "create", arg |-> "trigger"] >>

RuleStatements ==
  << [do |-> "drop", arg |-> "trigger"], [do |-> "create", arg |-> "rule"] >>

PartitionStatements(m) ==
  << [do |-> "partition", arg |-> m], [do |-> "partition", arg |-> m + 1] >>

(* The statements of a schema, those that concern deletion and partitions. *)
Statements(mode, part, m) ==
  << [do |-> "table", arg |-> IF part THEN "partitioned" ELSE "flat"] >>
    \o (IF mode = "rule" THEN RuleStatements ELSE TriggerStatements)
    \o (IF part THEN PartitionStatements(m) ELSE <<>>)

NoInstall == [pc |-> "idle", mode |-> "none", todo |-> <<>>]
NoEnsure  == [pc |-> "idle", plan |-> {}, todo |-> {}]
NoPrune   == [pc |-> "idle", mode |-> "none", cutoff |-> 0, dry |-> FALSE, seen |-> {},
              todo |-> {}, report |-> {}, took |-> {},
              guard |-> "none", off |-> FALSE, pending |-> {}, lock |-> "none"]

(* Nothing yet, or a table that an earlier version has set up, with the    *)
(* partitions of the months so far.                                        *)
Init ==
  /\ \/ layout = "none" /\ trigger = "none" /\ rule = FALSE
     \/ layout \in Layouts /\ trigger = "enabled" /\ rule = FALSE
     \/ layout \in Layouts /\ trigger = "none" /\ rule = TRUE
  /\ attached = IF layout = "partitioned" THEN 0 .. Month(Start) ELSE {}
  /\ archived = {} /\ rows = {} /\ written = {} /\ now = Start
  /\ inst = [i \in Calls |-> NoInstall]
  /\ prune = [p \in Calls |-> NoPrune]
  /\ ens = [e \in Calls |-> NoEnsure]

(* A call that has not begun.                                              *)
Fresh(c) == inst[c].pc = "idle" /\ prune[c].pc = "idle" /\ ens[c].pc = "idle"

(* ACCESS EXCLUSIVE and SHARE ROW EXCLUSIVE wait for every writer of the   *)
(* table; writers wait for them.                                           *)
DdlFree(p) == \A q \in Calls \ {p} : prune[q].lock = "none"
DmlFree(p) == \A q \in Calls \ {p} : prune[q].lock # "strong"

-----------------------------------------------------------------------------
(* applyAuditTableSchema                                                   *)

(* The statements are made, with the months of their partitions, first.    *)
StartInstall(i) ==
  /\ Fresh(i)
  /\ \E mode \in Modes, kind \in Layouts :
       inst' = [inst EXCEPT ![i] =
         [pc |-> IF kind = "partitioned" THEN "check" ELSE "run", mode |-> mode,
          todo |-> Statements(mode, kind = "partitioned", Month(now))]]
  /\ UNCHANGED <<catalog, rows, written, now, prune, ens>>

(* A flat table is not turned into a partitioned one.                      *)
CheckRelkind(i) ==
  /\ inst[i].pc = "check"
  /\ inst' = [inst EXCEPT ![i] = IF layout = "flat" THEN [NoInstall EXCEPT !.pc = "refused"]
                                 ELSE [@ EXCEPT !.pc = "run"]]
  /\ UNCHANGED <<catalog, rows, written, now, prune, ens>>

CreateTable(s) ==
  /\ s.do = "table"
  /\ layout' = IF layout = "none" THEN s.arg ELSE layout
  /\ UNCHANGED <<trigger, rule, attached, archived>>

(* DROP ... IF EXISTS, CREATE TRIGGER and CREATE RULE; a trigger that is   *)
(* there already is an error, a rule is not.                               *)
Enforce(s) ==
  /\ \/ s = [do |-> "drop", arg |-> "rule"] /\ rule' = FALSE /\ UNCHANGED trigger
     \/ s = [do |-> "drop", arg |-> "trigger"] /\ trigger' = "none" /\ UNCHANGED rule
     \/ s = [do |-> "create", arg |-> "rule"] /\ rule' = TRUE /\ UNCHANGED trigger
     \/ /\ s = [do |-> "create", arg |-> "trigger"]
        /\ trigger = "none" /\ trigger' = "enabled" /\ UNCHANGED rule
  /\ UNCHANGED <<layout, attached, archived>>

(* Mutant: a detached partition of that name is not noticed.               *)
PartitionBesideArchive(m) ==
  /\ layout = "partitioned"
  /\ attached' = attached \cup {m}
  /\ UNCHANGED <<layout, trigger, rule, archived>>

(* CREATE TABLE IF NOT EXISTS ... PARTITION OF: any table of that name     *)
(* will do.                                                                *)
Partition(m) ==
  /\ layout = "partitioned"
  /\ attached' = IF m \in Exists THEN attached ELSE attached \cup {m}
  /\ UNCHANGED <<layout, trigger, rule, archived>>

ExecStatement(i) ==
  LET s == Head(inst[i].todo)
  IN  /\ inst[i].pc = "run" /\ inst[i].todo # <<>>
      /\ \A q \in Calls : prune[q].lock = "none"
      /\ CreateTable(s) \/ Enforce(s) \/ (s.do = "partition" /\ Partition(s.arg))
      /\ inst' = [inst EXCEPT ![i].todo = Tail(@),
                              ![i].pc = IF Len(inst[i].todo) = 1 THEN "done" ELSE @]
      /\ UNCHANGED <<rows, written, now, prune, ens>>

(* A statement is refused, or the process dies between two of them.        *)
InstallFails(i) ==
  /\ inst[i].pc \in {"check", "run"}
  /\ inst' = [inst EXCEPT ![i].pc = IF @ = "check" THEN "refused" ELSE "failed",
                          ![i].todo = <<>>]
  /\ UNCHANGED <<catalog, rows, written, now, prune, ens>>

-----------------------------------------------------------------------------
(* ensurePartitions                                                        *)

PlanFrom(ahead) == Month(now) .. (Month(now) + ahead)

StartEnsure(e) ==
  /\ Fresh(e)
  /\ \E ahead \in Aheads :
       ens' = [ens EXCEPT ![e] =
         IF layout = "partitioned"
           THEN [pc |-> "look", plan |-> PlanFrom(ahead), todo |-> PlanFrom(ahead)]
           ELSE [NoEnsure EXCEPT !.pc = "failed"]]
  /\ UNCHANGED <<catalog, rows, written, now, inst, prune>>

Earliest(S) == CHOOSE m \in S : \A n \in S : m <= n

Ensured(e, m) ==
  [ens[e] EXCEPT !.todo = @ \ {m}, !.pc = IF ens[e].todo = {m} THEN "done" ELSE "look"]

(* to_regclass: a table of that name exists, or is to be created.          *)
LookPartition(e) ==
  LET m == Earliest(ens[e].todo)
  IN  /\ ens[e].pc = "look"
      /\ ens' = [ens EXCEPT ![e] = IF m \in Exists THEN Ensured(e, m)
                                   ELSE [@ EXCEPT !.pc = "create"]]
      /\ UNCHANGED <<catalog, rows, written, now, inst, prune>>

(* A duplicate, met by a statement that has lost the race, is no error.    *)
CreatePartition(e) ==
  LET m == Earliest(ens[e].todo)
  IN  /\ ens[e].pc = "create"
      /\ Partition(m)
      /\ ens' = [ens EXCEPT ![e] = Ensured(e, m)]
      /\ UNCHANGED <<rows, written, now, inst, prune>>

EnsureFails(e) ==
  /\ ens[e].pc \in {"look", "create"}
  /\ ens' = [ens EXCEPT ![e] = [NoEnsure EXCEPT !.pc = "failed"]]
  /\ UNCHANGED <<catalog, rows, written, now, inst, prune>>

-----------------------------------------------------------------------------
(* prune                                                                   *)

(* Retention cuts off at some instant of the past, an assumption about its *)
(* callers: any date would do.                                             *)
StartPrune(p) ==
  /\ Fresh(p)
  /\ \E cutoff \in {c \in Cutoffs : c <= now}, mode \in {"drop", "detach"}, dry \in BOOLEAN :
       prune' = [prune EXCEPT ![p] = [NoPrune EXCEPT
         !.pc = CASE layout = "none" -> "failed"
                  [] layout = "partitioned" -> "list"
                  [] OTHER -> IF dry THEN "done" ELSE "trigger",
         !.cutoff = cutoff, !.dry = dry, !.seen = {r \in rows : r < cutoff},
         !.mode = IF layout = "partitioned" THEN mode ELSE "none"]]
  /\ UNCHANGED <<catalog, rows, written, now, inst, ens>>

(* Mutant: the error does not name the partitions already pruned.          *)
FailedUnnamed(p, unanswered) ==
  [NoPrune EXCEPT !.pc = "failed", !.took = prune[p].took \cup unanswered]

(* What is left of a prune that throws: its error names the partitions it  *)
(* has pruned; its transaction, if it has one, is rolled back.             *)
Failed(p, unanswered) ==
  [NoPrune EXCEPT !.pc = "failed", !.report = prune[p].report,
                  !.took = prune[p].took \cup unanswered]

(* Mutant: the lower bound is compared.                                    *)
ListByLowerBound(p) ==
  LET targets == {m \in attached : 2 * m <= prune[p].cutoff}
  IN  /\ prune[p].pc = "list"
      /\ prune' = [prune EXCEPT
           ![p].pc = IF prune[p].dry \/ targets = {} THEN "done" ELSE "remove",
           ![p].todo = IF prune[p].dry THEN {} ELSE targets,
           ![p].report = IF prune[p].dry THEN targets ELSE {}]
      /\ UNCHANGED <<catalog, rows, written, now, inst, ens>>

(* The partitions whose upper bound is not after the cutoff.               *)
ListPartitions(p) ==
  LET targets == {m \in attached : End(m) <= prune[p].cutoff}
  IN  /\ prune[p].pc = "list"
      /\ prune' = [prune EXCEPT
           ![p].pc = IF prune[p].dry \/ targets = {} THEN "done" ELSE "remove",
           ![p].todo = IF prune[p].dry THEN {} ELSE targets,
           ![p].report = IF prune[p].dry THEN targets ELSE {}]
      /\ UNCHANGED <<catalog, rows, written, now, inst, ens>>

(* DROP TABLE, or ALTER TABLE ... DETACH PARTITION, of the next target.    *)
(* DROP finds a partition that another prune has detached, too.            *)
Remove(p, m) ==
  /\ m \in (IF prune[p].mode = "drop" THEN Exists ELSE attached)
  /\ attached' = attached \ {m}
  /\ archived' = IF prune[p].mode = "drop" THEN archived \ {m} ELSE archived \cup {m}
  /\ rows' = {r \in rows : Month(r) # m \/ m \notin attached}
  /\ UNCHANGED <<layout, trigger, rule>>

RemovePartition(p) ==
  /\ prune[p].pc = "remove"
  /\ \E m \in prune[p].todo :
       /\ Remove(p, m)
       /\ prune' = [prune EXCEPT ![p].todo = @ \ {m}, ![p].took = @ \cup {m},
                      ![p].report = @ \cup {m},
                      ![p].pc = IF prune[p].todo = {m} THEN "done" ELSE @]
  /\ UNCHANGED <<written, now, inst, ens>>

(* The statement fails, or its success is not answered.                    *)
RemoveFails(p) ==
  /\ prune[p].pc = "remove"
  /\ \E m \in prune[p].todo :
       \/ /\ prune' = [prune EXCEPT ![p] = Failed(p, {})]
          /\ UNCHANGED <<catalog, rows>>
       \/ /\ Remove(p, m)
          /\ prune' = [prune EXCEPT ![p] = Failed(p, {m})]
  /\ UNCHANGED <<written, now, inst, ens>>

(* Mutant: only the trigger is looked for.                                 *)
LookTriggerOnly(p) ==
  /\ prune[p].pc = "trigger"
  /\ prune' = [prune EXCEPT
       ![p].guard = IF trigger = "none" THEN "none" ELSE "trigger",
       ![p].pc = IF trigger = "none" THEN "delete" ELSE "disable"]
  /\ UNCHANGED <<catalog, rows, written, now, inst, ens>>

LookTrigger(p) ==
  /\ prune[p].pc = "trigger"
  /\ prune' = [prune EXCEPT
       ![p].guard = IF trigger = "none" THEN "none" ELSE "trigger",
       ![p].pc = IF trigger = "none" THEN "rule" ELSE "disable"]
  /\ UNCHANGED <<catalog, rows, written, now, inst, ens>>

LookRule(p) ==
  /\ prune[p].pc = "rule"
  /\ prune' = [prune EXCEPT ![p].guard = IF rule THEN "rule" ELSE "none",
                            ![p].pc = IF rule THEN "disable" ELSE "delete"]
  /\ UNCHANGED <<catalog, rows, written, now, inst, ens>>

(* Mutant: the trigger is disabled by a statement outside the transaction. *)
DisableOutside(p) ==
  /\ prune[p].pc = "disable" /\ DdlFree(p)
  /\ IF prune[p].guard = "trigger" THEN trigger # "none" ELSE rule
  /\ trigger' = IF prune[p].guard = "trigger" THEN "disabled" ELSE trigger
  /\ rule' = (rule /\ prune[p].guard = "trigger")
  /\ prune' = [prune EXCEPT ![p].pc = "delete"]
  /\ UNCHANGED <<layout, attached, archived, rows, written, now, inst, ens>>

(* DISABLE TRIGGER or DROP RULE, in the transaction: it takes the table    *)
(* from every writer, and needs what was looked up to be there still.      *)
Disable(p) ==
  /\ prune[p].pc = "disable" /\ DdlFree(p)
  /\ IF prune[p].guard = "trigger" THEN trigger # "none" ELSE rule
  /\ prune' = [prune EXCEPT ![p].off = TRUE, ![p].lock = "strong", ![p].pc = "delete"]
  /\ UNCHANGED <<catalog, rows, written, now, inst, ens>>

(* What the transaction sees: its own DDL, and the committed catalog.      *)
RuleOn(p)    == rule /\ ~(prune[p].off /\ prune[p].guard = "rule")
TriggerOn(p) == trigger = "enabled" /\ ~(prune[p].off /\ prune[p].guard = "trigger")
Old(p)       == {r \in rows : r < prune[p].cutoff}

(* DELETE: a rule turns it into nothing, a trigger refuses the first row.  *)
Delete(p) ==
  /\ prune[p].pc = "delete" /\ DmlFree(p)
  /\ \A q \in Calls \ {p} : prune[q].pending = {}
  /\ RuleOn(p) \/ ~TriggerOn(p) \/ Old(p) = {}
  /\ prune' = [prune EXCEPT
       ![p].pending = IF RuleOn(p) THEN {} ELSE Old(p),
       ![p].lock = IF @ = "none" THEN "row" ELSE @,
       ![p].pc = IF prune[p].guard = "none" THEN "commit" ELSE "enable"]
  /\ UNCHANGED <<catalog, rows, written, now, inst, ens>>

Enable(p) ==
  /\ prune[p].pc = "enable"
  /\ prune' = [prune EXCEPT ![p].off = FALSE, ![p].pc = "commit"]
  /\ UNCHANGED <<catalog, rows, written, now, inst, ens>>

(* COMMIT makes the deletion and the state of the enforcement visible; its *)
(* answer may be lost.                                                     *)
CommitPrune(p) ==
  LET off(g) == prune[p].off /\ prune[p].guard = g
  IN  /\ prune[p].pc = "commit"
      /\ rows' = rows \ prune[p].pending
      /\ trigger' = IF off("trigger") THEN "disabled" ELSE trigger
      /\ rule' = (rule /\ ~off("rule"))
      /\ \E answer \in {"done", "failed"} :
           prune' = [prune EXCEPT ![p] = IF answer = "failed" THEN Failed(p, {}) ELSE
             [NoPrune EXCEPT !.pc = "done", !.cutoff = prune[p].cutoff, !.seen = prune[p].seen]]
      /\ UNCHANGED <<layout, attached, archived, written, now, inst, ens>>

(* A statement fails, the transaction times out or the process dies.       *)
PruneFails(p) ==
  /\ prune[p].pc \in {"list", "trigger", "rule", "disable", "delete", "enable", "commit"}
  /\ prune' = [prune EXCEPT ![p] = Failed(p, {})]
  /\ UNCHANGED <<catalog, rows, written, now, inst, ens>>

-----------------------------------------------------------------------------
(* A transaction that began at most half a month ago writes an audit row.  *)
Insert ==
  \E r \in 0 .. now :
    /\ now <= r + 1
    /\ layout # "none" /\ \A q \in Calls : prune[q].lock # "strong"
    /\ layout = "partitioned" => Month(r) \in attached
    /\ r \notin written /\ Cardinality(written) < MaxRows
    /\ rows' = rows \cup {r} /\ written' = written \cup {r}
    /\ UNCHANGED <<catalog, now, calls>>

(* The application issues DELETE on the table.                             *)
AppDelete ==
  /\ \A q \in Calls : prune[q].lock # "strong"
  /\ trigger # "enabled" /\ ~rule
  /\ \E r \in rows : rows' = rows \ {r}
  /\ UNCHANGED <<catalog, written, now, calls>>

Tick ==
  /\ now < MaxTime /\ now' = now + 1
  /\ UNCHANGED <<catalog, rows, written, calls>>

InstallStep(i) == StartInstall(i) \/ CheckRelkind(i) \/ ExecStatement(i) \/ InstallFails(i)
EnsureStep(e)  == StartEnsure(e) \/ LookPartition(e) \/ CreatePartition(e) \/ EnsureFails(e)
PruneStep(p) ==
  \/ StartPrune(p) \/ ListPartitions(p) \/ RemovePartition(p) \/ RemoveFails(p)
  \/ LookTrigger(p) \/ LookRule(p) \/ Disable(p) \/ Delete(p) \/ Enable(p)
  \/ CommitPrune(p) \/ PruneFails(p)

Next ==
  \/ \E c \in Calls : InstallStep(c) \/ EnsureStep(c) \/ PruneStep(c)
  \/ Insert \/ AppDelete \/ Tick

Spec == Init /\ [][Next]_vars
-----------------------------------------------------------------------------
Instants == 0 .. MaxTime
Months   == SUBSET Nat

(* Types; a partition is attached or stands alone, a flat table has none.  *)
TypeOK ==
  /\ layout \in {"none", "flat", "partitioned"}
  /\ trigger \in {"none", "enabled", "disabled"} /\ rule \in BOOLEAN
  /\ rows \subseteq written /\ written \subseteq Instants /\ now \in Instants
  /\ attached \in Months /\ archived \in Months /\ attached \cap archived = {}
  /\ layout # "partitioned" => Exists = {}
  /\ layout = "partitioned" => \A r \in rows : Month(r) \in attached
  /\ \A p \in Calls : prune[p].took \cup prune[p].report \in Months

(* An installation has completed, and none is under way or was cut short.  *)
Installed ==
  /\ \E i \in Calls : inst[i].pc = "done"
  /\ \A i \in Calls : inst[i].pc \notin {"run", "failed"}

(* Whatever calls of applyAuditTableSchema overlap, in whatever modes, and *)
(* whatever prunes run beside them, commit or fail, the table blocks       *)
(* deletion once they are over: no two of them undo each other's work.     *)
EnforcementInstalled == Installed => trigger = "enabled" \/ rule

(* On an installed table nothing but retention removes a row, and only a   *)
(* row older than its cutoff, although retention switches the enforcement  *)
(* off and drops whole partitions.                                         *)
AppendOnly ==
  [][Installed => \A r \in rows \ rows' :
       \E p \in Calls : prune'[p] # prune[p] /\ r < prune[p].cutoff]_vars

(* A prune that succeeds on a table whose enforcement is by trigger has    *)
(* removed every old row that was there when it began: no DELETE that an   *)
(* enforcement has swallowed is reported as a success.                     *)
PruneComplete ==
  \A p \in Calls :
    (prune[p].pc = "done" /\ ~prune[p].dry /\ \A i \in Calls : inst[i].mode # "rule") =>
      \A r \in prune[p].seen \cap rows :
        (IF layout = "partitioned" THEN End(Month(r)) ELSE r + 1) > prune[p].cutoff

(* The partitions prune reports as pruned are gone by its own doing, also  *)
(* in the message of a failure, which omits at most the one it failed at.  *)
ReportHonest ==
  \A p \in Calls : prune[p].pc \in {"done", "failed"} /\ ~prune[p].dry =>
    /\ prune[p].report \subseteq prune[p].took
    /\ Cardinality(prune[p].took \ prune[p].report) <= 1
    /\ prune[p].pc = "done" => prune[p].took = prune[p].report

(* Once ensurePartitions has returned, rows stamped within the months it   *)
(* was asked for find their partition, whoever else creates or prunes.     *)
InsertsRouted ==
  \A e \in Calls : ens[e].pc = "done" =>
    \A m \in ens[e].plan : m >= Month(now) => m \in attached
=============================================================================
