------------------------- MODULE AuditTableProofs --------------------------
(***************************************************************************)
(* Proofs about AuditTable, for any number of maintenance calls, any       *)
(* instants and any bound on the rows.  The invariant says what is left of *)
(* each call: the statements of an installation, the months of a prune and *)
(* what it has seen, the months ensurePartitions has dealt with.           *)
(***************************************************************************)
EXTENDS AuditTable, FiniteSetTheorems, NaturalsInduction, TLAPS

-----------------------------------------------------------------------------
(* Types                                                                   *)

Statement ==
  [do : {"table"}, arg : {"flat", "partitioned"}]
    \cup [do : {"drop", "create"}, arg : {"trigger", "rule"}]
    \cup [do : {"partition"}, arg : Nat]

InstRec ==
  [pc : {"idle", "check", "run", "done", "refused", "failed"},
   mode : {"none", "trigger", "rule"}, todo : Seq(Statement)]

EnsRec ==
  [pc : {"idle", "look", "create", "done", "failed"}, plan : SUBSET Nat, todo : SUBSET Nat]

PruneRec ==
  [pc : {"idle", "list", "remove", "trigger", "rule", "disable", "delete", "enable", "commit",
         "done", "failed"},
   mode : {"none", "drop", "detach"}, cutoff : Nat, dry : BOOLEAN, seen : SUBSET Nat,
   todo : SUBSET Nat, report : SUBSET Nat, took : SUBSET Nat,
   guard : {"none", "trigger", "rule"}, off : BOOLEAN, pending : SUBSET Nat,
   lock : {"none", "row", "strong"}]

(* The catalog and the rows; a trigger is never left disabled.             *)
TableInv ==
  /\ layout \in {"none", "flat", "partitioned"}
  /\ trigger \in {"none", "enabled"} /\ rule \in BOOLEAN
  /\ rows \subseteq written /\ written \subseteq Instants /\ now \in Instants
  /\ attached \subseteq Nat /\ archived \subseteq Nat /\ attached \cap archived = {}
  /\ layout # "partitioned" => attached = {} /\ archived = {}
  /\ layout = "partitioned" => \A r \in rows : Month(r) \in attached
  /\ layout = "none" => rows = {}

CallTypes ==
  /\ inst \in [Calls -> InstRec]
  /\ ens \in [Calls -> EnsRec]
  /\ prune \in [Calls -> PruneRec]

-----------------------------------------------------------------------------
(* The statements an installation has still to execute.                    *)

Has(s, do)    == \E j \in 1 .. Len(s) : s[j].do = do
DropRule      == [do |-> "drop", arg |-> "rule"]
CreateTrigger == [do |-> "create", arg |-> "trigger"]
CreateRule    == [do |-> "create", arg |-> "rule"]

(* Every DROP is followed by a CREATE.                                     *)
DropsFollowed(s) ==
  \A j \in 1 .. Len(s) : s[j].do = "drop" => \E k \in j + 1 .. Len(s) : s[k].do = "create"

(* Once the trigger is to be created the rule has been dropped.            *)
RuleFirst(s) ==
  \A j \in 1 .. Len(s) : s[j] = CreateTrigger => \A k \in j + 1 .. Len(s) : s[k] # DropRule

InstallOne(r) ==
  /\ r.pc = "idle" => r.mode = "none"
  /\ r.pc \in {"check", "run"} =>
       /\ r.mode # "none"
       /\ DropsFollowed(r.todo) /\ RuleFirst(r.todo)
       /\ r.mode = "trigger" => \A j \in 1 .. Len(r.todo) : r.todo[j] # CreateRule
  /\ r.pc = "check" =>
       /\ Has(r.todo, "create")
       /\ r.mode = "trigger" => \E j \in 1 .. Len(r.todo) : r.todo[j] = DropRule

Creating(r) == r.pc = "run" /\ Has(r.todo, "create")

(* Deletion is blocked, or somebody is about to block it, or has failed.   *)
EnforcementInv ==
  \/ trigger = "enabled" \/ rule
  \/ \E i \in Calls : inst[i].pc = "failed" \/ Creating(inst[i])
  \/ \A i \in Calls : inst[i].pc \in {"idle", "check", "refused"}

(* No statement of an installation in rule mode has been executed.         *)
NoRuleRun == \A i \in Calls : inst[i].mode = "rule" => inst[i].pc \in {"check", "refused"}

(* Then the rule is gone once a trigger is there or about to be created.   *)
RuleGone ==
  NoRuleRun =>
    /\ trigger = "enabled" => ~rule
    /\ \A i \in Calls :
         inst[i].pc = "run" /\ (\A j \in 1 .. Len(inst[i].todo) : inst[i].todo[j] # DropRule)
           => ~rule

-----------------------------------------------------------------------------
(* What a prune remembers: r its record, n the time, y the layout, s the   *)
(* rows and w all that were ever written.                                  *)

Flat == {"trigger", "rule", "disable", "delete", "enable", "commit"}

PruneShape(r) ==
  /\ r.pc = "commit" => ~r.off
  /\ r.pc \in {"trigger", "rule"} => r.guard = "none"
  /\ r.pc \in {"disable", "enable"} => r.guard # "none"
  /\ r.pc \in {"delete", "enable"} /\ r.guard # "none" => r.off
  /\ r.guard = "none" => ~r.off
  /\ r.pc \in {"list"} \cup Flat => r.took = {} /\ r.report = {}
  /\ r.pc = "remove" => r.took = r.report
  /\ r.pc \in {"remove"} \cup Flat => ~r.dry
  /\ r.pc = "done" /\ ~r.dry => r.took = r.report
  /\ r.pc = "failed" => r.report \subseteq r.took /\ Cardinality(r.took \ r.report) <= 1

PruneTime(r, n) ==
  /\ r.cutoff <= n
  /\ \A m \in r.todo : End(m) <= r.cutoff
  /\ \A x \in r.pending \cup r.seen : x < r.cutoff

PruneRows(r, y, s, w) ==
  /\ r.seen \subseteq w
  /\ r.pc \in {"list", "remove"} => y = "partitioned"
  /\ r.pc \in Flat => y = "flat"
  /\ r.pc = "done" /\ ~r.dry => y # "none"
  /\ r.pc = "remove" => \A x \in r.seen \cap s : End(Month(x)) <= r.cutoff => Month(x) \in r.todo
  /\ r.pc = "done" /\ ~r.dry /\ y = "partitioned" =>
       \A x \in r.seen \cap s : End(Month(x)) > r.cutoff

(* While no rule is put in its way a flat prune finds all it has seen.     *)
PruneFinds(r, y, s, on) ==
  /\ r.pc \in {"disable", "delete", "enable", "commit"} /\ r.guard # "rule" => ~on
  /\ r.pc \in {"enable", "commit"} => r.seen \cap s \subseteq r.pending
  /\ r.pc = "done" /\ ~r.dry /\ y = "flat" => r.seen \cap s = {}

PruneInv ==
  \A p \in Calls : /\ PruneShape(prune[p])
                   /\ PruneTime(prune[p], now)
                   /\ PruneRows(prune[p], layout, rows, written)
                   /\ NoRuleRun => PruneFinds(prune[p], layout, rows, rule)

-----------------------------------------------------------------------------
(* What ensurePartitions has dealt with is there, unless its month is over *)
(* - the only months retention takes, or leaves as archives.               *)
EnsureOne(r, n, a) ==
  /\ r.pc \in {"look", "create"} => r.todo # {}
  /\ r.pc \in {"look", "create", "done"} => \A m \in r.plan \ r.todo : m >= Month(n) => m \in a
  /\ r.pc = "done" => r.todo = {}

EnsureInv ==
  /\ \A m \in archived : m < Month(now)
  /\ \A e \in Calls : EnsureOne(ens[e], now, attached)

InstallInv == \A i \in Calls : InstallOne(inst[i])

IInv ==
  /\ TableInv /\ CallTypes /\ InstallInv /\ EnforcementInv /\ RuleGone /\ PruneInv /\ EnsureInv

-----------------------------------------------------------------------------
(* A list of statements without its first one.                             *)
LEMMA TailElements ==
  ASSUME NEW S, NEW s \in Seq(S), s # <<>>
  PROVE  /\ Head(s) = s[1] /\ Head(s) \in S /\ Tail(s) \in Seq(S)
         /\ Len(s) \in Nat /\ Len(s) >= 1 /\ Len(Tail(s)) = Len(s) - 1
         /\ \A j \in 1 .. Len(Tail(s)) : Tail(s)[j] = s[j + 1]
OBVIOUS

(* The elements of two lists in a row.                                     *)
LEMMA ConcatElements ==
  ASSUME NEW S, NEW s \in Seq(S), NEW t \in Seq(S)
  PROVE  /\ s \o t \in Seq(S) /\ Len(s \o t) = Len(s) + Len(t)
         /\ Len(s) \in Nat /\ Len(t) \in Nat
         /\ \A j \in 1 .. Len(s) : (s \o t)[j] = s[j]
         /\ \A j \in Len(s) + 1 .. Len(s) + Len(t) : (s \o t)[j] = t[j - Len(s)]
OBVIOUS

(* The elements of three sequences put together.                           *)
LEMMA ConcatThree ==
  ASSUME NEW S, NEW t \in Seq(S), NEW e \in Seq(S), NEW p \in Seq(S), NEW s, s = t \o e \o p
  PROVE  /\ s \in Seq(S) /\ Len(s) = Len(t) + Len(e) + Len(p)
         /\ Len(t) \in Nat /\ Len(e) \in Nat /\ Len(p) \in Nat
         /\ \A j \in 1 .. Len(t) : s[j] = t[j]
         /\ \A j \in 1 .. Len(e) : s[Len(t) + j] = e[j]
         /\ \A j \in 1 .. Len(p) : s[Len(t) + Len(e) + j] = p[j]
<1> DEFINE u == t \o e
<1>1. /\ u \in Seq(S) /\ Len(u) = Len(t) + Len(e) /\ Len(t) \in Nat /\ Len(e) \in Nat
      /\ \A j \in 1 .. Len(t) : u[j] = t[j]
      /\ \A j \in Len(t) + 1 .. Len(t) + Len(e) : u[j] = e[j - Len(t)]
  BY ConcatElements
<1>2. s = u \o p
  OBVIOUS
<1> HIDE DEF u
<1>3. u \in Seq(S)
  BY <1>1
<1>4. /\ s \in Seq(S) /\ Len(s) = Len(u) + Len(p) /\ Len(u) \in Nat /\ Len(p) \in Nat
      /\ \A j \in 1 .. Len(u) : s[j] = u[j]
      /\ \A j \in Len(u) + 1 .. Len(u) + Len(p) : s[j] = p[j - Len(u)]
  BY ONLY <1>2, <1>3, ConcatElements, p \in Seq(S)
<1>5. ASSUME NEW j \in 1 .. Len(t) PROVE s[j] = t[j]
  BY ONLY <1>1, <1>4
<1>6. ASSUME NEW j \in 1 .. Len(e) PROVE s[Len(t) + j] = e[j]
  <2>1. /\ Len(t) + j \in Len(t) + 1 .. Len(t) + Len(e) /\ (Len(t) + j) - Len(t) = j
        /\ Len(t) + j \in 1 .. Len(u)
    BY <1>1
  <2>2. u[Len(t) + j] = e[j]
    BY <1>1, <2>1
  <2>3. QED
    BY <1>4, <2>1, <2>2
<1>7. ASSUME NEW j \in 1 .. Len(p) PROVE s[Len(t) + Len(e) + j] = p[j]
  <2>1. /\ Len(u) + j \in Len(u) + 1 .. Len(u) + Len(p) /\ (Len(u) + j) - Len(u) = j
        /\ Len(t) + Len(e) + j = Len(u) + j
    BY <1>1, <1>4
  <2>2. QED
    BY <1>4, <2>1
<1>8. Len(s) = Len(t) + Len(e) + Len(p)
  BY <1>1, <1>4
<1>9. QED
  BY <1>1, <1>4, <1>5, <1>6, <1>7, <1>8, Zenon

(* What the statements of a schema are, whatever is asked for.             *)
LEMMA SchemaStatements ==
  ASSUME NEW mode \in {"trigger", "rule"}, NEW part \in BOOLEAN, NEW m \in Nat
  PROVE  LET s == Statements(mode, part, m)
         IN  /\ s \in Seq(Statement)
             /\ DropsFollowed(s) /\ RuleFirst(s) /\ Has(s, "create")
             /\ mode = "trigger" => /\ \A j \in 1 .. Len(s) : s[j] # CreateRule
                                    /\ \E j \in 1 .. Len(s) : s[j] = DropRule
<1> DEFINE t == << [do |-> "table", arg |-> IF part THEN "partitioned" ELSE "flat"] >>
<1> DEFINE p == IF part THEN PartitionStatements(m) ELSE <<>>
<1> DEFINE s == Statements(mode, part, m)
<1>1. t \in Seq(Statement) /\ Len(t) = 1 /\ t[1].do = "table"
  BY DEF Statement
<1>2. /\ p \in Seq(Statement)
      /\ \A j \in 1 .. Len(p) : p[j].do = "partition"
  <2>1. CASE part
    <3>1. /\ p \in Seq(Statement) /\ Len(p) = 2
          /\ p[1].do = "partition" /\ p[2].do = "partition"
      BY <2>1 DEF PartitionStatements, Statement
    <3>2. QED
      BY <3>1
  <2>2. CASE ~part
    BY <2>2
  <2>3. QED
    BY <2>1, <2>2
<1>3. CASE mode = "rule"
  <2> DEFINE e == RuleStatements
  <2>1. e \in Seq(Statement) /\ Len(e) = 2 /\ e[1].do = "drop" /\ e[2] = CreateRule
        /\ e[1] # DropRule
    BY DEF RuleStatements, Statement, CreateRule, DropRule
  <2>2. s = t \o e \o p
    BY <1>3 DEF Statements
  <2> HIDE DEF s, t, e, p
  <2>3. /\ s \in Seq(Statement) /\ Len(s) = 3 + Len(p)
        /\ s[1] = t[1] /\ s[2] = e[1] /\ s[3] = e[2]
        /\ \A j \in 4 .. Len(s) : s[j] = p[j - 3]
    <3>1. t \in Seq(Statement) /\ e \in Seq(Statement) /\ p \in Seq(Statement)
      BY <1>1, <1>2, <2>1
    <3>2. /\ s \in Seq(Statement) /\ Len(s) = Len(t) + Len(e) + Len(p) /\ Len(p) \in Nat
          /\ \A j \in 1 .. Len(t) : s[j] = t[j]
          /\ \A j \in 1 .. Len(e) : s[Len(t) + j] = e[j]
          /\ \A j \in 1 .. Len(p) : s[Len(t) + Len(e) + j] = p[j]
      BY ONLY <2>2, <3>1, ConcatThree
    <3>3. Len(t) = 1 /\ Len(e) = 2
      BY <1>1, <2>1
    <3>4. ASSUME NEW j \in 4 .. Len(s) PROVE s[j] = p[j - 3]
      <4>1. j - 3 \in 1 .. Len(p) /\ j = Len(t) + Len(e) + (j - 3)
        BY <3>2, <3>3
      <4>2. QED
        BY <3>2, <4>1
    <3>5. QED
      BY <3>2, <3>3, <3>4
  <2>4. \A j \in 4 .. Len(s) : s[j].do = "partition"
    BY <1>2, <2>3
  <2>5. s[3].do = "create" /\ s[3] # CreateTrigger
    BY <2>1, <2>3 DEF CreateRule, CreateTrigger
  <2>6. /\ Len(s) \in Nat /\ Len(s) >= 3
        /\ \A j \in 1 .. Len(s) : j = 1 \/ j = 2 \/ j = 3 \/ j \in 4 .. Len(s)
    BY <1>2, <2>3
  <2>7. DropsFollowed(s)
    BY <1>1, <2>1, <2>3, <2>4, <2>5, <2>6 DEF DropsFollowed
  <2>8. RuleFirst(s)
    BY <1>1, <2>1, <2>3, <2>4, <2>5, <2>6 DEF RuleFirst, CreateTrigger
  <2>9. Has(s, "create")
    BY <2>5, <2>6 DEF Has
  <2>10. QED
    BY <1>3, <2>3, <2>7, <2>8, <2>9 DEF s
<1>4. CASE mode = "trigger"
  <2> DEFINE e == TriggerStatements
  <2>1. /\ e \in Seq(Statement) /\ Len(e) = 3
        /\ e[1] = DropRule /\ e[2].do = "drop" /\ e[3] = CreateTrigger
    BY DEF TriggerStatements, Statement, CreateTrigger, DropRule
  <2>2. s = t \o e \o p
    BY <1>4 DEF Statements
  <2> HIDE DEF s, t, e, p
  <2>3. /\ s \in Seq(Statement) /\ Len(s) = 4 + Len(p)
        /\ s[1] = t[1] /\ s[2] = e[1] /\ s[3] = e[2] /\ s[4] = e[3]
        /\ \A j \in 5 .. Len(s) : s[j] = p[j - 4]
    <3>1. t \in Seq(Statement) /\ e \in Seq(Statement) /\ p \in Seq(Statement)
      BY <1>1, <1>2, <2>1
    <3>2. /\ s \in Seq(Statement) /\ Len(s) = Len(t) + Len(e) + Len(p) /\ Len(p) \in Nat
          /\ \A j \in 1 .. Len(t) : s[j] = t[j]
          /\ \A j \in 1 .. Len(e) : s[Len(t) + j] = e[j]
          /\ \A j \in 1 .. Len(p) : s[Len(t) + Len(e) + j] = p[j]
      BY ONLY <2>2, <3>1, ConcatThree
    <3>3. Len(t) = 1 /\ Len(e) = 3
      BY <1>1, <2>1
    <3>4. ASSUME NEW j \in 5 .. Len(s) PROVE s[j] = p[j - 4]
      <4>1. j - 4 \in 1 .. Len(p) /\ j = Len(t) + Len(e) + (j - 4)
        BY <3>2, <3>3
      <4>2. QED
        BY <3>2, <4>1
    <3>5. QED
      BY <3>2, <3>3, <3>4
  <2>4. \A j \in 5 .. Len(s) : s[j].do = "partition"
    BY <1>2, <2>3
  <2>5. s[2].do = "drop" /\ s[3].do = "drop" /\ s[4].do = "create" /\ s[4] # CreateRule
    BY <2>1, <2>3 DEF CreateRule, CreateTrigger, DropRule
  <2>6. /\ Len(s) \in Nat /\ Len(s) >= 4
        /\ \A j \in 1 .. Len(s) : j = 1 \/ j = 2 \/ j = 3 \/ j = 4 \/ j \in 5 .. Len(s)
    BY <1>2, <2>3
  <2>7. DropsFollowed(s)
    BY <1>1, <2>3, <2>4, <2>5, <2>6 DEF DropsFollowed
  <2>8. RuleFirst(s)
    BY <1>1, <2>3, <2>4, <2>5, <2>6 DEF RuleFirst, CreateTrigger, DropRule
  <2>9. Has(s, "create")
    BY <2>5, <2>6 DEF Has
  <2>10. /\ \A j \in 1 .. Len(s) : s[j] # CreateRule
         /\ \E j \in 1 .. Len(s) : s[j] = DropRule
    <3>1. s[1].do # "create" /\ CreateRule.do = "create" /\ s[2] = DropRule
      BY <1>1, <2>1, <2>3 DEF CreateRule
    <3>2. QED
      BY <2>4, <2>5, <2>6, <3>1
  <2>11. QED
    BY <2>3, <2>7, <2>8, <2>9, <2>10 DEF s
<1>5. QED
  BY <1>3, <1>4

-----------------------------------------------------------------------------
(* Types of the calls                                                      *)

(* Instants and months are natural numbers.                                *)
LEMMA TimeTypes ==
  ASSUME TableInv
  PROVE  /\ now \in Nat /\ Month(now) \in Nat /\ rows \subseteq Nat /\ written \subseteq Nat
         /\ \A x \in Nat : Month(x) \in Nat /\ x < End(Month(x)) /\ 2 * Month(x) <= x
         /\ \A x, y \in Nat : x <= y => Month(x) <= Month(y)
<1>1. Instants \subseteq Nat
  BY TimeAssumption DEF Instants
<1>2. now \in Nat /\ rows \subseteq Nat /\ written \subseteq Nat
  BY <1>1 DEF TableInv
<1>3. \A x \in Nat : Month(x) \in Nat /\ x < End(Month(x)) /\ 2 * Month(x) <= x
  BY DEF Month, End
<1>4. \A x, y \in Nat : x <= y => Month(x) <= Month(y)
  BY DEF Month
<1>5. QED
  BY <1>2, <1>3, <1>4

(* A call that begins to install has the statements of its schema.         *)
LEMMA StartInstallEffect ==
  ASSUME TableInv, CallTypes, NEW i \in Calls, StartInstall(i)
  PROVE  /\ UNCHANGED <<catalog, rows, written, now, prune, ens>>
         /\ inst' \in [Calls -> InstRec] /\ \A q \in Calls : q # i => inst'[q] = inst[q]
         /\ inst[i].pc = "idle" /\ inst'[i].pc \in {"check", "run"}
         /\ inst'[i].mode \in {"trigger", "rule"}
         /\ \E part \in BOOLEAN, m \in Nat : inst'[i].todo = Statements(inst'[i].mode, part, m)
<1>1. PICK mode \in Modes, kind \in Layouts :
        inst' = [inst EXCEPT ![i] =
          [pc |-> IF kind = "partitioned" THEN "check" ELSE "run", mode |-> mode,
           todo |-> Statements(mode, kind = "partitioned", Month(now))]]
  BY DEF StartInstall
<1> DEFINE part == kind = "partitioned"
<1> DEFINE s == Statements(mode, part, Month(now))
<1> DEFINE first == IF kind = "partitioned" THEN "check" ELSE "run"
<1>2. mode \in {"trigger", "rule"} /\ part \in BOOLEAN /\ Month(now) \in Nat
  BY TimeTypes, ModesAssumption
<1>3. s \in Seq(Statement)
  BY <1>2, SchemaStatements
<1>4. inst' = [inst EXCEPT ![i] = [pc |-> first, mode |-> mode, todo |-> s]]
  BY <1>1
<1>5. first \in {"check", "run"}
  OBVIOUS
<1>6. \E q \in BOOLEAN, m \in Nat : s = Statements(mode, q, m)
  BY <1>2
<1> HIDE DEF s, first, part
<1>7. [pc |-> first, mode |-> mode, todo |-> s] \in InstRec
  BY <1>2, <1>3, <1>5 DEF InstRec
<1>8. inst' \in [Calls -> InstRec] /\ inst'[i] = [pc |-> first, mode |-> mode, todo |-> s]
  BY <1>4, <1>7 DEF CallTypes
<1>9. \A q \in Calls : q # i => inst'[q] = inst[q]
  BY <1>4 DEF CallTypes
<1>10. inst'[i].pc = first /\ inst'[i].mode = mode /\ inst'[i].todo = s
  BY <1>8
<1>11. QED
  BY <1>2, <1>5, <1>6, <1>8, <1>9, <1>10 DEF StartInstall, Fresh

(* An installation of partitions looks at the table first.                 *)
LEMMA CheckEffect ==
  ASSUME CallTypes, NEW i \in Calls, CheckRelkind(i)
  PROVE  /\ UNCHANGED <<catalog, rows, written, now, prune, ens>>
         /\ inst' \in [Calls -> InstRec] /\ \A q \in Calls : q # i => inst'[q] = inst[q]
         /\ inst[i].pc = "check"
         /\ \/ inst'[i].pc = "refused"
            \/ inst'[i].pc = "run" /\ inst'[i].mode = inst[i].mode /\ inst'[i].todo = inst[i].todo
<1>1. inst[i] \in InstRec /\ inst \in [Calls -> InstRec]
  BY DEF CallTypes
<1> DEFINE a == [NoInstall EXCEPT !.pc = "refused"]
<1> DEFINE b == [inst[i] EXCEPT !.pc = "run"]
<1>2. a \in InstRec /\ a.pc = "refused"
  <2>1. <<>> \in Seq(Statement)
    OBVIOUS
  <2>2. NoInstall \in InstRec
    BY <2>1 DEF NoInstall, InstRec
  <2>3. QED
    BY <2>2 DEF InstRec
<1>3. b \in InstRec /\ b.pc = "run" /\ b.mode = inst[i].mode /\ b.todo = inst[i].todo
  BY <1>1 DEF InstRec
<1>4. inst' = [inst EXCEPT ![i] = a] \/ inst' = [inst EXCEPT ![i] = b]
  BY <1>1 DEF CheckRelkind
<1> HIDE DEF a, b
<1>5. QED
  BY <1>1, <1>2, <1>3, <1>4 DEF CheckRelkind

(* A statement is executed, the first of those that are left.              *)
LEMMA ExecEffect ==
  ASSUME CallTypes, NEW i \in Calls, ExecStatement(i)
  PROVE  /\ UNCHANGED <<rows, written, now, prune, ens>>
         /\ \A q \in Calls : prune[q].lock = "none"
         /\ inst' \in [Calls -> InstRec] /\ \A q \in Calls : q # i => inst'[q] = inst[q]
         /\ inst[i].pc = "run" /\ inst[i].todo \in Seq(Statement) /\ inst[i].todo # <<>>
         /\ inst'[i].todo = Tail(inst[i].todo) /\ inst'[i].mode = inst[i].mode
         /\ inst'[i].pc = IF Len(inst[i].todo) = 1 THEN "done" ELSE "run"
         /\ LET s == inst[i].todo[1]
            IN  /\ s \in Statement
                /\ CreateTable(s) \/ Enforce(s) \/ (s.do = "partition" /\ Partition(s.arg))
<1>1. inst[i] \in InstRec /\ inst \in [Calls -> InstRec]
  BY DEF CallTypes
<1>2. /\ inst[i].pc = "run" /\ inst[i].todo # <<>> /\ \A q \in Calls : prune[q].lock = "none"
      /\ inst' = [inst EXCEPT ![i].todo = Tail(@),
                              ![i].pc = IF Len(inst[i].todo) = 1 THEN "done" ELSE @]
      /\ UNCHANGED <<rows, written, now, prune, ens>>
  BY DEF ExecStatement
<1>3. inst[i].todo \in Seq(Statement)
  BY <1>1 DEF InstRec
<1>4. /\ Tail(inst[i].todo) \in Seq(Statement) /\ Head(inst[i].todo) = inst[i].todo[1]
      /\ Head(inst[i].todo) \in Statement
  BY <1>2, <1>3, TailElements
<1> DEFINE next == IF Len(inst[i].todo) = 1 THEN "done" ELSE "run"
<1> DEFINE rest == Tail(inst[i].todo)
<1> DEFINE b == [inst[i] EXCEPT !.todo = rest, !.pc = next]
<1>5. inst' = [inst EXCEPT ![i] = b]
  BY <1>1, <1>2
<1>6. next \in {"done", "run"} /\ rest \in Seq(Statement)
  BY <1>4
<1> HIDE DEF next, rest
<1>7. b \in InstRec /\ b.todo = rest /\ b.mode = inst[i].mode /\ b.pc = next
  BY <1>1, <1>6 DEF InstRec
<1> HIDE DEF b
<1>8. /\ inst' \in [Calls -> InstRec] /\ inst'[i] = b
      /\ \A q \in Calls : q # i => inst'[q] = inst[q]
  BY <1>1, <1>5, <1>7
<1>9. LET s == Head(inst[i].todo)
      IN  CreateTable(s) \/ Enforce(s) \/ (s.do = "partition" /\ Partition(s.arg))
  BY DEF ExecStatement
<1>10. /\ inst'[i].todo = Tail(inst[i].todo) /\ inst'[i].mode = inst[i].mode
       /\ inst'[i].pc = IF Len(inst[i].todo) = 1 THEN "done" ELSE "run"
  BY <1>7, <1>8 DEF next, rest
<1>11. LET s == inst[i].todo[1]
       IN  /\ s \in Statement
           /\ CreateTable(s) \/ Enforce(s) \/ (s.do = "partition" /\ Partition(s.arg))
  BY <1>4, <1>9
<1>12. QED
  BY <1>2, <1>3, <1>8, <1>10, <1>11

(* A refused statement ends its call.                                      *)
LEMMA InstallFailsEffect ==
  ASSUME CallTypes, NEW i \in Calls, InstallFails(i)
  PROVE  /\ UNCHANGED <<catalog, rows, written, now, prune, ens>>
         /\ inst' \in [Calls -> InstRec] /\ \A q \in Calls : q # i => inst'[q] = inst[q]
         /\ \/ inst[i].pc = "check" /\ inst'[i].pc = "refused"
            \/ inst[i].pc = "run" /\ inst'[i].pc = "failed" /\ inst'[i].mode = inst[i].mode
<1>1. inst[i] \in InstRec /\ inst \in [Calls -> InstRec]
  BY DEF CallTypes
<1> DEFINE last == IF inst[i].pc = "check" THEN "refused" ELSE "failed"
<1> DEFINE b == [inst[i] EXCEPT !.pc = last, !.todo = <<>>]
<1>2. inst' = [inst EXCEPT ![i] = b] /\ inst[i].pc \in {"check", "run"}
  BY <1>1 DEF InstallFails
<1>3. last \in {"refused", "failed"}
  OBVIOUS
<1>4. (inst[i].pc = "check" /\ last = "refused") \/ (inst[i].pc = "run" /\ last = "failed")
  BY <1>2
<1> HIDE DEF last
<1>5. b \in InstRec /\ b.pc = last /\ b.mode = inst[i].mode
  <2>1. <<>> \in Seq(Statement)
    OBVIOUS
  <2>2. QED
    BY <1>1, <1>3, <2>1 DEF InstRec
<1> HIDE DEF b
<1>6. QED
  BY <1>1, <1>2, <1>4, <1>5 DEF InstallFails

-----------------------------------------------------------------------------
(* Installations                                                           *)

(* What is left of a list of statements after its first.                   *)
LEMMA TailKeeps ==
  ASSUME NEW s \in Seq(Statement), s # <<>>, DropsFollowed(s), RuleFirst(s)
  PROVE  /\ DropsFollowed(Tail(s)) /\ RuleFirst(Tail(s))
         /\ \A x : (\A j \in 1 .. Len(s) : s[j] # x) =>
                     /\ s[1] # x
                     /\ \A j \in 1 .. Len(Tail(s)) : Tail(s)[j] # x
         /\ \A x : s[1] # x /\ (\A j \in 1 .. Len(Tail(s)) : Tail(s)[j] # x)
                     => \A j \in 1 .. Len(s) : s[j] # x
         /\ Has(s, "create") /\ s[1].do # "create" => Has(Tail(s), "create")
         /\ s[1].do = "drop" => Has(Tail(s), "create")
         /\ Has(Tail(s), "create") => Len(s) # 1
         /\ s[1] = CreateTrigger => \A j \in 1 .. Len(Tail(s)) : Tail(s)[j] # DropRule
<1> DEFINE t == Tail(s)
<1>1. /\ Len(s) \in Nat /\ Len(s) >= 1 /\ Len(t) = Len(s) - 1
      /\ \A j \in 1 .. Len(t) : t[j] = s[j + 1]
  BY TailElements
<1> HIDE DEF t
<1>2. \A j \in 2 .. Len(s) : j - 1 \in 1 .. Len(t) /\ t[j - 1] = s[j]
  BY <1>1
<1>3. DropsFollowed(t)
  <2> SUFFICES ASSUME NEW j \in 1 .. Len(t), t[j].do = "drop"
               PROVE  \E k \in j + 1 .. Len(t) : t[k].do = "create"
    BY DEF DropsFollowed
  <2>1. j + 1 \in 1 .. Len(s) /\ s[j + 1].do = "drop"
    BY <1>1
  <2>2. PICK k \in j + 2 .. Len(s) : s[k].do = "create"
    BY <2>1 DEF DropsFollowed
  <2>3. k - 1 \in j + 1 .. Len(t) /\ t[k - 1].do = "create"
    BY <1>1, <1>2, <2>2
  <2>4. QED
    BY <2>3
<1>4. RuleFirst(t)
  <2> SUFFICES ASSUME NEW j \in 1 .. Len(t), t[j] = CreateTrigger, NEW k \in j + 1 .. Len(t)
               PROVE  t[k] # DropRule
    BY DEF RuleFirst
  <2>1. /\ j + 1 \in 1 .. Len(s) /\ s[j + 1] = CreateTrigger
        /\ k + 1 \in (j + 1) + 1 .. Len(s) /\ t[k] = s[k + 1]
    BY <1>1
  <2>2. QED
    BY <2>1 DEF RuleFirst
<1>5. \A x : (\A j \in 1 .. Len(s) : s[j] # x) =>
               s[1] # x /\ \A j \in 1 .. Len(t) : t[j] # x
  BY <1>1
<1>6. \A x : s[1] # x /\ (\A j \in 1 .. Len(t) : t[j] # x) => \A j \in 1 .. Len(s) : s[j] # x
  BY <1>1, <1>2
<1>7. Has(s, "create") /\ s[1].do # "create" => Has(t, "create")
  <2> SUFFICES ASSUME NEW j \in 1 .. Len(s), s[j].do = "create", s[1].do # "create"
               PROVE  Has(t, "create")
    BY DEF Has
  <2>1. j - 1 \in 1 .. Len(t) /\ t[j - 1].do = "create"
    BY <1>1, <1>2
  <2>2. QED
    BY <2>1 DEF Has
<1>8. s[1].do = "drop" => Has(t, "create")
  <2> SUFFICES ASSUME s[1].do = "drop" PROVE Has(t, "create")
    OBVIOUS
  <2>1. PICK k \in 2 .. Len(s) : s[k].do = "create"
    BY <1>1 DEF DropsFollowed
  <2>2. k - 1 \in 1 .. Len(t) /\ t[k - 1].do = "create"
    BY <1>2, <2>1
  <2>3. QED
    BY <2>2 DEF Has
<1>9. Has(t, "create") => Len(s) # 1
  BY <1>1 DEF Has
<1>10. s[1] = CreateTrigger => \A j \in 1 .. Len(t) : t[j] # DropRule
  BY <1>1 DEF RuleFirst
<1>11. QED
  BY <1>3, <1>4, <1>5, <1>6, <1>7, <1>8, <1>9, <1>10 DEF t

(* What is left of every installation stays in order.                      *)
LEMMA InstallKept ==
  ASSUME TableInv, CallTypes, InstallInv, NEW i \in Calls, InstallStep(i)
  PROVE  InstallInv'
<1>1. SUFFICES (\A q \in Calls : q # i => inst'[q] = inst[q]) /\ InstallOne(inst'[i])
  BY DEF InstallInv
<1>2. CASE StartInstall(i)
  <2>1. PICK part \in BOOLEAN, m \in Nat : inst'[i].todo = Statements(inst'[i].mode, part, m)
    BY <1>2, StartInstallEffect
  <2>2. /\ inst'[i].mode \in {"trigger", "rule"} /\ inst'[i].pc # "idle"
        /\ \A q \in Calls : q # i => inst'[q] = inst[q]
    BY <1>2, StartInstallEffect
  <2> DEFINE mode == inst'[i].mode
  <2> DEFINE s == Statements(mode, part, m)
  <2>3. mode \in {"trigger", "rule"}
    BY <2>2
  <2> HIDE DEF mode
  <2>4. /\ DropsFollowed(s) /\ RuleFirst(s) /\ Has(s, "create")
        /\ mode = "trigger" => /\ \A j \in 1 .. Len(s) : s[j] # CreateRule
                               /\ \E j \in 1 .. Len(s) : s[j] = DropRule
    BY <2>3, SchemaStatements
  <2>5. inst'[i].todo = s /\ inst'[i].mode = mode
    BY <2>1 DEF mode
  <2> HIDE DEF s
  <2>6. QED
    BY <2>2, <2>4, <2>5 DEF InstallOne
<1>3. CASE CheckRelkind(i)
  BY <1>3, CheckEffect DEF InstallInv, InstallOne
<1>4. CASE ExecStatement(i)
  <2> DEFINE s == inst[i].todo
  <2>1. /\ s \in Seq(Statement) /\ s # <<>> /\ inst[i].pc = "run"
        /\ inst'[i].todo = Tail(s) /\ inst'[i].mode = inst[i].mode
        /\ inst'[i].pc = "done" \/ inst'[i].pc = "run"
        /\ \A q \in Calls : q # i => inst'[q] = inst[q]
    BY <1>4, ExecEffect
  <2>2. /\ DropsFollowed(s) /\ RuleFirst(s) /\ inst[i].mode # "none"
        /\ inst[i].mode = "trigger" => \A j \in 1 .. Len(s) : s[j] # CreateRule
    BY <2>1 DEF InstallInv, InstallOne
  <2>3. /\ DropsFollowed(Tail(s)) /\ RuleFirst(Tail(s))
        /\ inst[i].mode = "trigger" => \A j \in 1 .. Len(Tail(s)) : Tail(s)[j] # CreateRule
    BY <2>1, <2>2, TailKeeps
  <2>4. QED
    BY <2>1, <2>2, <2>3 DEF InstallOne
<1>5. CASE InstallFails(i)
  BY <1>5, InstallFailsEffect DEF InstallOne
<1>6. QED
  BY <1>2, <1>3, <1>4, <1>5 DEF InstallStep

(* Only an installation changes the enforcement: a prune that commits has  *)
(* switched it on again.                                                   *)
LEMMA EnforcementFrame ==
  ASSUME TableInv, PruneInv, Next, \A i \in Calls : ~InstallStep(i)
  PROVE  inst' = inst /\ trigger' = trigger /\ rule' = rule
<1>1. CASE Insert \/ AppDelete \/ Tick
  BY <1>1 DEF Insert, AppDelete, Tick, catalog, calls
<1>2. CASE \E e \in Calls : EnsureStep(e)
  BY <1>2 DEF EnsureStep, StartEnsure, LookPartition, CreatePartition, EnsureFails, Partition,
              catalog
<1>3. ASSUME NEW p \in Calls, PruneStep(p)
      PROVE  inst' = inst /\ trigger' = trigger /\ rule' = rule
  <2>1. CASE CommitPrune(p)
    <3>1. ~prune[p].off /\ inst' = inst
      BY <2>1 DEF PruneInv, PruneShape, CommitPrune
    <3>2. trigger' = trigger
      BY <2>1, <3>1 DEF CommitPrune
    <3>3. rule' = (rule /\ ~(prune[p].off /\ prune[p].guard = "rule"))
      BY <2>1 DEF CommitPrune
    <3>4. rule' = rule
      BY <3>1, <3>3 DEF TableInv
    <3>5. QED
      BY <3>1, <3>2, <3>4
  <2>2. CASE ~CommitPrune(p)
    BY <1>3, <2>2 DEF PruneStep, StartPrune, ListPartitions, RemovePartition, RemoveFails,
       Remove, LookTrigger, LookRule, Disable, Delete, Enable, PruneFails, catalog
  <2>3. QED
    BY <2>1, <2>2
<1>4. QED
  BY <1>1, <1>2, <1>3 DEF Next

(* What a statement does to the enforcement.                               *)
LEMMA StatementEffect ==
  ASSUME NEW s \in Statement,
         CreateTable(s) \/ Enforce(s) \/ (s.do = "partition" /\ Partition(s.arg))
  PROVE  /\ s.do = "create" => trigger' = "enabled" \/ rule' = TRUE
         /\ s.do \notin {"create", "drop"} => trigger' = trigger /\ rule' = rule
         /\ s = CreateRule \/ rule' = FALSE \/ rule' = rule
         /\ s = DropRule => rule' = FALSE
         /\ \/ trigger' = trigger
            \/ trigger' = "none"
            \/ trigger' = "enabled" /\ s = CreateTrigger /\ rule' = rule
<1>1. CASE CreateTable(s)
  BY <1>1 DEF CreateTable, Statement, DropRule
<1>2. CASE Enforce(s)
  BY <1>2 DEF Enforce, CreateRule, DropRule, CreateTrigger
<1>3. CASE s.do = "partition" /\ Partition(s.arg)
  BY <1>3 DEF Partition, DropRule
<1>4. QED
  BY <1>1, <1>2, <1>3

(* Whatever fails, the table blocks deletion or a failed call tells of it. *)
LEMMA EnforcementStep ==
  ASSUME TableInv, CallTypes, InstallInv, PruneInv, EnforcementInv, Next
  PROVE  EnforcementInv'
<1>1. CASE \A i \in Calls : ~InstallStep(i)
  BY <1>1, EnforcementFrame DEF EnforcementInv
<1>2. ASSUME NEW i \in Calls, StartInstall(i) PROVE EnforcementInv'
  <2>1. /\ trigger' = trigger /\ rule' = rule /\ \A q \in Calls : q # i => inst'[q] = inst[q]
        /\ inst[i].pc = "idle" /\ inst'[i].pc \in {"check", "run"}
    BY <1>2, StartInstallEffect DEF catalog
  <2>2. PICK part \in BOOLEAN, m \in Nat : inst'[i].todo = Statements(inst'[i].mode, part, m)
    BY <1>2, StartInstallEffect
  <2> DEFINE mode == inst'[i].mode
  <2>3. mode \in {"trigger", "rule"}
    BY <1>2, StartInstallEffect
  <2>4. inst'[i].todo = Statements(mode, part, m)
    BY <2>2
  <2> HIDE DEF mode
  <2>5. Has(inst'[i].todo, "create")
    BY <2>3, <2>4, SchemaStatements
  <2>6. inst'[i].pc = "check" \/ Creating(inst'[i])
    BY <2>1, <2>5 DEF Creating
  <2>7. \A q \in Calls : inst[q].pc = "failed" \/ Creating(inst[q]) => inst'[q] = inst[q]
    BY <2>1 DEF Creating
  <2>8. QED
    BY <2>1, <2>6, <2>7 DEF EnforcementInv
<1>3. ASSUME NEW i \in Calls, CheckRelkind(i) PROVE EnforcementInv'
  <2>1. /\ trigger' = trigger /\ rule' = rule /\ \A q \in Calls : q # i => inst'[q] = inst[q]
        /\ inst[i].pc = "check"
        /\ inst'[i].pc = "refused" \/ (inst'[i].pc = "run" /\ inst'[i].todo = inst[i].todo)
    BY <1>3, CheckEffect DEF catalog
  <2>2. inst'[i].pc = "refused" \/ Creating(inst'[i])
    BY <2>1 DEF InstallInv, InstallOne, Creating
  <2>3. \A q \in Calls : inst[q].pc = "failed" \/ Creating(inst[q]) => inst'[q] = inst[q]
    BY <2>1 DEF Creating
  <2>4. QED
    BY <2>1, <2>2, <2>3 DEF EnforcementInv
<1>4. ASSUME NEW i \in Calls, ExecStatement(i) PROVE EnforcementInv'
  <2> DEFINE s == inst[i].todo
  <2>1. /\ s \in Seq(Statement) /\ s # <<>> /\ inst[i].pc = "run"
        /\ inst'[i].todo = Tail(s) /\ inst'[i].pc = IF Len(s) = 1 THEN "done" ELSE "run"
        /\ \A q \in Calls : q # i => inst'[q] = inst[q]
    BY <1>4, ExecEffect
  <2>2. s[1] \in Statement
    BY <2>1, TailElements
  <2>3. /\ s[1].do = "create" => trigger' = "enabled" \/ rule' = TRUE
        /\ s[1].do \notin {"create", "drop"} => trigger' = trigger /\ rule' = rule
    BY <1>4, <2>2, ExecEffect, StatementEffect
  <2>4. DropsFollowed(s) /\ RuleFirst(s)
    BY <2>1 DEF InstallInv, InstallOne
  <2>5. Has(Tail(s), "create") => Creating(inst'[i])
    BY <2>1, <2>4, TailKeeps DEF Creating
  <2>6. s[1].do = "drop" => Creating(inst'[i])
    BY <2>1, <2>4, <2>5, TailKeeps
  <2>7. Creating(inst[i]) /\ s[1].do # "create" => Creating(inst'[i])
    BY <2>1, <2>4, <2>5, TailKeeps DEF Creating
  <2>8. QED
    BY <2>1, <2>3, <2>6, <2>7 DEF EnforcementInv
<1>5. ASSUME NEW i \in Calls, InstallFails(i) PROVE EnforcementInv'
  <2>1. /\ trigger' = trigger /\ rule' = rule /\ \A q \in Calls : q # i => inst'[q] = inst[q]
        /\ \/ inst[i].pc = "check" /\ inst'[i].pc = "refused"
           \/ inst[i].pc = "run" /\ inst'[i].pc = "failed"
    BY <1>5, InstallFailsEffect DEF catalog
  <2>2. QED
    BY <2>1 DEF EnforcementInv, Creating
<1>6. QED
  BY <1>1, <1>2, <1>3, <1>4, <1>5 DEF InstallStep

(* A call in rule mode that has executed a statement keeps its mode.       *)
LEMMA NoRuleBack ==
  ASSUME TableInv, CallTypes, InstallInv, PruneInv, Next, NoRuleRun'
  PROVE  NoRuleRun /\ (rule' => rule)
<1>1. CASE \A i \in Calls : ~InstallStep(i)
  BY <1>1, EnforcementFrame DEF NoRuleRun
<1>2. ASSUME NEW i \in Calls, StartInstall(i) PROVE NoRuleRun /\ (rule' => rule)
  BY <1>2, StartInstallEffect DEF NoRuleRun, InstallInv, InstallOne, catalog
<1>3. ASSUME NEW i \in Calls, CheckRelkind(i) PROVE NoRuleRun /\ (rule' => rule)
  BY <1>3, CheckEffect DEF NoRuleRun, catalog
<1>4. ASSUME NEW i \in Calls, ExecStatement(i) PROVE NoRuleRun /\ (rule' => rule)
  <2> DEFINE s == inst[i].todo
  <2>1. /\ s \in Seq(Statement) /\ s # <<>> /\ inst[i].pc = "run" /\ inst'[i].mode = inst[i].mode
        /\ inst'[i].pc \notin {"check", "refused"}
        /\ \A q \in Calls : q # i => inst'[q] = inst[q]
    BY <1>4, ExecEffect
  <2>2. inst[i].mode # "rule"
    BY <2>1 DEF NoRuleRun
  <2>3. NoRuleRun
    BY <2>1, <2>2 DEF NoRuleRun
  <2>4. s[1] # CreateRule
    <3>1. inst[i].mode = "trigger"
      BY <2>1, <2>2 DEF CallTypes, InstRec, InstallInv, InstallOne
    <3>2. QED
      BY <2>1, <3>1, TailElements DEF InstallInv, InstallOne
  <2>5. s[1] \in Statement
    BY <2>1, TailElements
  <2>6. rule' = FALSE \/ rule' = rule
    BY <1>4, <2>4, <2>5, ExecEffect, StatementEffect
  <2>7. QED
    BY <2>3, <2>6
<1>5. ASSUME NEW i \in Calls, InstallFails(i) PROVE NoRuleRun /\ (rule' => rule)
  BY <1>5, InstallFailsEffect DEF NoRuleRun, catalog
<1>6. QED
  BY <1>1, <1>2, <1>3, <1>4, <1>5 DEF InstallStep

(* Without a call in rule mode a trigger replaces the rule.                *)
LEMMA RuleStep ==
  ASSUME TableInv, CallTypes, InstallInv, PruneInv, RuleGone, Next
  PROVE  RuleGone'
<1> DEFINE past(r) == r.pc = "run" /\ \A j \in 1 .. Len(r.todo) : r.todo[j] # DropRule
<1> SUFFICES ASSUME NoRuleRun'
             PROVE  /\ trigger' = "enabled" => ~rule'
                    /\ \A i \in Calls : past(inst'[i]) => ~rule'
  BY DEF RuleGone
<1>1. /\ rule' => rule
      /\ trigger = "enabled" => ~rule
      /\ \A i \in Calls : past(inst[i]) => ~rule
  BY NoRuleBack DEF RuleGone
<1> HIDE DEF past
<1>2. CASE \A i \in Calls : ~InstallStep(i)
  BY <1>1, <1>2, EnforcementFrame
<1>3. ASSUME NEW i \in Calls, StartInstall(i)
      PROVE  /\ trigger' = "enabled" => ~rule'
             /\ \A q \in Calls : past(inst'[q]) => ~rule'
  <2>1. /\ trigger' = trigger /\ \A q \in Calls : q # i => inst'[q] = inst[q]
        /\ inst'[i].pc \in {"check", "run"} /\ inst'[i].mode \in {"trigger", "rule"}
    BY <1>3, StartInstallEffect DEF catalog
  <2>2. PICK part \in BOOLEAN, m \in Nat : inst'[i].todo = Statements(inst'[i].mode, part, m)
    BY <1>3, StartInstallEffect
  <2> DEFINE mode == inst'[i].mode
  <2>3. mode \in {"trigger", "rule"} /\ inst'[i].todo = Statements(mode, part, m)
    BY <2>1, <2>2
  <2>4. inst'[i].pc = "run" => mode = "trigger"
    BY <2>1 DEF NoRuleRun
  <2> HIDE DEF mode
  <2>5. inst'[i].pc = "run" => \E j \in 1 .. Len(inst'[i].todo) : inst'[i].todo[j] = DropRule
    BY <2>3, <2>4, SchemaStatements
  <2>6. ~past(inst'[i])
    BY <2>5 DEF past
  <2>7. QED
    BY <1>1, <2>1, <2>6
<1>4. ASSUME NEW i \in Calls, CheckRelkind(i)
      PROVE  /\ trigger' = "enabled" => ~rule'
             /\ \A q \in Calls : past(inst'[q]) => ~rule'
  <2>1. /\ trigger' = trigger /\ \A q \in Calls : q # i => inst'[q] = inst[q]
        /\ inst[i].pc = "check"
        /\ \/ inst'[i].pc = "refused"
           \/ inst'[i].pc = "run" /\ inst'[i].mode = inst[i].mode /\ inst'[i].todo = inst[i].todo
        /\ inst[i] \in InstRec
    BY <1>4, CheckEffect DEF catalog, CallTypes
  <2>2. inst'[i].pc = "run" => inst[i].mode = "trigger"
    BY <2>1 DEF NoRuleRun, InstallInv, InstallOne, InstRec
  <2>3. ~past(inst'[i])
    BY <2>1, <2>2 DEF past, InstallInv, InstallOne
  <2>4. QED
    BY <1>1, <2>1, <2>3
<1>5. ASSUME NEW i \in Calls, ExecStatement(i)
      PROVE  /\ trigger' = "enabled" => ~rule'
             /\ \A q \in Calls : past(inst'[q]) => ~rule'
  <2> DEFINE s == inst[i].todo
  <2>1. /\ s \in Seq(Statement) /\ s # <<>> /\ inst[i].pc = "run"
        /\ inst'[i].todo = Tail(s) /\ \A q \in Calls : q # i => inst'[q] = inst[q]
    BY <1>5, ExecEffect
  <2>2. s[1] \in Statement
    BY <2>1, TailElements
  <2>3. /\ s[1] = DropRule => rule' = FALSE
        /\ \/ trigger' = trigger
           \/ trigger' = "none"
           \/ trigger' = "enabled" /\ s[1] = CreateTrigger /\ rule' = rule
    BY <1>5, <2>2, ExecEffect, StatementEffect
  <2>4. DropsFollowed(s) /\ RuleFirst(s)
    BY <2>1 DEF InstallInv, InstallOne
  <2>5. past(inst'[i]) => ~rule'
    <3> SUFFICES ASSUME past(inst'[i]) PROVE ~rule'
      OBVIOUS
    <3>1. \A j \in 1 .. Len(Tail(s)) : Tail(s)[j] # DropRule
      BY <2>1 DEF past
    <3>2. s[1] # DropRule => \A j \in 1 .. Len(s) : s[j] # DropRule
      BY <2>1, <2>4, <3>1, TailKeeps
    <3>3. QED
      BY <1>1, <2>1, <2>3, <3>2 DEF past
  <2>6. s[1] = CreateTrigger => past(inst[i])
    <3> SUFFICES ASSUME s[1] = CreateTrigger PROVE past(inst[i])
      OBVIOUS
    <3>1. s[1] # DropRule
      BY DEF CreateTrigger, DropRule
    <3>2. \A j \in 1 .. Len(Tail(s)) : Tail(s)[j] # DropRule
      BY <2>1, <2>4, TailKeeps
    <3>3. \A j \in 1 .. Len(s) : s[j] # DropRule
      BY <2>1, <2>4, <3>1, <3>2, TailKeeps
    <3>4. QED
      BY <2>1, <3>3 DEF past
  <2>7. QED
    BY <1>1, <2>1, <2>3, <2>5, <2>6
<1>6. ASSUME NEW i \in Calls, InstallFails(i)
      PROVE  /\ trigger' = "enabled" => ~rule'
             /\ \A q \in Calls : past(inst'[q]) => ~rule'
  BY <1>1, <1>6, InstallFailsEffect DEF past, catalog
<1>7. QED
  BY <1>2, <1>3, <1>4, <1>5, <1>6 DEF InstallStep

-----------------------------------------------------------------------------
(* Prunes                                                                  *)

(* The record of a prune that has failed, with what it took and reports.   *)
FailedAs(r, report, took) ==
  /\ r \in PruneRec /\ r.pc = "failed" /\ r.report = report /\ r.took = took
  /\ r.cutoff = 0 /\ r.todo = {} /\ r.pending = {} /\ r.seen = {} /\ ~r.off /\ r.guard = "none"
  /\ ~r.dry

(* A prune that fails forgets all but its report.                          *)
LEMMA FailedRec ==
  ASSUME CallTypes, NEW p \in Calls, NEW x \in SUBSET Nat
  PROVE  FailedAs(Failed(p, x), prune[p].report, prune[p].took \cup x)
<1>1. prune[p].report \in SUBSET Nat /\ prune[p].took \in SUBSET Nat
  BY DEF CallTypes, PruneRec
<1> DEFINE took == prune[p].took \cup x
<1>2. took \in SUBSET Nat
  BY <1>1
<1>3. Failed(p, x) = [NoPrune EXCEPT !.pc = "failed", !.report = prune[p].report, !.took = took]
  BY DEF Failed
<1> HIDE DEF took
<1>4. /\ NoPrune \in PruneRec
      /\ NoPrune.cutoff = 0 /\ NoPrune.todo = {} /\ NoPrune.pending = {} /\ NoPrune.seen = {}
      /\ ~NoPrune.off /\ NoPrune.guard = "none" /\ ~NoPrune.dry
  BY DEF NoPrune, PruneRec
<1>5. FailedAs(Failed(p, x), prune[p].report, took)
  <2> DEFINE r == Failed(p, x)
  <2>1. r \in PruneRec
    BY <1>1, <1>2, <1>3, <1>4 DEF PruneRec
  <2>2. QED
    BY <1>1, <1>2, <1>3, <1>4, <2>1 DEF PruneRec, FailedAs
<1>6. QED
  BY <1>5 DEF took

(* The record of a call that begins to prune.                              *)
LEMMA StartPruneEffect ==
  ASSUME TableInv, CallTypes, NEW p \in Calls, StartPrune(p)
  PROVE  LET r == prune'[p]
         IN  /\ UNCHANGED <<catalog, rows, written, now, inst, ens>>
             /\ prune' \in [Calls -> PruneRec] /\ \A q \in Calls : q # p => prune'[q] = prune[q]
             /\ r.cutoff <= now /\ r.seen = {x \in rows : x < r.cutoff}
             /\ r.todo = {} /\ r.pending = {} /\ r.report = {} /\ r.took = {}
             /\ r.guard = "none" /\ ~r.off
             /\ \/ layout = "none" /\ r.pc = "failed"
                \/ layout = "partitioned" /\ r.pc = "list"
                \/ layout = "flat" /\ r.pc = "done" /\ r.dry
                \/ layout = "flat" /\ r.pc = "trigger" /\ ~r.dry
<1>1. PICK cutoff \in {c \in Cutoffs : c <= now}, mode \in {"drop", "detach"}, dry \in BOOLEAN :
        prune' = [prune EXCEPT ![p] = [NoPrune EXCEPT
          !.pc = CASE layout = "none" -> "failed"
                   [] layout = "partitioned" -> "list"
                   [] OTHER -> IF dry THEN "done" ELSE "trigger",
          !.cutoff = cutoff, !.dry = dry, !.seen = {r \in rows : r < cutoff},
          !.mode = IF layout = "partitioned" THEN mode ELSE "none"]]
  BY DEF StartPrune
<1> DEFINE pc == CASE layout = "none" -> "failed"
                   [] layout = "partitioned" -> "list"
                   [] OTHER -> IF dry THEN "done" ELSE "trigger"
<1> DEFINE seen == {r \in rows : r < cutoff}
<1> DEFINE how == IF layout = "partitioned" THEN mode ELSE "none"
<1> DEFINE r == [NoPrune EXCEPT !.pc = pc, !.cutoff = cutoff, !.dry = dry, !.seen = seen,
                                !.mode = how]
<1>2. prune' = [prune EXCEPT ![p] = r]
  BY <1>1
<1>3. /\ \/ layout = "none" /\ pc = "failed"
         \/ layout = "partitioned" /\ pc = "list"
         \/ layout = "flat" /\ pc = "done" /\ dry
         \/ layout = "flat" /\ pc = "trigger" /\ ~dry
      /\ pc \in {"failed", "list", "done", "trigger"} /\ how \in {"none", "drop", "detach"}
  BY DEF TableInv
<1>4. seen \in SUBSET Nat /\ cutoff \in Nat /\ cutoff <= now
  BY TimeTypes, TimeAssumption
<1>5. /\ NoPrune \in PruneRec
      /\ NoPrune.todo = {} /\ NoPrune.pending = {} /\ NoPrune.report = {} /\ NoPrune.took = {}
      /\ ~NoPrune.off /\ NoPrune.guard = "none"
  BY DEF NoPrune, PruneRec
<1>6. seen = {x \in rows : x < cutoff}
  OBVIOUS
<1> HIDE DEF pc, seen, how
<1>7. /\ r \in PruneRec /\ r.pc = pc /\ r.cutoff = cutoff /\ r.dry = dry /\ r.seen = seen
      /\ r.todo = {} /\ r.pending = {} /\ r.report = {} /\ r.took = {}
      /\ r.guard = "none" /\ ~r.off
  BY <1>3, <1>4, <1>5 DEF PruneRec
<1> HIDE DEF r
<1>8. /\ prune' \in [Calls -> PruneRec] /\ prune'[p] = r
      /\ \A q \in Calls : q # p => prune'[q] = prune[q]
  BY <1>2, <1>7 DEF CallTypes
<1>9. UNCHANGED <<catalog, rows, written, now, inst, ens>>
  BY DEF StartPrune
<1>10. QED
  BY <1>3, <1>4, <1>6, <1>7, <1>8, <1>9

(* The months a prune is to remove, or would.                              *)
LEMMA ListEffect ==
  ASSUME TableInv, CallTypes, NEW p \in Calls, ListPartitions(p)
  PROVE  LET r == prune'[p]
             targets == {m \in attached : End(m) <= prune[p].cutoff}
         IN  /\ UNCHANGED <<catalog, rows, written, now, inst, ens>>
             /\ prune' \in [Calls -> PruneRec] /\ \A q \in Calls : q # p => prune'[q] = prune[q]
             /\ prune[p].pc = "list"
             /\ r.cutoff = prune[p].cutoff /\ r.dry = prune[p].dry /\ r.seen = prune[p].seen
             /\ r.pending = prune[p].pending /\ r.took = prune[p].took
             /\ r.guard = prune[p].guard /\ r.off = prune[p].off
             /\ \/ prune[p].dry /\ r.pc = "done" /\ r.todo = {}
                \/ ~prune[p].dry /\ r.todo = targets /\ r.report = {}
                     /\ r.pc = IF targets = {} THEN "done" ELSE "remove"
<1> DEFINE targets == {m \in attached : End(m) <= prune[p].cutoff}
<1> DEFINE pc == IF prune[p].dry \/ targets = {} THEN "done" ELSE "remove"
<1> DEFINE todo == IF prune[p].dry THEN {} ELSE targets
<1> DEFINE report == IF prune[p].dry THEN targets ELSE {}
<1> DEFINE r == [prune[p] EXCEPT !.pc = pc, !.todo = todo, !.report = report]
<1>1. prune \in [Calls -> PruneRec] /\ prune[p] \in PruneRec
  BY DEF CallTypes
<1>2. prune' = [prune EXCEPT ![p] = r]
  BY <1>1 DEF ListPartitions
<1>3. targets \in SUBSET Nat
  BY DEF TableInv
<1>4. /\ pc \in {"done", "remove"} /\ todo \in SUBSET Nat /\ report \in SUBSET Nat
      /\ \/ prune[p].dry /\ pc = "done" /\ todo = {}
         \/ ~prune[p].dry /\ todo = targets /\ report = {}
              /\ pc = IF targets = {} THEN "done" ELSE "remove"
  BY <1>3
<1> HIDE DEF pc, todo, report, targets
<1>5. /\ r \in PruneRec /\ r.pc = pc /\ r.todo = todo /\ r.report = report
      /\ r.cutoff = prune[p].cutoff /\ r.dry = prune[p].dry /\ r.seen = prune[p].seen
      /\ r.pending = prune[p].pending /\ r.took = prune[p].took
      /\ r.guard = prune[p].guard /\ r.off = prune[p].off
  BY <1>1, <1>4 DEF PruneRec
<1> HIDE DEF r
<1>6. /\ prune' \in [Calls -> PruneRec] /\ prune'[p] = r
      /\ \A q \in Calls : q # p => prune'[q] = prune[q]
  BY <1>1, <1>2, <1>5
<1>7. UNCHANGED <<catalog, rows, written, now, inst, ens>> /\ prune[p].pc = "list"
  BY DEF ListPartitions
<1>8. QED
  BY <1>4, <1>5, <1>6, <1>7 DEF targets

(* A step of a flat prune keeps what the prune is about.                   *)
SameTask(r, a) ==
  /\ r.cutoff = a.cutoff /\ r.dry = a.dry /\ r.seen = a.seen
  /\ r.todo = a.todo /\ r.took = a.took /\ r.report = a.report

(* The statements of a prune of the flat table before its COMMIT.          *)
FlatStep(p) == LookTrigger(p) \/ LookRule(p) \/ Disable(p) \/ Delete(p) \/ Enable(p)

(* What the statements of a flat prune look up, switch off and on again.   *)
FlatChange(r, a) ==
  \/ a.pc = "trigger" /\ r.pc = "rule" /\ r.guard = "none" /\ r.off = a.off
  \/ a.pc = "trigger" /\ r.pc = "disable" /\ r.guard = "trigger" /\ trigger # "none"
       /\ r.off = a.off
  \/ a.pc = "rule" /\ r.pc = "disable" /\ r.guard = "rule" /\ r.off = a.off
  \/ a.pc = "rule" /\ r.pc = "delete" /\ r.guard = "none" /\ r.off = a.off /\ ~rule
  \/ a.pc = "disable" /\ r.pc = "delete" /\ r.guard = a.guard /\ r.off
  \/ a.pc = "delete" /\ r.pc = "commit" /\ r.guard = a.guard /\ r.off = a.off /\ a.guard = "none"
  \/ a.pc = "delete" /\ r.pc = "enable" /\ r.guard = a.guard /\ r.off = a.off /\ a.guard # "none"
  \/ a.pc = "enable" /\ r.pc = "commit" /\ r.guard = a.guard /\ ~r.off

(* Only DELETE finds rows to delete.                                       *)
FlatRows(p, r, a) ==
  \/ a.pc # "delete" /\ r.pending = a.pending
  \/ a.pc = "delete" /\ r.pending = IF RuleOn(p) THEN {} ELSE Old(p)

(* The record of a flat prune after its next statement.                    *)
LEMMA FlatEffect ==
  ASSUME TableInv, CallTypes, NEW p \in Calls, FlatStep(p)
  PROVE  /\ UNCHANGED <<catalog, rows, written, now, inst, ens>>
         /\ prune' \in [Calls -> PruneRec] /\ \A q \in Calls : q # p => prune'[q] = prune[q]
         /\ SameTask(prune'[p], prune[p])
         /\ FlatChange(prune'[p], prune[p])
         /\ FlatRows(p, prune'[p], prune[p])
<1> DEFINE a == prune[p]
<1>1. prune \in [Calls -> PruneRec] /\ a \in PruneRec
  BY DEF CallTypes
<1>2. UNCHANGED <<catalog, rows, written, now, inst, ens>>
  BY DEF FlatStep, LookTrigger, LookRule, Disable, Delete, Enable
<1>3. ASSUME NEW r \in PruneRec, prune' = [prune EXCEPT ![p] = r],
             SameTask(r, a), FlatChange(r, a), FlatRows(p, r, a)
      PROVE  /\ prune' \in [Calls -> PruneRec] /\ \A q \in Calls : q # p => prune'[q] = prune[q]
             /\ SameTask(prune'[p], a) /\ FlatChange(prune'[p], a)
             /\ FlatRows(p, prune'[p], a)
  BY <1>1, <1>3
<1>4. CASE LookTrigger(p)
  <2> DEFINE guard == IF trigger = "none" THEN "none" ELSE "trigger"
  <2> DEFINE pc == IF trigger = "none" THEN "rule" ELSE "disable"
  <2> DEFINE r == [a EXCEPT !.guard = guard, !.pc = pc]
  <2>1. prune' = [prune EXCEPT ![p] = r] /\ a.pc = "trigger"
    BY <1>1, <1>4 DEF LookTrigger
  <2>2. /\ guard \in {"none", "trigger"} /\ pc \in {"rule", "disable"}
        /\ \/ pc = "rule" /\ guard = "none"
           \/ pc = "disable" /\ guard = "trigger" /\ trigger # "none"
    OBVIOUS
  <2> HIDE DEF guard, pc
  <2>3. /\ r \in PruneRec /\ r.guard = guard /\ r.pc = pc /\ SameTask(r, a)
        /\ r.off = a.off /\ r.pending = a.pending
    BY <1>1, <2>2 DEF PruneRec, SameTask
  <2> HIDE DEF r, a
  <2>4. FlatChange(r, a) /\ FlatRows(p, r, a)
    BY <2>1, <2>2, <2>3 DEF FlatChange, FlatRows
  <2>5. QED
    BY <1>2, <1>3, <2>1, <2>3, <2>4 DEF a
<1>5. CASE LookRule(p)
  <2> DEFINE guard == IF rule THEN "rule" ELSE "none"
  <2> DEFINE pc == IF rule THEN "disable" ELSE "delete"
  <2> DEFINE r == [a EXCEPT !.guard = guard, !.pc = pc]
  <2>1. prune' = [prune EXCEPT ![p] = r] /\ a.pc = "rule"
    BY <1>1, <1>5 DEF LookRule
  <2>2. /\ guard \in {"none", "rule"} /\ pc \in {"delete", "disable"}
        /\ \/ pc = "delete" /\ guard = "none" /\ ~rule
           \/ pc = "disable" /\ guard = "rule"
    OBVIOUS
  <2> HIDE DEF guard, pc
  <2>3. /\ r \in PruneRec /\ r.guard = guard /\ r.pc = pc /\ SameTask(r, a)
        /\ r.off = a.off /\ r.pending = a.pending
    BY <1>1, <2>2 DEF PruneRec, SameTask
  <2> HIDE DEF r, a
  <2>4. FlatChange(r, a) /\ FlatRows(p, r, a)
    BY <2>1, <2>2, <2>3 DEF FlatChange, FlatRows
  <2>5. QED
    BY <1>2, <1>3, <2>1, <2>3, <2>4 DEF a
<1>6. CASE Disable(p)
  <2> DEFINE r == [a EXCEPT !.off = TRUE, !.lock = "strong", !.pc = "delete"]
  <2>1. prune' = [prune EXCEPT ![p] = r] /\ a.pc = "disable"
    BY <1>1, <1>6 DEF Disable
  <2>2. /\ r \in PruneRec /\ r.guard = a.guard /\ r.pc = "delete" /\ SameTask(r, a)
        /\ r.off /\ r.pending = a.pending
    BY <1>1 DEF PruneRec, SameTask
  <2> HIDE DEF r, a
  <2>3. FlatChange(r, a) /\ FlatRows(p, r, a)
    BY <2>1, <2>2 DEF FlatChange, FlatRows
  <2>4. QED
    BY <1>2, <1>3, <2>1, <2>2, <2>3 DEF a
<1>7. CASE Delete(p)
  <2> DEFINE pending == IF RuleOn(p) THEN {} ELSE Old(p)
  <2> DEFINE lock == IF a.lock = "none" THEN "row" ELSE a.lock
  <2> DEFINE pc == IF a.guard = "none" THEN "commit" ELSE "enable"
  <2> DEFINE r == [a EXCEPT !.pending = pending, !.lock = lock, !.pc = pc]
  <2>1. prune' = [prune EXCEPT ![p] = r] /\ a.pc = "delete"
    BY <1>1, <1>7 DEF Delete
  <2>2. pending \in SUBSET Nat /\ pending = IF RuleOn(p) THEN {} ELSE Old(p)
    BY TimeTypes DEF Old
  <2>3. /\ pc \in {"commit", "enable"}
        /\ (pc = "commit" /\ a.guard = "none") \/ (pc = "enable" /\ a.guard # "none")
    OBVIOUS
  <2>4. lock \in {"none", "row", "strong"}
    BY <1>1 DEF PruneRec
  <2> HIDE DEF pending, lock, pc
  <2>5. /\ r \in PruneRec /\ r.guard = a.guard /\ r.pc = pc /\ SameTask(r, a)
        /\ r.off = a.off /\ r.pending = pending
    <3>1. pending \in SUBSET Nat /\ pc \in {"commit", "enable"}
      BY <2>2, <2>3
    <3>2. r \in PruneRec
      BY <1>1, <2>4, <3>1 DEF PruneRec
    <3>3. /\ r.guard = a.guard /\ r.pc = pc /\ SameTask(r, a)
          /\ r.off = a.off /\ r.pending = pending
      BY <1>1 DEF PruneRec, SameTask
    <3>4. QED
      BY <3>2, <3>3
  <2> HIDE DEF r, a
  <2>6. FlatChange(r, a) /\ FlatRows(p, r, a)
    BY <2>1, <2>2, <2>3, <2>5 DEF FlatChange, FlatRows
  <2>7. QED
    BY <1>2, <1>3, <2>1, <2>5, <2>6 DEF a
<1>8. CASE Enable(p)
  <2> DEFINE r == [a EXCEPT !.off = FALSE, !.pc = "commit"]
  <2>1. prune' = [prune EXCEPT ![p] = r] /\ a.pc = "enable"
    BY <1>1, <1>8 DEF Enable
  <2>2. /\ r \in PruneRec /\ r.guard = a.guard /\ r.pc = "commit" /\ SameTask(r, a)
        /\ ~r.off /\ r.pending = a.pending
    BY <1>1 DEF PruneRec, SameTask
  <2> HIDE DEF r, a
  <2>3. FlatChange(r, a) /\ FlatRows(p, r, a)
    BY <2>1, <2>2 DEF FlatChange, FlatRows
  <2>4. QED
    BY <1>2, <1>3, <2>1, <2>2, <2>3 DEF a
<1>9. QED
  BY <1>4, <1>5, <1>6, <1>7, <1>8 DEF FlatStep

(* DROP TABLE or DETACH of a month that is over takes its rows with it.    *)
Removed(m) ==
  /\ layout' = layout /\ trigger' = trigger /\ rule' = rule
  /\ attached' = attached \ {m} /\ archived' \subseteq archived \cup {m}
  /\ attached' \cap archived' = {}
  /\ m \in attached \/ m \in archived
  /\ rows' = {r \in rows : Month(r) # m \/ m \notin attached}
  /\ UNCHANGED <<written, now, inst, ens>>

(* A month is removed, and the prune has it in its report.                 *)
LEMMA RemoveEffect ==
  ASSUME TableInv, CallTypes, NEW p \in Calls, RemovePartition(p)
  PROVE  \E m \in prune[p].todo :
           LET r == prune'[p]
           IN  /\ Removed(m)
               /\ prune' \in [Calls -> PruneRec] /\ \A q \in Calls : q # p => prune'[q] = prune[q]
               /\ prune[p].pc = "remove"
               /\ r.cutoff = prune[p].cutoff /\ r.dry = prune[p].dry /\ r.seen = prune[p].seen
               /\ r.pending = prune[p].pending /\ r.guard = prune[p].guard /\ r.off = prune[p].off
               /\ r.todo = prune[p].todo \ {m}
               /\ r.took = prune[p].took \cup {m} /\ r.report = prune[p].report \cup {m}
               /\ (r.pc = "done" /\ r.todo = {}) \/ r.pc = "remove"
<1> DEFINE a == prune[p]
<1>1. prune \in [Calls -> PruneRec] /\ a \in PruneRec
  BY DEF CallTypes
<1>2. PICK m \in a.todo :
        /\ Remove(p, m)
        /\ prune' = [prune EXCEPT ![p].todo = @ \ {m}, ![p].took = @ \cup {m},
                       ![p].report = @ \cup {m},
                       ![p].pc = IF prune[p].todo = {m} THEN "done" ELSE @]
  BY DEF RemovePartition
<1>3. a.pc = "remove" /\ UNCHANGED <<written, now, inst, ens>>
  BY DEF RemovePartition
<1> DEFINE todo == a.todo \ {m}
<1> DEFINE took == a.took \cup {m}
<1> DEFINE report == a.report \cup {m}
<1> DEFINE pc == IF a.todo = {m} THEN "done" ELSE "remove"
<1> DEFINE r == [a EXCEPT !.todo = todo, !.took = took, !.report = report, !.pc = pc]
<1>4. prune' = [prune EXCEPT ![p] = r]
  BY <1>1, <1>2, <1>3
<1>5. m \in Nat /\ a.todo \in SUBSET Nat /\ a.took \in SUBSET Nat /\ a.report \in SUBSET Nat
  BY <1>1, <1>2 DEF PruneRec
<1>6. /\ todo \in SUBSET Nat /\ took \in SUBSET Nat /\ report \in SUBSET Nat
      /\ (pc = "done" /\ todo = {}) \/ pc = "remove"
  BY <1>5
<1> HIDE DEF todo, took, report, pc
<1>7. /\ r \in PruneRec /\ r.pc = pc /\ r.todo = todo /\ r.took = took /\ r.report = report
      /\ r.cutoff = a.cutoff /\ r.dry = a.dry /\ r.seen = a.seen
      /\ r.pending = a.pending /\ r.guard = a.guard /\ r.off = a.off
  BY <1>1, <1>6 DEF PruneRec
<1> HIDE DEF r
<1>8. /\ prune' \in [Calls -> PruneRec] /\ prune'[p] = r
      /\ \A q \in Calls : q # p => prune'[q] = prune[q]
  BY <1>1, <1>4, <1>7
<1>9. Removed(m)
  BY <1>2, <1>3 DEF Remove, Removed, Exists, TableInv
<1>10. QED
  BY <1>3, <1>6, <1>7, <1>8, <1>9 DEF todo, took, report

(* A failing prune removes one month more at most, and reports none of it. *)
LEMMA RemoveFailsEffect ==
  ASSUME TableInv, CallTypes, NEW p \in Calls, RemoveFails(p)
  PROVE  /\ prune' \in [Calls -> PruneRec] /\ \A q \in Calls : q # p => prune'[q] = prune[q]
         /\ prune[p].pc = "remove"
         /\ \/ /\ UNCHANGED <<catalog, rows, written, now, inst, ens>>
               /\ FailedAs(prune'[p], prune[p].report, prune[p].took \cup {})
            \/ \E m \in prune[p].todo :
                 /\ Removed(m)
                 /\ FailedAs(prune'[p], prune[p].report, prune[p].took \cup {m})
<1>1. prune \in [Calls -> PruneRec] /\ prune[p] \in PruneRec
  BY DEF CallTypes
<1>2. PICK m \in prune[p].todo :
        \/ prune' = [prune EXCEPT ![p] = Failed(p, {})] /\ UNCHANGED <<catalog, rows>>
        \/ Remove(p, m) /\ prune' = [prune EXCEPT ![p] = Failed(p, {m})]
  BY DEF RemoveFails
<1>3. prune[p].pc = "remove" /\ UNCHANGED <<written, now, inst, ens>>
  BY DEF RemoveFails
<1>4. {m} \in SUBSET Nat /\ {} \in SUBSET Nat
  BY <1>1 DEF PruneRec
<1>5. /\ FailedAs(Failed(p, {}), prune[p].report, prune[p].took \cup {})
      /\ FailedAs(Failed(p, {m}), prune[p].report, prune[p].took \cup {m})
  BY <1>4, FailedRec
<1>6. Remove(p, m) => Removed(m)
  BY <1>3 DEF Remove, Removed, Exists, TableInv
<1>7. Failed(p, {}) \in PruneRec /\ Failed(p, {m}) \in PruneRec
  BY <1>5 DEF FailedAs
<1>8. CASE prune' = [prune EXCEPT ![p] = Failed(p, {})] /\ UNCHANGED <<catalog, rows>>
  BY <1>1, <1>3, <1>5, <1>7, <1>8
<1>9. CASE Remove(p, m) /\ prune' = [prune EXCEPT ![p] = Failed(p, {m})]
  BY <1>1, <1>3, <1>5, <1>6, <1>7, <1>9
<1>10. QED
  BY <1>2, <1>8, <1>9

(* COMMIT removes what DELETE has found, whether its answer is lost or not. *)
LEMMA CommitEffect ==
  ASSUME CallTypes, NEW p \in Calls, CommitPrune(p)
  PROVE  LET r == prune'[p]
         IN  /\ UNCHANGED <<layout, attached, archived, written, now, inst, ens>>
             /\ rows' = rows \ prune[p].pending
             /\ prune' \in [Calls -> PruneRec] /\ \A q \in Calls : q # p => prune'[q] = prune[q]
             /\ prune[p].pc = "commit"
             /\ \/ FailedAs(r, prune[p].report, prune[p].took \cup {})
                \/ /\ r.pc = "done" /\ r.cutoff = prune[p].cutoff /\ r.seen = prune[p].seen
                   /\ r.todo = {} /\ r.pending = {} /\ r.report = {} /\ r.took = {}
                   /\ r.guard = "none" /\ ~r.off
<1>1. prune \in [Calls -> PruneRec] /\ prune[p] \in PruneRec
  BY DEF CallTypes
<1> DEFINE r == [NoPrune EXCEPT !.pc = "done", !.cutoff = prune[p].cutoff,
                                !.seen = prune[p].seen]
<1>2. /\ UNCHANGED <<layout, attached, archived, written, now, inst, ens>>
      /\ rows' = rows \ prune[p].pending /\ prune[p].pc = "commit"
      /\ prune' = [prune EXCEPT ![p] = Failed(p, {})] \/ prune' = [prune EXCEPT ![p] = r]
  BY <1>1 DEF CommitPrune
<1>3. /\ NoPrune \in PruneRec
      /\ NoPrune.todo = {} /\ NoPrune.pending = {} /\ NoPrune.report = {} /\ NoPrune.took = {}
      /\ ~NoPrune.off /\ NoPrune.guard = "none"
  BY DEF NoPrune, PruneRec
<1>4. /\ r \in PruneRec /\ r.pc = "done" /\ r.cutoff = prune[p].cutoff /\ r.seen = prune[p].seen
      /\ r.todo = {} /\ r.pending = {} /\ r.report = {} /\ r.took = {}
      /\ r.guard = "none" /\ ~r.off
  BY <1>1, <1>3 DEF PruneRec
<1> HIDE DEF r
<1>5. FailedAs(Failed(p, {}), prune[p].report, prune[p].took \cup {})
  BY FailedRec
<1>6. Failed(p, {}) \in PruneRec
  BY <1>5 DEF FailedAs
<1>7. CASE prune' = [prune EXCEPT ![p] = Failed(p, {})]
  BY <1>1, <1>2, <1>5, <1>6, <1>7
<1>8. CASE prune' = [prune EXCEPT ![p] = r]
  BY <1>1, <1>2, <1>4, <1>8
<1>9. QED
  BY <1>2, <1>7, <1>8

(* A failed statement ends a prune.                                        *)
LEMMA PruneFailsEffect ==
  ASSUME CallTypes, NEW p \in Calls, PruneFails(p)
  PROVE  /\ UNCHANGED <<catalog, rows, written, now, inst, ens>>
         /\ prune' \in [Calls -> PruneRec] /\ \A q \in Calls : q # p => prune'[q] = prune[q]
         /\ prune[p].pc \in {"list"} \cup Flat
         /\ FailedAs(prune'[p], prune[p].report, prune[p].took \cup {})
<1>1. FailedAs(Failed(p, {}), prune[p].report, prune[p].took \cup {})
  BY FailedRec
<1>2. Failed(p, {}) \in PruneRec /\ prune \in [Calls -> PruneRec]
  BY <1>1 DEF FailedAs, CallTypes
<1>3. QED
  BY <1>1, <1>2 DEF PruneFails, Flat

-----------------------------------------------------------------------------
(* Steps of a prune keep what is said of it.                               *)

(* A failed prune reports what it took, up to the month it failed at.      *)
LEMMA FailedKept ==
  ASSUME NEW r, NEW a, NEW x, FailedAs(r, a.report, a.took \cup x),
         a.took = a.report, x = {} \/ \E m : x = {m},
         NEW n \in Nat, NEW y, NEW s, NEW w, NEW on
  PROVE  PruneShape(r) /\ PruneTime(r, n) /\ PruneRows(r, y, s, w) /\ PruneFinds(r, y, s, on)
<1> DEFINE d == r.took \ r.report
<1>1. d = {} \/ \E m : d = {m}
  BY DEF FailedAs
<1>2. \A m : Cardinality({m}) = 1
  BY FS_Singleton
<1> HIDE DEF d
<1>3. Cardinality({}) = 0
  BY FS_EmptySet
<1>4. Cardinality(d) <= 1
  <2>1. Cardinality(d) = 0 \/ Cardinality(d) = 1
    BY ONLY <1>1, <1>2, <1>3, Zenon
  <2>2. QED
    BY ONLY <2>1
<1>5. PruneShape(r)
  BY <1>4 DEF PruneShape, FailedAs, Flat, d
<1>6. PruneTime(r, n) /\ PruneRows(r, y, s, w) /\ PruneFinds(r, y, s, on)
  BY DEF PruneTime, PruneRows, PruneFinds, FailedAs, Flat
<1>7. QED
  BY <1>5, <1>6

(* The prune of a call is as it should be after the call's step.           *)
Kept(p) ==
  /\ PruneShape(prune'[p]) /\ PruneTime(prune'[p], now')
  /\ PruneRows(prune'[p], layout', rows', written')
  /\ NoRuleRun' => PruneFinds(prune'[p], layout', rows', rule')

(* The first step of a prune.                                              *)
LEMMA StartPruneKept ==
  ASSUME TableInv, CallTypes, NEW p \in Calls, StartPrune(p)
  PROVE  Kept(p)
<1> DEFINE r == prune'[p]
<1>1. /\ UNCHANGED <<layout, rows, written, now, rule>>
      /\ r.cutoff <= now /\ r.seen = {x \in rows : x < r.cutoff}
      /\ r.todo = {} /\ r.pending = {} /\ r.report = {} /\ r.took = {}
      /\ r.guard = "none" /\ ~r.off
      /\ \/ layout = "none" /\ r.pc = "failed"
         \/ layout = "partitioned" /\ r.pc = "list"
         \/ layout = "flat" /\ r.pc = "done" /\ r.dry
         \/ layout = "flat" /\ r.pc = "trigger" /\ ~r.dry
  BY StartPruneEffect DEF catalog
<1> HIDE DEF r
<1>2. Cardinality(r.took \ r.report) = 0
  BY <1>1, FS_EmptySet
<1>3. PruneShape(r)
  BY <1>1, <1>2 DEF PruneShape, Flat
<1>4. PruneTime(r, now)
  BY <1>1 DEF PruneTime
<1>5. PruneRows(r, layout, rows, written)
  BY <1>1 DEF PruneRows, Flat, TableInv
<1>6. PruneFinds(r, layout, rows, rule)
  BY <1>1 DEF PruneFinds
<1>7. QED
  BY <1>1, <1>3, <1>4, <1>5, <1>6 DEF Kept, r

(* The list of the months to remove.                                       *)
LEMMA ListKept ==
  ASSUME TableInv, CallTypes, PruneInv, NEW p \in Calls, ListPartitions(p)
  PROVE  Kept(p)
<1> DEFINE r == prune'[p]
<1> DEFINE a == prune[p]
<1> DEFINE targets == {m \in attached : End(m) <= a.cutoff}
<1>1. /\ UNCHANGED <<layout, rows, written, now, rule>>
      /\ a.pc = "list"
      /\ r.cutoff = a.cutoff /\ r.dry = a.dry /\ r.seen = a.seen /\ r.pending = a.pending
      /\ r.took = a.took /\ r.guard = a.guard /\ r.off = a.off
      /\ \/ a.dry /\ r.pc = "done" /\ r.todo = {}
         \/ ~a.dry /\ r.todo = targets /\ r.report = {}
              /\ r.pc = IF targets = {} THEN "done" ELSE "remove"
  BY ListEffect DEF catalog
<1>2. /\ PruneShape(a) /\ PruneTime(a, now) /\ PruneRows(a, layout, rows, written)
      /\ a \in PruneRec
  BY DEF PruneInv, CallTypes
<1>3. \A x \in rows : Month(x) \in attached /\ Month(x) \in Nat
  BY <1>1, <1>2, TimeTypes DEF PruneRows, TableInv
<1>4. \A m \in targets : End(m) <= a.cutoff
  OBVIOUS
<1>5. \A x \in rows : End(Month(x)) <= a.cutoff => Month(x) \in targets
  BY <1>3
<1>6. \A x \in rows : End(Month(x)) \in Nat /\ a.cutoff \in Nat
  BY <1>2, <1>3 DEF End, PruneRec
<1> HIDE DEF r, a, targets
<1>7. PruneShape(r)
  BY <1>1, <1>2 DEF PruneShape, Flat
<1>8. PruneTime(r, now)
  BY <1>1, <1>2, <1>4 DEF PruneTime
<1>9. PruneRows(r, layout, rows, written)
  <2>1. CASE a.dry
    BY <1>1, <1>2, <2>1 DEF PruneRows, Flat
  <2>2. CASE ~a.dry /\ targets # {}
    BY <1>1, <1>2, <1>5, <2>2 DEF PruneRows, Flat
  <2>3. CASE ~a.dry /\ targets = {}
    <3>1. \A x \in rows : End(Month(x)) > a.cutoff
      BY <1>5, <1>6, <2>3
    <3>2. QED
      BY <1>1, <1>2, <2>3, <3>1 DEF PruneRows, Flat
  <2>4. QED
    BY <2>1, <2>2, <2>3
<1>10. PruneFinds(r, layout, rows, rule)
  BY <1>1, <1>2 DEF PruneFinds, PruneRows
<1>11. QED
  BY <1>1, <1>7, <1>8, <1>9, <1>10 DEF Kept, r

(* The statements of a flat prune.                                         *)
LEMMA FlatKept ==
  ASSUME TableInv, CallTypes, PruneInv, RuleGone, NEW p \in Calls, FlatStep(p),
         NoRuleRun' => NoRuleRun
  PROVE  Kept(p)
<1> DEFINE r == prune'[p]
<1> DEFINE a == prune[p]
<1>1. UNCHANGED <<layout, rows, written, now, rule, trigger>>
  BY FlatEffect DEF catalog
<1>2. SameTask(r, a) /\ FlatChange(r, a) /\ FlatRows(p, r, a)
  BY FlatEffect
<1>3. /\ PruneShape(a) /\ PruneTime(a, now) /\ PruneRows(a, layout, rows, written)
      /\ NoRuleRun => PruneFinds(a, layout, rows, rule)
      /\ a \in PruneRec
  BY DEF PruneInv, CallTypes
<1>4. \A x \in Old(p) : x < a.cutoff
  BY DEF Old
<1>5. a.seen \cap rows \subseteq Old(p)
  BY <1>3 DEF Old, PruneTime
<1>6. /\ RuleOn(p) => rule /\ ~(a.off /\ a.guard = "rule")
      /\ NoRuleRun /\ trigger # "none" => ~rule
  BY DEF RuleOn, RuleGone, TableInv
<1> HIDE DEF r, a
<1>7. PruneShape(r)
  BY <1>2, <1>3 DEF PruneShape, SameTask, FlatChange, Flat
<1>8. PruneTime(r, now)
  <2>1. r.pending \subseteq a.pending \cup Old(p)
    BY <1>2 DEF FlatRows
  <2>2. QED
    BY <1>2, <1>3, <1>4, <2>1 DEF PruneTime, SameTask
<1>9. PruneRows(r, layout, rows, written)
  BY <1>2, <1>3 DEF PruneRows, SameTask, FlatChange, Flat
<1>10. ASSUME NoRuleRun PROVE PruneFinds(r, layout, rows, rule)
  <2>1. PruneFinds(a, layout, rows, rule)
    BY <1>3, <1>10
  <2>2. r.pc \in {"disable", "delete", "enable", "commit"} /\ r.guard # "rule" => ~rule
    BY <1>2, <1>6, <1>10, <2>1 DEF PruneFinds, FlatChange
  <2>3. a.pc = "delete" => ~RuleOn(p)
    BY <1>3, <1>6, <2>1 DEF PruneFinds, PruneShape
  <2>4. r.pc \in {"enable", "commit"} => r.seen \cap rows \subseteq r.pending
    BY <1>2, <1>5, <2>1, <2>3 DEF PruneFinds, FlatChange, FlatRows, SameTask
  <2>5. r.pc # "done"
    BY <1>2 DEF FlatChange
  <2>6. QED
    BY <2>2, <2>4, <2>5 DEF PruneFinds
<1>11. QED
  BY <1>1, <1>7, <1>8, <1>9, <1>10 DEF Kept, r

(* The removal of a month: none of its rows is left.                       *)
LEMMA RemoveKept ==
  ASSUME TableInv, CallTypes, PruneInv, NEW p \in Calls, RemovePartition(p)
  PROVE  Kept(p)
<1> DEFINE r == prune'[p]
<1> DEFINE a == prune[p]
<1>1. PICK m \in a.todo :
        /\ Removed(m) /\ a.pc = "remove"
        /\ r.cutoff = a.cutoff /\ r.dry = a.dry /\ r.seen = a.seen
        /\ r.pending = a.pending /\ r.guard = a.guard /\ r.off = a.off
        /\ r.todo = a.todo \ {m}
        /\ r.took = a.took \cup {m} /\ r.report = a.report \cup {m}
        /\ (r.pc = "done" /\ r.todo = {}) \/ r.pc = "remove"
  BY RemoveEffect
<1>2. /\ PruneShape(a) /\ PruneTime(a, now) /\ PruneRows(a, layout, rows, written)
      /\ a \in PruneRec
  BY DEF PruneInv, CallTypes
<1>3. /\ UNCHANGED <<layout, written, now, rule>> /\ layout = "partitioned"
      /\ \A x \in rows' : x \in rows /\ Month(x) # m
  BY <1>1, <1>2 DEF Removed, PruneRows, TableInv
<1>4. a.cutoff \in Nat /\ \A x \in rows : End(Month(x)) \in Nat
  <2>1. \A x \in rows : Month(x) \in Nat
    BY TimeTypes
  <2>2. QED
    BY <1>2, <2>1 DEF End, PruneRec
<1> HIDE DEF r, a
<1>5. PruneShape(r)
  BY <1>1, <1>2 DEF PruneShape, Flat
<1>6. PruneTime(r, now)
  BY <1>1, <1>2 DEF PruneTime
<1>7. \A x \in r.seen \cap rows' : End(Month(x)) <= r.cutoff => Month(x) \in r.todo
  BY <1>1, <1>2, <1>3 DEF PruneRows
<1>8. r.todo = {} => \A x \in r.seen \cap rows' : End(Month(x)) > r.cutoff
  BY <1>1, <1>3, <1>4, <1>7
<1>9. PruneRows(r, layout, rows', written)
  BY <1>1, <1>2, <1>3, <1>7, <1>8 DEF PruneRows, Flat
<1>10. PruneFinds(r, layout, rows', rule)
  BY <1>1, <1>3 DEF PruneFinds
<1>11. QED
  BY <1>3, <1>5, <1>6, <1>9, <1>10 DEF Kept, r

(* The end of a prune that fails.                                          *)
LEMMA FailuresKept ==
  ASSUME TableInv, CallTypes, PruneInv, NEW p \in Calls, RemoveFails(p) \/ PruneFails(p)
  PROVE  Kept(p)
<1> DEFINE a == prune[p]
<1>1. PICK x :
        /\ x = {} \/ \E m : x = {m}
        /\ FailedAs(prune'[p], a.report, a.took \cup x) /\ now' = now
        /\ a.pc \in {"list", "remove"} \cup Flat
  <2>1. CASE RemoveFails(p)
    <3>1. \/ FailedAs(prune'[p], a.report, a.took \cup {}) /\ now' = now
          \/ \E m : FailedAs(prune'[p], a.report, a.took \cup {m}) /\ now' = now
      BY <2>1, RemoveFailsEffect DEF Removed
    <3>2. a.pc = "remove"
      BY <2>1, RemoveFailsEffect
    <3>3. QED
      BY <3>1, <3>2
  <2>2. CASE PruneFails(p)
    BY <2>2, PruneFailsEffect
  <2>3. QED
    BY <2>1, <2>2
<1>2. a.took = a.report
  BY <1>1 DEF PruneInv, PruneShape
<1>3. now' \in Nat
  BY <1>1, TimeTypes
<1>4. QED
  BY <1>1, <1>2, <1>3, FailedKept DEF Kept

(* COMMIT: what the prune had seen is gone.                                *)
LEMMA CommitKept ==
  ASSUME TableInv, CallTypes, PruneInv, NEW p \in Calls, CommitPrune(p),
         NoRuleRun' => NoRuleRun
  PROVE  Kept(p)
<1> DEFINE r == prune'[p]
<1> DEFINE a == prune[p]
<1>1. /\ UNCHANGED <<layout, written, now>> /\ rows' = rows \ a.pending /\ a.pc = "commit"
  BY CommitEffect
<1>2. /\ PruneShape(a) /\ PruneTime(a, now) /\ PruneRows(a, layout, rows, written)
      /\ NoRuleRun => PruneFinds(a, layout, rows, rule)
  BY DEF PruneInv
<1>3. CASE FailedAs(r, a.report, a.took \cup {})
  <2>1. a.took = a.report /\ now' \in Nat
    BY <1>1, <1>2, TimeTypes DEF PruneShape, Flat
  <2>2. QED
    BY <1>3, <2>1, FailedKept DEF Kept
<1>4. CASE /\ r.pc = "done" /\ r.cutoff = a.cutoff /\ r.seen = a.seen
           /\ r.todo = {} /\ r.pending = {} /\ r.report = {} /\ r.took = {}
           /\ r.guard = "none" /\ ~r.off
  <2>1. NoRuleRun => r.seen \cap rows' = {}
    BY <1>1, <1>2, <1>4 DEF PruneFinds
  <2> HIDE DEF r, a
  <2>2. PruneShape(r)
    BY <1>4 DEF PruneShape, Flat
  <2>3. PruneTime(r, now)
    BY <1>2, <1>4 DEF PruneTime
  <2>4. PruneRows(r, layout, rows', written)
    BY <1>1, <1>2, <1>4 DEF PruneRows, Flat
  <2>5. NoRuleRun => PruneFinds(r, layout, rows', rule')
    BY <1>4, <2>1 DEF PruneFinds
  <2>6. QED
    BY <1>1, <2>2, <2>3, <2>4, <2>5 DEF Kept, r
<1>5. QED
  BY <1>3, <1>4, CommitEffect

-----------------------------------------------------------------------------
(* ensurePartitions                                                        *)

(* A month dealt with is off the list.                                     *)
EnsuredAs(r, a, m) ==
  /\ r \in EnsRec /\ r.plan = a.plan /\ r.todo = a.todo \ {m}
  /\ (r.pc = "done" /\ r.todo = {}) \/ (r.pc = "look" /\ r.todo # {})

(* The plan of a call that begins is not empty.                            *)
LEMMA StartEnsureEffect ==
  ASSUME TableInv, CallTypes, NEW e \in Calls, StartEnsure(e)
  PROVE  LET r == ens'[e]
         IN  /\ UNCHANGED <<catalog, rows, written, now, inst, prune>>
             /\ ens' \in [Calls -> EnsRec] /\ \A q \in Calls : q # e => ens'[q] = ens[q]
             /\ r.pc = "failed" \/ (r.pc = "look" /\ r.todo = r.plan /\ r.todo # {})
<1>1. PICK ahead \in Aheads :
        ens' = [ens EXCEPT ![e] =
          IF layout = "partitioned"
            THEN [pc |-> "look", plan |-> PlanFrom(ahead), todo |-> PlanFrom(ahead)]
            ELSE [NoEnsure EXCEPT !.pc = "failed"]]
  BY DEF StartEnsure
<1> DEFINE plan == PlanFrom(ahead)
<1>2. plan \in SUBSET Nat /\ plan # {}
  <2>1. Month(now) \in Nat /\ ahead \in Nat
    BY TimeTypes, TimeAssumption
  <2>2. Month(now) \in plan
    BY <2>1 DEF PlanFrom
  <2>3. QED
    BY <2>1, <2>2 DEF PlanFrom
<1> DEFINE a == [pc |-> "look", plan |-> plan, todo |-> plan]
<1> DEFINE b == [NoEnsure EXCEPT !.pc = "failed"]
<1>3. ens' = [ens EXCEPT ![e] = a] \/ ens' = [ens EXCEPT ![e] = b]
  BY <1>1
<1> HIDE DEF plan
<1>4. a \in EnsRec /\ a.pc = "look" /\ a.todo = a.plan /\ a.todo # {}
  BY <1>2 DEF EnsRec
<1>5. b \in EnsRec /\ b.pc = "failed"
  BY DEF NoEnsure, EnsRec
<1> HIDE DEF a, b
<1>6. QED
  BY <1>3, <1>4, <1>5 DEF CallTypes, StartEnsure

(* A set of months has an earliest.                                        *)
LEMMA EarliestIn ==
  ASSUME NEW S \in SUBSET Nat, S # {}
  PROVE  Earliest(S) \in S
<1> DEFINE R == OpToRel(<, Nat)
<1>1. PICK x \in S : \A y \in S : <<y, x>> \notin R
  BY NatLessThanWellFounded, WFMin, Zenon
<1>2. \A y \in S : ~(y < x)
  BY <1>1 DEF OpToRel
<1>3. \A y \in S : x <= y
  BY <1>2
<1>4. QED
  BY <1>3 DEF Earliest

(* A month dealt with is off the list, and the call goes on or returns.    *)
LEMMA EnsuredRec ==
  ASSUME CallTypes, NEW e \in Calls, ens[e].todo # {}
  PROVE  LET m == Earliest(ens[e].todo)
         IN  m \in ens[e].todo /\ m \in Nat /\ EnsuredAs(Ensured(e, m), ens[e], m)
<1> DEFINE a == ens[e]
<1> DEFINE m == Earliest(a.todo)
<1> DEFINE todo == a.todo \ {m}
<1> DEFINE pc == IF a.todo = {m} THEN "done" ELSE "look"
<1> DEFINE r == [a EXCEPT !.todo = todo, !.pc = pc]
<1>1. a \in EnsRec /\ a.todo \in SUBSET Nat
  BY DEF CallTypes, EnsRec
<1>2. m \in a.todo /\ m \in Nat
  BY <1>1, EarliestIn
<1> HIDE DEF m
<1>3. Ensured(e, m) = r
  BY <1>1 DEF Ensured
<1>4. /\ todo \in SUBSET Nat /\ pc \in {"done", "look"}
      /\ (pc = "done" /\ todo = {}) \/ (pc = "look" /\ todo # {})
  BY <1>1, <1>2
<1>5. todo = a.todo \ {m}
  OBVIOUS
<1> HIDE DEF todo, pc
<1>6. r \in EnsRec /\ r.plan = a.plan /\ r.todo = todo /\ r.pc = pc
  BY <1>1, <1>4 DEF EnsRec
<1>7. EnsuredAs(r, a, m)
  BY <1>4, <1>5, <1>6 DEF EnsuredAs
<1>8. QED
  BY <1>2, <1>3, <1>7 DEF m

(* to_regclass, and CREATE TABLE when it found nothing.                    *)
LEMMA EnsureEffect ==
  ASSUME CallTypes, EnsureInv, NEW e \in Calls, LookPartition(e) \/ CreatePartition(e)
  PROVE  /\ UNCHANGED <<rows, written, now, inst, prune>>
         /\ ens' \in [Calls -> EnsRec] /\ \A q \in Calls : q # e => ens'[q] = ens[q]
         /\ ens[e].pc \in {"look", "create"} /\ ens[e].todo # {}
         /\ \/ /\ UNCHANGED catalog
               /\ ens'[e].pc = "create" /\ ens'[e].todo = ens[e].todo /\ ens'[e].plan = ens[e].plan
            \/ \E m \in ens[e].todo :
                 /\ m \in Nat /\ EnsuredAs(ens'[e], ens[e], m)
                 /\ (UNCHANGED catalog /\ m \in Exists) \/ Partition(m)
<1> DEFINE a == ens[e]
<1> DEFINE m == Earliest(a.todo)
<1>1. ens \in [Calls -> EnsRec] /\ a \in EnsRec
  BY DEF CallTypes
<1>2. a.pc \in {"look", "create"} /\ UNCHANGED <<rows, written, now, inst, prune>>
  BY DEF LookPartition, CreatePartition
<1>3. a.todo # {}
  BY <1>2 DEF EnsureInv, EnsureOne
<1>4. m \in a.todo /\ m \in Nat /\ EnsuredAs(Ensured(e, m), a, m)
  BY <1>3, EnsuredRec
<1> DEFINE r == Ensured(e, m)
<1> DEFINE b == [a EXCEPT !.pc = "create"]
<1>5. \/ ens' = [ens EXCEPT ![e] = r] /\ UNCHANGED catalog /\ m \in Exists
      \/ ens' = [ens EXCEPT ![e] = b] /\ UNCHANGED catalog
      \/ ens' = [ens EXCEPT ![e] = r] /\ Partition(m)
  BY <1>1 DEF LookPartition, CreatePartition
<1>6. r \in EnsRec /\ EnsuredAs(r, a, m)
  BY <1>4 DEF EnsuredAs
<1>7. b \in EnsRec /\ b.pc = "create" /\ b.todo = a.todo /\ b.plan = a.plan
  BY <1>1 DEF EnsRec
<1> HIDE DEF r, b, m
<1>8. CASE ens' = [ens EXCEPT ![e] = b] /\ UNCHANGED catalog
  BY <1>1, <1>2, <1>3, <1>7, <1>8
<1>9. CASE ens' = [ens EXCEPT ![e] = r] /\ ((UNCHANGED catalog /\ m \in Exists) \/ Partition(m))
  BY <1>1, <1>2, <1>3, <1>4, <1>6, <1>9
<1>10. QED
  BY <1>5, <1>8, <1>9

-----------------------------------------------------------------------------
(* The invariant                                                           *)

(* What a step leaves of the table: time goes on, the layout stays once it *)
(* is there, no row comes twice, months go when they are over.             *)
TableFrame ==
  /\ now <= now' /\ (layout' = layout \/ layout = "none")
  /\ rows' \cap written \subseteq rows /\ written \subseteq written'
  /\ \A m \in attached : m >= Month(now) => m \in attached'
  /\ \A m \in archived' : m \in archived \/ m < Month(now)

(* A month that is created is attached.                                    *)
LEMMA PartitionTable ==
  ASSUME TableInv, NEW m \in Nat, Partition(m), UNCHANGED <<rows, written, now>>
  PROVE  /\ TableInv' /\ TableFrame
         /\ m \in attached' \/ m \in archived
<1>1. /\ layout = "partitioned" /\ UNCHANGED <<layout, trigger, rule, archived>>
      /\ attached \subseteq attached' /\ attached' \subseteq attached \cup {m}
      /\ m \in archived => attached' = attached
      /\ m \in attached' \/ m \in archived
  BY DEF Partition, Exists
<1>2. TableInv'
  BY <1>1 DEF TableInv, Instants
<1>3. TableFrame
  BY <1>1, TimeTypes DEF TableFrame, TableInv
<1>4. QED
  BY <1>1, <1>2, <1>3

(* A month that is removed is over, and its rows with it.                  *)
LEMMA RemovedTable ==
  ASSUME TableInv, CallTypes, PruneInv, NEW p \in Calls, prune[p].pc = "remove",
         NEW m \in prune[p].todo, Removed(m)
  PROVE  TableInv' /\ TableFrame /\ \A x \in rows \ rows' : x < prune[p].cutoff
<1>1. /\ m \in Nat /\ prune[p].cutoff \in Nat /\ prune[p].cutoff <= now
      /\ End(m) <= prune[p].cutoff /\ layout = "partitioned"
  BY DEF CallTypes, PruneRec, PruneInv, PruneTime, PruneRows
<1>2. m < Month(now)
  BY <1>1, TimeTypes DEF End, Month
<1>3. TableInv'
  BY <1>1 DEF Removed, TableInv, Instants
<1>4. TableFrame
  BY <1>2, TimeTypes DEF Removed, TableFrame, TableInv
<1>5. ASSUME NEW x \in rows \ rows' PROVE x < prune[p].cutoff
  <2>1. Month(x) = m /\ x \in Nat
    BY TimeTypes DEF Removed
  <2>2. x < End(m)
    BY <2>1, TimeTypes
  <2>3. End(m) \in Nat
    BY <1>1 DEF End
  <2>4. QED
    BY <1>1, <2>1, <2>2, <2>3
<1>6. QED
  BY <1>3, <1>4, <1>5

(* Every step keeps the table and the types of the calls.                  *)
LEMMA TableStep ==
  ASSUME TableInv, CallTypes, PruneInv, EnsureInv, Next
  PROVE  TableInv' /\ TableFrame /\ CallTypes'
<1>1. CASE Insert
  <2>1. PICK r \in 0 .. now :
          /\ layout # "none" /\ (layout = "partitioned" => Month(r) \in attached)
          /\ r \notin written /\ rows' = rows \cup {r} /\ written' = written \cup {r}
          /\ UNCHANGED <<catalog, now, calls>>
    BY <1>1 DEF Insert
  <2>2. r \in Instants
    BY <2>1, TimeAssumption DEF TableInv, Instants
  <2>3. TableInv'
    BY <2>1, <2>2 DEF TableInv, Instants, catalog
  <2>4. TableFrame
    BY <2>1, TimeTypes DEF TableFrame, catalog
  <2>5. QED
    BY <2>1, <2>3, <2>4 DEF CallTypes, calls
<1>2. CASE AppDelete
  <2>1. rows' \subseteq rows /\ UNCHANGED <<catalog, written, now, calls>>
    BY <1>2 DEF AppDelete
  <2>2. TableInv'
    BY <2>1 DEF TableInv, Instants, catalog
  <2>3. TableFrame
    BY <2>1, TimeTypes DEF TableFrame, catalog
  <2>4. QED
    BY <2>1, <2>2, <2>3 DEF CallTypes, calls
<1>3. CASE Tick
  <2>1. now < MaxTime /\ now' = now + 1 /\ UNCHANGED <<catalog, rows, written, calls>>
    BY <1>3 DEF Tick
  <2>2. now' \in Instants
    BY <2>1, TimeTypes, TimeAssumption DEF Instants
  <2>3. TableInv'
    BY <2>1, <2>2 DEF TableInv, Instants, catalog
  <2>4. TableFrame
    BY <2>1, TimeTypes DEF TableFrame, catalog
  <2>5. QED
    BY <2>1, <2>3, <2>4 DEF CallTypes, calls
<1>4. ASSUME UNCHANGED <<catalog, rows, written, now>> PROVE TableInv' /\ TableFrame
  BY <1>4, TimeTypes DEF TableInv, TableFrame, catalog, Instants
<1>5. ASSUME NEW i \in Calls, InstallStep(i) PROVE TableInv' /\ TableFrame /\ CallTypes'
  <2>1. CASE StartInstall(i)
    BY <1>4, <2>1, StartInstallEffect DEF CallTypes
  <2>2. CASE CheckRelkind(i)
    BY <1>4, <2>2, CheckEffect DEF CallTypes
  <2>3. CASE InstallFails(i)
    BY <1>4, <2>3, InstallFailsEffect DEF CallTypes
  <2>4. CASE ExecStatement(i)
    <3> DEFINE s == inst[i].todo[1]
    <3>1. /\ UNCHANGED <<rows, written, now, prune, ens>> /\ inst' \in [Calls -> InstRec]
          /\ s \in Statement
          /\ CreateTable(s) \/ Enforce(s) \/ (s.do = "partition" /\ Partition(s.arg))
      BY <2>4, ExecEffect
    <3> HIDE DEF s
    <3>2. CASE CreateTable(s)
      <4>1. s.arg \in {"flat", "partitioned"}
        BY <3>1, <3>2 DEF CreateTable, Statement
      <4>2. TableInv'
        BY <3>1, <3>2, <4>1 DEF CreateTable, TableInv, Instants
      <4>3. TableFrame
        BY <3>1, <3>2, TimeTypes DEF CreateTable, TableFrame
      <4>4. QED
        BY <3>1, <4>2, <4>3 DEF CallTypes
    <3>3. CASE Enforce(s)
      <4>1. /\ trigger' \in {"none", "enabled"} /\ rule' \in BOOLEAN
            /\ UNCHANGED <<layout, attached, archived>>
        BY <3>3 DEF Enforce, TableInv
      <4>2. TableInv'
        BY <3>1, <4>1 DEF TableInv, Instants
      <4>3. TableFrame
        BY <3>1, <4>1, TimeTypes DEF TableFrame
      <4>4. QED
        BY <3>1, <4>2, <4>3 DEF CallTypes
    <3>4. CASE s.do = "partition" /\ Partition(s.arg)
      <4>1. s.arg \in Nat
        BY <3>1, <3>4 DEF Statement
      <4>2. QED
        BY <3>1, <3>4, <4>1, PartitionTable DEF CallTypes
    <3>5. QED
      BY <3>1, <3>2, <3>3, <3>4
  <2>5. QED
    BY <1>5, <2>1, <2>2, <2>3, <2>4 DEF InstallStep
<1>6. ASSUME NEW e \in Calls, EnsureStep(e) PROVE TableInv' /\ TableFrame /\ CallTypes'
  <2>1. CASE StartEnsure(e)
    BY <1>4, <2>1, StartEnsureEffect DEF CallTypes
  <2>2. CASE EnsureFails(e)
    <3>1. [NoEnsure EXCEPT !.pc = "failed"] \in EnsRec
      BY DEF NoEnsure, EnsRec
    <3>2. QED
      BY <1>4, <2>2, <3>1 DEF EnsureFails, CallTypes
  <2>3. CASE LookPartition(e) \/ CreatePartition(e)
    <3>1. UNCHANGED <<rows, written, now, inst, prune>> /\ ens' \in [Calls -> EnsRec]
      BY <2>3, EnsureEffect
    <3>2. UNCHANGED catalog \/ \E m \in Nat : Partition(m)
      BY <2>3, EnsureEffect
    <3>3. QED
      BY <1>4, <3>1, <3>2, PartitionTable DEF CallTypes
  <2>4. QED
    BY <1>6, <2>1, <2>2, <2>3 DEF EnsureStep
<1>7. ASSUME NEW p \in Calls, PruneStep(p) PROVE TableInv' /\ TableFrame /\ CallTypes'
  <2>1. CASE StartPrune(p)
    BY <1>4, <2>1, StartPruneEffect DEF CallTypes
  <2>2. CASE ListPartitions(p)
    BY <1>4, <2>2, ListEffect DEF CallTypes
  <2>3. CASE FlatStep(p)
    BY <1>4, <2>3, FlatEffect DEF CallTypes
  <2>4. CASE PruneFails(p)
    BY <1>4, <2>4, PruneFailsEffect DEF CallTypes
  <2>5. CASE RemovePartition(p)
    <3>1. PICK m \in prune[p].todo : Removed(m)
      BY <2>5, RemoveEffect
    <3>2. prune' \in [Calls -> PruneRec] /\ prune[p].pc = "remove"
      BY <2>5, RemoveEffect
    <3>3. QED
      BY <3>1, <3>2, RemovedTable DEF CallTypes, Removed
  <2>6. CASE RemoveFails(p)
    <3>1. /\ prune' \in [Calls -> PruneRec] /\ prune[p].pc = "remove"
          /\ \/ UNCHANGED <<catalog, rows, written, now, inst, ens>>
             \/ \E m \in prune[p].todo : Removed(m)
      BY <2>6, RemoveFailsEffect
    <3>2. CASE UNCHANGED <<catalog, rows, written, now, inst, ens>>
      BY <1>4, <3>1, <3>2 DEF CallTypes
    <3>3. CASE \E m \in prune[p].todo : Removed(m)
      BY <3>1, <3>3, RemovedTable DEF CallTypes, Removed
    <3>4. QED
      BY <3>1, <3>2, <3>3
  <2>7. CASE CommitPrune(p)
    <3>1. /\ UNCHANGED <<layout, attached, archived, written, now, inst, ens>>
          /\ rows' \subseteq rows /\ prune' \in [Calls -> PruneRec]
      BY <2>7, CommitEffect
    <3>2. ~prune[p].off
      BY <2>7, CommitEffect DEF PruneInv, PruneShape
    <3>3. trigger' = trigger /\ rule' \in BOOLEAN
      BY <2>7, <3>2 DEF CommitPrune
    <3>4. TableInv'
      BY <3>1, <3>3 DEF TableInv, Instants
    <3>5. TableFrame
      BY <3>1, TimeTypes DEF TableFrame
    <3>6. QED
      BY <3>1, <3>4, <3>5 DEF CallTypes
  <2>8. QED
    BY <1>7, <2>1, <2>2, <2>3, <2>4, <2>5, <2>6, <2>7 DEF PruneStep, FlatStep
<1>8. QED
  BY <1>1, <1>2, <1>3, <1>5, <1>6, <1>7 DEF Next

(* What is said of a prune that does not move stays true: the rows it has  *)
(* seen can only become fewer.                                             *)
LEMMA PruneStable ==
  ASSUME NEW r \in PruneRec, PruneTime(r, now), PruneRows(r, layout, rows, written),
         TableFrame, now \in Nat, now' \in Nat
  PROVE  /\ PruneTime(r, now') /\ PruneRows(r, layout', rows', written')
         /\ PruneFinds(r, layout, rows, rule) /\ (rule' => rule) =>
              PruneFinds(r, layout', rows', rule')
<1>1. r.cutoff \in Nat /\ (layout' = layout \/ layout = "none") /\ now <= now'
  BY DEF PruneRec, TableFrame
<1>2. PruneTime(r, now')
  BY <1>1 DEF PruneTime
<1>3. r.seen \cap rows' \subseteq r.seen \cap rows /\ r.seen \subseteq written'
  BY DEF PruneRows, TableFrame
<1>4. PruneRows(r, layout', rows', written')
  BY <1>1, <1>3 DEF PruneRows, Flat
<1>5. PruneFinds(r, layout, rows, rule) /\ (rule' => rule) =>
        PruneFinds(r, layout', rows', rule')
  BY <1>1, <1>3 DEF PruneFinds, PruneRows, Flat
<1>6. QED
  BY <1>2, <1>4, <1>5

(* What ensurePartitions has dealt with stays, as long as its month lasts. *)
LEMMA EnsureStable ==
  ASSUME TableInv, TableFrame, now' \in Nat, NEW r \in EnsRec, EnsureOne(r, now, attached)
  PROVE  EnsureOne(r, now', attached')
<1>1. Month(now) <= Month(now') /\ Month(now) \in Nat /\ Month(now') \in Nat
  BY TimeTypes DEF TableFrame
<1>2. \A m \in Nat : m >= Month(now') => m >= Month(now)
  BY <1>1
<1>3. r.plan \subseteq Nat
  BY DEF EnsRec
<1>4. QED
  BY <1>2, <1>3 DEF EnsureOne, TableFrame

(* Every step keeps what ensurePartitions has dealt with.                  *)
LEMMA EnsureKept ==
  ASSUME TableInv, CallTypes, PruneInv, EnsureInv, Next
  PROVE  EnsureInv'
<1>1. TableInv' /\ TableFrame /\ CallTypes' /\ now' \in Nat
  <2>1. TableInv' /\ TableFrame /\ CallTypes'
    BY TableStep
  <2>2. now' \in Nat
    BY <2>1, TimeAssumption DEF TableInv, Instants
  <2>3. QED
    BY <2>1, <2>2
<1>2. Month(now) <= Month(now') /\ Month(now) \in Nat /\ Month(now') \in Nat
  BY <1>1, TimeTypes DEF TableFrame
<1>3. \A m \in archived' : m < Month(now')
  <2> SUFFICES ASSUME NEW m \in archived' PROVE m < Month(now')
    OBVIOUS
  <2>1. m \in Nat
    BY <1>1 DEF TableInv
  <2>2. m < Month(now)
    BY <1>1 DEF TableFrame, EnsureInv
  <2>3. QED
    BY <1>2, <2>1, <2>2
<1>4. \A e \in Calls : ens[e] \in EnsRec /\ EnsureOne(ens[e], now', attached')
  BY <1>1, EnsureStable DEF EnsureInv, CallTypes
<1>5. CASE \A e \in Calls : ~EnsureStep(e)
  <2>1. ens' = ens
    <3>1. CASE \E q \in Calls : InstallStep(q)
      BY <3>1 DEF InstallStep, StartInstall, CheckRelkind, ExecStatement, InstallFails, calls
    <3>2. CASE \E q \in Calls : PruneStep(q)
      <4>1. PICK q \in Calls : PruneStep(q)
        BY <3>2
      <4>2. CASE StartPrune(q) \/ ListPartitions(q) \/ RemovePartition(q) \/ RemoveFails(q)
        BY <4>2 DEF StartPrune, ListPartitions, RemovePartition, RemoveFails
      <4>3. CASE LookTrigger(q) \/ LookRule(q) \/ Disable(q) \/ Delete(q) \/ Enable(q)
        BY <4>3 DEF LookTrigger, LookRule, Disable, Delete, Enable
      <4>4. CASE CommitPrune(q) \/ PruneFails(q)
        BY <4>4 DEF CommitPrune, PruneFails
      <4>5. QED
        BY <4>1, <4>2, <4>3, <4>4 DEF PruneStep
    <3>3. CASE Insert \/ AppDelete \/ Tick
      BY <3>3 DEF Insert, AppDelete, Tick, calls
    <3>4. QED
      BY <1>5, <3>1, <3>2, <3>3 DEF Next
  <2>2. QED
    BY <1>3, <1>4, <2>1 DEF EnsureInv
<1>6. ASSUME NEW e \in Calls, EnsureStep(e) PROVE EnsureInv'
  <2> SUFFICES EnsureOne(ens'[e], now', attached') /\ \A q \in Calls : q # e => ens'[q] = ens[q]
    BY <1>3, <1>4 DEF EnsureInv
  <2>1. CASE StartEnsure(e)
    BY <2>1, StartEnsureEffect DEF EnsureOne
  <2>2. CASE EnsureFails(e)
    <3>1. /\ ens'[e].pc = "failed" /\ \A q \in Calls : q # e => ens'[q] = ens[q]
      BY <2>2 DEF EnsureFails, NoEnsure, CallTypes
    <3>2. QED
      BY <3>1 DEF EnsureOne
  <2>3. CASE LookPartition(e) \/ CreatePartition(e)
    <3> DEFINE r == ens'[e]
    <3> DEFINE a == ens[e]
    <3>1. /\ \A q \in Calls : q # e => ens'[q] = ens[q]
          /\ UNCHANGED <<rows, written, now>> /\ a.pc \in {"look", "create"} /\ a.todo # {}
      BY <2>3, EnsureEffect
    <3>2. EnsureOne(a, now', attached')
      BY <1>4
    <3>3. CASE UNCHANGED catalog /\ r.pc = "create" /\ r.todo = a.todo /\ r.plan = a.plan
      BY <3>1, <3>2, <3>3 DEF EnsureOne
    <3>4. ASSUME NEW m \in Nat, EnsuredAs(r, a, m),
                 (UNCHANGED catalog /\ m \in Exists) \/ Partition(m)
          PROVE  EnsureOne(r, now', attached')
      <4>1. m \in attached' \/ m \in archived
        BY <3>1, <3>4, PartitionTable DEF catalog, Exists
      <4>2. m >= Month(now') => m \in attached'
        BY <1>2, <3>1, <3>4, <4>1 DEF EnsureInv
      <4> HIDE DEF r, a
      <4>3. QED
        BY <3>1, <3>2, <3>4, <4>2 DEF EnsureOne, EnsuredAs
    <3>5. QED
      BY <2>3, <3>1, <3>3, <3>4, EnsureEffect
  <2>4. QED
    BY <1>6, <2>1, <2>2, <2>3 DEF EnsureStep
<1>7. QED
  BY <1>5, <1>6

(* Every step keeps what is said of the prunes.                            *)
LEMMA PruneKept ==
  ASSUME TableInv, CallTypes, InstallInv, RuleGone, PruneInv, EnsureInv, Next
  PROVE  PruneInv'
<1>1. TableInv' /\ TableFrame /\ CallTypes' /\ now \in Nat /\ now' \in Nat
  <2>1. TableInv' /\ TableFrame /\ CallTypes'
    BY TableStep
  <2>2. now' \in Nat
    BY <2>1, TimeAssumption DEF TableInv, Instants
  <2>3. QED
    BY <2>1, <2>2, TimeTypes
<1>2. NoRuleRun' => NoRuleRun /\ (rule' => rule)
  BY NoRuleBack
<1>3. ASSUME NEW p \in Calls, prune'[p] = prune[p] PROVE Kept(p)
  <2>1. /\ prune[p] \in PruneRec
        /\ PruneShape(prune[p]) /\ PruneTime(prune[p], now)
        /\ PruneRows(prune[p], layout, rows, written)
        /\ NoRuleRun => PruneFinds(prune[p], layout, rows, rule)
    BY DEF CallTypes, PruneInv
  <2>2. /\ PruneTime(prune[p], now') /\ PruneRows(prune[p], layout', rows', written')
        /\ PruneFinds(prune[p], layout, rows, rule) /\ (rule' => rule) =>
             PruneFinds(prune[p], layout', rows', rule')
    BY <1>1, <2>1, PruneStable
  <2>3. QED
    BY <1>2, <1>3, <2>1, <2>2 DEF Kept
<1>4. CASE \A p \in Calls : ~PruneStep(p)
  <2>1. prune' = prune
    BY <1>4 DEF Next, Insert, AppDelete, Tick, calls, InstallStep, StartInstall, CheckRelkind,
       ExecStatement, InstallFails, EnsureStep, StartEnsure, LookPartition, CreatePartition,
       EnsureFails
  <2>2. QED
    BY <1>3, <2>1 DEF PruneInv, Kept
<1>5. ASSUME NEW p \in Calls, PruneStep(p) PROVE PruneInv'
  <2>1. Kept(p)
    BY <1>2, <1>5, StartPruneKept, ListKept, FlatKept, RemoveKept, FailuresKept, CommitKept
       DEF PruneStep, FlatStep
  <2>2. \A q \in Calls : q # p => prune'[q] = prune[q]
    BY <1>5, StartPruneEffect, ListEffect, FlatEffect, RemoveEffect, RemoveFailsEffect,
       PruneFailsEffect, CommitEffect DEF PruneStep, FlatStep
  <2>3. \A q \in Calls : Kept(q)
    BY <1>3, <2>1, <2>2
  <2>4. QED
    BY <2>3 DEF PruneInv, Kept
<1>6. QED
  BY <1>4, <1>5

(* Init has the invariant: nobody has begun.                               *)
LEMMA InitInv == Init => IInv
<1> SUFFICES ASSUME Init PROVE IInv
  OBVIOUS
<1>1. /\ \A c \in Calls : inst[c] = NoInstall /\ prune[c] = NoPrune /\ ens[c] = NoEnsure
      /\ inst = [c \in Calls |-> NoInstall] /\ prune = [c \in Calls |-> NoPrune]
      /\ ens = [c \in Calls |-> NoEnsure]
      /\ rows = {} /\ written = {} /\ now = Start /\ archived = {}
      /\ attached = IF layout = "partitioned" THEN 0 .. Month(Start) ELSE {}
  BY DEF Init
<1>2. TableInv
  <2>1. /\ layout \in {"none", "flat", "partitioned"} /\ trigger \in {"none", "enabled"}
        /\ rule \in BOOLEAN
    BY LayoutsAssumption DEF Init
  <2>2. now \in Instants
    BY <1>1, TimeAssumption DEF Instants
  <2>3. QED
    BY <1>1, <2>1, <2>2 DEF TableInv
<1>3. CallTypes
  <2>1. <<>> \in Seq(Statement)
    OBVIOUS
  <2>2. NoInstall \in InstRec
    BY <2>1 DEF NoInstall, InstRec
  <2>3. NoPrune \in PruneRec
    BY DEF NoPrune, PruneRec
  <2>4. NoEnsure \in EnsRec
    BY DEF NoEnsure, EnsRec
  <2>5. QED
    BY <1>1, <2>2, <2>3, <2>4 DEF CallTypes
<1>4. InstallInv /\ EnforcementInv
  BY <1>1 DEF InstallInv, InstallOne, EnforcementInv, NoInstall
<1>5. RuleGone
  BY <1>1 DEF Init, RuleGone, NoInstall
<1>6. PruneInv
  <2>1. NoPrune.pc = "idle"
    BY DEF NoPrune
  <2>2. PruneShape(NoPrune)
    BY DEF NoPrune, PruneShape, Flat
  <2>3. PruneTime(NoPrune, Start)
    BY TimeAssumption DEF NoPrune, PruneTime
  <2>4. PruneRows(NoPrune, layout, rows, written) /\ PruneFinds(NoPrune, layout, rows, rule)
    BY DEF NoPrune, PruneRows, PruneFinds, Flat
  <2>5. QED
    BY <1>1, <2>2, <2>3, <2>4 DEF PruneInv
<1>7. EnsureInv
  BY <1>1 DEF EnsureInv, EnsureOne, NoEnsure
<1>8. QED
  BY <1>2, <1>3, <1>4, <1>5, <1>6, <1>7 DEF IInv

(* Every step keeps the invariant.                                         *)
LEMMA StepInv == IInv /\ [Next]_vars => IInv'
<1> SUFFICES ASSUME IInv, [Next]_vars PROVE IInv'
  OBVIOUS
<1>1. CASE UNCHANGED vars
  BY <1>1 DEF vars, catalog, calls, IInv, TableInv, CallTypes, InstallInv, EnforcementInv,
     RuleGone, NoRuleRun, PruneInv, EnsureInv
<1>2. CASE Next
  <2>1. /\ TableInv /\ CallTypes /\ InstallInv /\ EnforcementInv /\ RuleGone /\ PruneInv
        /\ EnsureInv
    BY DEF IInv
  <2>2. TableInv' /\ CallTypes'
    BY <1>2, <2>1, TableStep
  <2>3. InstallInv'
    <3>1. CASE \E i \in Calls : InstallStep(i)
      BY <2>1, <3>1, InstallKept
    <3>2. CASE \A i \in Calls : ~InstallStep(i)
      BY <1>2, <2>1, <3>2, EnforcementFrame DEF InstallInv
    <3>3. QED
      BY <3>1, <3>2
  <2>4. EnforcementInv'
    BY <1>2, <2>1, EnforcementStep
  <2>5. RuleGone'
    BY <1>2, <2>1, RuleStep
  <2>6. PruneInv'
    BY <1>2, <2>1, PruneKept
  <2>7. EnsureInv'
    BY <1>2, <2>1, EnsureKept
  <2>8. QED
    BY <2>2, <2>3, <2>4, <2>5, <2>6, <2>7 DEF IInv
<1>3. QED
  BY <1>1, <1>2

-----------------------------------------------------------------------------
(* The theorems                                                            *)

(* The invariant holds in every state, for any numbers of calls, layouts,  *)
(* modes and instants.                                                     *)
THEOREM Invariance == Spec => []IInv
BY InitInv, StepInv, PTL DEF Spec

(* A partition is attached or stands alone, every row of a partitioned     *)
(* table is in one, and no prune leaves the trigger in between.            *)
THEOREM TypeCorrect == Spec => []TypeOK
<1>1. IInv => TypeOK
  <2> SUFFICES ASSUME IInv PROVE TypeOK
    OBVIOUS
  <2>1. TableInv /\ CallTypes
    BY DEF IInv
  <2>2. \A p \in Calls : prune[p].took \cup prune[p].report \in Months
    BY <2>1 DEF CallTypes, PruneRec, Months
  <2>3. QED
    BY <2>1, <2>2 DEF TableInv, TypeOK, Exists, Months
<1>2. QED
  BY <1>1, Invariance, PTL

(* Any number of overlapping applyAuditTableSchema calls, in whatever      *)
(* modes (sql/index.ts), and of prunes beside them (services/audit-        *)
(* maintenance.service.ts) leave a table that blocks deletion.             *)
THEOREM EnforcementStays == Spec => []EnforcementInstalled
<1>1. IInv => EnforcementInstalled
  BY DEF IInv, EnforcementInv, EnforcementInstalled, Installed, Creating
<1>2. QED
  BY <1>1, Invariance, PTL

(* A prune that returns has removed every row it was to remove, unless a   *)
(* rule was created beside it.                                             *)
THEOREM PruneIsComplete == Spec => []PruneComplete
<1>1. IInv => PruneComplete
  <2> SUFFICES ASSUME IInv, NEW p \in Calls, prune[p].pc = "done", ~prune[p].dry,
                      \A i \in Calls : inst[i].mode # "rule", NEW r \in prune[p].seen \cap rows
               PROVE  (IF layout = "partitioned" THEN End(Month(r)) ELSE r + 1) > prune[p].cutoff
    BY DEF PruneComplete
  <2>1. NoRuleRun
    BY DEF NoRuleRun
  <2>2. /\ PruneRows(prune[p], layout, rows, written)
        /\ PruneFinds(prune[p], layout, rows, rule)
        /\ layout \in {"none", "flat", "partitioned"}
    BY <2>1 DEF IInv, PruneInv, TableInv
  <2>3. CASE layout = "partitioned"
    BY <2>2, <2>3 DEF PruneRows
  <2>4. CASE layout # "partitioned"
    BY <2>2, <2>4 DEF PruneRows, PruneFinds
  <2>5. QED
    BY <2>3, <2>4
<1>2. QED
  BY <1>1, Invariance, PTL

(* What prune reports as pruned is gone by its own doing, and its error    *)
(* names all but the partition it failed at.                               *)
THEOREM ReportsAreHonest == Spec => []ReportHonest
<1>1. IInv => ReportHonest
  <2> SUFFICES ASSUME IInv, NEW p \in Calls, prune[p].pc \in {"done", "failed"}, ~prune[p].dry
               PROVE  /\ prune[p].report \subseteq prune[p].took
                      /\ Cardinality(prune[p].took \ prune[p].report) <= 1
                      /\ prune[p].pc = "done" => prune[p].took = prune[p].report
    BY DEF ReportHonest
  <2>1. PruneShape(prune[p])
    BY DEF IInv, PruneInv
  <2>2. CASE prune[p].pc = "failed"
    BY <2>1, <2>2 DEF PruneShape
  <2>3. CASE prune[p].pc = "done"
    <3>1. prune[p].took = prune[p].report
      BY <2>1, <2>3 DEF PruneShape
    <3>2. prune[p].took \ prune[p].report = {}
      BY <3>1
    <3>3. Cardinality(prune[p].took \ prune[p].report) = 0
      BY <3>2, FS_EmptySet
    <3>4. QED
      BY <3>1, <3>3
  <2>4. QED
    BY <2>2, <2>3
<1>2. QED
  BY <1>1, Invariance, PTL

(* Rows of the months ensurePartitions was asked for find their partition. *)
THEOREM InsertsAreRouted == Spec => []InsertsRouted
<1>1. IInv => InsertsRouted
  BY DEF IInv, EnsureInv, EnsureOne, InsertsRouted
<1>2. QED
  BY <1>1, Invariance, PTL

(* On an installed table only retention removes rows, and only old ones.   *)
THEOREM OnlyRetentionRemoves == Spec => AppendOnly
<1> DEFINE Due == Installed => \A r \in rows \ rows' :
                    \E p \in Calls : prune'[p] # prune[p] /\ r < prune[p].cutoff
<1>1. ASSUME IInv, [Next]_vars PROVE [Due]_vars
  <2> SUFFICES ASSUME Next, Installed, NEW r \in rows, r \notin rows'
               PROVE  \E p \in Calls : prune'[p] # prune[p] /\ r < prune[p].cutoff
    BY <1>1
  <2>1. TableInv /\ CallTypes /\ PruneInv /\ EnsureInv
    BY <1>1 DEF IInv
  <2>2. ~AppDelete
    <3>1. trigger = "enabled" \/ rule
      BY <1>1 DEF IInv, EnforcementInv, Installed, Creating
    <3>2. QED
      BY <3>1 DEF AppDelete
  <2>3. ~Insert /\ ~Tick
    BY DEF Insert, Tick
  <2>4. \A c \in Calls : ~InstallStep(c) /\ ~EnsureStep(c)
    BY DEF InstallStep, StartInstall, CheckRelkind, ExecStatement, InstallFails, EnsureStep,
       StartEnsure, LookPartition, CreatePartition, EnsureFails
  <2>5. PICK p \in Calls : PruneStep(p)
    BY <2>2, <2>3, <2>4 DEF Next
  <2>6. CASE RemovePartition(p)
    <3>1. PICK m \in prune[p].todo : Removed(m) /\ prune'[p].todo = prune[p].todo \ {m}
      BY <2>1, <2>6, RemoveEffect
    <3>2. prune[p].pc = "remove" /\ prune'[p] # prune[p]
      BY <2>6, <3>1 DEF RemovePartition
    <3>3. r < prune[p].cutoff
      BY <2>1, <3>1, <3>2, RemovedTable
    <3>4. QED
      BY <3>2, <3>3
  <2>7. CASE RemoveFails(p)
    <3>1. prune[p].pc = "remove" /\ prune'[p].pc = "failed"
      BY <2>1, <2>7, RemoveFailsEffect DEF FailedAs
    <3>2. PICK m \in prune[p].todo : Removed(m)
      BY <2>1, <2>7, RemoveFailsEffect
    <3>3. r < prune[p].cutoff
      BY <2>1, <3>1, <3>2, RemovedTable
    <3>4. QED
      BY <3>1, <3>3
  <2>8. CASE CommitPrune(p)
    <3>1. r \in prune[p].pending /\ prune[p].pc = "commit" /\ prune'[p].pc # "commit"
      BY <2>1, <2>8, CommitEffect DEF FailedAs
    <3>2. r < prune[p].cutoff
      BY <2>1, <3>1 DEF PruneInv, PruneTime
    <3>3. QED
      BY <3>1, <3>2
  <2>9. CASE ~RemovePartition(p) /\ ~RemoveFails(p) /\ ~CommitPrune(p)
    BY <2>5, <2>9 DEF PruneStep, StartPrune, ListPartitions, LookTrigger, LookRule, Disable,
       Delete, Enable, PruneFails
  <2>10. QED
    BY <2>6, <2>7, <2>8, <2>9
<1>2. QED
  BY <1>1, Invariance, PTL DEF Spec, AppendOnly
=============================================================================
