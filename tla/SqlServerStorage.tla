--------------------------- MODULE SqlServerStorage ---------------------------
(***************************************************************************)
(* The audit table in SQL Server, statement by statement: the installers   *)
(* applyAuditTableSchema and applySqlServerAuditReadIndexes, which may run *)
(* beside each other and stop anywhere, an administrator who changes the   *)
(* same objects, and inspectSqlServerAuditStorage, whose one query reads   *)
(* the catalog in several places.                                          *)
(***************************************************************************)
EXTENDS Naturals, Sequences, FiniteSets

CONSTANTS
  Installers,  \* connections that install, one call after another
  MaxChanges,  \* bound: how often others change the table or write to it
  Touched,     \* bound: the parts they change
  MaxBeside    \* bound: the calls an inspection may run beside

VARIABLES
  storage,  \* the catalog entries of the table and its unsound rows
  call,     \* the progress of each installer call
  report,   \* the progress of an inspection
  changes   \* how often others have stepped in

vars == <<storage, call, report, changes>>

Json     == {"changes", "metadata"}
Triggers == {"update", "delete"}
Prefixes == {"tenant_id", "target_type", "target_id", "actor_id"}
(* The read indexes and the prefix columns each of them needs.             *)
Needs == [read_tenant |-> {"tenant_id"},
          read_target |-> {"tenant_id", "target_type", "target_id"},
          read_actor  |-> {"tenant_id", "actor_id"}]
Indexes  == DOMAIN Needs
Parts    == {"columns", "key", "created"} \cup Json \cup Triggers \cup Prefixes \cup Indexes

(* good: as documented; off: disabled, or not trusted; foreign: another    *)
(* definition under the name.  Of the columns, extra: as documented but    *)
(* for one more that every INSERT has to fill; of a trigger, hollow: the   *)
(* right event and another body, elsewhere: the name is taken in the       *)
(* schema by an object that is not a trigger of this table.                *)
States(p) ==
  {"absent", "good", "foreign"}
    \cup (IF p = "columns" THEN {"extra"} ELSE {})
    \cup (IF p \in Prefixes \cup {"columns"} THEN {} ELSE {"off"})
    \cup (IF p \in Triggers THEN {"hollow", "elsewhere"} ELSE {})

ASSUME BoundAssumption == MaxChanges \in Nat /\ MaxBeside \in Nat /\ Touched \subseteq Parts

Nothing == [object |-> "none", part |-> [p \in Parts |-> "absent"], unsound |-> {}]
(* CREATE TABLE: columns, defaults and the primary key.                    *)
Created(st) == [st EXCEPT !.object = "table", !.part.columns = "good", !.part.key = "good"]

Statement(do, on) == [do |-> do, on |-> on]

CreateTable == << Statement("create", "columns") >>
Validate ==
  << Statement("check", "columns"), Statement("check", "update"), Statement("check", "delete"),
     Statement("check", "changes"), Statement("check", "metadata"), Statement("check", "created") >>
JsonChecks ==
  << Statement("add", "changes"), Statement("enable", "changes"),
     Statement("add", "metadata"), Statement("enable", "metadata") >>
CreatedIndex == << Statement("add", "created") >>

(* Mutant: CREATE OR ALTER TRIGGER is taken to enable the trigger.         *)
GuardsAltered == << Statement("put", "update"), Statement("put", "delete") >>

Guards ==
  << Statement("put", "update"), Statement("enable", "update"),
     Statement("put", "delete"), Statement("enable", "delete") >>

(* Mutant: existing objects are looked at only once the table is changed.  *)
CheckLast == CreateTable \o JsonChecks \o Validate \o CreatedIndex \o Guards

(* getSqlServerAuditTableStatements.                                       *)
SchemaProgram == CreateTable \o Validate \o JsonChecks \o CreatedIndex \o Guards

(* getSqlServerAuditReadIndexStatements.                                   *)
IndexProgram ==
  << Statement("preflight", "columns"),
     Statement("add", "tenant_id"), Statement("add", "target_type"),
     Statement("add", "target_id"), Statement("add", "actor_id"),
     Statement("add", "read_tenant"), Statement("add", "read_target"),
     Statement("add", "read_actor") >>

Program(kind) == IF kind = "schema" THEN SchemaProgram ELSE IndexProgram

(* An installer between two calls, and an inspection between two calls.    *)
Ready == [pc |-> "ready", kind |-> "schema", at |-> 1, clean |-> FALSE, fit |-> FALSE]
Quiet == [pc |-> "quiet", unread |-> {}, lost |-> FALSE, faulty |-> {}, sound |-> FALSE,
          clean |-> FALSE]

Init ==
  /\ storage \in {Nothing, [Nothing EXCEPT !.object = "other"], Created(Nothing)}
  /\ call = [i \in Installers |-> Ready]
  /\ report = Quiet
  /\ changes = 0
-----------------------------------------------------------------------------
(* What the IF of a statement finds.                                       *)
Wanted(s, st) ==
  CASE s.do = "create" -> st.object = "none"
    [] s.do = "add"    -> st.part[s.on] = "absent"
    [] s.do = "enable" -> s.on \in Triggers \/ st.part[s.on] = "off"
    [] s.do = "put"    -> TRUE
    [] OTHER           -> FALSE

(* THROW 51002 and 51003.                                                  *)
Throws(s, st) ==
  CASE s.do = "create"    -> st.object = "other"
    [] s.do = "preflight" -> st.object # "table" \/ st.part.columns = "foreign"
    [] s.do = "check"     ->
         \/ s.on = "columns" /\ (st.part.columns # "good" \/ st.part.key # "good")
         \/ s.on \in Triggers /\ st.part[s.on] = "elsewhere"
         \/ s.on \in Json /\ st.part[s.on] = "foreign"
         \/ s.on = "created" /\ st.part.created \in {"foreign", "off"}
    [] s.do = "add" -> s.on \in Prefixes \cup Indexes /\ st.part[s.on] \in {"foreign", "off"}
    [] OTHER -> FALSE

(* When the database accepts the DDL: the object is not there yet, or is,  *)
(* and the rows satisfy the constraint.                                    *)
Accepts(s, st) ==
  CASE s.do = "create" -> st.object = "none"
    [] s.do = "add" ->
         /\ st.object = "table" /\ st.part[s.on] = "absent"
         /\ s.on \notin st.unsound
         /\ s.on \in Indexes => \A c \in Needs[s.on] : st.part[c] = "good"
    [] s.do = "enable" ->
         st.object = "table" /\ st.part[s.on] \notin {"absent", "elsewhere"} \cup
                                  (IF s.on \in st.unsound THEN {"off", "foreign"} ELSE {})
    [] s.do = "put" -> st.object = "table" /\ st.part[s.on] # "elsewhere"

(* What the DDL leaves.  Altering a disabled trigger leaves it disabled or *)
(* enables it; the code does not rely on either.                           *)
Results(s, st) ==
  CASE s.do = "create" -> {Created(st)}
    [] s.do = "add"    -> {[st EXCEPT !.part[s.on] = "good"]}
    [] s.do = "enable" -> {[st EXCEPT !.part[s.on] = IF @ = "off" THEN "good" ELSE @]}
    [] s.do = "put"    -> {[st EXCEPT !.part[s.on] = x] :
                             x \in IF st.part[s.on] = "off" THEN {"off", "good"} ELSE {"good"}}
-----------------------------------------------------------------------------
Required == {"columns", "key", "created"} \cup Json \cup Triggers
Complete(st, parts) == st.object = "table" /\ \A p \in parts : st.part[p] = "good"

(* The table is yet to be created, or is one the installer may modify.     *)
Fit(st) ==
  \/ st.object = "none"
  \/ /\ st.object = "table"
     /\ st.part.columns = "good" /\ st.part.key = "good"
     /\ st.part.created \in {"absent", "good"}
     /\ \A c \in Json : st.part[c] # "foreign"
     /\ \A t \in Triggers : st.part[t] # "elsewhere"

(* What an inspection promises to notice: everything but the body of a     *)
(* trigger and columns beyond the documented ones.                         *)
Faulty(st) ==
  {p \in Required : st.object # "table" \/
     st.part[p] \notin {"good"} \cup (IF p = "columns" THEN {"extra"} ELSE {})
                              \cup (IF p \in Triggers THEN {"hollow"} ELSE {})}
Sound(st) == Complete(st, Required) /\ \A n \in Indexes : st.part[n] # "off"

(* An inspection that has found no issue: what has been faulty ever since  *)
(* it began, and whether all has been sound (history).                     *)
Watched(st) ==
  IF ~report.clean THEN report
  ELSE [report EXCEPT !.faulty = @ \cap Faulty(st), !.sound = @ /\ Sound(st)]

Start(i, kind) ==
  /\ call[i].pc \in {"ready", "resolved"}
  /\ report.pc = "reading" =>
       Cardinality({j \in Installers : call[j].pc \in {"look", "act"}}) < MaxBeside
  /\ call' = [call EXCEPT ![i] =
       [pc |-> "look", kind |-> kind, at |-> 1, clean |-> TRUE, fit |-> Fit(storage)]]
  /\ UNCHANGED <<storage, report, changes>>

Current(i)   == Program(call[i].kind)[call[i].at]
Resolved(i)  == [Ready EXCEPT !.pc = "resolved", !.kind = call[i].kind, !.clean = call[i].clean]

(* Mutant: the loop over the statements runs past the last one.            *)
FollowingPast(i) ==
  IF call[i].at > Len(Program(call[i].kind)) THEN Resolved(i)
  ELSE [call[i] EXCEPT !.pc = "look", !.at = @ + 1]

(* for (const statement of statements) await prisma.$executeRawUnsafe(...) *)
Following(i) ==
  IF call[i].at = Len(Program(call[i].kind)) THEN Resolved(i)
  ELSE [call[i] EXCEPT !.pc = "look", !.at = @ + 1]

(* The conditions of a statement; its DDL, if any, is a step of its own,   *)
(* because nothing locks the catalog in between.                           *)
Look(i) ==
  /\ call[i].pc = "look"
  /\ LET s == Current(i)
     IN  call' = [call EXCEPT ![i] = IF Throws(s, storage) THEN Ready
                                     ELSE IF Wanted(s, storage) THEN [@ EXCEPT !.pc = "act"]
                                     ELSE Following(i)]
  /\ UNCHANGED <<storage, report, changes>>

Act(i) ==
  /\ call[i].pc = "act"
  /\ LET s == Current(i)
     IN  IF Accepts(s, storage)
           THEN /\ storage' \in Results(s, storage)
                /\ call' = [call EXCEPT ![i] = Following(i)]
                /\ report' = Watched(storage')
           ELSE /\ call' = [call EXCEPT ![i] = Ready]
                /\ UNCHANGED <<storage, report>>
  /\ UNCHANGED changes

(* The connection or the process is lost: between two statements, or after *)
(* one whose answer never arrives.                                         *)
Lose(i) ==
  /\ call[i].pc \in {"look", "act"}
  /\ call' = [call EXCEPT ![i] = Ready]
  /\ UNCHANGED <<storage, report, changes>>
-----------------------------------------------------------------------------
(* Whatever an administrator does, the installers know nothing of it; from *)
(* now on what they have found at their start says nothing (clean, fit).   *)
Interfere(st) ==
  /\ changes < MaxChanges
  /\ changes' = changes + 1
  /\ storage' = st
  /\ call' = [i \in Installers |-> IF call[i].pc = "resolved" THEN Ready
                                  ELSE [call[i] EXCEPT !.clean = FALSE, !.fit = FALSE]]

(* A part is dropped, disabled, redefined or repaired.                     *)
Change(p, x) ==
  /\ x \in States(p) \ {storage.part[p]}
  /\ storage.object = "table" \/ (p \in Triggers /\ {x, storage.part[p]} = {"elsewhere", "absent"})
  /\ p = "columns" => x # "absent"
  /\ p \in Prefixes => \A n \in Indexes : p \in Needs[n] => storage.part[n] = "absent"
  /\ p \in Indexes /\ storage.part[p] = "absent" => \A c \in Needs[p] : storage.part[c] # "absent"
  /\ p \in storage.unsound => x \notin {"good"}
  /\ LET st == [storage EXCEPT !.part[p] = x]
     IN  Interfere(st) /\ report' = Watched(st)

(* The table is dropped; an inspection that holds its id finds no row.     *)
Drop ==
  /\ storage.object # "none"
  /\ LET st == [Nothing EXCEPT !.part = [p \in Parts |->
                  IF storage.part[p] = "elsewhere" THEN "elsewhere" ELSE "absent"]]
     IN  /\ Interfere(st)
         /\ report' = [Watched(st) EXCEPT !.lost = report.clean]

(* A row whose text is not JSON, while nothing keeps it out.               *)
WriteUnsound(c) ==
  /\ storage.object = "table" /\ storage.part.columns \in {"good", "foreign"}
  /\ storage.part[c] # "good" /\ c \notin storage.unsound
  /\ changes < MaxChanges /\ changes' = changes + 1
  /\ storage' = [storage EXCEPT !.unsound = @ \cup {c}]
  /\ UNCHANGED <<call, report>>
-----------------------------------------------------------------------------
(* owner: dbo; viewer: VIEW DEFINITION; reader: rows of the catalog but no *)
(* definitions; stranger: OBJECT_ID is null.                               *)
Identities == {"owner", "viewer", "reader", "stranger"}
Sections   == {"columns", "indexes", "triggers", "constraints"}

(* clean: the status is 'inspected' and there is no issue so far.          *)
Inspect(who, session) ==
  /\ report.pc = "quiet"
  /\ Cardinality({i \in Installers : call[i].pc \in {"look", "act"}}) <= MaxBeside
  /\ LET clean == storage.object = "table" /\ who \in {"owner", "viewer"} /\ session
     IN  report' = [Quiet EXCEPT !.pc = "reading", !.clean = clean,
                      !.unread = IF clean THEN Sections ELSE {},
                      !.faulty = IF clean THEN Faulty(storage) ELSE {},
                      !.sound  = clean /\ Sound(storage)]
  /\ UNCHANGED <<storage, call, changes>>

Rows(section) ==
  CASE section = "columns"     -> {"columns"}
    [] section = "indexes"     -> {"key", "created"} \cup Indexes
    [] section = "triggers"    -> Triggers
    [] section = "constraints" -> Json

(* FOR JSON of no rows is NULL, which parseRows rejects.                   *)
NoRows(section) ==
  \/ report.lost
  \/ section # "columns" /\ \A p \in Rows(section) : storage.part[p] \in {"absent", "elsewhere"}

(* Mutant: a trigger that is there passes, enabled or not.                 *)
PassesDisabled(p) ==
  CASE p = "columns"   -> storage.part[p] \in {"good", "extra"}
    [] p \in Triggers  -> storage.part[p] \in {"good", "hollow", "off"}
    [] p \in Indexes   -> storage.part[p] # "off"
    [] OTHER           -> storage.part[p] = "good"

(* What raises no issue.  The body of a trigger is not looked at, nor are  *)
(* columns beyond the documented ones.                                     *)
Passes(p) ==
  CASE p = "columns"   -> storage.part[p] \in {"good", "extra"}
    [] p \in Triggers  -> storage.part[p] \in {"good", "hollow"}
    [] p \in Indexes   -> storage.part[p] # "off"
    [] OTHER           -> storage.part[p] = "good"

(* One of the subqueries, which the database evaluates in any order; after *)
(* an issue the others make no difference.                                 *)
Read(section) ==
  /\ section \in report.unread
  /\ LET clean == ~NoRows(section) /\ \A p \in Rows(section) : Passes(p)
     IN  report' = [report EXCEPT !.clean = clean,
                                  !.unread = IF clean THEN @ \ {section} ELSE {},
                                  !.faulty = IF clean THEN @ ELSE {}]
  /\ UNCHANGED <<storage, call, changes>>

(* The report is returned.                                                 *)
Return ==
  /\ report.pc = "reading" /\ report.unread = {}
  /\ report' = Quiet
  /\ UNCHANGED <<storage, call, changes>>

Next ==
  \/ \E i \in Installers, kind \in {"schema", "indexes"} : Start(i, kind)
  \/ \E i \in Installers : Look(i) \/ Act(i) \/ Lose(i)
  \/ \E p \in Touched : \E x \in States(p) : Change(p, x)
  \/ Drop
  \/ \E c \in Json \cap Touched : WriteUnsound(c)
  \/ \E who \in Identities, session \in BOOLEAN : Inspect(who, session)
  \/ \E section \in Sections : Read(section)
  \/ Return

Spec == Init /\ [][Next]_vars
-----------------------------------------------------------------------------
(* Types of the catalog, the calls and the inspection.                     *)
TypeOK ==
  /\ storage.object \in {"none", "table", "other"} /\ storage.unsound \subseteq Json
  /\ DOMAIN storage.part = Parts /\ \A p \in Parts : storage.part[p] \in States(p)
  /\ storage.object # "table" => \A p \in Parts : storage.part[p] \in {"absent", "elsewhere"}
  /\ \A i \in Installers :
       /\ call[i].pc \in {"ready", "look", "act", "resolved"} /\ call[i].kind \in {"schema", "indexes"}
       /\ call[i].at \in 1..Len(Program(call[i].kind))
       /\ call[i].clean \in BOOLEAN /\ call[i].fit \in BOOLEAN
  /\ report.pc \in {"quiet", "reading"} /\ report.unread \subseteq Sections
  /\ report.faulty \subseteq Required /\ {report.lost, report.sound, report.clean} \subseteq BOOLEAN
  /\ changes \in 0..MaxChanges

(* A call that resolves has installed everything and enabled it, whatever  *)
(* it found, whatever calls ran beside it or were lost before it, until an *)
(* administrator interferes; no row that is not JSON is left.              *)
InstallEffective ==
  \A i \in Installers : call[i].pc = "resolved" /\ call[i].clean =>
    IF call[i].kind = "schema" THEN Complete(storage, Required) /\ storage.unsound = {}
    ELSE Complete(storage, Prefixes \cup Indexes)

(* The schema is checked before an existing table is modified: a call that *)
(* finds the storage unfit changes nothing, however others proceed.        *)
IncompatibleUntouched ==
  [][\A i \in Installers :
       /\ call'[i] # call[i] /\ call[i].pc \in {"look", "act"} /\ call[i].kind = "schema"
       /\ call[i].clean /\ ~call[i].fit /\ changes' = changes
       => UNCHANGED storage]_vars

(* An inspection without issues means that nothing required was faulty all *)
(* the time, although its subqueries see different moments; one that sees  *)
(* the definitions and finds sound storage all the time raises no issue.   *)
InspectionHonest ==
  report.pc = "reading" /\ report.unread = {} =>
    (report.clean => report.faulty = {}) /\ (report.sound => report.clean)
=============================================================================
