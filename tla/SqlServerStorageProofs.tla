----------------------- MODULE SqlServerStorageProofs -----------------------
(***************************************************************************)
(* Theorems of SqlServerStorage, for any set of installers, any bound on   *)
(* what others change and on the calls an inspection runs beside.          *)
(*                                                                         *)
(* The argument: each statement of an installer establishes a fact about   *)
(* the catalog (Established), and no statement of any installer undoes a   *)
(* fact another has established (RepairsKeep), so that a call on which no  *)
(* administrator has interfered knows all that its earlier statements      *)
(* established.  An inspection knows that what has been faulty all along   *)
(* lies in the sections it has still to read.                              *)
(***************************************************************************)
EXTENDS SqlServerStorage, TLAPS

(* The statements of both programs and the parts each may be about.        *)
Statements ==
  {s \in [do : {"create", "preflight", "check", "add", "enable", "put"}, on : Parts] :
     /\ s.do = "enable" => s.on \in Json \cup Triggers
     /\ s.do = "put" => s.on \in Triggers
     /\ s.do = "add" => s.on \in Json \cup {"created"} \cup Prefixes \cup Indexes}

(* The catalog, a call and an inspection as records.                       *)
StorageRec ==
  [object : {"none", "table", "other"},
   part : [Parts -> {"absent", "good", "foreign", "extra", "off", "hollow", "elsewhere"}],
   unsound : SUBSET Json]

CallRec ==
  [pc : {"ready", "look", "act", "resolved"}, kind : {"schema", "indexes"}, at : Nat,
   clean : BOOLEAN, fit : BOOLEAN]

ReportRec ==
  [pc : {"quiet", "reading"}, unread : SUBSET Sections, lost : BOOLEAN,
   faulty : SUBSET Required, sound : BOOLEAN, clean : BOOLEAN]

(* The catalog: parts other than columns belong to a table, and a trusted  *)
(* constraint has no row it would reject.                                  *)
StorageInv ==
  /\ storage \in StorageRec
  /\ \A p \in Parts : storage.part[p] \in States(p)
  /\ storage.object # "table" => \A p \in Parts : storage.part[p] \in {"absent", "elsewhere"}
  /\ \A c \in Json : storage.part[c] = "good" => c \notin storage.unsound

(* What has been so since a statement was executed.                        *)
Established(s, st) ==
  CASE s.do = "create"    -> st.object = "table"
    [] s.do = "preflight" -> TRUE
    [] s.do = "check"     ->
         /\ s.on = "columns" => st.part.columns = "good" /\ st.part.key = "good"
         /\ s.on \in Triggers => st.part[s.on] # "elsewhere"
         /\ s.on \in Json => st.part[s.on] # "foreign"
         /\ s.on = "created" => st.part.created \notin {"foreign", "off"}
    [] s.do = "add"       ->
         /\ st.part[s.on] # "absent"
         /\ s.on \in Prefixes \cup Indexes => st.part[s.on] \notin {"foreign", "off"}
    [] s.do = "enable"    -> st.part[s.on] # "off"
    [] s.do = "put"       -> st.part[s.on] \in {"good", "off"}

(* What the DDL of an installer does: it creates the table, or completes   *)
(* one part of it.                                                         *)
Repairs(st, t) ==
  /\ t \in StorageRec /\ t.unsound = st.unsound
  /\ \/ /\ st.object = "none" /\ t.object = "table"
        /\ t.part["columns"] = "good" /\ t.part["key"] = "good"
        /\ \A p \in Parts \ {"columns", "key"} : t.part[p] = st.part[p]
     \/ /\ st.object = "table" /\ t.object = "table"
        /\ \A p \in Parts : t.part[p] # st.part[p] =>
             /\ t.part[p] = "good" /\ p \notin st.unsound \cup {"columns", "key"}
             /\ \/ st.part[p] = "absent"
                \/ p \in Json /\ st.part[p] = "off"
                \/ p \in Triggers /\ st.part[p] # "elsewhere"

(* What a call knows, unless an administrator has interfered; a call that  *)
(* found the storage unfit is still at its checks.                         *)
Knows(r, st) ==
  /\ r.at \in 1 .. Len(Program(r.kind))
  /\ r.pc = "act" => Program(r.kind)[r.at].do \notin {"check", "preflight"}
  /\ r.pc \in {"look", "act"} /\ r.clean =>
       /\ \A n \in 1 .. r.at - 1 : Established(Program(r.kind)[n], st)
       /\ r.kind = "schema" /\ ~r.fit =>
            r.pc = "look" /\ r.at <= 7 /\ st.object # "none" /\ ~Fit(st)
  /\ r.pc = "resolved" /\ r.clean =>
       \A n \in 1 .. Len(Program(r.kind)) : Established(Program(r.kind)[n], st)

(* Every call of an installer is one, and knows what it should.            *)
CallInv == call \in [Installers -> CallRec] /\ \A i \in Installers : Knows(call[i], storage)

(* What an inspection without issues so far knows.                         *)
ReportInv ==
  /\ report \in ReportRec
  /\ report.unread # {} => report.clean
  /\ report.clean =>
       /\ report.faulty \subseteq Faulty(storage)
       /\ \A p \in report.faulty : \E s \in report.unread : p \in Rows(s)
  /\ report.sound => report.clean /\ ~report.lost /\ Sound(storage)

(* The inductive invariant.                                                *)
IInv == StorageInv /\ CallInv /\ ReportInv /\ changes \in 0 .. MaxChanges
-----------------------------------------------------------------------------
(* The programs                                                            *)

(* The elements of two sequences put together.                             *)
LEMMA ConcatElements ==
  ASSUME NEW S, NEW s \in Seq(S), NEW t \in Seq(S), NEW u, u = s \o t
  PROVE  /\ u \in Seq(S) /\ Len(u) = Len(s) + Len(t) /\ Len(s) \in Nat /\ Len(t) \in Nat
         /\ \A j \in 1 .. Len(s) : u[j] = s[j]
         /\ \A j \in 1 .. Len(t) : u[Len(s) + j] = t[j]
OBVIOUS

(* The statements of applyAuditTableSchema, part by part.                  *)
LEMMA SchemaParts ==
  /\ CreateTable \in Seq(Statements) /\ Len(CreateTable) = 1
  /\ Validate \in Seq(Statements) /\ Len(Validate) = 6
  /\ JsonChecks \in Seq(Statements) /\ Len(JsonChecks) = 4
  /\ CreatedIndex \in Seq(Statements) /\ Len(CreatedIndex) = 1
  /\ Guards \in Seq(Statements) /\ Len(Guards) = 4
<1>1. CreateTable \in Seq(Statements) /\ Len(CreateTable) = 1
  BY DEF CreateTable, Statement, Statements, Parts
<1>2. Validate \in Seq(Statements) /\ Len(Validate) = 6
  <2> DEFINE f(x) == Statement("check", x)
  <2>1. \A x \in Parts : f(x) \in Statements
    BY DEF Statement, Statements
  <2>2. {"columns", "update", "delete", "changes", "metadata", "created"} \subseteq Parts
    BY DEF Parts, Json, Triggers
  <2> HIDE DEF f
  <2>3. Validate = << f("columns"), f("update"), f("delete"),
                      f("changes"), f("metadata"), f("created") >>
    BY DEF Validate, f
  <2>4. QED
    BY <2>1, <2>2, <2>3
<1>3. JsonChecks \in Seq(Statements) /\ Len(JsonChecks) = 4
  <2>1. \A x \in Json : Statement("add", x) \in Statements /\ Statement("enable", x) \in Statements
    BY DEF Statement, Statements, Parts
  <2>2. QED
    BY <2>1 DEF JsonChecks, Json
<1>4. CreatedIndex \in Seq(Statements) /\ Len(CreatedIndex) = 1
  BY DEF CreatedIndex, Statement, Statements, Parts
<1>5. Guards \in Seq(Statements) /\ Len(Guards) = 4
  <2>1. \A x \in Triggers :
          Statement("put", x) \in Statements /\ Statement("enable", x) \in Statements
    BY DEF Statement, Statements, Parts
  <2>2. QED
    BY <2>1 DEF Guards, Triggers
<1>6. QED
  BY <1>1, <1>2, <1>3, <1>4, <1>5

(* Where the statements of applyAuditTableSchema stand.                    *)
LEMMA SchemaElements ==
  /\ SchemaProgram \in Seq(Statements) /\ Len(SchemaProgram) = 16
  /\ SchemaProgram[1] = CreateTable[1]
  /\ \A j \in 1 .. 6 : SchemaProgram[1 + j] = Validate[j]
  /\ \A j \in 1 .. 4 : SchemaProgram[7 + j] = JsonChecks[j]
  /\ SchemaProgram[12] = CreatedIndex[1]
  /\ \A j \in 1 .. 4 : SchemaProgram[12 + j] = Guards[j]
<1>1. /\ CreateTable \in Seq(Statements) /\ Validate \in Seq(Statements)
      /\ JsonChecks \in Seq(Statements) /\ CreatedIndex \in Seq(Statements)
      /\ Guards \in Seq(Statements)
  BY SchemaParts
<1> DEFINE a == CreateTable \o Validate
<1> DEFINE b == a \o JsonChecks
<1> DEFINE c == b \o CreatedIndex
<1> DEFINE d == c \o Guards
<1>2. /\ a = CreateTable \o Validate /\ b = a \o JsonChecks /\ c = b \o CreatedIndex
      /\ d = c \o Guards /\ SchemaProgram = d
  BY DEF SchemaProgram
<1> HIDE DEF a, b, c, d
<1>3. /\ a \in Seq(Statements) /\ Len(a) = Len(CreateTable) + Len(Validate)
      /\ \A j \in 1 .. Len(CreateTable) : a[j] = CreateTable[j]
      /\ \A j \in 1 .. Len(Validate) : a[Len(CreateTable) + j] = Validate[j]
  BY ONLY <1>1, <1>2, ConcatElements
<1>4. a \in Seq(Statements)
  BY <1>3
<1>5. /\ b \in Seq(Statements) /\ Len(b) = Len(a) + Len(JsonChecks)
      /\ \A j \in 1 .. Len(a) : b[j] = a[j]
      /\ \A j \in 1 .. Len(JsonChecks) : b[Len(a) + j] = JsonChecks[j]
  BY ONLY <1>1, <1>2, <1>4, ConcatElements
<1>6. b \in Seq(Statements)
  BY <1>5
<1>7. /\ c \in Seq(Statements) /\ Len(c) = Len(b) + Len(CreatedIndex)
      /\ \A j \in 1 .. Len(b) : c[j] = b[j]
      /\ \A j \in 1 .. Len(CreatedIndex) : c[Len(b) + j] = CreatedIndex[j]
  BY ONLY <1>1, <1>2, <1>6, ConcatElements
<1>8. c \in Seq(Statements)
  BY <1>7
<1>9. /\ d \in Seq(Statements) /\ Len(d) = Len(c) + Len(Guards)
      /\ \A j \in 1 .. Len(c) : d[j] = c[j]
      /\ \A j \in 1 .. Len(Guards) : d[Len(c) + j] = Guards[j]
  BY ONLY <1>1, <1>2, <1>8, ConcatElements
<1>10. Len(a) = 7 /\ Len(b) = 11 /\ Len(c) = 12 /\ Len(d) = 16
  BY SchemaParts, <1>3, <1>5, <1>7, <1>9
<1>11. /\ \A j \in 1 .. 12 : d[j] = c[j]
       /\ \A j \in 1 .. 11 : d[j] = b[j]
       /\ \A j \in 1 .. 7 : d[j] = a[j]
  <2>1. \A j \in 1 .. 12 : d[j] = c[j]
    BY <1>9, <1>10
  <2>2. \A j \in 1 .. 11 : d[j] = b[j]
    BY <1>7, <1>10, <2>1
  <2>3. \A j \in 1 .. 7 : d[j] = a[j]
    BY <1>5, <1>10, <2>2
  <2>4. QED
    BY <2>1, <2>2, <2>3
<1>12. d[1] = CreateTable[1] /\ \A j \in 1 .. 6 : d[1 + j] = Validate[j]
  <2>1. a[1] = CreateTable[1] /\ \A j \in 1 .. 6 : a[1 + j] = Validate[j]
    BY SchemaParts, <1>3
  <2>2. QED
    BY <1>11, <2>1
<1>13. \A j \in 1 .. 4 : d[7 + j] = JsonChecks[j]
  BY SchemaParts, <1>5, <1>10, <1>11
<1>14. d[12] = CreatedIndex[1]
  <2>1. c[11 + 1] = CreatedIndex[1]
    BY SchemaParts, <1>7, <1>10
  <2>2. QED
    BY <1>11, <2>1
<1>15. \A j \in 1 .. 4 : d[12 + j] = Guards[j]
  BY SchemaParts, <1>9, <1>10
<1>16. QED
  BY <1>2, <1>9, <1>10, <1>12, <1>13, <1>14, <1>15

(* The statements of applySqlServerAuditReadIndexes.                       *)
LEMMA IndexElements ==
  /\ IndexProgram \in Seq(Statements) /\ Len(IndexProgram) = 8
  /\ \A p \in Prefixes \cup Indexes : \E n \in 1 .. 8 : IndexProgram[n] = Statement("add", p)
<1>1. Indexes = {"read_tenant", "read_target", "read_actor"}
  BY DEF Indexes, Needs
<1>2. \A p \in Prefixes \cup Indexes : Statement("add", p) \in Statements
  BY DEF Statement, Statements, Parts
<1>3. Statement("preflight", "columns") \in Statements
  BY DEF Statement, Statements, Parts
<1>4. IndexProgram \in Seq(Statements) /\ Len(IndexProgram) = 8
  BY <1>1, <1>2, <1>3 DEF IndexProgram, Prefixes
<1>5. /\ IndexProgram[2] = Statement("add", "tenant_id")
      /\ IndexProgram[3] = Statement("add", "target_type")
      /\ IndexProgram[4] = Statement("add", "target_id")
      /\ IndexProgram[5] = Statement("add", "actor_id")
      /\ IndexProgram[6] = Statement("add", "read_tenant")
      /\ IndexProgram[7] = Statement("add", "read_target")
      /\ IndexProgram[8] = Statement("add", "read_actor")
  BY DEF IndexProgram
<1>6. \A p \in Prefixes \cup Indexes : \E n \in 1 .. 8 : IndexProgram[n] = Statement("add", p)
  BY <1>1, <1>5 DEF Prefixes
<1>7. QED
  BY <1>4, <1>6

(* Programs are sequences of statements.                                   *)
LEMMA Programs ==
  ASSUME NEW kind \in {"schema", "indexes"}
  PROVE  /\ Program(kind) \in Seq(Statements) /\ Len(Program(kind)) \in Nat
         /\ Len(Program(kind)) >= 8
         /\ kind = "schema" => Len(Program(kind)) = 16
<1>1. CASE kind = "schema"
  <2>1. Program(kind) = SchemaProgram
    BY <1>1 DEF Program
  <2>2. SchemaProgram \in Seq(Statements) /\ Len(SchemaProgram) = 16
    BY SchemaElements
  <2>3. QED
    BY <2>1, <2>2
<1>2. CASE kind = "indexes"
  <2>1. Program(kind) = IndexProgram
    BY <1>2 DEF Program
  <2>2. IndexProgram \in Seq(Statements) /\ Len(IndexProgram) = 8
    BY IndexElements
  <2>3. kind # "schema"
    BY <1>2
  <2>4. QED
    BY <2>1, <2>2, <2>3
<1>3. QED
  BY <1>1, <1>2

(* The first seven statements of applyAuditTableSchema create the table or *)
(* check it, and change nothing of a table that exists.                    *)
LEMMA ChecksFirst ==
  /\ SchemaProgram[1] = Statement("create", "columns")
  /\ \A n \in 2 .. 7 : SchemaProgram[n].do = "check"
  /\ \A p \in {"columns", "created"} \cup Json \cup Triggers :
       \E n \in 2 .. 7 : SchemaProgram[n] = Statement("check", p)
<1>1. SchemaProgram[1] = Statement("create", "columns")
  <2>1. CreateTable[1] = Statement("create", "columns")
    BY DEF CreateTable
  <2>2. QED
    BY <2>1, SchemaElements
<1>2. /\ Validate[1] = Statement("check", "columns") /\ Validate[2] = Statement("check", "update")
      /\ Validate[3] = Statement("check", "delete") /\ Validate[4] = Statement("check", "changes")
      /\ Validate[5] = Statement("check", "metadata") /\ Validate[6] = Statement("check", "created")
  BY DEF Validate
<1>3. /\ SchemaProgram[1 + 1] = Validate[1] /\ SchemaProgram[1 + 2] = Validate[2]
      /\ SchemaProgram[1 + 3] = Validate[3] /\ SchemaProgram[1 + 4] = Validate[4]
      /\ SchemaProgram[1 + 5] = Validate[5] /\ SchemaProgram[1 + 6] = Validate[6]
  BY SchemaElements
<1>4. /\ SchemaProgram[2] = Statement("check", "columns")
      /\ SchemaProgram[3] = Statement("check", "update")
      /\ SchemaProgram[4] = Statement("check", "delete")
      /\ SchemaProgram[5] = Statement("check", "changes")
      /\ SchemaProgram[6] = Statement("check", "metadata")
      /\ SchemaProgram[7] = Statement("check", "created")
  BY <1>2, <1>3
<1>5. \A n \in 2 .. 7 : n = 2 \/ n = 3 \/ n = 4 \/ n = 5 \/ n = 6 \/ n = 7
  OBVIOUS
<1>6. \A n \in 2 .. 7 : SchemaProgram[n].do = "check"
  BY <1>4, <1>5 DEF Statement
<1>7. ASSUME NEW p \in {"columns", "created"} \cup Json \cup Triggers
      PROVE  \E n \in 2 .. 7 : SchemaProgram[n] = Statement("check", p)
  BY <1>4 DEF Json, Triggers
<1>8. QED
  BY <1>1, <1>6, <1>7

(* The other statements of applyAuditTableSchema.                          *)
LEMMA SchemaInstalls ==
  /\ \A c \in Json \cup {"created"} :
       \E n \in 1 .. 16 : SchemaProgram[n] = Statement("add", c)
  /\ \A c \in Json \cup Triggers : \E n \in 1 .. 16 : SchemaProgram[n] = Statement("enable", c)
  /\ \A t \in Triggers : \E n \in 1 .. 16 : SchemaProgram[n] = Statement("put", t)
<1>1. /\ JsonChecks[1] = Statement("add", "changes")
      /\ JsonChecks[2] = Statement("enable", "changes")
      /\ JsonChecks[3] = Statement("add", "metadata")
      /\ JsonChecks[4] = Statement("enable", "metadata")
  BY DEF JsonChecks
<1>2. /\ Guards[1] = Statement("put", "update") /\ Guards[2] = Statement("enable", "update")
      /\ Guards[3] = Statement("put", "delete") /\ Guards[4] = Statement("enable", "delete")
  BY DEF Guards
<1>3. CreatedIndex[1] = Statement("add", "created")
  BY DEF CreatedIndex
<1>4. /\ SchemaProgram[7 + 1] = JsonChecks[1] /\ SchemaProgram[7 + 2] = JsonChecks[2]
      /\ SchemaProgram[7 + 3] = JsonChecks[3] /\ SchemaProgram[7 + 4] = JsonChecks[4]
      /\ SchemaProgram[12 + 1] = Guards[1] /\ SchemaProgram[12 + 2] = Guards[2]
      /\ SchemaProgram[12 + 3] = Guards[3] /\ SchemaProgram[12 + 4] = Guards[4]
      /\ SchemaProgram[12] = CreatedIndex[1]
  BY SchemaElements
<1>5. /\ SchemaProgram[8] = Statement("add", "changes")
      /\ SchemaProgram[9] = Statement("enable", "changes")
      /\ SchemaProgram[10] = Statement("add", "metadata")
      /\ SchemaProgram[11] = Statement("enable", "metadata")
      /\ SchemaProgram[12] = Statement("add", "created")
      /\ SchemaProgram[13] = Statement("put", "update")
      /\ SchemaProgram[14] = Statement("enable", "update")
      /\ SchemaProgram[15] = Statement("put", "delete")
      /\ SchemaProgram[16] = Statement("enable", "delete")
  BY <1>1, <1>2, <1>3, <1>4
<1>6. \A c \in Json \cup {"created"} : \E n \in 1 .. 16 : SchemaProgram[n] = Statement("add", c)
  BY <1>5 DEF Json
<1>7. ASSUME NEW c \in Json \cup Triggers
      PROVE  \E n \in 1 .. 16 : SchemaProgram[n] = Statement("enable", c)
  BY <1>5 DEF Json, Triggers
<1>8. \A t \in Triggers : \E n \in 1 .. 16 : SchemaProgram[n] = Statement("put", t)
  BY <1>5 DEF Triggers
<1>9. QED
  BY <1>6, <1>7, <1>8
-----------------------------------------------------------------------------
(* What the statements establish                                           *)

(* A storage that has passed the checks may be modified.                   *)
LEMMA FitAfterChecks ==
  ASSUME NEW st, \A p \in Parts : st.part[p] \in States(p),
         \A n \in 1 .. 7 : Established(SchemaProgram[n], st)
  PROVE  Fit(st)
<1>1. st.object = "table"
  <2>1. Established(Statement("create", "columns"), st)
    BY ChecksFirst
  <2>2. QED
    BY <2>1 DEF Established, Statement
<1>2. ASSUME NEW p \in {"columns", "created"} \cup Json \cup Triggers
      PROVE  Established(Statement("check", p), st)
  <2>1. PICK n \in 2 .. 7 : SchemaProgram[n] = Statement("check", p)
    BY ChecksFirst
  <2>2. QED
    BY <2>1
<1>3. st.part.columns = "good" /\ st.part.key = "good"
  BY <1>2 DEF Established, Statement
<1>4. st.part.created \in {"absent", "good"}
  <2>1. st.part.created \notin {"foreign", "off"}
    BY <1>2 DEF Established, Statement
  <2>2. st.part["created"] \in {"absent", "good", "foreign", "off"}
    BY DEF States, Parts, Prefixes, Triggers
  <2>3. QED
    BY <2>1, <2>2
<1>5. \A c \in Json : st.part[c] # "foreign"
  BY <1>2 DEF Established, Statement
<1>6. \A t \in Triggers : st.part[t] # "elsewhere"
  BY <1>2 DEF Established, Statement
<1>7. QED
  BY <1>1, <1>3, <1>4, <1>5, <1>6 DEF Fit

(* A call of applyAuditTableSchema that has executed all its statements    *)
(* has installed all that is required.                                     *)
LEMMA SchemaEstablishes ==
  ASSUME StorageInv, \A n \in 1 .. 16 : Established(SchemaProgram[n], storage)
  PROVE  Complete(storage, Required) /\ storage.unsound = {}
<1>1. Fit(storage) /\ storage.object = "table"
  <2>1. \A n \in 1 .. 7 : Established(SchemaProgram[n], storage)
    OBVIOUS
  <2>2. Fit(storage)
    BY <2>1, FitAfterChecks DEF StorageInv
  <2>3. Established(Statement("create", "columns"), storage)
    BY <2>1, ChecksFirst
  <2>4. QED
    BY <2>2, <2>3 DEF Established, Statement
<1>2. storage.part["columns"] = "good" /\ storage.part["key"] = "good"
  BY <1>1 DEF Fit
<1>3. ASSUME NEW c \in Json \cup {"created"} PROVE storage.part[c] # "absent"
  <2>1. PICK n \in 1 .. 16 : SchemaProgram[n] = Statement("add", c)
    BY SchemaInstalls
  <2>2. Established(Statement("add", c), storage)
    BY <2>1
  <2>3. QED
    BY <2>2 DEF Established, Statement
<1>4. storage.part["created"] = "good"
  BY <1>1, <1>3 DEF Fit
<1>5. ASSUME NEW c \in Json \cup Triggers PROVE storage.part[c] # "off"
  <2>1. PICK n \in 1 .. 16 : SchemaProgram[n] = Statement("enable", c)
    BY SchemaInstalls
  <2>2. Established(Statement("enable", c), storage)
    BY <2>1
  <2>3. QED
    BY <2>2 DEF Established, Statement
<1>6. \A c \in Json : storage.part[c] = "good"
  <2> SUFFICES ASSUME NEW c \in Json PROVE storage.part[c] = "good"
    OBVIOUS
  <2>1. storage.part[c] \in States(c)
    BY DEF StorageInv, Parts
  <2>2. storage.part[c] \in {"absent", "good", "foreign", "off"}
    BY <2>1 DEF States, Json, Prefixes, Triggers
  <2>3. QED
    BY <1>1, <1>3, <1>5, <2>2 DEF Fit
<1>7. ASSUME NEW t \in Triggers PROVE storage.part[t] = "good"
  <2>1. PICK n \in 1 .. 16 : SchemaProgram[n] = Statement("put", t)
    BY SchemaInstalls
  <2>2. Established(Statement("put", t), storage)
    BY <2>1
  <2>3. QED
    BY <1>5, <2>2 DEF Established, Statement
<1>8. storage.unsound = {}
  BY <1>6 DEF StorageInv, StorageRec
<1>9. QED
  BY <1>1, <1>2, <1>4, <1>6, <1>7, <1>8 DEF Complete, Required

(* A call of applySqlServerAuditReadIndexes that has executed all its      *)
(* statements has installed the prefix columns and the indexes.            *)
LEMMA IndexesEstablish ==
  ASSUME StorageInv, \A n \in 1 .. 8 : Established(IndexProgram[n], storage)
  PROVE  Complete(storage, Prefixes \cup Indexes)
<1>1. ASSUME NEW p \in Prefixes \cup Indexes PROVE storage.part[p] = "good"
  <2>1. PICK n \in 1 .. 8 : IndexProgram[n] = Statement("add", p)
    BY IndexElements
  <2>2. Established(Statement("add", p), storage)
    BY <2>1
  <2>3. storage.part[p] \notin {"absent", "foreign", "off"}
    BY <2>2 DEF Established, Statement
  <2>4. storage.part[p] \in States(p) /\ p \notin {"columns"} \cup Triggers
    BY DEF StorageInv, Parts, Prefixes, Indexes, Needs, Triggers
  <2>5. QED
    BY <2>3, <2>4 DEF States
<1>2. storage.object = "table"
  <2>1. "tenant_id" \in Prefixes /\ "tenant_id" \in Parts
    BY DEF Prefixes, Parts
  <2>2. QED
    BY <1>1, <2>1 DEF StorageInv, StorageRec
<1>3. QED
  BY <1>1, <1>2 DEF Complete

(* What the DDL of a statement does, and that it establishes its fact.     *)
LEMMA StatementRepairs ==
  ASSUME StorageInv, NEW s \in Statements, s.do \notin {"check", "preflight"},
         Accepts(s, storage), NEW t \in Results(s, storage)
  PROVE  Repairs(storage, t) /\ Established(s, t)
<1>1. storage \in StorageRec /\ s.on \in Parts
  BY DEF StorageInv, Statements
<1>2. storage.unsound \subseteq Json /\ Json \cap ({"columns", "key"} \cup Triggers) = {}
  BY <1>1 DEF StorageRec, Json, Triggers
<1>3. CASE s.do = "create"
  <2>1. t = Created(storage) /\ storage.object = "none"
    BY <1>3 DEF Results, Accepts
  <2>2. t \in StorageRec /\ t.object = "table" /\ t.unsound = storage.unsound
    BY <1>1, <2>1 DEF StorageRec, Created, Parts
  <2>3. /\ t.part["columns"] = "good" /\ t.part["key"] = "good"
        /\ \A p \in Parts \ {"columns", "key"} : t.part[p] = storage.part[p]
    BY <1>1, <2>1 DEF StorageRec, Created, Parts
  <2>4. Repairs(storage, t)
    BY <2>1, <2>2, <2>3 DEF Repairs
  <2>5. Established(s, t)
    BY <1>3, <2>2 DEF Established
  <2>6. QED
    BY <2>4, <2>5
<1>4. CASE s.do = "add"
  <2>1. /\ t = [storage EXCEPT !.part[s.on] = "good"] /\ storage.object = "table"
        /\ storage.part[s.on] = "absent" /\ s.on \notin storage.unsound
    BY <1>4 DEF Results, Accepts
  <2>2. s.on \notin {"columns", "key"}
    BY <1>4 DEF Statements, Json, Prefixes, Indexes, Needs
  <2>3. /\ t \in StorageRec /\ t.object = "table" /\ t.unsound = storage.unsound
        /\ t.part[s.on] = "good" /\ \A p \in Parts \ {s.on} : t.part[p] = storage.part[p]
    BY <1>1, <2>1 DEF StorageRec
  <2>4. Repairs(storage, t)
    BY <1>2, <2>1, <2>2, <2>3 DEF Repairs
  <2>5. Established(s, t)
    BY <1>4, <2>3 DEF Established
  <2>6. QED
    BY <2>4, <2>5
<1>5. CASE s.do = "enable"
  <2> DEFINE x == IF storage.part[s.on] = "off" THEN "good" ELSE storage.part[s.on]
  <2>1. t = [storage EXCEPT !.part[s.on] = x]
    BY <1>5 DEF Results
  <2>2. /\ storage.object = "table" /\ storage.part[s.on] \notin {"absent", "elsewhere"}
        /\ s.on \in storage.unsound => storage.part[s.on] # "off"
    BY <1>5 DEF Accepts
  <2>3. s.on \in Json \cup Triggers
    BY <1>5 DEF Statements
  <2>4. x \in {"absent", "good", "foreign", "extra", "off", "hollow", "elsewhere"}
    BY <1>1 DEF StorageRec
  <2>5. /\ x # "off"
        /\ x # storage.part[s.on] => x = "good" /\ storage.part[s.on] = "off"
    OBVIOUS
  <2> HIDE DEF x
  <2>6. /\ t \in StorageRec /\ t.object = "table" /\ t.unsound = storage.unsound
        /\ t.part[s.on] = x /\ \A p \in Parts \ {s.on} : t.part[p] = storage.part[p]
    BY <1>1, <2>1, <2>2, <2>4 DEF StorageRec
  <2>7. s.on \notin {"columns", "key"}
    BY <2>3 DEF Json, Triggers
  <2>8. Repairs(storage, t)
    BY <1>2, <2>2, <2>3, <2>5, <2>6, <2>7 DEF Repairs
  <2>9. Established(s, t)
    BY <1>5, <2>5, <2>6 DEF Established
  <2>10. QED
    BY <2>8, <2>9
<1>6. CASE s.do = "put"
  <2>1. PICK x \in IF storage.part[s.on] = "off" THEN {"off", "good"} ELSE {"good"} :
               t = [storage EXCEPT !.part[s.on] = x]
    BY <1>6 DEF Results
  <2>2. storage.object = "table" /\ storage.part[s.on] # "elsewhere"
    BY <1>6 DEF Accepts
  <2>3. s.on \in Triggers
    BY <1>6 DEF Statements
  <2>4. x \in {"off", "good"} /\ (x # storage.part[s.on] => x = "good")
    BY <2>1
  <2>5. /\ t \in StorageRec /\ t.object = "table" /\ t.unsound = storage.unsound
        /\ t.part[s.on] = x /\ \A p \in Parts \ {s.on} : t.part[p] = storage.part[p]
    BY <1>1, <2>1, <2>2, <2>4 DEF StorageRec
  <2>6. s.on \notin {"columns", "key"}
    BY <2>3 DEF Triggers
  <2>7. Repairs(storage, t)
    BY <1>2, <2>2, <2>3, <2>4, <2>5, <2>6 DEF Repairs
  <2>8. Established(s, t)
    BY <1>6, <2>4, <2>5 DEF Established
  <2>9. QED
    BY <2>7, <2>8
<1>7. QED
  BY <1>3, <1>4, <1>5, <1>6 DEF Statements

(* A statement whose IF finds nothing to do, and that does not throw, need *)
(* not be executed.                                                        *)
LEMMA NothingToDo ==
  ASSUME StorageInv, NEW s \in Statements, ~Throws(s, storage), ~Wanted(s, storage)
  PROVE  Established(s, storage)
<1>1. CASE s.do = "create"
  BY <1>1 DEF Throws, Wanted, Established, StorageInv, StorageRec
<1>2. CASE s.do = "check"
  BY <1>2 DEF Throws, Established
<1>3. CASE s.do = "add"
  BY <1>3 DEF Throws, Wanted, Established
<1>4. CASE s.do = "enable"
  BY <1>4 DEF Wanted, Established
<1>5. CASE s.do = "put"
  BY <1>5 DEF Wanted
<1>6. CASE s.do = "preflight"
  BY <1>6 DEF Established
<1>7. QED
  BY <1>1, <1>2, <1>3, <1>4, <1>5, <1>6 DEF Statements

(* No installer undoes what another has established.                       *)
LEMMA RepairsKeep ==
  ASSUME StorageInv, NEW t, Repairs(storage, t), NEW s \in Statements, Established(s, storage)
  PROVE  Established(s, t)
<1>1. /\ t.object = "table" /\ s.on \in Parts
      /\ \A p \in Parts : t.part[p] = storage.part[p] \/ t.part[p] = "good"
  BY DEF Repairs, Statements
<1>2. CASE s.do = "create"
  BY <1>1, <1>2 DEF Established
<1>3. CASE s.do = "check"
  <2>1. {"columns", "key", "created"} \cup Triggers \cup Json \subseteq Parts
    BY DEF Parts
  <2>2. QED
    BY <1>1, <1>3, <2>1 DEF Established
<1>4. CASE s.do = "add"
  BY <1>1, <1>4 DEF Established
<1>5. CASE s.do = "enable"
  BY <1>1, <1>5 DEF Established
<1>6. CASE s.do = "put"
  BY <1>1, <1>6 DEF Established
<1>7. CASE s.do = "preflight"
  BY <1>7 DEF Established
<1>8. QED
  BY <1>2, <1>3, <1>4, <1>5, <1>6, <1>7 DEF Statements

(* No installer makes a table fit that the checks reject.                  *)
LEMMA RepairsUnfit ==
  ASSUME StorageInv, NEW t, Repairs(storage, t), storage.object # "none", ~Fit(storage)
  PROVE  t.object # "none" /\ ~Fit(t)
<1>1. /\ storage.object = "table" /\ t.object = "table"
      /\ \A p \in Parts : t.part[p] # storage.part[p] =>
           /\ p \notin {"columns", "key"}
           /\ \/ storage.part[p] = "absent"
              \/ p \in Json /\ storage.part[p] = "off"
              \/ p \in Triggers /\ storage.part[p] # "elsewhere"
  BY DEF Repairs
<1>2. SUFFICES ASSUME Fit(t) PROVE Fit(storage)
  BY <1>1
<1>3. {"columns", "key", "created"} \cup Triggers \cup Json \subseteq Parts
  BY DEF Parts
<1>4. storage.part["columns"] = "good" /\ storage.part["key"] = "good"
  BY <1>1, <1>2, <1>3 DEF Fit
<1>5. storage.part["created"] \in {"absent", "good"}
  <2>1. "created" \notin Json \cup Triggers
    BY DEF Json, Triggers
  <2>2. QED
    BY <1>1, <1>2, <1>3, <2>1 DEF Fit
<1>6. \A c \in Json : storage.part[c] # "foreign"
  <2>1. Json \cap Triggers = {}
    BY DEF Json, Triggers
  <2>2. QED
    BY <1>1, <1>2, <1>3, <2>1 DEF Fit
<1>7. \A c \in Triggers : storage.part[c] # "elsewhere"
  <2>1. Json \cap Triggers = {}
    BY DEF Json, Triggers
  <2>2. QED
    BY <1>1, <1>2, <1>3, <2>1 DEF Fit
<1>8. QED
  BY <1>1, <1>4, <1>5, <1>6, <1>7 DEF Fit

(* What is there is as documented after a repair as it was before.         *)
LEMMA RepairsStorage ==
  ASSUME StorageInv, Repairs(storage, storage')
  PROVE  StorageInv'
<1>1. storage' \in StorageRec /\ storage'.object = "table" /\ storage'.unsound = storage.unsound
  BY DEF Repairs
<1>2. \A p \in Parts : "good" \in States(p)
  BY DEF States
<1>3. \A p \in Parts : storage'.part[p] = storage.part[p] \/ storage'.part[p] = "good"
  BY DEF Repairs
<1>4. \A p \in Parts : storage'.part[p] \in States(p)
  BY <1>2, <1>3 DEF StorageInv
<1>5. \A c \in Json : storage'.part[c] = "good" => c \notin storage'.unsound
  <2>1. Json \subseteq Parts \ {"columns", "key"}
    BY DEF Json, Parts
  <2>2. QED
    BY <1>1, <2>1 DEF Repairs, StorageInv
<1>6. QED
  BY <1>1, <1>4, <1>5 DEF StorageInv
-----------------------------------------------------------------------------
(* What the calls know                                                     *)

(* What a call knows stays so while installers run beside it.              *)
LEMMA KnowsStable ==
  ASSUME StorageInv, NEW t, Repairs(storage, t), NEW r \in CallRec, Knows(r, storage)
  PROVE  Knows(r, t)
<1>1. r.kind \in {"schema", "indexes"} /\ r.at \in Nat
  BY DEF CallRec
<1>2. /\ Program(r.kind) \in Seq(Statements) /\ Len(Program(r.kind)) \in Nat
  BY <1>1, Programs
<1>3. \A n \in 1 .. Len(Program(r.kind)) :
        Established(Program(r.kind)[n], storage) => Established(Program(r.kind)[n], t)
  <2> SUFFICES ASSUME NEW n \in 1 .. Len(Program(r.kind)),
                      Established(Program(r.kind)[n], storage)
               PROVE  Established(Program(r.kind)[n], t)
    OBVIOUS
  <2>1. Program(r.kind)[n] \in Statements
    BY <1>2
  <2>2. QED
    BY <2>1, RepairsKeep
<1>4. storage.object # "none" /\ ~Fit(storage) => t.object # "none" /\ ~Fit(t)
  BY RepairsUnfit
<1>5. r.at \in 1 .. Len(Program(r.kind)) /\ r.at - 1 <= Len(Program(r.kind))
  BY <1>1, <1>2 DEF Knows
<1>6. r.pc \in {"look", "act"} /\ r.clean =>
        /\ \A n \in 1 .. r.at - 1 : Established(Program(r.kind)[n], t)
        /\ r.kind = "schema" /\ ~r.fit =>
             r.pc = "look" /\ r.at <= 7 /\ t.object # "none" /\ ~Fit(t)
  <2> SUFFICES ASSUME r.pc \in {"look", "act"}, r.clean
               PROVE  /\ \A n \in 1 .. r.at - 1 : Established(Program(r.kind)[n], t)
                      /\ r.kind = "schema" /\ ~r.fit =>
                           r.pc = "look" /\ r.at <= 7 /\ t.object # "none" /\ ~Fit(t)
    OBVIOUS
  <2>1. \A n \in 1 .. r.at - 1 : n \in 1 .. Len(Program(r.kind))
    BY <1>1, <1>2, <1>5
  <2>2. QED
    BY <1>3, <1>4, <2>1 DEF Knows
<1>7. r.pc = "resolved" /\ r.clean =>
        \A n \in 1 .. Len(Program(r.kind)) : Established(Program(r.kind)[n], t)
  BY <1>3 DEF Knows
<1>8. QED
  BY <1>5, <1>6, <1>7 DEF Knows

(* A call that has not begun, or that knows nothing, claims nothing.       *)
LEMMA ReadyKnows ==
  ASSUME NEW st
  PROVE  Ready \in CallRec /\ Knows(Ready, st)
<1>1. Len(Program("schema")) \in Nat /\ Len(Program("schema")) >= 8
  BY Programs
<1>2. QED
  BY <1>1 DEF Ready, CallRec, Knows

(* A call goes on once its current statement has established its fact.     *)
LEMMA FollowingKnows ==
  ASSUME NEW st, \A p \in Parts : st.part[p] \in States(p), NEW i \in Installers,
         call[i] \in CallRec, call[i].pc \in {"look", "act"}, Knows(call[i], st),
         Established(Current(i), st)
  PROVE  Following(i) \in CallRec /\ Knows(Following(i), st)
<1> DEFINE r == call[i]
<1> DEFINE P == Program(r.kind)
<1>1. /\ r \in CallRec /\ r.kind \in {"schema", "indexes"} /\ r.at \in Nat
      /\ r.clean \in BOOLEAN /\ r.fit \in BOOLEAN
  BY DEF CallRec
<1>2. /\ P \in Seq(Statements) /\ Len(P) \in Nat /\ Len(P) >= 8 /\ r.at \in 1 .. Len(P)
      /\ r.kind = "schema" => Len(P) = 16
  BY <1>1, Programs DEF Knows
<1>3. Established(P[r.at], st)
  BY DEF Current
<1>4. Knows(r, st) /\ r.pc \in {"look", "act"}
  OBVIOUS
<1>5. r.clean => \A n \in 1 .. r.at : Established(P[n], st)
  <2> HIDE DEF r
  <2> SUFFICES ASSUME r.clean, NEW n \in 1 .. r.at PROVE Established(P[n], st)
    OBVIOUS
  <2>1. CASE n = r.at
    BY <1>3, <2>1
  <2>2. CASE n # r.at
    <3>1. n \in 1 .. r.at - 1
      BY <1>1, <2>2
    <3>2. QED
      BY <1>4, <3>1 DEF Knows
  <2>3. QED
    BY <2>1, <2>2
<1>6. r.clean /\ r.kind = "schema" /\ ~r.fit =>
        r.pc = "look" /\ r.at < 7 /\ st.object # "none" /\ ~Fit(st)
  <2> HIDE DEF r
  <2> SUFFICES ASSUME r.clean, r.kind = "schema", ~r.fit
               PROVE  r.pc = "look" /\ r.at < 7 /\ st.object # "none" /\ ~Fit(st)
    OBVIOUS
  <2>1. r.pc = "look" /\ r.at <= 7 /\ st.object # "none" /\ ~Fit(st)
    BY <1>4 DEF Knows
  <2>2. ASSUME r.at = 7 PROVE FALSE
    <3>1. \A n \in 1 .. 7 : Established(SchemaProgram[n], st)
      BY <1>5, <2>2 DEF Program
    <3>2. QED
      BY <2>1, <3>1, FitAfterChecks
  <2>3. QED
    BY <1>1, <2>1, <2>2
<1>7. CASE r.at = Len(P)
  <2> DEFINE n == Resolved(i)
  <2>1. Following(i) = n
    BY <1>7 DEF Following
  <2>2. /\ n \in CallRec /\ n.pc = "resolved" /\ n.kind = r.kind /\ n.clean = r.clean
        /\ n.at = 1
    BY <1>1 DEF Resolved, Ready, CallRec
  <2> HIDE DEF n, r
  <2>3. Knows(n, st)
    BY <1>2, <1>5, <1>7, <2>2 DEF Knows
  <2>4. QED
    BY <2>1, <2>2, <2>3
<1>8. CASE r.at # Len(P)
  <2> DEFINE n == [r EXCEPT !.pc = "look", !.at = r.at + 1]
  <2>1. Following(i) = n
    BY <1>8 DEF Following
  <2> HIDE DEF r
  <2> DEFINE at == r.at + 1
  <2>2. /\ n \in CallRec /\ n.pc = "look" /\ n.kind = r.kind /\ n.clean = r.clean
        /\ n.at = r.at + 1 /\ n.fit = r.fit
    <3>1. at \in Nat
      BY <1>1
    <3> HIDE DEF at
    <3>2. n = [r EXCEPT !.pc = "look", !.at = at]
      BY DEF at
    <3>3. /\ n \in CallRec /\ n.pc = "look" /\ n.kind = r.kind /\ n.clean = r.clean
          /\ n.at = at /\ n.fit = r.fit
      BY <1>1, <3>1, <3>2 DEF CallRec
    <3>4. QED
      BY <3>3 DEF at
  <2> HIDE DEF n
  <2>3. n.at \in 1 .. Len(P) /\ n.at - 1 = r.at
    BY <1>1, <1>2, <1>8, <2>2
  <2>4. n.clean => \A k \in 1 .. n.at - 1 : Established(Program(n.kind)[k], st)
    BY <1>5, <2>2, <2>3
  <2>5. n.clean /\ n.kind = "schema" /\ ~n.fit =>
          n.pc = "look" /\ n.at <= 7 /\ st.object # "none" /\ ~Fit(st)
    BY <1>1, <1>6, <2>2
  <2>6. Knows(n, st)
    BY <2>2, <2>3, <2>4, <2>5 DEF Knows
  <2>7. QED
    BY <2>1, <2>2, <2>6
<1>9. QED
  BY <1>7, <1>8

(* Rows of other writers take nothing away from what a call knows.         *)
LEMMA KnowsSame ==
  ASSUME NEW st, NEW t, t.part = st.part, t.object = st.object, NEW r, Knows(r, st)
  PROVE  Knows(r, t)
<1>1. \A s : Established(s, st) => Established(s, t)
  BY DEF Established
<1>2. Fit(t) => Fit(st)
  BY DEF Fit
<1>3. QED
  BY <1>1, <1>2 DEF Knows

(* One call goes on, the others stay as they are.                          *)
LEMMA OneCall ==
  ASSUME call \in [Installers -> CallRec], \A q \in Installers : Knows(call[q], storage'),
         NEW i \in Installers, NEW n \in CallRec, Knows(n, storage'),
         call' = [call EXCEPT ![i] = n]
  PROVE  CallInv'
<1>1. call' \in [Installers -> CallRec]
  OBVIOUS
<1>2. ASSUME NEW q \in Installers PROVE Knows(call'[q], storage')
  <2>1. CASE q = i
    BY <2>1
  <2>2. CASE q # i
    BY <2>2
  <2>3. QED
    BY <2>1, <2>2
<1>3. QED
  BY <1>1, <1>2 DEF CallInv

(* A call begins.                                                          *)
LEMMA StartCalls ==
  ASSUME StorageInv, CallInv, NEW i \in Installers, NEW kind \in {"schema", "indexes"},
         Start(i, kind)
  PROVE  CallInv'
<1> DEFINE fit == Fit(storage)
<1> DEFINE n == [pc |-> "look", kind |-> kind, at |-> 1, clean |-> TRUE, fit |-> fit]
<1>1. call' = [call EXCEPT ![i] = n] /\ storage' = storage
  BY DEF Start
<1>2. fit \in BOOLEAN /\ (~fit => ~Fit(storage) /\ storage.object # "none")
  BY DEF Fit
<1> HIDE DEF fit
<1>3. n \in CallRec
  BY <1>2 DEF CallRec
<1>4. Knows(n, storage)
  <2>1. Len(Program(kind)) \in Nat /\ Len(Program(kind)) >= 8
    BY Programs
  <2>2. QED
    BY <1>2, <2>1 DEF Knows
<1> HIDE DEF n
<1>5. \A q \in Installers : Knows(call[q], storage')
  BY <1>1 DEF CallInv
<1>6. QED
  BY <1>1, <1>3, <1>4, <1>5, OneCall DEF CallInv

(* A call executes the conditions of its current statement.                *)
LEMMA LookCalls ==
  ASSUME StorageInv, CallInv, NEW i \in Installers, Look(i)
  PROVE  CallInv'
<1> DEFINE r == call[i]
<1> DEFINE P == Program(r.kind)
<1> DEFINE s == Current(i)
<1> DEFINE w == [r EXCEPT !.pc = "act"]
<1>1. r \in CallRec /\ Knows(r, storage) /\ r.pc = "look" /\ storage' = storage
  BY DEF CallInv, Look
<1>2. /\ r.kind \in {"schema", "indexes"} /\ r.at \in Nat
      /\ P \in Seq(Statements) /\ Len(P) \in Nat /\ r.at \in 1 .. Len(P) /\ s = P[r.at]
  <2>1. r.kind \in {"schema", "indexes"} /\ r.at \in Nat
    BY <1>1 DEF CallRec
  <2>2. P \in Seq(Statements) /\ Len(P) \in Nat
    BY <2>1, Programs
  <2>3. r.at \in 1 .. Len(P) /\ s = P[r.at]
    BY <1>1 DEF Knows, Current
  <2>4. QED
    BY <2>1, <2>2, <2>3
<1>3. s \in Statements
  BY <1>2
<1>4. \/ call' = [call EXCEPT ![i] = Ready]
      \/ Wanted(s, storage) /\ call' = [call EXCEPT ![i] = w]
      \/ ~Throws(s, storage) /\ ~Wanted(s, storage) /\ call' = [call EXCEPT ![i] = Following(i)]
  BY DEF Look
<1>5. \A q \in Installers : Knows(call[q], storage')
  BY <1>1 DEF CallInv
<1>6. ASSUME Wanted(s, storage) PROVE w \in CallRec /\ Knows(w, storage)
  <2>1. s.do \notin {"check", "preflight"}
    BY <1>6 DEF Wanted
  <2>2. ASSUME r.clean, r.kind = "schema", ~r.fit PROVE FALSE
    <3>1. r.at <= 7 /\ storage.object # "none"
      BY <1>1, <2>2 DEF Knows
    <3>2. P = SchemaProgram
      BY <2>2 DEF Program
    <3>3. CASE r.at = 1
      <4>1. s = Statement("create", "columns")
        BY <1>2, <3>2, <3>3, ChecksFirst
      <4>2. QED
        BY <1>6, <3>1, <4>1 DEF Wanted, Statement
    <3>4. CASE r.at \in 2 .. 7
      BY <1>2, <2>1, <3>2, <3>4, ChecksFirst
    <3>5. QED
      BY <1>2, <3>1, <3>3, <3>4
  <2>3. r.clean \in BOOLEAN /\ r.fit \in BOOLEAN
    BY <1>1 DEF CallRec
  <2> HIDE DEF r, s
  <2>4. /\ w \in CallRec /\ w.pc = "act" /\ w.kind = r.kind /\ w.at = r.at /\ w.clean = r.clean
        /\ w.fit = r.fit
    BY <1>1 DEF CallRec
  <2> HIDE DEF w
  <2>5. Knows(w, storage)
    BY <1>1, <1>2, <2>1, <2>2, <2>3, <2>4 DEF Knows
  <2>6. QED
    BY <2>4, <2>5
<1>7. ASSUME ~Throws(s, storage), ~Wanted(s, storage)
      PROVE  Following(i) \in CallRec /\ Knows(Following(i), storage)
  <2>1. Established(s, storage)
    BY <1>3, <1>7, NothingToDo
  <2>2. QED
    BY <1>1, <2>1, FollowingKnows DEF StorageInv
<1>8. call \in [Installers -> CallRec]
  BY DEF CallInv
<1> HIDE DEF r, s, w, P
<1>9. CASE call' = [call EXCEPT ![i] = Ready]
  BY <1>5, <1>8, <1>9, ReadyKnows, OneCall
<1>10. CASE Wanted(s, storage) /\ call' = [call EXCEPT ![i] = w]
  BY <1>1, <1>5, <1>6, <1>8, <1>10, OneCall
<1>11. CASE ~Throws(s, storage) /\ ~Wanted(s, storage) /\ call' = [call EXCEPT ![i] = Following(i)]
  BY <1>1, <1>5, <1>7, <1>8, <1>11, OneCall
<1>12. QED
  BY <1>4, <1>9, <1>10, <1>11

(* A call sends the DDL of its current statement, which the database       *)
(* executes or rejects.                                                    *)
LEMMA ActCalls ==
  ASSUME StorageInv, CallInv, NEW i \in Installers, Act(i)
  PROVE  /\ CallInv' /\ call[i].pc = "act"
         /\ \/ Repairs(storage, storage') /\ report' = Watched(storage')
            \/ UNCHANGED <<storage, report>>
<1> DEFINE r == call[i]
<1> DEFINE P == Program(r.kind)
<1> DEFINE s == Current(i)
<1>1. r \in CallRec /\ Knows(r, storage) /\ r.pc = "act" /\ call \in [Installers -> CallRec]
  BY DEF CallInv, Act
<1>2. s \in Statements /\ s.do \notin {"check", "preflight"}
  <2>1. r.kind \in {"schema", "indexes"} /\ r.at \in Nat
    BY <1>1 DEF CallRec
  <2>2. P \in Seq(Statements) /\ Len(P) \in Nat
    BY <2>1, Programs
  <2>3. r.at \in 1 .. Len(P) /\ s = P[r.at] /\ s.do \notin {"check", "preflight"}
    BY <1>1 DEF Knows, Current
  <2>4. QED
    BY <2>1, <2>2, <2>3
<1>3. CASE ~Accepts(s, storage)
  <2>1. call' = [call EXCEPT ![i] = Ready] /\ UNCHANGED <<storage, report>>
    BY <1>3 DEF Act
  <2>2. \A q \in Installers : Knows(call[q], storage')
    BY <2>1 DEF CallInv
  <2>3. CallInv'
    BY <1>1, <2>1, <2>2, ReadyKnows, OneCall
  <2>4. QED
    BY <1>1, <2>1, <2>3
<1>4. CASE Accepts(s, storage)
  <2>1. /\ storage' \in Results(s, storage) /\ call' = [call EXCEPT ![i] = Following(i)]
        /\ report' = Watched(storage')
    BY <1>4 DEF Act
  <2>2. Repairs(storage, storage') /\ Established(s, storage')
    BY <1>2, <1>4, <2>1, StatementRepairs
  <2>3. \A q \in Installers : Knows(call[q], storage')
    BY <2>2, KnowsStable DEF CallInv
  <2>4. StorageInv'
    BY <2>2, RepairsStorage
  <2>5. Following(i) \in CallRec /\ Knows(Following(i), storage')
    BY <1>1, <2>2, <2>3, <2>4, FollowingKnows DEF StorageInv
  <2>6. CallInv'
    BY <1>1, <2>1, <2>3, <2>5, OneCall
  <2>7. QED
    BY <1>1, <2>1, <2>2, <2>6
<1>5. QED
  BY <1>3, <1>4

(* Once an administrator has interfered no call claims anything.           *)
LEMMA InterfereCalls ==
  ASSUME StorageInv, CallInv, NEW st, Interfere(st)
  PROVE  /\ CallInv' /\ storage' = st
         /\ changes \in 0 .. MaxChanges => changes' \in 0 .. MaxChanges /\ changes' # changes
<1>1. /\ call' = [q \in Installers |-> IF call[q].pc = "resolved" THEN Ready
                                       ELSE [call[q] EXCEPT !.clean = FALSE, !.fit = FALSE]]
      /\ storage' = st /\ changes < MaxChanges /\ changes' = changes + 1
  BY DEF Interfere
<1>2. ASSUME NEW q \in Installers PROVE call'[q] \in CallRec /\ Knows(call'[q], storage')
  <2> DEFINE r == call[q]
  <2> DEFINE n == [r EXCEPT !.clean = FALSE, !.fit = FALSE]
  <2>1. r \in CallRec /\ Knows(r, storage)
    BY DEF CallInv
  <2>2. CASE r.pc = "resolved"
    <3>1. call'[q] = Ready
      BY <1>1, <2>2
    <3>2. QED
      BY <3>1, ReadyKnows
  <2>3. CASE r.pc # "resolved"
    <3>1. call'[q] = n
      BY <1>1, <2>3
    <3> HIDE DEF r
    <3>2. n \in CallRec /\ n.pc = r.pc /\ n.kind = r.kind /\ n.at = r.at /\ ~n.clean
      BY <2>1 DEF CallRec
    <3> HIDE DEF n
    <3>3. Knows(n, storage')
      BY <2>1, <3>2 DEF Knows
    <3>4. QED
      BY <3>1, <3>2, <3>3
  <2>4. QED
    BY <2>2, <2>3
<1>3. call' \in [Installers -> CallRec]
  <2>1. call' = [q \in Installers |-> call'[q]]
    BY <1>1
  <2>2. QED
    BY <1>2, <2>1
<1>4. CallInv'
  BY <1>2, <1>3 DEF CallInv
<1>5. changes \in 0 .. MaxChanges => changes' \in 0 .. MaxChanges /\ changes' # changes
  <2>1. changes < MaxChanges /\ changes' = changes + 1
    BY DEF Interfere
  <2>2. MaxChanges \in Nat
    BY BoundAssumption
  <2>3. QED
    BY <2>1, <2>2
<1>6. QED
  BY <1>1, <1>4, <1>5
-----------------------------------------------------------------------------
(* What an inspection knows                                                *)

(* An inspection that goes on while the catalog changes.                   *)
LEMMA WatchedKept ==
  ASSUME ReportInv, report' = Watched(storage')
  PROVE  ReportInv'
<1>1. CASE ~report.clean
  <2>1. report' = report
    BY <1>1 DEF Watched
  <2>2. report \in ReportRec /\ ~report.sound
    BY <1>1 DEF ReportInv, ReportRec
  <2>3. QED
    BY <1>1, <2>1, <2>2 DEF ReportInv
<1>2. CASE report.clean
  <2> DEFINE f == report.faulty \cap Faulty(storage')
  <2> DEFINE s == report.sound /\ Sound(storage')
  <2> DEFINE n == [report EXCEPT !.faulty = f, !.sound = s]
  <2>1. report' = n
    BY <1>2 DEF Watched
  <2>2. /\ report \in ReportRec /\ report.faulty \subseteq Required
        /\ \A p \in report.faulty : \E x \in report.unread : p \in Rows(x)
        /\ report.sound => ~report.lost
    BY <1>2 DEF ReportInv, ReportRec
  <2>3. /\ f \in SUBSET Required /\ s \in BOOLEAN /\ f \subseteq Faulty(storage')
        /\ f \subseteq report.faulty /\ (s => report.sound /\ Sound(storage'))
    BY <2>2
  <2> HIDE DEF f, s
  <2>4. /\ n \in ReportRec /\ n.faulty = f /\ n.sound = s /\ n.unread = report.unread
        /\ n.clean = report.clean /\ n.lost = report.lost
    BY <2>2, <2>3 DEF ReportRec
  <2> HIDE DEF n
  <2>5. QED
    BY <1>2, <2>1, <2>2, <2>3, <2>4 DEF ReportInv
<1>3. QED
  BY <1>1, <1>2

(* An inspection of a catalog that has not changed.                        *)
LEMMA ReportSame ==
  ASSUME ReportInv, report' = report, storage'.part = storage.part,
         storage'.object = storage.object
  PROVE  ReportInv'
<1>1. Faulty(storage') = Faulty(storage) /\ (Sound(storage) => Sound(storage'))
  BY DEF Faulty, Sound, Complete
<1>2. QED
  BY <1>1 DEF ReportInv

(* An inspection begins.                                                   *)
LEMMA InspectReport ==
  ASSUME StorageInv, ReportInv, NEW who \in Identities, NEW session \in BOOLEAN,
         Inspect(who, session)
  PROVE  ReportInv'
<1> DEFINE clean == storage.object = "table" /\ who \in {"owner", "viewer"} /\ session
<1> DEFINE u == IF clean THEN Sections ELSE {}
<1> DEFINE f == IF clean THEN Faulty(storage) ELSE {}
<1> DEFINE s == clean /\ Sound(storage)
<1> DEFINE n == [Quiet EXCEPT !.pc = "reading", !.clean = clean, !.unread = u, !.faulty = f,
                              !.sound = s]
<1>1. report' = n /\ storage' = storage
  BY DEF Inspect
<1>2. /\ clean \in BOOLEAN /\ s \in BOOLEAN /\ u \in SUBSET Sections /\ f \in SUBSET Required
      /\ clean => u = Sections /\ f = Faulty(storage)
      /\ ~clean => u = {}
      /\ s => clean /\ Sound(storage)
  BY DEF Faulty
<1> HIDE DEF clean, u, f, s
<1>3. Quiet \in ReportRec /\ ~Quiet.lost
  BY DEF Quiet, ReportRec
<1>4. /\ n \in ReportRec /\ n.clean = clean /\ n.unread = u /\ n.faulty = f /\ n.sound = s
      /\ ~n.lost
  BY <1>2, <1>3 DEF ReportRec
<1> HIDE DEF n
<1>5. \A p \in Required : \E x \in Sections : p \in Rows(x)
  <2>1. "columns" \in Rows("columns") /\ "columns" \in Sections
    BY DEF Rows, Sections
  <2>2. {"key", "created"} \subseteq Rows("indexes") /\ "indexes" \in Sections
    BY DEF Rows, Sections
  <2>3. Triggers = Rows("triggers") /\ "triggers" \in Sections
    BY DEF Rows, Sections
  <2>4. Json = Rows("constraints") /\ "constraints" \in Sections
    BY DEF Rows, Sections
  <2>5. QED
    BY <2>1, <2>2, <2>3, <2>4 DEF Required
<1>6. QED
  BY <1>1, <1>2, <1>4, <1>5 DEF ReportInv

(* What is faulty raises an issue when it is read.                         *)
LEMMA FaultyFails ==
  ASSUME StorageInv, NEW p \in Faulty(storage)
  PROVE  ~Passes(p)
<1>1. p \in Required /\ p \in Parts /\ p \notin Indexes
  BY DEF Faulty, Required, Parts, Json, Triggers, Indexes, Needs
<1>2. CASE storage.object # "table"
  <2>1. storage.part[p] \in {"absent", "elsewhere"}
    BY <1>1, <1>2 DEF StorageInv
  <2>2. QED
    BY <1>1, <2>1 DEF Passes
<1>3. CASE storage.object = "table"
  <2>1. storage.part[p] \notin {"good"} \cup (IF p = "columns" THEN {"extra"} ELSE {})
                                        \cup (IF p \in Triggers THEN {"hollow"} ELSE {})
    BY <1>3 DEF Faulty
  <2>2. "columns" \notin Triggers
    BY DEF Triggers
  <2>3. QED
    BY <1>1, <2>1, <2>2 DEF Passes
<1>4. QED
  BY <1>2, <1>3

(* Sound storage raises no issue in any section.                           *)
LEMMA SoundPasses ==
  ASSUME Sound(storage), ~report.lost, NEW x \in Sections
  PROVE  ~NoRows(x) /\ \A p \in Rows(x) : Passes(p)
<1>1. /\ \A p \in Required : storage.part[p] = "good"
      /\ \A p \in Indexes : storage.part[p] # "off"
  BY DEF Sound, Complete
<1>2. \A p \in Rows(x) : p \in Required \/ p \in Indexes
  BY DEF Rows, Sections, Required
<1>3. \E p \in Rows(x) : p \in Required
  <2>1. "columns" \in Required /\ "key" \in Required /\ "update" \in Required
        /\ "changes" \in Required
    BY DEF Required, Triggers, Json
  <2>2. CASE x = "columns"
    BY <2>1, <2>2 DEF Rows
  <2>3. CASE x = "indexes"
    BY <2>1, <2>3 DEF Rows
  <2>4. CASE x = "triggers"
    BY <2>1, <2>4 DEF Rows, Triggers
  <2>5. CASE x = "constraints"
    BY <2>1, <2>5 DEF Rows, Json
  <2>6. QED
    BY <2>2, <2>3, <2>4, <2>5 DEF Sections
<1>4. ~NoRows(x)
  BY <1>1, <1>3 DEF NoRows
<1>5. \A p \in Rows(x) : Passes(p)
  <2>1. Required \cap Indexes = {}
    BY DEF Required, Json, Triggers, Indexes, Needs
  <2>2. \A p \in Required : storage.part[p] = "good" => Passes(p)
    BY <2>1 DEF Passes
  <2>3. \A p \in Indexes : storage.part[p] # "off" => Passes(p)
    BY DEF Passes, Indexes, Needs, Triggers
  <2>4. QED
    BY <1>1, <1>2, <2>2, <2>3
<1>6. QED
  BY <1>4, <1>5

(* An inspection reads one of its sections.                                *)
LEMMA ReadReport ==
  ASSUME StorageInv, ReportInv, NEW x \in Sections, Read(x)
  PROVE  ReportInv'
<1> DEFINE clean == ~NoRows(x) /\ \A p \in Rows(x) : Passes(p)
<1> DEFINE u == IF clean THEN report.unread \ {x} ELSE {}
<1> DEFINE f == IF clean THEN report.faulty ELSE {}
<1> DEFINE n == [report EXCEPT !.clean = clean, !.unread = u, !.faulty = f]
<1>1. report' = n /\ storage' = storage /\ x \in report.unread
  BY DEF Read
<1>2. /\ report \in ReportRec /\ report.unread \in SUBSET Sections
      /\ report.faulty \in SUBSET Required /\ report.sound \in BOOLEAN
  BY DEF ReportInv, ReportRec
<1>3. clean \in BOOLEAN /\ (clean => \A p \in Rows(x) : Passes(p))
  OBVIOUS
<1>4. report.sound => clean
  BY SoundPasses DEF ReportInv
<1>5. /\ u \in SUBSET Sections /\ f \in SUBSET Required
      /\ clean => u = report.unread \ {x} /\ f = report.faulty
      /\ ~clean => u = {}
  BY <1>2
<1> HIDE DEF clean, u, f
<1>6. /\ n \in ReportRec /\ n.clean = clean /\ n.unread = u /\ n.faulty = f
      /\ n.sound = report.sound /\ n.lost = report.lost
  BY <1>2, <1>3, <1>5 DEF ReportRec
<1> HIDE DEF n
<1>7. report.clean
  BY <1>1 DEF ReportInv
<1>8. ASSUME clean
      PROVE  /\ f \subseteq Faulty(storage)
             /\ \A p \in f : \E y \in u : p \in Rows(y)
  <2>1. f = report.faulty /\ u = report.unread \ {x} /\ f \subseteq Faulty(storage)
    BY <1>5, <1>7, <1>8 DEF ReportInv
  <2>2. ASSUME NEW p \in f PROVE \E y \in u : p \in Rows(y)
    <3>1. PICK y \in report.unread : p \in Rows(y)
      BY <1>7, <2>1, <2>2 DEF ReportInv
    <3>2. p \notin Rows(x)
      BY <1>3, <1>8, <2>1, <2>2, FaultyFails
    <3>3. QED
      BY <2>1, <3>1, <3>2
  <2>3. QED
    BY <2>1, <2>2
<1>9. QED
  BY <1>1, <1>4, <1>5, <1>6, <1>7, <1>8 DEF ReportInv

(* A step of an inspection keeps what it knows; other steps it watches.    *)
LEMMA ReturnReport ==
  ASSUME ReportInv, Return
  PROVE  ReportInv'
<1>1. report' = Quiet /\ storage' = storage
  BY DEF Return
<1>2. Quiet \in ReportRec /\ ~Quiet.clean /\ ~Quiet.sound /\ Quiet.unread = {}
  BY DEF Quiet, ReportRec
<1>3. QED
  BY <1>1, <1>2 DEF ReportInv
-----------------------------------------------------------------------------
(* The inductive invariant                                                 *)

(* An administrator changes a part.                                        *)
LEMMA ChangeStep ==
  ASSUME IInv, NEW p \in Touched, NEW x \in States(p), Change(p, x)
  PROVE  IInv' /\ changes' # changes
<1> DEFINE st == [storage EXCEPT !.part[p] = x]
<1>1. /\ Interfere(st) /\ report' = Watched(st)
      /\ \/ storage.object = "table"
         \/ p \in Triggers /\ {x, storage.part[p]} = {"elsewhere", "absent"}
      /\ p \in storage.unsound => x # "good"
  BY DEF Change
<1>2. p \in Parts /\ storage \in StorageRec /\ x \in States(p)
  BY BoundAssumption DEF IInv, StorageInv
<1>3. x \in {"absent", "good", "foreign", "extra", "off", "hollow", "elsewhere"}
  BY <1>2 DEF States
<1>4. /\ st \in StorageRec /\ st.object = storage.object /\ st.unsound = storage.unsound
      /\ st.part[p] = x /\ \A q \in Parts \ {p} : st.part[q] = storage.part[q]
  BY <1>2, <1>3 DEF StorageRec
<1> HIDE DEF st
<1>5. storage' = st /\ CallInv' /\ changes' \in 0 .. MaxChanges /\ changes' # changes
  BY <1>1, InterfereCalls DEF IInv
<1>6. StorageInv'
  <2>1. \A q \in Parts : st.part[q] \in States(q)
    BY <1>2, <1>4 DEF IInv, StorageInv
  <2>2. st.object # "table" => \A q \in Parts : st.part[q] \in {"absent", "elsewhere"}
    <3>1. storage.object # "table" => x \in {"absent", "elsewhere"}
      BY <1>1
    <3>2. QED
      BY <1>4, <3>1 DEF IInv, StorageInv
  <2>3. \A c \in Json : st.part[c] = "good" => c \notin st.unsound
    <3>1. Json \subseteq Parts
      BY DEF Parts
    <3>2. QED
      BY <1>1, <1>4, <3>1 DEF IInv, StorageInv
  <2>4. QED
    BY <1>4, <1>5, <2>1, <2>2, <2>3 DEF StorageInv
<1>7. ReportInv'
  BY <1>1, <1>5, WatchedKept DEF IInv
<1>8. QED
  BY <1>5, <1>6, <1>7 DEF IInv

(* An administrator drops the table.                                       *)
LEMMA DropStep ==
  ASSUME IInv, Drop
  PROVE  IInv' /\ changes' # changes
<1> DEFINE part == [p \in Parts |-> IF storage.part[p] = "elsewhere" THEN "elsewhere" ELSE "absent"]
<1> DEFINE st == [Nothing EXCEPT !.part = part]
<1>1. Interfere(st) /\ report' = [Watched(st) EXCEPT !.lost = report.clean]
  BY DEF Drop
<1>2. /\ part \in [Parts -> {"absent", "elsewhere"}]
      /\ \A p \in Parts : part[p] \in States(p)
  BY DEF IInv, StorageInv, States
<1> HIDE DEF part
<1>3. st.object = "none" /\ st.part = part /\ st.unsound = {} /\ st \in StorageRec
  BY <1>2 DEF Nothing, StorageRec
<1> HIDE DEF st
<1>4. storage' = st /\ CallInv' /\ changes' \in 0 .. MaxChanges /\ changes' # changes
  BY <1>1, InterfereCalls DEF IInv
<1>5. StorageInv'
  BY <1>2, <1>3, <1>4 DEF StorageInv
<1>6. ReportInv'
  <2> DEFINE w == Watched(storage')
  <2> DEFINE lost == report.clean
  <2> DEFINE n == [w EXCEPT !.lost = lost]
  <2>1. report' = n
    BY <1>1, <1>4
  <2>2. /\ w \in ReportRec /\ (w.unread # {} => w.clean)
        /\ w.clean => /\ w.faulty \subseteq Faulty(storage')
                      /\ \A p \in w.faulty : \E s \in w.unread : p \in Rows(s)
        /\ ~w.sound
    <3>1. CASE ~report.clean
      <4>1. w = report
        BY <3>1 DEF Watched
      <4>2. QED
        BY <3>1, <4>1 DEF IInv, ReportInv, ReportRec
    <3>2. CASE report.clean
      <4> DEFINE f == report.faulty \cap Faulty(storage')
      <4> DEFINE s == report.sound /\ Sound(storage')
      <4>1. w = [report EXCEPT !.faulty = f, !.sound = s]
        BY <3>2 DEF Watched
      <4>2. report \in ReportRec /\ report.faulty \subseteq Required
        BY DEF IInv, ReportInv, ReportRec
      <4>3. ~s /\ s \in BOOLEAN /\ f \in SUBSET Required
        BY <1>3, <1>4, <4>2 DEF Sound, Complete
      <4>4. f \subseteq report.faulty /\ f \subseteq Faulty(storage')
        OBVIOUS
      <4> HIDE DEF f, s, w
      <4>5. /\ w \in ReportRec /\ w.faulty = f /\ w.sound = s /\ w.unread = report.unread
            /\ w.clean = report.clean
        BY <4>1, <4>2, <4>3 DEF ReportRec
      <4>6. QED
        BY <3>2, <4>3, <4>4, <4>5 DEF IInv, ReportInv
    <3>3. QED
      BY <3>1, <3>2
  <2>3. lost \in BOOLEAN
    BY DEF IInv, ReportInv, ReportRec
  <2> HIDE DEF w, lost
  <2>4. /\ n \in ReportRec /\ n.unread = w.unread /\ n.clean = w.clean /\ n.faulty = w.faulty
        /\ n.sound = w.sound
    BY <2>2, <2>3 DEF ReportRec
  <2> HIDE DEF n
  <2>5. QED
    BY <2>1, <2>2, <2>4 DEF ReportInv
<1>7. QED
  BY <1>4, <1>5, <1>6 DEF IInv

(* A row that is not JSON is written.                                      *)
LEMMA UnsoundStep ==
  ASSUME IInv, NEW c \in Json \cap Touched, WriteUnsound(c)
  PROVE  IInv' /\ changes' # changes
<1> DEFINE u == storage.unsound \cup {c}
<1>1. /\ storage' = [storage EXCEPT !.unsound = u] /\ call' = call /\ report' = report
      /\ changes < MaxChanges /\ changes' = changes + 1 /\ storage.part[c] # "good"
  BY DEF WriteUnsound
<1>2. storage \in StorageRec /\ u \in SUBSET Json
  BY DEF IInv, StorageInv, StorageRec
<1> HIDE DEF u
<1>3. /\ storage' \in StorageRec /\ storage'.unsound = u /\ storage'.part = storage.part
      /\ storage'.object = storage.object
  BY <1>1, <1>2 DEF StorageRec
<1>4. StorageInv'
  <2>1. \A d \in Json : storage'.part[d] = "good" => d \notin storage'.unsound
    BY <1>1, <1>3 DEF IInv, StorageInv, u
  <2>2. QED
    BY <1>3, <2>1 DEF IInv, StorageInv
<1>5. CallInv'
  <2>1. \A q \in Installers : Knows(call[q], storage')
    BY <1>3, KnowsSame DEF IInv, CallInv
  <2>2. QED
    BY <1>1, <2>1 DEF IInv, CallInv
<1>6. ReportInv'
  BY <1>1, <1>3, ReportSame DEF IInv
<1>7. changes' \in 0 .. MaxChanges /\ changes' # changes
  <2>1. changes \in 0 .. MaxChanges /\ MaxChanges \in Nat
    BY BoundAssumption DEF IInv
  <2>2. QED
    BY <1>1, <2>1
<1>8. QED
  BY <1>4, <1>5, <1>6, <1>7 DEF IInv

(* The storage as it is at first.                                          *)
LEMMA InitInv == Init => IInv
<1> SUFFICES ASSUME Init PROVE IInv
  OBVIOUS
<1> DEFINE none == [p \in Parts |-> "absent"]
<1> DEFINE made == [none EXCEPT !.columns = "good", !.key = "good"]
<1>1. /\ none \in [Parts -> {"absent", "good", "foreign", "extra", "off", "hollow", "elsewhere"}]
      /\ {"columns", "key"} \subseteq Parts
  BY DEF Parts
<1>2. /\ made \in [Parts -> {"absent", "good", "foreign", "extra", "off", "hollow", "elsewhere"}]
      /\ \A p \in Parts : made[p] \in {"absent", "good"}
      /\ \A p \in Json : made[p] = "absent"
  BY <1>1 DEF Json, Parts
<1>3. \A p \in Parts : {"absent", "good"} \subseteq States(p)
  BY DEF States
<1>4. StorageInv
  <2>1. CASE storage = Nothing
    BY <1>1, <1>3, <2>1 DEF StorageInv, StorageRec, Nothing, Json, Parts
  <2>2. CASE storage = [Nothing EXCEPT !.object = "other"]
    BY <1>1, <1>3, <2>2 DEF StorageInv, StorageRec, Nothing, Json, Parts
  <2>3. CASE storage = Created(Nothing)
    <3>1. storage.object = "table" /\ storage.part = made /\ storage.unsound = {}
          /\ storage \in StorageRec
      BY <1>1, <1>2, <2>3 DEF Created, Nothing, StorageRec
    <3> HIDE DEF made, none
    <3>2. QED
      BY <1>2, <1>3, <3>1 DEF StorageInv
  <2>4. QED
    BY <2>1, <2>2, <2>3 DEF Init
<1>5. CallInv
  BY ReadyKnows DEF Init, CallInv
<1>6. ReportInv
  BY DEF Init, ReportInv, Quiet, ReportRec
<1>7. changes \in 0 .. MaxChanges
  BY BoundAssumption DEF Init
<1>8. QED
  BY <1>4, <1>5, <1>6, <1>7 DEF IInv

(* A step of an installer.                                                 *)
LEMMA InstallerStep ==
  ASSUME IInv, NEW i \in Installers,
         (\E kind \in {"schema", "indexes"} : Start(i, kind)) \/ Look(i) \/ Act(i) \/ Lose(i)
  PROVE  IInv'
<1>1. CASE \E kind \in {"schema", "indexes"} : Start(i, kind)
  <2>1. CallInv'
    BY <1>1, StartCalls DEF IInv
  <2>2. UNCHANGED <<storage, report, changes>>
    BY <1>1 DEF Start
  <2>3. StorageInv' /\ ReportInv'
    BY <2>2, ReportSame DEF IInv, StorageInv
  <2>4. QED
    BY <2>1, <2>2, <2>3 DEF IInv
<1>2. CASE Look(i)
  <2>1. CallInv'
    BY <1>2, LookCalls DEF IInv
  <2>2. UNCHANGED <<storage, report, changes>>
    BY <1>2 DEF Look
  <2>3. StorageInv' /\ ReportInv'
    BY <2>2, ReportSame DEF IInv, StorageInv
  <2>4. QED
    BY <2>1, <2>2, <2>3 DEF IInv
<1>3. CASE Act(i)
  <2>1. /\ CallInv'
        /\ \/ Repairs(storage, storage') /\ report' = Watched(storage')
           \/ UNCHANGED <<storage, report>>
    BY <1>3, ActCalls DEF IInv
  <2>2. changes' = changes
    BY <1>3 DEF Act
  <2>3. StorageInv'
    BY <2>1, RepairsStorage DEF IInv, StorageInv
  <2>4. ReportInv'
    BY <2>1, WatchedKept, ReportSame DEF IInv
  <2>5. QED
    BY <2>1, <2>2, <2>3, <2>4 DEF IInv
<1>4. CASE Lose(i)
  <2>1. call' = [call EXCEPT ![i] = Ready] /\ UNCHANGED <<storage, report, changes>>
    BY <1>4 DEF Lose
  <2>2. StorageInv' /\ ReportInv'
    BY <2>1, ReportSame DEF IInv, StorageInv
  <2>3. \A q \in Installers : Knows(call[q], storage')
    BY <2>1 DEF IInv, CallInv
  <2>4. CallInv'
    BY <2>1, <2>3, ReadyKnows, OneCall DEF IInv, CallInv
  <2>5. QED
    BY <2>1, <2>2, <2>4 DEF IInv
<1>5. QED
  BY <1>1, <1>2, <1>3, <1>4

(* A step of an inspection.                                                *)
LEMMA InspectionStep ==
  ASSUME IInv,
         \/ \E who \in Identities, session \in BOOLEAN : Inspect(who, session)
         \/ \E section \in Sections : Read(section)
         \/ Return
  PROVE  IInv'
<1>1. UNCHANGED <<storage, call, changes>>
  BY DEF Inspect, Read, Return
<1>2. ReportInv'
  BY InspectReport, ReadReport, ReturnReport DEF IInv
<1>3. QED
  BY <1>1, <1>2 DEF IInv, StorageInv, CallInv

(* Every step keeps the invariant.                                         *)
LEMMA StepInv == IInv /\ [Next]_vars => IInv'
<1> SUFFICES ASSUME IInv, [Next]_vars PROVE IInv'
  OBVIOUS
<1>1. CASE \E i \in Installers, kind \in {"schema", "indexes"} : Start(i, kind)
  BY <1>1, InstallerStep
<1>2. CASE \E i \in Installers : Look(i) \/ Act(i) \/ Lose(i)
  BY <1>2, InstallerStep
<1>3. CASE \E p \in Touched : \E x \in States(p) : Change(p, x)
  BY <1>3, ChangeStep
<1>4. CASE Drop
  BY <1>4, DropStep
<1>5. CASE \E c \in Json \cap Touched : WriteUnsound(c)
  BY <1>5, UnsoundStep
<1>6. CASE \/ \E who \in Identities, session \in BOOLEAN : Inspect(who, session)
           \/ \E section \in Sections : Read(section)
           \/ Return
  BY <1>6, InspectionStep
<1>7. CASE UNCHANGED vars
  BY <1>7 DEF vars, IInv, StorageInv, CallInv, ReportInv
<1>8. QED
  BY <1>1, <1>2, <1>3, <1>4, <1>5, <1>6, <1>7 DEF Next
-----------------------------------------------------------------------------
(* Theorems                                                                *)

(* However installers, administrators and an inspection interleave, the    *)
(* catalog is one SQL Server can be in, every call knows what its earlier  *)
(* statements have established, and an inspection without issues knows     *)
(* what can still be faulty.                                               *)
THEOREM Invariance == Spec => []IInv
BY InitInv, StepInv, PTL DEF Spec

(* Types of the catalog, the calls and the inspection.                     *)
THEOREM TypeCorrect == Spec => []TypeOK
<1>1. IInv => TypeOK
  <2> SUFFICES ASSUME IInv PROVE TypeOK
    OBVIOUS
  <2>1. /\ storage.object \in {"none", "table", "other"} /\ storage.unsound \subseteq Json
        /\ DOMAIN storage.part = Parts /\ \A p \in Parts : storage.part[p] \in States(p)
        /\ storage.object # "table" => \A p \in Parts : storage.part[p] \in {"absent", "elsewhere"}
    BY DEF IInv, StorageInv, StorageRec
  <2>2. ASSUME NEW i \in Installers
        PROVE  /\ call[i].pc \in {"ready", "look", "act", "resolved"}
               /\ call[i].kind \in {"schema", "indexes"}
               /\ call[i].at \in 1 .. Len(Program(call[i].kind))
               /\ call[i].clean \in BOOLEAN /\ call[i].fit \in BOOLEAN
    <3>1. call[i] \in CallRec /\ call[i].at \in 1 .. Len(Program(call[i].kind))
      BY DEF IInv, CallInv, Knows
    <3>2. QED
      BY <3>1 DEF CallRec
  <2>3. /\ report.pc \in {"quiet", "reading"} /\ report.unread \subseteq Sections
        /\ report.faulty \subseteq Required
        /\ {report.lost, report.sound, report.clean} \subseteq BOOLEAN
    <3>1. report \in ReportRec
      BY DEF IInv, ReportInv
    <3>2. QED
      BY <3>1 DEF ReportRec
  <2>4. QED
    BY <2>1, <2>2, <2>3 DEF IInv, TypeOK
<1>2. QED
  BY <1>1, Invariance, PTL

(* A call that resolves has installed and enabled everything, whatever it  *)
(* found and whatever other calls did between any two of its statements,   *)
(* until an administrator interferes.                                      *)
THEOREM InstallsForAll == Spec => []InstallEffective
<1>1. IInv => InstallEffective
  <2> SUFFICES ASSUME IInv, NEW i \in Installers, call[i].pc = "resolved", call[i].clean
               PROVE  IF call[i].kind = "schema"
                        THEN Complete(storage, Required) /\ storage.unsound = {}
                        ELSE Complete(storage, Prefixes \cup Indexes)
    BY DEF InstallEffective
  <2>1. /\ \A n \in 1 .. Len(Program(call[i].kind)) : Established(Program(call[i].kind)[n], storage)
        /\ call[i].kind \in {"schema", "indexes"} /\ StorageInv
    BY DEF IInv, CallInv, CallRec, Knows
  <2>2. CASE call[i].kind = "schema"
    <3>1. \A n \in 1 .. 16 : Established(SchemaProgram[n], storage)
      BY <2>1, <2>2, SchemaElements DEF Program
    <3>2. QED
      BY <2>1, <2>2, <3>1, SchemaEstablishes
  <2>3. CASE call[i].kind = "indexes"
    <3>1. \A n \in 1 .. 8 : Established(IndexProgram[n], storage)
      BY <2>1, <2>3, IndexElements DEF Program
    <3>2. QED
      BY <2>1, <2>3, <3>1, IndexesEstablish
  <2>4. QED
    BY <2>1, <2>2, <2>3
<1>2. QED
  BY <1>1, Invariance, PTL

(* An inspection without issues means that nothing required was faulty all *)
(* the time it ran, and one that finds all sound all the time has none.    *)
THEOREM InspectionIsHonest == Spec => []InspectionHonest
<1>1. IInv => InspectionHonest
  BY DEF IInv, ReportInv, InspectionHonest
<1>2. QED
  BY <1>1, Invariance, PTL

(* A call of applyAuditTableSchema on a storage that it must not modify    *)
(* ends at its checks, so that it changes nothing.                         *)
THEOREM IncompatibleIsUntouched == Spec => IncompatibleUntouched
<1> DEFINE Untouched ==
      \A i \in Installers :
        /\ call'[i] # call[i] /\ call[i].pc \in {"look", "act"} /\ call[i].kind = "schema"
        /\ call[i].clean /\ ~call[i].fit /\ changes' = changes
        => UNCHANGED storage
<1>1. ASSUME IInv, [Next]_vars PROVE [Untouched]_vars
  <2> SUFFICES ASSUME Next, NEW i \in Installers, call'[i] # call[i],
                      call[i].pc \in {"look", "act"}, call[i].kind = "schema",
                      call[i].clean, ~call[i].fit, changes' = changes
               PROVE  UNCHANGED storage
    BY <1>1
  <2>1. call[i].pc = "look"
    BY <1>1 DEF IInv, CallInv, Knows
  <2>2. CASE \E q \in Installers : Act(q)
    <3>1. PICK q \in Installers : Act(q)
      BY <2>2
    <3>2. call[q].pc = "act" /\ q # i
      BY <2>1, <3>1 DEF Act
    <3>3. call'[i] = call[i]
      BY <1>1, <3>1, <3>2 DEF Act, IInv, CallInv
    <3>4. QED
      BY <3>3
  <2>3. CASE \E q \in Installers : \/ Look(q) \/ Lose(q)
                                   \/ \E kind \in {"schema", "indexes"} : Start(q, kind)
    BY <2>3 DEF Look, Lose, Start
  <2>4. CASE \/ \E p \in Touched : \E x \in States(p) : Change(p, x)
             \/ Drop
             \/ \E c \in Json \cap Touched : WriteUnsound(c)
    BY <1>1, <2>4, ChangeStep, DropStep, UnsoundStep
  <2>5. CASE \/ \E who \in Identities, session \in BOOLEAN : Inspect(who, session)
             \/ \E section \in Sections : Read(section)
             \/ Return
    BY <2>5 DEF Inspect, Read, Return
  <2>6. QED
    BY <2>2, <2>3, <2>4, <2>5 DEF Next
<1>2. QED
  BY <1>1, Invariance, PTL DEF Spec, IncompatibleUntouched
=============================================================================
