SPECIFICATION Spec
CONSTANTS
  c1 = c1
  c2 = c2
  c3 = c3
  Calls = {c1, c2, c3}
  Modes = {"trigger", "rule"}
  Layouts = {"flat", "partitioned"}
  Aheads = {0, 1}
  Cutoffs = {3, 4}
  Start = 3
  MaxTime = 4
  MaxRows = 1
SYMMETRY Symmetry
INVARIANTS
  TypeOK
  EnforcementInstalled
  PruneComplete
  ReportHonest
  InsertsRouted
PROPERTY AppendOnly
CHECK_DEADLOCK FALSE
