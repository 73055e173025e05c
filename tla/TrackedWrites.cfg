SPECIFICATION Spec
CONSTANTS
  Txs = {t1, t2}
  Ops = {o1, o2, o3}
  k1 = k1
  k2 = k2
  k3 = k3
  v1 = v1
  v2 = v2
  Keys = {k1, k2, k3}
  Vals = {v1, v2}
  None = None
  Requests <- AllKinds
  MaxBatch = 2
  InitTable <- OneAbsent
  Sequential = TRUE
  OuterClient = FALSE
INVARIANTS
  TypeOK
  CommittedTogether
  TrailReplays
PROPERTIES
  ImplementsAuditedTable
SYMMETRY Symmetry
CHECK_DEADLOCK FALSE
