SPECIFICATION Spec
CONSTANTS
  Txs = {t1, t2}
  Ops = {o1, o2, o3}
  k1 = k1
  k2 = k2
  k3 = k3
  v1 = v1
  v2 = v2
  Keys = {k1, k2}
  Vals = {v1, v2}
  None = None
  Requests <- Filtered
  MaxBatch = 2
  InitTable <- TwoRows
  Sequential = TRUE
  OuterClient = FALSE
INVARIANT PerRecordEvidence
SYMMETRY Symmetry
CHECK_DEADLOCK FALSE
