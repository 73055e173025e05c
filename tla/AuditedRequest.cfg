SPECIFICATION Spec
CONSTANTS
  None = None
  Principal = Principal
  Other = Other
  Ops = {o1, o2}
  Cycles = {y1}
  Setups <- MCSetups
  Calls <- MCCalls
  MaxRecords = 2
INVARIANTS
  TypeOK
  AtomicEvidence
  NoSilentGap
  BestEffortUnobstructed
  RowsHonourRequest
SYMMETRY MCSymmetry
CHECK_DEADLOCK FALSE
