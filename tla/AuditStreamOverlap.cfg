SPECIFICATION Spec
CONSTANTS
  Runners = {r1, r2}
  NPos = 3
  TsOf <- MCTsOf
  BatchSize = 1
  MaxRetries = 0
  HasDLQ = FALSE
  KeyedSink = FALSE
  InOrder = TRUE
  StartAt = {0}
SYMMETRY MCSymmetry
INVARIANT
  WindowResumable
