SPECIFICATION Spec
CONSTANTS
  Runners = {r1, r2}
  NPos = 3
  TsOf <- MCTsOf
  BatchSize = 2
  MaxRetries = 0
  HasDLQ = TRUE
  KeyedSink = TRUE
  InOrder = TRUE
  StartAt <- MCStartAt
SYMMETRY MCSymmetry
INVARIANTS
  WholeBatchHandledBeforeAdvance
PROPERTY
  ImplementsFeed
