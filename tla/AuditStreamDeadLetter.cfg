SPECIFICATION Spec
CONSTANTS
  Runners = {r1}
  NPos = 3
  TsOf <- MCTsOf
  BatchSize = 3
  MaxRetries = 0
  HasDLQ = TRUE
  KeyedSink = FALSE
  InOrder = FALSE
  StartAt = {0}
INVARIANT
  WholeBatchHandledBeforeAdvance
