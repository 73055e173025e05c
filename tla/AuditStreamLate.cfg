SPECIFICATION FairSpec
CONSTANTS
  Runners = {r1}
  NPos = 4
  TsOf <- MCTsOf
  BatchSize = 2
  MaxRetries = 1
  HasDLQ = FALSE
  KeyedSink = FALSE
  InOrder = FALSE
  StartAt <- MCStartAt
INVARIANTS
  TypeOK
  NoSilentLoss
  PruneKeepsUndelivered
  WindowPersistedBeforeDelivery
  WindowResumable
PROPERTIES
  CheckpointMonotone
  EveryRowHandled
  WindowCloses
