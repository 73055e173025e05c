SPECIFICATION FairSpec
CONSTANTS
  Scopes = {s1, s2}
  Calls = {c1, c2}
  None = None
INVARIANTS
  TypeOK
  EvidenceCommitsWithTransaction
  NothingOutlivesSuccess
  OneTransactionPerContext
PROPERTIES
  NoWriteAfterSettling
  HelperSettles
CHECK_DEADLOCK FALSE
