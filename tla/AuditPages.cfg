SPECIFICATION Spec
CONSTANTS
  t1 = t1
  t2 = t2
  All = All
  None = None
  Ids = {1, 2, 3, 4}
  Tenants = {t1, t2}
  Stamp <- MCStamp
  Owner <- MCOwner
  Limits = {1, 2}
INVARIANTS
  TypeOK
  PageScoped
  NoRepeat
  NothingSkipped
  TotalBracketed
CHECK_DEADLOCK FALSE
