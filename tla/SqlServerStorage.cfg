SPECIFICATION Spec
CONSTANTS
  Installers = {i1, i2}
  MaxChanges = 1
  Touched = {"columns", "created", "changes", "delete", "tenant_id", "read_target"}
  MaxBeside = 1
INVARIANTS
  TypeOK
  InstallEffective
  InspectionHonest
PROPERTY
  IncompatibleUntouched
SYMMETRY MCSymmetry
CHECK_DEADLOCK FALSE
