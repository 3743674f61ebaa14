CONSTANTS
  NULL = NULL
  Surface = {s1, s2, s3}
  Window = {w1, w2, w3}
  MaxFailures = 1
SPECIFICATION Spec
SYMMETRY Symmetry
INVARIANTS
  TypeOK
  ManagedIsMapped
  FreedWithLastReference
  MappedIsManaged
CHECK_DEADLOCK FALSE
