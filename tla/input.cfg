SPECIFICATION FairSpec
CONSTANTS
  Instances = {p1, p2, p3}
  Crashing = {p1}
  NULL = NULL
  NOPID = NOPID
INVARIANTS
  TypeOK
  PidFileNamesAnInstance
  OneInstance
PROPERTY
  StopEndsInstance
