SPECIFICATION Spec
CONSTANTS
  MAX_CONTROLLERS = 2
  Threads = {t1, t2, t3}
  Handles = {h1, h2}
  NULL = NULL
SYMMETRY Symmetry
INVARIANTS
  TypeOK
  SingleDelivery
  UniqueIds
  NoHandleDropped
  QuietAtExit
PROPERTY
  ImplementsContract
