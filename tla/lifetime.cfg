SPECIFICATION FairSpec
CONSTANTS
  Threads = {t1}
  MAIN = MAIN
  PROG = PROG
  Objects = {o1, o2, o3, o4}
  First = o1
  MaxSignals = 3
  NULL = NULL
INVARIANTS
  TypeOK
  RefsCountHolders
  NoDanglingUse
  DestroyedAtExit
PROPERTY
  SignalEndsProcess
