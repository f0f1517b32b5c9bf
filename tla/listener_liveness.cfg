SPECIFICATION FairSpec
CONSTANTS
  MAX_CONTROLLERS = 1
  Threads = {t1, t2}
  Handles = {h1, h2}
  NULL = NULL
PROPERTIES
  NoOtherCrash
  StopTerminates
  SilenceEnds
  LeaveLeadsToReset
