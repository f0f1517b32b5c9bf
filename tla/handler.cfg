SPECIFICATION Spec
CONSTANTS
  HwBits <- MCHwBits
  GestureBits <- MCGestureBits
  Gestures <- MCOneGesture
  KeyMap <- TriggerMap
INVARIANTS
  TypeOK
  ReportsMatch
  Agreement
  OwnFlagReleasesGestures
  KeysTellTheTruth
  FirstUnaffected
PROPERTY
  EveryReportIsAChange
