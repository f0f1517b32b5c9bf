SPECIFICATION Spec
CONSTANTS
  MsPerSec = 4
  pollTimeout = 2
  ledTimeout = 5
  gestureTimeout = 4
  disconnectTimeout = 1
  MaxTime = 24
INVARIANTS
  LedsRefreshed
  GivenUpInTime
PROPERTIES
  LedsSpaced
  GesturesSpaced
