SPECIFICATION Spec
CONSTANTS
  Times <- MCTimes
  GyroValues <- MCGyroValues
  Num = 1
  Den = 2
  threshold <- MCThreshold
  UseTrigger <- MCUseTrigger
INVARIANTS
  TypeOK
  AccurateWithinASecond
  MovesWithTheGyroscope
  RotationCounts
