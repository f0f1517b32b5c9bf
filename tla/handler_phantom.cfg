SPECIFICATION Spec
CONSTANTS
  HwBits <- MCHwBits
  GestureBits <- MCGestureBits
  Gestures <- MCGestures
  KeyMap <- TriggerMap
INVARIANT
  GestureKeysNeedTrigger
