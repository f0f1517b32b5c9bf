SPECIFICATION Spec
CONSTANTS
  Writers = {"FIRST", "SECOND"}
  Mover = "FIRST"
  KeyMap <- MCKeyMap
  BeyondMax = {"MOVE_TRIGGER"}
  MaxValue = 1
INVARIANTS
  ShownWhenReturned
  OneKeyPerFrame
PROPERTY
  ImplementsContract
