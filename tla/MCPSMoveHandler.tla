--------------------------- MODULE MCPSMoveHandler --------------------------
(* Small instances of PSMoveHandler.                                         *)
EXTENDS PSMoveHandler

\* The T and CROSS buttons, and two of the gestures, which may combine.
T == 20
CROSS == 6
MCHwBits == {CROSS, T}
MCGestureBits == {24, 26}
MCGestures == SUBSET MCGestureBits
MCOneGesture == {{}, {26}}

PlainKeys == [i \in MCHwBits \union MCGestureBits |-> "none"]

\* As in the example of config/psmoveinput.conf: T is a trigger on both.
TriggerMap == [c \in {"FIRST", "SECOND"} |->
    IF c = "FIRST"
      THEN [PlainKeys EXCEPT ![CROSS] = "KEY_1", ![T] = "MOVE_TRIGGER"]
      ELSE [PlainKeys EXCEPT ![CROSS] = "KEY_2", ![T] = "GESTURE_TRIGGER",
                             ![24] = "KEY_UP", ![26] = "KEY_LEFT"]]
=============================================================================
