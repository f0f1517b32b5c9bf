---------------------------- MODULE MCInputDevice ---------------------------
(* Both controllers: a plain key each, one key that both are mapped to, and  *)
(* the second one's move trigger, which is a key for the device only.        *)
EXTENDS InputDevice

MCKeyMap == [c \in {"FIRST", "SECOND"} |->
    IF c = "FIRST" THEN {"KEY_ESC", "BTN_LEFT"}
                   ELSE {"KEY_SPACE", "BTN_LEFT", "MOVE_TRIGGER"}]
=============================================================================
