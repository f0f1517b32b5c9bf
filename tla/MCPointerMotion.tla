--------------------------- MODULE MCPointerMotion --------------------------
(* PointerMotion around the ends of a second and of a millisecond.           *)
EXTENDS PointerMotion

MCTimes == [sec : 1 .. 2, nsec : {0, 1, 999999, 998000000, 999999999}]
MCGyroValues == {-30, 1, 30}
MCThreshold == [c \in {"pointer", "gesture"} |-> IF c = "pointer" THEN 3 ELSE 20]
MCUseTrigger == [c \in {"pointer", "gesture"} |-> c = "gesture"]
=============================================================================
