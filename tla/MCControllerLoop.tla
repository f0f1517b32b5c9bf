-------------------------- MODULE MCControllerLoop --------------------------
(* A clock of four milliseconds to the second; a ledTimeout that is not a    *)
(* multiple of the poll timeout and a gestureTimeout that is.                *)
EXTENDS ControllerLoop
=============================================================================
