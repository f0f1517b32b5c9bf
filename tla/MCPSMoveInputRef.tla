-------------------------- MODULE MCPSMoveInputRef --------------------------
(* A small instance of PSMoveInputRef: one controller thread next to main(), *)
(* and enough signals to interrupt a handler and main() at once.  Objects    *)
(* has one more address than signals arrive, so that new always finds one.   *)
EXTENDS PSMoveInputRef
=============================================================================
