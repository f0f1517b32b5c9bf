---------------------------- MODULE MCPSMoveInput ---------------------------
(* A small instance of PSMoveInput: three starts, one of which may crash, so *)
(* that there can be a stale PID file, a race for it and a start after both. *)
EXTENDS PSMoveInput
=============================================================================
