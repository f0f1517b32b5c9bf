-------------------------- MODULE MCPSMoveListener --------------------------
(* Small instances of PSMoveListener: the two slots of the source, or one of *)
(* them for the properties that need all states without symmetry.            *)
EXTENDS PSMoveListener, TLC

\* Threads and handles are interchangeable.
Symmetry == Permutations(Threads) \union Permutations(Handles)
=============================================================================
