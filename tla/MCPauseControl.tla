--------------------------- MODULE MCPauseControl ---------------------------
(* Instances of PauseControl for TLC.  The networks are interchangeable:   *)
(* the code compares them for equality only.                               *)
EXTENDS PauseControl, TLC

NetSymmetry == Permutations(Nets)
=============================================================================
