---------------------------- MODULE MCGoBackend ----------------------------
(* Instances of GoBackend for TLC.  Tunnels and configurations are only    *)
(* compared, so each set is symmetric.                                     *)
EXTENDS GoBackend, TLC

Symmetry == Permutations(Tunnels) \cup Permutations(Configs)
=============================================================================
