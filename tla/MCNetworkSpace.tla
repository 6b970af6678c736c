---------------------------- MODULE MCNetworkSpace ----------------------------
(* Instances of NetworkSpace for TLC. *)
EXTENDS NetworkSpace
=============================================================================
