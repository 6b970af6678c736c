---------------------------- MODULE MCStatusMirror ----------------------------
(* Instances of StatusMirror for TLC. *)
EXTENDS StatusMirror
=============================================================================
