------------------------ MODULE MCVpnServiceLifecycle ------------------------
(* Instances of VpnServiceLifecycle for TLC. *)
EXTENDS VpnServiceLifecycle, TLC

\* Profiles are only compared.
Symmetry == Permutations(Profiles)
==============================================================================
