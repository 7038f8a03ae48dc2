----------------------- MODULE MCProtectionLifecycle -----------------------
(* The protection life cycle with interchangeable exchange order ids.      *)
EXTENDS ProtectionLifecycle, TLC

Symmetry == Permutations(OrderIds)
=============================================================================
