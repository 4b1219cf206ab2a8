-------------------------- MODULE MCLightRagTenants --------------------------
(***************************************************************************)
(* LightRagTenants with interchangeable tasks.                             *)
(***************************************************************************)
EXTENDS LightRagTenants, TLC

Symmetry == Permutations(Requests)
=============================================================================
