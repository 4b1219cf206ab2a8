-------------------------- MODULE MCCapriseTenants --------------------------
(***************************************************************************)
(* CapriseTenants with interchangeable users and chunks.                   *)
(***************************************************************************)
EXTENDS CapriseTenants, TLC

Symmetry == Permutations(Users) \cup Permutations(Chunks) \cup Permutations(Tenants)
=============================================================================
