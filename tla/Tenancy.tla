------------------------------- MODULE Tenancy -------------------------------
(***************************************************************************)
(* What the two tenant services of the runner share: the ids in the path   *)
(* of a request (/v1/tenants/{tenant_id}/...).                             *)
(***************************************************************************)

CONSTANT Tenants   \* tenant ids
=============================================================================
