------------------------- MODULE MCTenantProjection -------------------------
(***************************************************************************)
(* TenantProjection for TLC.  Its properties are temporal too, so there is  *)
(* no symmetry.                                                             *)
(***************************************************************************)
EXTENDS TenantProjection
=============================================================================
