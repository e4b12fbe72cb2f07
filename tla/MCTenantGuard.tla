---------------------------- MODULE MCTenantGuard ----------------------------
(* TenantGuard with three calls in flight. Two tenants show that the locks  *)
(* are independent; the calls are interchangeable but the run checks        *)
(* liveness, so no symmetry is used.                                        *)
EXTENDS TenantGuard
==============================================================================
