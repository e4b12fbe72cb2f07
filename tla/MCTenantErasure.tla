--------------------------- MODULE MCTenantErasure ---------------------------
(* TenantErasure with interchangeable shard workers, and interchangeable     *)
(* codes where there are several.                                            *)
EXTENDS TenantErasure, TLC

MCHandlerSymmetry == Permutations(Handlers)
MCSymmetry == MCHandlerSymmetry \cup Permutations(Codes)
==============================================================================
