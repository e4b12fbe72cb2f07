--------------------------- MODULE TenantExclusion ---------------------------
(***************************************************************************)
(* What tenantexcl.Guard promises its callers, with no mention of how: a   *)
(* unit of work of a tenant never overlaps an erasure of the same tenant,  *)
(* and two erasures of a tenant never overlap.  `in' maps a tenant to the  *)
(* acquisitions that are inside, `alone' to those inside exclusively.      *)
(***************************************************************************)
CONSTANTS
    Tenants,        \* owner_user_id values
    Acquisitions    \* calls of Shared or Exclusive in flight

VARIABLES
    in,             \* [Tenants -> SUBSET Acquisitions]: lock() has returned
    alone           \* [Tenants -> SUBSET Acquisitions]: ... on the write side

vars == <<in, alone>>

Init ==
    /\ in = [t \in Tenants |-> {}]
    /\ alone = [t \in Tenants |-> {}]

\* A worker starts a unit of work: no erasure of the tenant is in progress.
EnterShared(t, a) ==
    /\ alone[t] = {}
    /\ in' = [in EXCEPT ![t] = @ \cup {a}]
    /\ UNCHANGED alone

\* An erasure starts: every unit of the tenant has finished.
EnterExclusive(t, a) ==
    /\ in[t] = {}
    /\ in' = [in EXCEPT ![t] = {a}]
    /\ alone' = [alone EXCEPT ![t] = {a}]

\* The release function runs.
Leave(t, a) ==
    /\ a \in in[t]
    /\ in' = [in EXCEPT ![t] = @ \ {a}]
    /\ alone' = [alone EXCEPT ![t] = @ \ {a}]

Next ==
    \E t \in Tenants, a \in Acquisitions :
        EnterShared(t, a) \/ EnterExclusive(t, a) \/ Leave(t, a)

Spec == Init /\ [][Next]_vars

(***************************************************************************)
(* The promise as a state predicate: whoever is inside alone is the only   *)
(* one inside.                                                             *)
(***************************************************************************)
Exclusion ==
    \A t \in Tenants : \A a \in alone[t] : in[t] = {a}

==============================================================================
