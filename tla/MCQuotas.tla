------------------------------- MODULE MCQuotas -------------------------------
(***************************************************************************)
(* Messages and bytes: the quota whose unit is reserved by the admission,  *)
(* and the one that is accounted after the write.                          *)
(***************************************************************************)
EXTENDS Quotas

CONSTANTS s1, s2

MCQuotaKinds == {"messages", "media_bytes"}
MCLimit == [k \in {"messages", "media_bytes"} |-> IF k = "messages" THEN 2 ELSE 1]
===============================================================================
