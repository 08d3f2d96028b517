----------------------------- MODULE MCAuditChain -----------------------------
(* Instances of AuditTrail for TLC. *)
EXTENDS AuditTrail

\* One record, or two whose second clock reading is not later than the first.
MCBatches == {<<2>>, <<3, 1>>}
MCOneRecord == {<<1>>}
=============================================================================
