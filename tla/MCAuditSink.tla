----------------------------- MODULE MCAuditSink -----------------------------
(* Instances of AuditSink for model checking. *)
EXTENDS AuditSink
=============================================================================
