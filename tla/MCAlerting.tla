----------------------------- MODULE MCAlerting -----------------------------
(* Two rules, each of whose metrics is zero or one. *)
EXTENDS Alerting
=============================================================================
