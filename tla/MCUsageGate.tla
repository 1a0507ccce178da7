---------------------------- MODULE MCUsageGate ----------------------------
(* UsageGate on small instances. *)
EXTENDS UsageGate, TLC

=============================================================================
