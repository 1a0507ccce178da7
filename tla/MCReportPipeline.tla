-------------------------- MODULE MCReportPipeline --------------------------
(* One key, of the first agent; the second agent has none. *)
EXTENDS ReportPipeline

CONSTANTS a1, a2
MCAgents == {a1, a2}
MCAgentOfKey == [k \in Keys |-> a1]
=============================================================================
