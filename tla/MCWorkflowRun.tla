--------------------------- MODULE MCWorkflowRun ---------------------------
(* WorkflowRun with an AI provider and a REST API, and workflows that extract. *)
EXTENDS WorkflowRun

TheTools == {[id |-> "t1", name |-> "n1", kind |-> "ai_provider", masks |-> TRUE, ver |-> 0, rev |-> 0],
             [id |-> "t2", name |-> "n2", kind |-> "rest_api", masks |-> FALSE, ver |-> 0, rev |-> 0]}
S(i, t, f) == [id |-> i, tool |-> t, from |-> f]
TheDefinitions == {<<S(2, "t2", 0), S(1, "t1", 2)>>, <<S(1, "t1", 0), S(3, "t2", 0)>>}
=============================================================================
