--------------------------- MODULE MCAgentAccess ---------------------------
(* Two rows with one organisation and name: an agent, and the same agent    *)
(* deleted and created again.                                               *)
EXTENDS AgentAccess

MCNamed == [r \in Rows |-> "billing-bot"]

=============================================================================
