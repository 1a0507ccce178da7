--------------------------- MODULE MCPolicyReload ---------------------------
(* Instances of PolicyReload for TLC: two floor policies and one of a       *)
(* workspace, and a YAML file that denies one kind of call.                 *)
EXTENDS PolicyReload, TLC

CONSTANTS p1, p2, p3, o1, w1, c1, c2, k2

MCOrgOf == p1 :> o1 @@ p2 :> o1 @@ p3 :> o1
MCWsOf == p1 :> Global @@ p2 :> Global @@ p3 :> w1
MCSatisfies == k2 :> {c2}
MCYaml == {[id |-> NoRow, org |-> NoOrg, ws |-> Global, prio |-> 1,
            action |-> "deny", cond |-> k2]}
=============================================================================
