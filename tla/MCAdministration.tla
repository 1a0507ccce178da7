---- MODULE MCAdministration ----
(* The administrative parts of the API in one run of TLC: AdminAudit,      *)
(* Workspaces, AgentConfig and RateLimit.  They share no table, no lock    *)
(* and no limiter, so a behaviour is about one of them: part, chosen at    *)
(* first, is the one that moves.                                           *)
EXTENDS AdminAudit, Workspaces, AgentConfig, RateLimit, TLC

CONSTANTS k1, k2, w1, w2, u1, u2, u3, s1, s2, c1, c2, p1, p2

MCOrgOf == u1 :> "a" @@ u2 :> "a" @@ u3 :> "b" @@ s1 :> "a" @@ s2 :> "b"

MCLimit == [ip |-> 3, account |-> 2, off |-> 0]
MCWindow == [ip |-> 3, account |-> 4, off |-> 2]
MCRoutes == {<<"ip", "account">>, <<"ip">>, <<"off">>}

VARIABLE part

vars == <<part, auditVars, spaceVars, configVars, limitVars>>

Init ==
    /\ part \in {"audit", "workspaces", "config", "limits"}
    /\ AuditInit /\ SpacesInit /\ LimitInit /\ ConfigInit
    /\ part # "config" => config.interval = "slow" /\ config.paths = "none"

\* The steps of each part, with the others at rest.
Audit == part = "audit" /\ AuditNext /\ UNCHANGED <<part, spaceVars, configVars, limitVars>>

Work == part = "workspaces" /\ SpacesNext /\ UNCHANGED <<part, auditVars, configVars, limitVars>>

Config == part = "config" /\ ConfigNext /\ UNCHANGED <<part, auditVars, spaceVars, limitVars>>

Limits == part = "limits" /\ LimitNext /\ UNCHANGED <<part, auditVars, spaceVars, configVars>>

Next == Audit \/ Work \/ Config \/ Limits

Spec == Init /\ [][Next]_vars

Symmetric == Permutations({k1, k2}) \cup Permutations({w1, w2})
                \cup Permutations({c1, c2}) \cup Permutations({p1, p2})

====
