---------------------------- MODULE PolicyReload ----------------------------
(***************************************************************************)
(* How a policy reaches the calls it governs.                              *)
(*                                                                         *)
(* An administrator's request is an API handler of several statements      *)
(* (eami-api policies.go, workspace_policies.go): the policies row, then   *)
(* its policy_conditions row, then a best-effort NOTIFY policy_reload.     *)
(* There is no transaction around them.  Every gateway node loads the      *)
(* active policies when it starts, falls back to its YAML file, then       *)
(* LISTENs and loads again at each notification (policyloader/loader.go,   *)
(* cmd/gateway/main.go).  Each dispatched call is decided by the rule set  *)
(* the node has in memory (eami-policy).                                   *)
(*                                                                         *)
(* Abstractions: the condition fields of a rule are the set of calls that  *)
(* satisfy all of them; a rule with a semantic condition satisfies none,   *)
(* which is what the stub evaluator gives.  Names, descriptions and the    *)
(* alert flag decide nothing.  A statement that fails before it changes    *)
(* anything, and whose handler then returns, is a stutter.                 *)
(***************************************************************************)
EXTENDS Integers, FiniteSets, Sequences

CONSTANTS
    Nodes,        \* gateway processes
    Admins,       \* concurrent API requests
    Policies,     \* ids of policies rows
    Orgs,         \* organisations
    Workspaces,   \* workspaces
    Global,       \* workspace_id IS NULL: a rule of the organisation's floor
    NoOrg,        \* the empty OrgID of a rule read from YAML
    OrgOf,        \* organisation of each policy id
    WsOf,         \* workspace of each policy id, or Global
    Prios,        \* priorities
    Calls,        \* what the condition fields of a rule can tell apart
    Conditions,   \* contents of a policy_conditions row
    Satisfies,    \* the calls that satisfy every field of each
    NoCond,       \* no policy_conditions row
    NoRow,        \* no policies row
    YamlRules,    \* rules of the YAML file
    MaxChanges,   \* bound on administrators' requests
    MaxFaults,    \* bound on failed statements, crashes and disconnections
    MaxWsDeletes  \* bound on deleted workspaces

Actions == {"allow", "escalate", "deny"}
Statuses == {"active", "draft"}
Rows == [prio : Prios, action : Actions, status : Statuses]
Rules == [id : Policies \cup {NoRow}, org : Orgs \cup {NoOrg},
          ws : Workspaces \cup {Global}, prio : Prios, action : Actions,
          cond : Conditions \cup {NoCond}]
Requests == [id : Policies, cond : Conditions \cup {NoCond}, route : {"org", "workspace"}]

ASSUME ConstantsAssumption ==
    /\ OrgOf \in [Policies -> Orgs]
    /\ WsOf \in [Policies -> Workspaces \cup {Global}]
    /\ NoOrg \notin Orgs /\ Global \notin Workspaces
    /\ NoRow \notin Rows /\ NoRow \notin Policies /\ NoRow \notin Requests
    /\ NoCond \notin Conditions
    /\ Satisfies \in [Conditions -> SUBSET Calls]
    /\ Prios \subseteq Int
    /\ YamlRules \subseteq Rules
    /\ MaxChanges \in Nat /\ MaxFaults \in Nat /\ MaxWsDeletes \in Nat

\* The rules of the YAML file are hand-written with distinct priorities.
ASSUME YamlAssumption ==
    \A r, s \in YamlRules : r.ws = s.ws /\ r.prio = s.prio => r = s

VARIABLES
    rows,        \* policies
    conds,       \* policy_conditions
    workspaces,  \* workspaces that exist
    pc,          \* where each API request is
    req,         \* the policy, conditions and route of the request
    gw,          \* each gateway's progress through start-up and Listen
    notes,       \* notifications waiting on each LISTEN connection
    snap,        \* rules returned by queryRules, not yet stored
    loaded,      \* Loader.current: the rules each gateway decides with
    missed,      \* a change the node was never told of since its last query
    changes, faults, wsDeletes

db == <<rows, conds, workspaces>>
api == <<pc, req>>
node == <<gw, notes, snap, loaded>>
bounds == <<changes, faults, wsDeletes>>
vars == <<db, api, node, missed, bounds>>

-----------------------------------------------------------------------------
(* The evaluator (eami-policy).                                            *)

IsFloor(r) == r.ws = Global

\* Mutant of Before: the comparator as it was before workspaces, by
\* priority alone.
Before_ByPriority(r, s) == r.prio < s.prio

\* NewEvaluator's comparator: floor rules first, then by priority.
Before(r, s) ==
    IF IsFloor(r) = IsFloor(s) THEN r.prio < s.prio ELSE IsFloor(r)

\* matchesRule: tenant, workspace, then every condition field.  A rule
\* without a policy_conditions row has only empty fields: wildcards.
Matches(r, c) ==
    /\ r.org = NoOrg \/ r.org = c.org
    /\ IsFloor(r) \/ r.ws = c.ws
    /\ r.cond = NoCond \/ c.call \in Satisfies[r.cond]

\* Evaluate returns the action of the first matching rule, or allow.
\* sort.Slice is not stable, so among equal rules any may come first.
Outcomes(rules, c) ==
    LET hits == {r \in rules : Matches(r, c)}
    IN  IF hits = {} THEN {"allow"}
        ELSE {r.action : r \in {h \in hits : \A s \in hits : ~Before(s, h)}}

\* A call is the context it is decided in: tenant, workspace or none, and
\* what conditions see of it.
Contexts == [org : Orgs, ws : Workspaces \cup {Global}, call : Calls]

-----------------------------------------------------------------------------
(* The API handlers.                                                       *)

RuleOf(p) ==
    [id |-> p, org |-> OrgOf[p], ws |-> WsOf[p], prio |-> rows[p].prio,
     action |-> rows[p].action, cond |-> conds[p]]

\* queryRules: active policies LEFT JOIN policy_conditions.
ActiveRules ==
    {RuleOf(p) : p \in {q \in Policies : rows[q] # NoRow /\ rows[q].status = "active"}}

\* UNIQUE NULLS NOT DISTINCT (org_id, workspace_id, priority).
UniquePriorities(rs) ==
    \A p, q \in Policies :
        /\ rs[p] # NoRow /\ rs[q] # NoRow
        /\ OrgOf[p] = OrgOf[q] /\ WsOf[p] = WsOf[q]
        /\ rs[p].prio = rs[q].prio
        => p = q

Request(a) == pc[a] = "idle" /\ changes < MaxChanges /\ changes' = changes + 1
GoTo(a, l) == pc' = [pc EXCEPT ![a] = l]
Ask(a, p, c, route) == req' = [req EXCEPT ![a] = [id |-> p, cond |-> c, route |-> route]]

\* INSERT INTO policies, the first statement of the create handlers.
InsertRow(a, p, route) ==
    /\ \E r \in Rows, c \in Conditions :
          /\ rows[p] = NoRow
          /\ UniquePriorities([rows EXCEPT ![p] = r])
          /\ rows' = [rows EXCEPT ![p] = r]
          /\ Ask(a, p, c, route)
    /\ GoTo(a, "conditions")
    /\ UNCHANGED <<conds, workspaces, node, missed, faults, wsDeletes>>

\* UPDATE policies, in the columns the request names, with or without new
\* conditions.
UpdateRow(a, p, route) ==
    /\ \E r \in Rows, c \in Conditions \cup {NoCond} :
          /\ rows[p] # NoRow
          /\ UniquePriorities([rows EXCEPT ![p] = r])
          /\ rows' = [rows EXCEPT ![p] = r]
          /\ Ask(a, p, c, route)
          /\ GoTo(a, IF c = NoCond THEN "notify" ELSE "upsert")
    /\ UNCHANGED <<conds, workspaces, node, missed, faults, wsDeletes>>

\* DELETE FROM policies: policy_conditions cascades.
DeleteRow(a, p, route) ==
    /\ rows' = [rows EXCEPT ![p] = NoRow]
    /\ conds' = [conds EXCEPT ![p] = NoCond]
    /\ Ask(a, p, NoCond, route)
    /\ GoTo(a, "notify")
    /\ UNCHANGED <<workspaces, node, missed, faults, wsDeletes>>

\* The organisation's routes reach every policy of the organisation, those
\* of its workspaces too, and create floor policies.  DeletePolicy does not
\* look whether a row was there.
CreatePolicy(a) == Request(a) /\ \E p \in Policies : WsOf[p] = Global /\ InsertRow(a, p, "org")
UpdatePolicy(a) == Request(a) /\ \E p \in Policies : UpdateRow(a, p, "org")
DeletePolicy(a) == Request(a) /\ \E p \in Policies : DeleteRow(a, p, "org")

\* The routes of a workspace filter by workspace_id as well, and answer 404
\* when no row is there.
CreateWorkspacePolicy(a) ==
    Request(a) /\ \E p \in Policies : WsOf[p] \in workspaces /\ InsertRow(a, p, "workspace")
UpdateWorkspacePolicy(a) ==
    Request(a) /\ \E p \in Policies : WsOf[p] # Global /\ UpdateRow(a, p, "workspace")
DeleteWorkspacePolicy(a) ==
    /\ Request(a)
    /\ \E p \in Policies : WsOf[p] # Global /\ rows[p] # NoRow /\ DeleteRow(a, p, "workspace")

\* CreatePolicyCondition, UpsertPolicyCondition.  The foreign key refuses
\* both when the policy has been deleted since: the organisation's update
\* route drops that error and notifies, the other handlers return.
WriteConditions(a) ==
    LET p == req[a].id
    IN  /\ pc[a] \in {"conditions", "upsert"}
        /\ IF rows[p] # NoRow
           THEN conds' = [conds EXCEPT ![p] = req[a].cond] /\ GoTo(a, "notify")
           ELSE /\ GoTo(a, IF pc[a] = "upsert" /\ req[a].route = "org" THEN "notify" ELSE "idle")
                /\ UNCHANGED conds
        /\ UNCHANGED <<rows, workspaces, req, node, missed, bounds>>

\* The conditions statement fails: the policies row stays as it is.
ConditionsFail(a) ==
    /\ pc[a] \in {"conditions", "upsert"}
    /\ faults < MaxFaults /\ faults' = faults + 1
    /\ IF pc[a] = "upsert" /\ req[a].route = "org"
       THEN GoTo(a, "notify") /\ UNCHANGED missed
       ELSE GoTo(a, "idle") /\ missed' = [n \in Nodes |-> TRUE]
    /\ UNCHANGED <<db, req, node, changes, wsDeletes>>

Position(s, p) == CHOOSE i \in DOMAIN s : s[i] = p
Orders == {s \in UNION {[1..k -> Policies] : k \in 1..Cardinality(Policies)} :
              \A i, j \in DOMAIN s : s[i] = s[j] => i = j}

\* ReorderPolicies: one statement renumbers the organisation's listed rows,
\* whatever their workspace; a deadlock is retried, and the unique
\* constraint refuses the whole statement.
ReorderPolicies(a) ==
    /\ Request(a)
    /\ \E s \in Orders, o \in Orgs :
          LET moved == {p \in Policies : rows[p] # NoRow /\ OrgOf[p] = o
                                         /\ \E i \in DOMAIN s : s[i] = p}
              after == [p \in Policies |->
                          IF p \in moved THEN [rows[p] EXCEPT !.prio = Position(s, p)]
                          ELSE rows[p]]
          IN  /\ UniquePriorities(after)
              /\ \A i \in DOMAIN s : i \in Prios
              /\ rows' = after
              /\ Ask(a, s[1], NoCond, "org")
    /\ GoTo(a, "notify")
    /\ UNCHANGED <<conds, workspaces, node, missed, faults, wsDeletes>>

\* DeleteWorkspace: the policies of the workspace go by cascade, and this
\* handler sends no notification.
DeleteWorkspace ==
    /\ wsDeletes < MaxWsDeletes /\ wsDeletes' = wsDeletes + 1
    /\ \E w \in workspaces :
          /\ workspaces' = workspaces \ {w}
          /\ rows' = [p \in Policies |-> IF WsOf[p] = w THEN NoRow ELSE rows[p]]
          /\ conds' = [p \in Policies |-> IF WsOf[p] = w THEN NoCond ELSE conds[p]]
    /\ missed' = [n \in Nodes |-> TRUE]
    /\ UNCHANGED <<api, node, changes, faults>>

Hears(n) == gw[n] \in {"listening", "loading"}

\* NotifyPolicyReload: Postgres queues it for the connections that LISTEN.
Notify(a) ==
    /\ pc[a] = "notify"
    /\ notes' = [n \in Nodes |-> IF Hears(n) THEN notes[n] + 1 ELSE notes[n]]
    /\ missed' = [n \in Nodes |-> missed[n] \/ ~Hears(n)]
    /\ GoTo(a, "idle")
    /\ UNCHANGED <<db, req, gw, snap, loaded, bounds>>

\* The handlers drop the error of NotifyPolicyReload.
NotifyFails(a) ==
    /\ pc[a] = "notify"
    /\ faults < MaxFaults /\ faults' = faults + 1
    /\ missed' = [n \in Nodes |-> TRUE]
    /\ GoTo(a, "idle")
    /\ UNCHANGED <<db, req, node, changes, wsDeletes>>

-----------------------------------------------------------------------------
(* The gateway.                                                            *)

\* main: Load, and the YAML file if the database has no active policy.
Start(n) ==
    /\ gw[n] = "down"
    /\ loaded' = [loaded EXCEPT ![n] = IF ActiveRules = {} THEN YamlRules ELSE ActiveRules]
    /\ gw' = [gw EXCEPT ![n] = "loaded"]
    /\ missed' = [missed EXCEPT ![n] = FALSE]
    /\ UNCHANGED <<db, api, notes, snap, bounds>>

\* main: Load fails, and the YAML file stands in until a notification.
StartOnYaml(n) ==
    /\ gw[n] = "down"
    /\ faults < MaxFaults /\ faults' = faults + 1
    /\ loaded' = [loaded EXCEPT ![n] = YamlRules]
    /\ gw' = [gw EXCEPT ![n] = "loaded"]
    /\ missed' = [missed EXCEPT ![n] = TRUE]
    /\ UNCHANGED <<db, api, notes, snap, changes, wsDeletes>>

\* Listen: LISTEN policy_reload on a connection of its own.
Listen(n) ==
    /\ gw[n] = "loaded"
    /\ gw' = [gw EXCEPT ![n] = "listening"]
    /\ UNCHANGED <<db, api, notes, snap, loaded, missed, bounds>>

\* Listen returns for good when the connection or WaitForNotification fails.
ListenerExits(n) ==
    /\ gw[n] \in {"loaded", "listening"}
    /\ faults < MaxFaults /\ faults' = faults + 1
    /\ gw' = [gw EXCEPT ![n] = "deaf"]
    /\ notes' = [notes EXCEPT ![n] = 0]
    /\ UNCHANGED <<db, api, snap, loaded, missed, changes, wsDeletes>>

\* Listen and Load: a notification arrives and queryRules returns.
Query(n) ==
    /\ gw[n] = "listening" /\ notes[n] > 0
    /\ notes' = [notes EXCEPT ![n] = @ - 1]
    /\ snap' = [snap EXCEPT ![n] = ActiveRules]
    /\ gw' = [gw EXCEPT ![n] = "loading"]
    /\ missed' = [missed EXCEPT ![n] = FALSE]
    /\ UNCHANGED <<db, api, loaded, bounds>>

\* Mutant of Store: notifications that arrived during the reload are taken
\* to be answered by it.
Store_Drains(n) ==
    /\ gw[n] = "loading"
    /\ loaded' = [loaded EXCEPT ![n] = snap[n]]
    /\ gw' = [gw EXCEPT ![n] = "listening"]
    /\ notes' = [notes EXCEPT ![n] = 0]
    /\ UNCHANGED <<db, api, snap, missed, bounds>>

\* Load: the current evaluator is replaced.
Store(n) ==
    /\ gw[n] = "loading"
    /\ loaded' = [loaded EXCEPT ![n] = snap[n]]
    /\ gw' = [gw EXCEPT ![n] = "listening"]
    /\ UNCHANGED <<db, api, notes, snap, missed, bounds>>

\* Listen logs a failed reload and waits for the next notification.
ReloadFails(n) ==
    /\ gw[n] = "listening" /\ notes[n] > 0
    /\ faults < MaxFaults /\ faults' = faults + 1
    /\ notes' = [notes EXCEPT ![n] = @ - 1]
    /\ missed' = [missed EXCEPT ![n] = TRUE]
    /\ UNCHANGED <<db, api, gw, snap, loaded, changes, wsDeletes>>

\* The gateway process stops; nothing of the loader survives.
Stop(n) ==
    /\ gw[n] # "down"
    /\ faults < MaxFaults /\ faults' = faults + 1
    /\ gw' = [gw EXCEPT ![n] = "down"]
    /\ notes' = [notes EXCEPT ![n] = 0]
    /\ loaded' = [loaded EXCEPT ![n] = {}]
    /\ UNCHANGED <<db, api, snap, missed, changes, wsDeletes>>

-----------------------------------------------------------------------------
Init ==
    /\ rows = [p \in Policies |-> NoRow]
    /\ conds = [p \in Policies |-> NoCond]
    /\ workspaces = Workspaces
    /\ pc = [a \in Admins |-> "idle"]
    /\ req = [a \in Admins |-> NoRow]
    /\ gw = [n \in Nodes |-> "down"]
    /\ notes = [n \in Nodes |-> 0]
    /\ snap = [n \in Nodes |-> {}]
    /\ loaded = [n \in Nodes |-> {}]
    /\ missed = [n \in Nodes |-> FALSE]
    /\ changes = 0 /\ faults = 0 /\ wsDeletes = 0

Handler(a) ==
    \/ CreatePolicy(a) \/ UpdatePolicy(a) \/ DeletePolicy(a) \/ ReorderPolicies(a)
    \/ CreateWorkspacePolicy(a) \/ UpdateWorkspacePolicy(a) \/ DeleteWorkspacePolicy(a)
    \/ WriteConditions(a) \/ ConditionsFail(a) \/ Notify(a) \/ NotifyFails(a)

Gateway(n) ==
    \/ Start(n) \/ StartOnYaml(n) \/ Listen(n) \/ ListenerExits(n)
    \/ Query(n) \/ Store(n) \/ ReloadFails(n) \/ Stop(n)

Next ==
    \/ \E a \in Admins : Handler(a)
    \/ DeleteWorkspace
    \/ \E n \in Nodes : Gateway(n)

Spec == Init /\ [][Next]_vars

-----------------------------------------------------------------------------
(* Properties.                                                             *)

TypeOK ==
    /\ rows \in [Policies -> Rows \cup {NoRow}]
    /\ conds \in [Policies -> Conditions \cup {NoCond}]
    /\ workspaces \subseteq Workspaces
    /\ pc \in [Admins -> {"idle", "conditions", "upsert", "notify"}]
    /\ req \in [Admins -> Requests \cup {NoRow}]
    /\ \A a \in Admins : pc[a] # "idle" => req[a] \in Requests
    /\ gw \in [Nodes -> {"down", "loaded", "listening", "loading", "deaf"}]
    /\ notes \in [Nodes -> Nat]
    /\ snap \in [Nodes -> SUBSET Rules]
    /\ loaded \in [Nodes -> SUBSET Rules]
    /\ missed \in [Nodes -> BOOLEAN]
    /\ changes \in Nat /\ faults \in Nat /\ wsDeletes \in Nat

\* No two rules of a set can match the same call with the same rank.
Untied(rules) ==
    \A r, s \in rules :
        /\ r.org = s.org \/ r.org = NoOrg \/ s.org = NoOrg
        /\ r.ws = s.ws /\ r.prio = s.prio
        => r = s

\* The unique constraint, carried from the table through the query into
\* every rule set a gateway holds: at no moment, with handlers half done,
\* reorders and reloads, has a gateway two rules of the same rank.
Inv ==
    /\ TypeOK
    /\ UniquePriorities(rows)
    /\ \A n \in Nodes : Untied(snap[n]) /\ Untied(loaded[n])

\* sort.Slice is unstable, and yet every call has one outcome: which rule
\* decides never depends on the order the database returned the rows in.
OneOutcome ==
    \A n \in Nodes, c \in Contexts :
        \A d, e \in Outcomes(loaded[n], c) : d = e

Strictness == [x \in Actions |-> CASE x = "allow" -> 0 [] x = "escalate" -> 1 [] OTHER -> 2]

\* "Workspace policies can only ADD restrictions, never override or loosen
\* the org floor" (eami-policy/types.go): whatever priorities workspace
\* administrators choose, no call is decided more leniently than by the
\* floor rules alone.
FloorHolds ==
    \A n \in Nodes, c \in Contexts :
        \A d \in Outcomes(loaded[n], c) :
            \E f \in Outcomes({r \in loaded[n] : IsFloor(r)}, c) :
                Strictness[d] >= Strictness[f]

InForce(n) ==
    loaded[n] = ActiveRules \/ (ActiveRules = {} /\ loaded[n] = YamlRules)

\* A gateway that listens, has no notification waiting and has missed none
\* since its last query decides with the policies in the database: changes
\* made while a reload is under way are not lost.
UpToDate ==
    \A n \in Nodes :
        /\ gw[n] = "listening" /\ notes[n] = 0 /\ ~missed[n]
        /\ \A a \in Admins : pc[a] = "idle"
        => InForce(n)

\* A request whose change is in the tables and not yet notified.  One whose
\* row another request has deleted owes nothing, for the deletion does: the
\* handlers that then return without a notification may.
Owes(a) ==
    \/ pc[a] = "notify"
    \/ pc[a] = "upsert" /\ req[a].route = "org"
    \/ pc[a] \in {"conditions", "upsert"} /\ rows[req[a].id] # NoRow

\* UpToDate at every moment, also with requests under way that no longer
\* matter and with a reload between its query and its store.
Fresh(n) ==
    notes[n] = 0 /\ ~missed[n] /\ (\A a \in Admins : ~Owes(a)) =>
        /\ gw[n] \in {"loaded", "listening"} => InForce(n)
        /\ gw[n] = "loading" => snap[n] = ActiveRules

FreshInv == \A n \in Nodes : Fresh(n)

=============================================================================
