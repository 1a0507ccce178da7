------------------------- MODULE PolicyReloadProofs -------------------------
(***************************************************************************)
(* Proofs about PolicyReload for any number of nodes, requests, policies,  *)
(* organisations and workspaces.  Inv carries the unique constraint of the *)
(* policies table through queryRules into the rule sets of the gateways:   *)
(* OneOutcome says nothing of the table, so it is not inductive alone.     *)
(***************************************************************************)
EXTENDS PolicyReload, TLAPS

-----------------------------------------------------------------------------
(* The evaluator.                                                          *)

\* Evaluate over rules of distinct rank: two rules that both come first
\* among the matching ones are the same rule, so the unstable sort of
\* NewEvaluator does not show.
LEMMA UntiedOneOutcome ==
    ASSUME NEW rules \in SUBSET Rules, Untied(rules), NEW c \in Contexts
    PROVE  \A d, e \in Outcomes(rules, c) : d = e
<1> DEFINE hits == {r \in rules : Matches(r, c)}
           first == {h \in hits : \A s \in hits : ~Before(s, h)}
<1>1. \A r, s \in first : r = s
  <2> SUFFICES ASSUME NEW r \in first, NEW s \in first PROVE r = s
    OBVIOUS
  <2>1. r \in Rules /\ s \in Rules /\ r.prio \in Int /\ s.prio \in Int
    BY ConstantsAssumption DEF Rules
  <2>2. ~Before(r, s) /\ ~Before(s, r)
    OBVIOUS
  <2>3. (IsFloor(r) <=> IsFloor(s)) /\ r.prio = s.prio
    BY <2>1, <2>2 DEF Before, IsFloor
  <2>4. r.ws = s.ws
    BY <2>3 DEF Matches, IsFloor
  <2>5. r.org = s.org \/ r.org = NoOrg \/ s.org = NoOrg
    BY DEF Matches
  <2> QED
    BY <2>3, <2>4, <2>5 DEF Untied
<1>2. CASE hits = {}
  BY <1>2 DEF Outcomes
<1>3. CASE hits # {}
  <2>1. Outcomes(rules, c) = {r.action : r \in first}
    BY <1>3 DEF Outcomes
  <2> QED
    BY <1>1, <2>1
<1> QED
  BY <1>2, <1>3

\* Evaluate decides by a floor rule whenever one matches, and by the same
\* one the floor alone would give; otherwise the floor alone allows.
LEMMA FloorDecides ==
    ASSUME NEW rules \in SUBSET Rules, NEW c \in Contexts,
           NEW d \in Outcomes(rules, c)
    PROVE  \E f \in Outcomes({r \in rules : IsFloor(r)}, c) :
               Strictness[d] >= Strictness[f]
<1> DEFINE hits == {r \in rules : Matches(r, c)}
           floor == {r \in rules : IsFloor(r)}
           low == {r \in floor : Matches(r, c)}
<1>0. /\ \A x \in Actions : Strictness[x] \in Int /\ Strictness[x] >= 0
      /\ Strictness["allow"] = 0
  BY DEF Actions, Strictness
<1>1. d \in Actions
  <2>1. CASE hits = {}
    BY <2>1 DEF Outcomes, Actions
  <2>2. CASE hits # {}
    BY <2>2 DEF Outcomes, Rules
  <2> QED
    BY <2>1, <2>2
<1>2. CASE low = {}
  <2>1. Outcomes(floor, c) = {"allow"}
    BY <1>2 DEF Outcomes
  <2> QED
    BY <1>0, <1>1, <2>1
<1>3. CASE low # {}
  <2>1. hits # {} /\ low \subseteq hits
    BY <1>3
  <2>2. PICK r \in hits : d = r.action /\ \A s \in hits : ~Before(s, r)
    BY <2>1 DEF Outcomes
  <2>3. PICK g \in low : TRUE
    BY <1>3
  <2>4. IsFloor(r)
    BY <2>1, <2>2, <2>3 DEF Before
  <2>5. r \in low /\ \A s \in low : ~Before(s, r)
    BY <2>1, <2>2, <2>4
  <2>6. d \in Outcomes(floor, c)
    BY <1>3, <2>2, <2>5 DEF Outcomes
  <2>7. Strictness[d] >= Strictness[d]
    BY <1>0, <1>1
  <2> QED
    BY <2>6, <2>7
<1> QED
  BY <1>2, <1>3

-----------------------------------------------------------------------------
(* What queryRules returns.                                                *)

\* The rules of the active policies are well formed.
LEMMA ActiveTyped ==
    ASSUME TypeOK PROVE ActiveRules \subseteq Rules
<1> SUFFICES ASSUME NEW p \in Policies, rows[p] # NoRow PROVE RuleOf(p) \in Rules
  BY DEF ActiveRules
<1>1. rows[p] \in Rows /\ conds[p] \in Conditions \cup {NoCond}
  BY DEF TypeOK
<1>2. OrgOf[p] \in Orgs /\ WsOf[p] \in Workspaces \cup {Global}
  BY ConstantsAssumption
<1> QED
  BY <1>1, <1>2 DEF RuleOf, Rules, Rows

\* The unique constraint of the table makes the query's rules untied.
LEMMA ActiveUntied ==
    ASSUME TypeOK, UniquePriorities(rows) PROVE Untied(ActiveRules)
<1> SUFFICES ASSUME NEW p \in Policies, NEW q \in Policies,
                    rows[p] # NoRow, rows[q] # NoRow,
                    \/ RuleOf(p).org = RuleOf(q).org
                    \/ RuleOf(p).org = NoOrg \/ RuleOf(q).org = NoOrg,
                    RuleOf(p).ws = RuleOf(q).ws,
                    RuleOf(p).prio = RuleOf(q).prio
             PROVE  RuleOf(p) = RuleOf(q)
  BY DEF ActiveRules, Untied
<1>1. OrgOf[p] = OrgOf[q]
  BY ConstantsAssumption DEF RuleOf
<1>2. WsOf[p] = WsOf[q] /\ rows[p].prio = rows[q].prio
  BY DEF RuleOf
<1> QED
  BY <1>1, <1>2 DEF UniquePriorities

-----------------------------------------------------------------------------
(* The invariant.                                                          *)

LEMMA InitInv == Init => Inv
<1> SUFFICES ASSUME Init PROVE Inv
  OBVIOUS
<1>1. TypeOK
  BY ConstantsAssumption DEF Init, TypeOK
<1>2. UniquePriorities(rows)
  BY DEF Init, UniquePriorities
<1>3. \A n \in Nodes : Untied(snap[n]) /\ Untied(loaded[n])
  BY YamlAssumption DEF Init, Untied
<1> QED
  BY <1>1, <1>2, <1>3 DEF Inv

\* The rule sets of the gateways stay untied when they are unchanged.
LEMMA SameSets ==
    ASSUME Inv, UNCHANGED <<snap, loaded>>
    PROVE  \A n \in Nodes : Untied(snap'[n]) /\ Untied(loaded'[n])
BY DEF Inv

\* A table in which rows only disappear keeps its unique priorities.
LEMMA RemovalUnique ==
    ASSUME UniquePriorities(rows),
           \A p \in Policies : rows'[p] = rows[p] \/ rows'[p] = NoRow
    PROVE  UniquePriorities(rows')
<1> SUFFICES ASSUME NEW p \in Policies, NEW q \in Policies,
                    rows'[p] # NoRow, rows'[q] # NoRow, OrgOf[p] = OrgOf[q],
                    WsOf[p] = WsOf[q], rows'[p].prio = rows'[q].prio
             PROVE  p = q
  BY DEF UniquePriorities
<1>1. rows'[p] = rows[p] /\ rows'[q] = rows[q]
  OBVIOUS
<1> QED
  BY <1>1 DEF UniquePriorities

LEMMA HandlerInv ==
    ASSUME Inv, NEW a \in Admins, Handler(a) PROVE Inv'
<1> USE DEF Inv
<1>0. TypeOK /\ UniquePriorities(rows)
  OBVIOUS
<1>1. CASE Request(a) /\ \E p \in Policies, route \in {"org", "workspace"} : InsertRow(a, p, route)
  <2>0. PICK q \in Requests, l \in {"conditions", "upsert", "notify"} :
           req' = [req EXCEPT ![a] = q] /\ pc' = [pc EXCEPT ![a] = l]
    BY <1>1 DEF InsertRow, Ask, GoTo, Requests
  <2>1. TypeOK'
    BY <1>0, <1>1, <2>0 DEF InsertRow, TypeOK, Request, node
  <2>2. UniquePriorities(rows')
    BY <1>1 DEF InsertRow
  <2>3. \A n \in Nodes : Untied(snap'[n]) /\ Untied(loaded'[n])
    BY <1>1, SameSets DEF InsertRow, node
  <2> QED
    BY <2>1, <2>2, <2>3
<1>2. CASE Request(a) /\ \E p \in Policies, route \in {"org", "workspace"} : UpdateRow(a, p, route)
  <2>0. PICK q \in Requests, l \in {"conditions", "upsert", "notify"} :
           req' = [req EXCEPT ![a] = q] /\ pc' = [pc EXCEPT ![a] = l]
    BY <1>2 DEF UpdateRow, Ask, GoTo, Requests
  <2>1. TypeOK'
    BY <1>0, <1>2, <2>0 DEF UpdateRow, TypeOK, Request, node
  <2>2. UniquePriorities(rows')
    BY <1>2 DEF UpdateRow
  <2>3. \A n \in Nodes : Untied(snap'[n]) /\ Untied(loaded'[n])
    BY <1>2, SameSets DEF UpdateRow, node
  <2> QED
    BY <2>1, <2>2, <2>3
<1>3. CASE Request(a) /\ \E p \in Policies, route \in {"org", "workspace"} : DeleteRow(a, p, route)
  <2>0. PICK q \in Requests, l \in {"conditions", "upsert", "notify"} :
           req' = [req EXCEPT ![a] = q] /\ pc' = [pc EXCEPT ![a] = l]
    BY <1>3 DEF DeleteRow, Ask, GoTo, Requests
  <2>1. TypeOK'
    BY <1>0, <1>3, <2>0 DEF DeleteRow, TypeOK, Request, node
  <2>2. UniquePriorities(rows')
    BY <1>0, <1>3, RemovalUnique DEF DeleteRow, TypeOK
  <2>3. \A n \in Nodes : Untied(snap'[n]) /\ Untied(loaded'[n])
    BY <1>3, SameSets DEF DeleteRow, node
  <2> QED
    BY <2>1, <2>2, <2>3
<1>4. CASE ReorderPolicies(a)
  <2>1. rows' \in [Policies -> Rows \cup {NoRow}] /\ UniquePriorities(rows')
    <3>1. PICK s \in Orders, o \in Orgs :
             LET moved == {p \in Policies : rows[p] # NoRow /\ OrgOf[p] = o
                                            /\ \E i \in DOMAIN s : s[i] = p}
                 after == [p \in Policies |->
                             IF p \in moved THEN [rows[p] EXCEPT !.prio = Position(s, p)]
                             ELSE rows[p]]
             IN  /\ UniquePriorities(after)
                 /\ \A i \in DOMAIN s : i \in Prios
                 /\ rows' = after
      BY <1>4 DEF ReorderPolicies
    <3> DEFINE moved == {p \in Policies : rows[p] # NoRow /\ OrgOf[p] = o
                                          /\ \E i \in DOMAIN s : s[i] = p}
               after == [p \in Policies |->
                           IF p \in moved THEN [rows[p] EXCEPT !.prio = Position(s, p)]
                           ELSE rows[p]]
    <3>2. ASSUME NEW p \in Policies PROVE after[p] \in Rows \cup {NoRow}
      <4>1. CASE p \in moved
        <5>1. Position(s, p) \in Prios
          BY <3>1, <4>1 DEF Position
        <5>2. rows[p] \in Rows
          BY <1>0, <4>1 DEF TypeOK
        <5> QED
          BY <4>1, <5>1, <5>2 DEF Rows
      <4>2. CASE p \notin moved
        BY <1>0, <4>2 DEF TypeOK
      <4> QED
        BY <4>1, <4>2
    <3> QED
      BY <3>1, <3>2
  <2>2. PICK q \in Requests : req' = [req EXCEPT ![a] = q]
    <3>1. PICK s \in Orders : Ask(a, s[1], NoCond, "org")
      BY <1>4 DEF ReorderPolicies
    <3>2. s[1] \in Policies
      BY <3>1 DEF Orders
    <3> QED
      BY <3>1, <3>2 DEF Ask, Requests
  <2>3. TypeOK'
    BY <1>0, <1>4, <2>1, <2>2 DEF ReorderPolicies, TypeOK, Request, GoTo, node
  <2>4. \A n \in Nodes : Untied(snap'[n]) /\ Untied(loaded'[n])
    BY <1>4, SameSets DEF ReorderPolicies, node
  <2> QED
    BY <2>1, <2>3, <2>4
<1>5. CASE WriteConditions(a)
  <2>1. TypeOK'
    <3>1. req[a] \in Requests /\ req[a].id \in Policies /\ req[a].cond \in Conditions \cup {NoCond}
      BY <1>0, <1>5 DEF WriteConditions, TypeOK, Requests
    <3> QED
      BY <1>0, <1>5, <3>1 DEF WriteConditions, TypeOK, GoTo, node, bounds
  <2> QED
    BY <1>0, <1>5, <2>1, SameSets DEF WriteConditions, node
<1>6. CASE ConditionsFail(a)
  <2>1. TypeOK'
    <3>1. PICK l \in {"idle", "notify"} : pc' = [pc EXCEPT ![a] = l]
      BY <1>6 DEF ConditionsFail, GoTo
    <3>2. missed' \in [Nodes -> BOOLEAN]
      BY <1>0, <1>6 DEF ConditionsFail, TypeOK
    <3> QED
      BY <1>0, <1>6, <3>1, <3>2 DEF ConditionsFail, TypeOK, node, db
  <2> QED
    BY <1>0, <1>6, <2>1, SameSets DEF ConditionsFail, node, db
<1>7. CASE Notify(a)
  <2>1. TypeOK'
    BY <1>0, <1>7 DEF Notify, TypeOK, GoTo, db, bounds, Hears
  <2> QED
    BY <1>0, <1>7, <2>1, SameSets DEF Notify, db
<1>8. CASE NotifyFails(a)
  <2>1. TypeOK'
    BY <1>0, <1>8 DEF NotifyFails, TypeOK, GoTo, node, db
  <2> QED
    BY <1>0, <1>8, <2>1, SameSets DEF NotifyFails, node, db
<1> QED
  BY <1>1, <1>2, <1>3, <1>4, <1>5, <1>6, <1>7, <1>8
     DEF Handler, CreatePolicy, UpdatePolicy, DeletePolicy, CreateWorkspacePolicy,
         UpdateWorkspacePolicy, DeleteWorkspacePolicy

LEMMA DeleteWorkspaceInv ==
    ASSUME Inv, DeleteWorkspace PROVE Inv'
<1>1. TypeOK'
  BY DEF Inv, DeleteWorkspace, TypeOK, node, api
<1>2. UniquePriorities(rows')
  BY RemovalUnique DEF Inv, DeleteWorkspace
<1> QED
  BY <1>1, <1>2, SameSets DEF Inv, DeleteWorkspace, node

LEMMA GatewayInv ==
    ASSUME Inv, NEW n \in Nodes, Gateway(n) PROVE Inv'
<1>0. TypeOK /\ UniquePriorities(rows) /\ ActiveRules \subseteq Rules /\ Untied(ActiveRules)
  BY ActiveTyped, ActiveUntied DEF Inv
<1>y. YamlRules \subseteq Rules /\ Untied(YamlRules)
  BY ConstantsAssumption, YamlAssumption DEF Untied
<1>1. CASE Start(n)
  <2>1. TypeOK'
    BY <1>0, <1>1, <1>y DEF Start, TypeOK, db, api, bounds
  <2> QED
    BY <1>0, <1>1, <1>y, <2>1 DEF Inv, Start, TypeOK, db
<1>2. CASE StartOnYaml(n)
  <2>1. TypeOK'
    BY <1>0, <1>2, <1>y DEF StartOnYaml, TypeOK, db, api
  <2> QED
    BY <1>0, <1>2, <1>y, <2>1 DEF Inv, StartOnYaml, TypeOK, db
<1>3. CASE Listen(n)
  <2>1. TypeOK'
    BY <1>0, <1>3 DEF Listen, TypeOK, db, api, bounds
  <2> QED
    BY <1>0, <1>3, <2>1, SameSets DEF Inv, Listen, db
<1>4. CASE ListenerExits(n)
  <2>1. TypeOK'
    BY <1>0, <1>4 DEF ListenerExits, TypeOK, db, api
  <2> QED
    BY <1>0, <1>4, <2>1, SameSets DEF Inv, ListenerExits, db
<1>5. CASE Query(n)
  <2>1. TypeOK'
    BY <1>0, <1>5 DEF Query, TypeOK, db, api, bounds
  <2> QED
    BY <1>0, <1>5, <2>1 DEF Inv, Query, TypeOK, db
<1>6. CASE Store(n)
  <2>1. TypeOK'
    BY <1>0, <1>6 DEF Store, TypeOK, db, api, bounds
  <2> QED
    BY <1>0, <1>6, <2>1 DEF Inv, Store, TypeOK, db
<1>7. CASE ReloadFails(n)
  <2>1. TypeOK'
    BY <1>0, <1>7 DEF ReloadFails, TypeOK, db, api
  <2> QED
    BY <1>0, <1>7, <2>1, SameSets DEF Inv, ReloadFails, db
<1>8. CASE Stop(n)
  <2>1. TypeOK'
    BY <1>0, <1>8 DEF Stop, TypeOK, db, api
  <2> QED
    BY <1>0, <1>8, <2>1 DEF Inv, Stop, TypeOK, Untied, db
<1> QED
  BY <1>1, <1>2, <1>3, <1>4, <1>5, <1>6, <1>7, <1>8 DEF Gateway

\* Unique priorities of the policies table hold through every handler, and
\* with them no gateway ever holds two rules of the same rank.
THEOREM PolicyInvariance == Spec => []Inv
<1>1. Inv /\ [Next]_vars => Inv'
  <2> SUFFICES ASSUME Inv, [Next]_vars PROVE Inv'
    OBVIOUS
  <2>1. CASE \E a \in Admins : Handler(a)
    BY <2>1, HandlerInv
  <2>2. CASE DeleteWorkspace
    BY <2>2, DeleteWorkspaceInv
  <2>3. CASE \E n \in Nodes : Gateway(n)
    BY <2>3, GatewayInv
  <2>4. CASE UNCHANGED vars
    BY <2>4 DEF Inv, TypeOK, UniquePriorities, vars, db, api, node, bounds
  <2> QED
    BY <2>1, <2>2, <2>3, <2>4 DEF Next
<1> QED
  BY <1>1, InitInv, PTL DEF Spec

\* Every dispatched call has one outcome on every gateway, whatever order
\* the unstable sort leaves equal rules in.
THEOREM DecisionsDeterministic == Spec => []OneOutcome
<1>1. Inv => OneOutcome
  BY UntiedOneOutcome DEF Inv, TypeOK, OneOutcome
<1> QED
  BY <1>1, PolicyInvariance, PTL

\* No workspace policy makes any gateway decide a call more leniently than
\* the organisation's floor, for all rule sets and all priorities.
THEOREM FloorNeverLoosened == Spec => []FloorHolds
<1>1. Inv => FloorHolds
  BY FloorDecides DEF Inv, TypeOK, FloorHolds
<1> QED
  BY <1>1, PolicyInvariance, PTL

-----------------------------------------------------------------------------
(* No change is lost between the tables and the gateways.                  *)

\* A step that leaves the tables and a gateway's memory alone cannot make it
\* stale, as long as it does not discharge the last request that owes a
\* notification, nor take one from the gateway's queue.
LEMMA FreshFrame ==
    ASSUME NEW n \in Nodes, Fresh(n),
           rows' = rows, conds' = conds,
           gw'[n] = gw[n], snap'[n] = snap[n], loaded'[n] = loaded[n],
           notes'[n] = 0 => notes[n] = 0,
           ~missed'[n] => ~missed[n],
           notes'[n] = 0 /\ ~missed'[n] =>
               \A a \in Admins : Owes(a) => \E b \in Admins : Owes(b)'
    PROVE  Fresh(n)'
<1>1. ActiveRules' = ActiveRules
  BY DEF ActiveRules, RuleOf
<1> QED
  BY <1>1 DEF Fresh, InForce

\* A step after which the request still owes a notification cannot make any
\* gateway stale.
LEMMA OwedFresh ==
    ASSUME NEW a \in Admins, Owes(a)' PROVE FreshInv'
BY DEF FreshInv, Fresh

\* Nor can one that every gateway counts as missed.
LEMMA MissedFresh ==
    ASSUME missed' = [n \in Nodes |-> TRUE] PROVE FreshInv'
BY DEF FreshInv, Fresh

LEMMA HandlerFresh ==
    ASSUME TypeOK, FreshInv, NEW a \in Admins, Handler(a) PROVE FreshInv'
<1>1. ASSUME NEW p \in Policies, NEW route \in {"org", "workspace"},
             InsertRow(a, p, route)
      PROVE  FreshInv'
  <2>1. PICK r \in Rows, c \in Conditions :
           rows' = [rows EXCEPT ![p] = r] /\ Ask(a, p, c, route)
    BY <1>1 DEF InsertRow
  <2>2. pc'[a] = "conditions" /\ req'[a].id = p /\ rows'[p] = r
    BY <1>1, <2>1 DEF InsertRow, GoTo, Ask, TypeOK
  <2>3. rows'[p] # NoRow
    BY <2>2, ConstantsAssumption
  <2> QED BY <2>2, <2>3, OwedFresh DEF Owes
<1>2. ASSUME NEW p \in Policies, NEW route \in {"org", "workspace"},
             UpdateRow(a, p, route)
      PROVE  FreshInv'
  <2>1. PICK r \in Rows, c \in Conditions \cup {NoCond} :
           /\ rows' = [rows EXCEPT ![p] = r] /\ Ask(a, p, c, route)
           /\ GoTo(a, IF c = NoCond THEN "notify" ELSE "upsert")
    BY <1>2 DEF UpdateRow
  <2>2. pc'[a] \in {"notify", "upsert"} /\ req'[a].id = p /\ rows'[p] = r
    BY <2>1 DEF GoTo, Ask, TypeOK
  <2>3. rows'[p] # NoRow
    BY <2>2, ConstantsAssumption
  <2> QED BY <2>2, <2>3, OwedFresh DEF Owes
<1>3. ASSUME pc' = [pc EXCEPT ![a] = "notify"] PROVE FreshInv'
  <2>1. pc'[a] = "notify"
    BY <1>3 DEF TypeOK
  <2> QED BY <2>1, OwedFresh DEF Owes
<1>4. CASE WriteConditions(a)
  <2>1. CASE rows[req[a].id] # NoRow
    BY <1>3, <1>4, <2>1 DEF WriteConditions, GoTo
  <2>2. CASE pc[a] = "upsert" /\ req[a].route = "org"
    BY <1>3, <1>4, <2>2 DEF WriteConditions, GoTo
  <2>3. CASE rows[req[a].id] = NoRow /\ ~(pc[a] = "upsert" /\ req[a].route = "org")
    <3>1. ~Owes(a)
      BY <1>4, <2>3 DEF Owes, WriteConditions
    <3>2. /\ rows' = rows /\ conds' = conds /\ req' = req
          /\ gw' = gw /\ snap' = snap /\ loaded' = loaded /\ notes' = notes
          /\ missed' = missed
          /\ \A b \in Admins : b # a => pc'[b] = pc[b]
      BY <1>4, <2>3 DEF WriteConditions, GoTo, TypeOK, node
    <3>3. \A b \in Admins : Owes(b) => Owes(b)'
      BY <3>1, <3>2 DEF Owes
    <3>4. ASSUME NEW n \in Nodes PROVE Fresh(n)'
      BY <3>2, <3>3, FreshFrame DEF FreshInv
    <3> QED BY <3>4 DEF FreshInv
  <2> QED BY <2>1, <2>2, <2>3
<1>5. CASE ConditionsFail(a)
  <2>1. CASE pc[a] = "upsert" /\ req[a].route = "org"
    BY <1>3, <1>5, <2>1 DEF ConditionsFail, GoTo
  <2>2. CASE ~(pc[a] = "upsert" /\ req[a].route = "org")
    BY <1>5, <2>2, MissedFresh DEF ConditionsFail
  <2> QED BY <2>1, <2>2
<1>6. CASE Notify(a)
  <2>1. ASSUME NEW n \in Nodes PROVE notes'[n] # 0 \/ missed'[n]
    <3>1. CASE Hears(n)
      BY <1>6, <3>1 DEF Notify, TypeOK
    <3>2. CASE ~Hears(n)
      BY <1>6, <3>2 DEF Notify
    <3> QED BY <3>1, <3>2
  <2> QED BY <2>1 DEF FreshInv, Fresh
<1>7. CASE NotifyFails(a)
  BY <1>7, MissedFresh DEF NotifyFails
<1>8. CASE CreatePolicy(a) \/ CreateWorkspacePolicy(a)
  BY <1>1, <1>8 DEF CreatePolicy, CreateWorkspacePolicy
<1>9. CASE UpdatePolicy(a) \/ UpdateWorkspacePolicy(a)
  BY <1>2, <1>9 DEF UpdatePolicy, UpdateWorkspacePolicy
<1>10. CASE DeletePolicy(a) \/ DeleteWorkspacePolicy(a) \/ ReorderPolicies(a)
  BY <1>3, <1>10 DEF DeletePolicy, DeleteWorkspacePolicy, ReorderPolicies, DeleteRow, GoTo
<1> QED
  BY <1>4, <1>5, <1>6, <1>7, <1>8, <1>9, <1>10 DEF Handler

LEMMA GatewayFresh ==
    ASSUME TypeOK, FreshInv, NEW n \in Nodes, Gateway(n) PROVE FreshInv'
<1>1. /\ rows' = rows /\ conds' = conds /\ pc' = pc /\ req' = req
      /\ ActiveRules' = ActiveRules
  <2>1. rows' = rows /\ conds' = conds /\ pc' = pc /\ req' = req
    BY DEF Gateway, Start, StartOnYaml, Listen, ListenerExits, Query, Store, ReloadFails,
           Stop, db, api
  <2> QED BY <2>1 DEF ActiveRules, RuleOf
<1>2. \A a \in Admins : Owes(a)' <=> Owes(a)
  BY <1>1 DEF Owes
<1>3. ASSUME NEW m \in Nodes, m # n PROVE Fresh(m)'
  <2>1. /\ gw'[m] = gw[m] /\ snap'[m] = snap[m] /\ loaded'[m] = loaded[m]
        /\ notes'[m] = notes[m] /\ missed'[m] = missed[m]
    BY <1>3 DEF Gateway, Start, StartOnYaml, Listen, ListenerExits, Query, Store,
                ReloadFails, Stop, TypeOK
  <2> QED BY <1>1, <1>2, <2>1, FreshFrame DEF FreshInv
<1>4. Fresh(n)
  BY DEF FreshInv
<1> SUFFICES Fresh(n)'
  BY <1>3 DEF FreshInv
<1>5. CASE Start(n)
  <2>1. /\ loaded'[n] = (IF ActiveRules = {} THEN YamlRules ELSE ActiveRules)
        /\ gw'[n] = "loaded"
    BY <1>5 DEF Start, TypeOK
  <2>2. InForce(n)'
    BY <1>1, <2>1 DEF InForce
  <2> QED BY <2>1, <2>2 DEF Fresh
<1>6. CASE StartOnYaml(n) \/ ReloadFails(n)
  <2>1. missed'[n]
    BY <1>6 DEF StartOnYaml, ReloadFails, TypeOK
  <2> QED BY <2>1 DEF Fresh
<1>7. CASE Listen(n)
  <2>1. /\ gw[n] = "loaded" /\ gw'[n] = "listening" /\ loaded'[n] = loaded[n]
        /\ notes'[n] = notes[n] /\ missed'[n] = missed[n]
    BY <1>7 DEF Listen, TypeOK
  <2> QED BY <1>1, <1>2, <1>4, <2>1 DEF Fresh, InForce
<1>8. CASE ListenerExits(n) \/ Stop(n)
  <2>1. gw'[n] \in {"deaf", "down"}
    BY <1>8 DEF ListenerExits, Stop, TypeOK
  <2> QED BY <2>1 DEF Fresh
<1>9. CASE Query(n)
  <2>1. gw'[n] = "loading" /\ snap'[n] = ActiveRules
    BY <1>9 DEF Query, TypeOK
  <2> QED BY <1>1, <2>1 DEF Fresh
<1>10. CASE Store(n)
  <2>1. /\ gw[n] = "loading" /\ gw'[n] = "listening" /\ loaded'[n] = snap[n]
        /\ notes'[n] = notes[n] /\ missed'[n] = missed[n]
    BY <1>10 DEF Store, TypeOK
  <2> QED BY <1>1, <1>2, <1>4, <2>1 DEF Fresh, InForce
<1> QED BY <1>5, <1>6, <1>7, <1>8, <1>9, <1>10 DEF Gateway

\* A gateway that listens and has nothing waiting decides by the policies in
\* the database once the requests are done: no change is lost between the
\* tables, the notifications and a reload that is under way when it is made.
THEOREM NoChangeIsLost == Spec => []UpToDate
<1>1. Init => FreshInv
  BY DEF Init, FreshInv, Fresh
<1>2. Inv /\ FreshInv /\ [Next]_vars => FreshInv'
  <2> SUFFICES ASSUME TypeOK, FreshInv, [Next]_vars PROVE FreshInv'
    BY DEF Inv
  <2>1. CASE \E a \in Admins : Handler(a)
    BY <2>1, HandlerFresh
  <2>2. CASE DeleteWorkspace
    BY <2>2, MissedFresh DEF DeleteWorkspace
  <2>3. CASE \E n \in Nodes : Gateway(n)
    BY <2>3, GatewayFresh
  <2>4. CASE UNCHANGED vars
    <3>1. ASSUME NEW n \in Nodes PROVE Fresh(n)'
      BY <2>4, FreshFrame DEF FreshInv, vars, db, api, node, Owes
    <3> QED BY <3>1 DEF FreshInv
  <2> QED BY <2>1, <2>2, <2>3, <2>4 DEF Next
<1>3. FreshInv => UpToDate
  BY DEF FreshInv, Fresh, UpToDate, Owes
<1> QED
  BY <1>1, <1>2, <1>3, PolicyInvariance, PTL DEF Spec

=============================================================================
