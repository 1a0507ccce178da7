----------------------------- MODULE GateProofs -----------------------------
(***************************************************************************)
(* Proofs about the gates that every call passes: the licensed usage limit *)
(* (UsageGate), for any number of dispatches, any limit and margin, with   *)
(* or without failing statements, and the liveness of its token, key and   *)
(* agent (AgentAccess), for any number of nodes, agents and tokens.        *)
(***************************************************************************)
EXTENDS UsageGate, AgentAccess, TLAPS

-----------------------------------------------------------------------------
(* The usage limit (UsageGate): the near-limit reservation is exclusive.   *)

USE UsageAssumption

LEMMA CostsAreNat == \A k \in Costs \cup {0} : k \in Nat
<1>1. Costs \subseteq Nat
  BY Zenon
<1> QED BY <1>1

LEMMA InitInv == Init => Inv
  BY DEF Init, Inv, TypeOK, LockInv, OneReservation, Pcs, Reserving, Executing

\* Every step keeps the types.
LEMMA TypeStep == Inv /\ [Next]_vars => TypeOK'
<1> SUFFICES ASSUME Inv, [Next]_vars PROVE TypeOK'
    OBVIOUS
<1> USE DEF Inv, TypeOK, Goto, Pcs, Reserving, Executing, Over
<1>1. ASSUME NEW c \in Calls, Admit(c) \/ ReserveFails(c) PROVE TypeOK'
  BY <1>1 DEF Admit, WithinUsageLimit, LockAndSum, CountInflight, InsertReservation, ReserveFails
<1>2. ASSUME NEW c \in Calls, Execute(c) PROVE TypeOK'
  <2>1. CASE Hold(c)
    BY <2>1 DEF Hold, Release
  <2>2. CASE CallFails(c) \/ PostUsage(c)
    BY <2>2 DEF CallFails, PostUsage
  <2>3. CASE ReturnReleases(c)
    BY <2>3 DEF ReturnReleases, Release
  <2>4. ASSUME NEW k \in Costs, Answer(c, k) PROVE TypeOK'
    BY <2>4 DEF Answer
  <2> QED BY <1>2, <2>1, <2>2, <2>3, <2>4 DEF Execute
<1>3. ASSUME NEW c \in Calls, HoldDenied(c) \/ Resume(c) \/ Die(c) PROVE TypeOK'
  BY <1>3 DEF HoldDenied, Resume, Die
<1>4. ASSUME NEW c \in Calls, UsageLands(c) \/ UsageLost(c) \/ Expire(c) PROVE TypeOK'
  <2>1. CASE UsageLands(c)
    <3>0. cost[c] \in Costs \cup {0}
      OBVIOUS
    <3>1. cost[c] \in Nat
      BY <3>0, CostsAreNat
    <3>2. used' \in Nat
      BY <2>1, <3>1 DEF UsageLands
    <3> QED BY <2>1, <3>2 DEF UsageLands
  <2>2. CASE UsageLost(c) \/ Expire(c)
    BY <2>2 DEF UsageLost, Expire
  <2> QED BY <1>4, <2>1, <2>2
<1>5. CASE NewMonth
  BY <1>5 DEF NewMonth
<1>6. CASE UNCHANGED vars
  BY <1>6 DEF vars
<1> QED BY <1>1, <1>2, <1>3, <1>4, <1>5, <1>6 DEF Next

\* Every step keeps the exclusion: only the holder of the lock inserts, and it
\* found no row since it took the lock.
LEMMA LockStep == Inv /\ [Next]_vars => LockInv' /\ OneReservation'
<1> SUFFICES ASSUME Inv, [Next]_vars PROVE LockInv' /\ OneReservation'
    OBVIOUS
<1> USE DEF Inv, TypeOK, LockInv, OneReservation, Goto, Pcs, Reserving, Executing, Over
<1>1. ASSUME NEW c \in Calls, Admit(c) \/ ReserveFails(c) PROVE LockInv' /\ OneReservation'
  <2>1. CASE WithinUsageLimit(c)
    BY <2>1 DEF WithinUsageLimit
  <2>2. CASE LockAndSum(c)
    BY <2>2 DEF LockAndSum
  <2>3. CASE CountInflight(c)
    BY <2>3 DEF CountInflight
  <2>4. CASE InsertReservation(c)
    BY <2>4 DEF InsertReservation
  <2>5. CASE ReserveFails(c)
    BY <2>5 DEF ReserveFails
  <2> QED BY <1>1, <2>1, <2>2, <2>3, <2>4, <2>5 DEF Admit
<1>2. ASSUME NEW c \in Calls, Execute(c) PROVE LockInv' /\ OneReservation'
  <2>1. CASE Hold(c)
    BY <2>1 DEF Hold, Release
  <2>2. CASE CallFails(c)
    BY <2>2 DEF CallFails
  <2>3. CASE PostUsage(c)
    BY <2>3 DEF PostUsage
  <2>4. CASE ReturnReleases(c)
    BY <2>4 DEF ReturnReleases, Release
  <2>5. ASSUME NEW k \in Costs, Answer(c, k) PROVE LockInv' /\ OneReservation'
    BY <2>5 DEF Answer
  <2> QED BY <1>2, <2>1, <2>2, <2>3, <2>4, <2>5 DEF Execute
<1>3. ASSUME NEW c \in Calls, HoldDenied(c) \/ Resume(c) PROVE LockInv' /\ OneReservation'
  BY <1>3 DEF HoldDenied, Resume
<1>4. ASSUME NEW c \in Calls, Die(c) PROVE LockInv' /\ OneReservation'
  BY <1>4 DEF Die
<1>5. ASSUME NEW c \in Calls, UsageLands(c) \/ UsageLost(c) PROVE LockInv' /\ OneReservation'
  BY <1>5 DEF UsageLands, UsageLost
<1>6. ASSUME NEW c \in Calls, Expire(c) PROVE LockInv' /\ OneReservation'
  BY <1>6 DEF Expire
<1>7. CASE NewMonth
  BY <1>7 DEF NewMonth
<1>8. CASE UNCHANGED vars
  BY <1>8 DEF vars
<1> QED BY <1>1, <1>2, <1>3, <1>4, <1>5, <1>6, <1>7, <1>8 DEF Next

\* Inv holds in every state of every instance: the lock, the row and the
\* progress of ReserveIfNearLimit fit together.
THEOREM UsageInvariance == Spec => []Inv
<1>1. Inv /\ [Next]_vars => Inv'
  BY TypeStep, LockStep DEF Inv
<1> QED BY InitInv, <1>1, PTL DEF Spec

\* ReserveIfNearLimit never leaves two unexpired reservations.
THEOREM ReservationExclusive == Spec => []OneReservation
<1>1. Inv => OneReservation
  BY DEF Inv
<1> QED BY UsageInvariance, <1>1, PTL

\* With a TTL longer than a dispatch, at most one call admitted near the limit
\* executes at a time.
THEOREM NearCapExclusive == Spec => []OneNearCap
<1>1. Inv => OneNearCap
  BY DEF Inv, TypeOK, LockInv, OneReservation, OneNearCap
<1> QED BY UsageInvariance, <1>1, PTL

\* A call that has not passed the check of its usage since the limit was
\* reached: checked and refused, waiting, or over.
KeptOut(c) == pc[c] \in {"check", "held"} \cup Over

LEMMA ExhaustedStep ==
    ASSUME NEW c \in Calls, Inv, [Next]_vars, used >= Limit, KeptOut(c)
    PROVE  KeptOut(c)'
<1> USE DEF Inv, TypeOK, KeptOut, Goto, Pcs, Reserving, Executing, Over
<1>1. ASSUME NEW d \in Calls, Admit(d) PROVE KeptOut(c)'
  BY <1>1 DEF Admit, WithinUsageLimit, LockAndSum, CountInflight, InsertReservation
<1>2. ASSUME NEW d \in Calls, ReserveFails(d) PROVE KeptOut(c)'
  BY <1>2 DEF ReserveFails
<1>3. ASSUME NEW d \in Calls, Execute(d) PROVE KeptOut(c)'
  BY <1>3 DEF Execute, Hold, CallFails, PostUsage, ReturnReleases, Answer
<1>4. ASSUME NEW d \in Calls, HoldDenied(d) \/ Resume(d) \/ Die(d) PROVE KeptOut(c)'
  BY <1>4 DEF HoldDenied, Resume, Die
<1>5. ASSUME NEW d \in Calls, UsageLands(d) \/ UsageLost(d) \/ Expire(d) PROVE KeptOut(c)'
  BY <1>5 DEF UsageLands, UsageLost, Expire
<1>6. CASE NewMonth \/ UNCHANGED vars
  BY <1>6 DEF NewMonth, vars
<1> QED BY <1>1, <1>2, <1>3, <1>4, <1>5, <1>6 DEF Next

\* Once the counted usage has reached the limit, and while it stays there, no
\* call still to be checked is executed, not even one that a person approves
\* meanwhile: WithinUsageLimit is asked again after the hold (dispatchApproved).
THEOREM ExhaustedIsRefused == Spec => ExhaustedStaysRefused
<1> SUFFICES ASSUME NEW c \in Calls
             PROVE  Spec => [](pc[c] \in {"check", "held"} /\ [](used >= Limit) => [](pc[c] # "run"))
  BY DEF ExhaustedStaysRefused
<1>1. pc[c] \in {"check", "held"} => KeptOut(c)
  BY DEF KeptOut
<1>2. Inv /\ [Next]_vars /\ used >= Limit /\ KeptOut(c) => KeptOut(c)'
  BY ExhaustedStep
<1>3. KeptOut(c) => pc[c] # "run"
  BY DEF KeptOut, Over
<1> QED BY <1>1, <1>2, <1>3, UsageInvariance, PTL DEF Spec

-----------------------------------------------------------------------------
(* Agents, their tokens and their sessions (AgentAccess).                  *)

LEMMA NotificationFacts ==
    /\ \A r \in Rows : [channel |-> "agent_status", agent |-> r] \in Notification
    /\ \A t \in Tokens : [channel |-> "token_revoked", token |-> t] \in Notification
  BY DEF Notification

LEMMA NotifiedTyped ==
    ASSUME AccessTypeOK, NEW ms \in SUBSET Notification
    PROVE  Notified(ms) \in [Nodes -> SUBSET Notification]
  BY DEF AccessTypeOK, Notified

LEMMA StatusNotified ==
    ASSUME AccessTypeOK, NEW r \in Rows, NEW told \in BOOLEAN, NotifyAgentStatus(r, told)
    PROVE  inbox' \in [Nodes -> SUBSET Notification] /\ faults' \in 0..MaxFaults
<1>1. {[channel |-> "agent_status", agent |-> r]} \in SUBSET Notification
  BY NotificationFacts
<1>2. Notified({[channel |-> "agent_status", agent |-> r]}) \in [Nodes -> SUBSET Notification]
  BY <1>1, NotifiedTyped
<1>3. CASE inbox' = Notified({[channel |-> "agent_status", agent |-> r]}) /\ UNCHANGED faults
  BY <1>2, <1>3 DEF AccessTypeOK
<1>4. CASE Fault /\ UNCHANGED inbox
  BY <1>4, AccessAssumption DEF Fault, AccessTypeOK
<1> QED BY <1>3, <1>4, Zenon DEF NotifyAgentStatus

\* What a node holds is of the agents its tokens were issued for, and what was
\* acknowledged is in force, whatever the step leaves of the sessions.
LEMMA NodeFrame ==
    ASSUME AccessInv, UNCHANGED <<status, revokedDB, claims, acked>>,
           \A n \in Nodes : opening'[n] \cup sessions'[n] \cup calls'[n]
                                \subseteq opening[n] \cup sessions[n] \cup calls[n]
    PROVE  BoundInv' /\ AckedInv'
<1>1. BoundInv'
  BY DEF AccessInv, BoundInv
<1>2. AckedInv'
  BY DEF AccessInv, AckedInv
<1> QED BY <1>1, <1>2

\* A row that is written is not a deleted one: a deleted row stays so.
LEMMA TableFrame ==
    ASSUME AccessInv, UNCHANGED <<claims, acked, opening, sessions, calls>>,
           \A r \in Rows : status[r] = "deleted" => status'[r] = "deleted",
           \A t \in Tokens : revokedDB[t] # Nil =>
               revokedDB'[t] = revokedDB[t] \/ status'[revokedDB[t]] = "deleted"
    PROVE  BoundInv' /\ AckedInv'
<1>1. BoundInv'
  BY DEF AccessInv, BoundInv
<1>2. AckedInv'
  <2> SUFFICES ASSUME NEW t \in acked
               PROVE  claims[t] # Nil /\ (revokedDB'[t] = claims[t].agent \/ status'[claims[t].agent] = "deleted")
    BY DEF AckedInv
  <2>1. claims[t] # Nil /\ (revokedDB[t] = claims[t].agent \/ status[claims[t].agent] = "deleted")
    BY DEF AccessInv, AckedInv
  <2>2. t \in Tokens /\ claims[t].agent \in Rows
    BY <2>1 DEF AccessInv, AccessTypeOK, Claims
  <2>3. CASE revokedDB[t] = claims[t].agent
    BY <2>1, <2>2, <2>3, AccessAssumption
  <2>4. CASE status[claims[t].agent] = "deleted"
    BY <2>1, <2>2, <2>4
  <2> QED BY <2>1, <2>3, <2>4
<1> QED BY <1>1, <1>2

LEMMA AccessStart == AccessInit => AccessInv
<1> SUFFICES ASSUME AccessInit PROVE AccessInv
  OBVIOUS
<1>1. up \in [Nodes -> BOOLEAN] /\ listening \in [Nodes -> BOOLEAN]
  BY Zenon DEF AccessInit
<1>2. AccessTypeOK
  BY <1>1, AccessAssumption DEF AccessInit, AccessTypeOK, Statuses
<1>3. BoundInv /\ AckedInv /\ MintedInv
  BY DEF AccessInit, BoundInv, AckedInv, MintedInv
<1> QED BY <1>2, <1>3 DEF AccessInv

-----------------------------------------------------------------------------

LEMMA MintedStep ==
    ASSUME AccessInv, AccessNext PROVE MintedInv'
<1> USE DEF AccessInv, MintedInv
<1>1. CASE NextAPI
  BY <1>1 DEF NextAPI, CreateAgent, UpdateAgent, BeginUpdate, FinishUpdate, DeleteAgent, CreateAPIKey,
              RevokeAPIKey, db, node
<1>2. CASE NextIssue
  BY <1>2 DEF NextIssue, HandleIssue, Issue, RecordIssued, db, AccessTypeOK
<1>3. ASSUME NEW n \in Nodes, NextNode(n) PROVE MintedInv'
  BY <1>3 DEF NextNode, Start, Crash, ServeSSE, HandleRevoke, CreateSession, EndSession, ServeMessages,
              RunCall, RefuseCall, ServeToolsList, CatchUp, ListenLoop, ListenerError, Handle, db
<1> QED BY <1>1, <1>2, <1>3 DEF AccessNext

LEMMA ApiStep ==
    ASSUME AccessInv, NextAPI PROVE AccessInv'
<1> USE DEF AccessInv
<1>0. MintedInv'
  BY MintedStep DEF AccessNext
<1>1. ASSUME NEW r \in Rows, CreateAgent(r) PROVE AccessInv'
  <2>1. AccessTypeOK'
    BY <1>1, AccessAssumption DEF AccessTypeOK, CreateAgent, node, Statuses
  <2>2. BoundInv' /\ AckedInv'
    BY <1>1, TableFrame DEF CreateAgent, node, AccessTypeOK
  <2> QED BY <1>0, <2>1, <2>2
<1>2. ASSUME NEW r \in Rows, NEW st \in Statuses, NEW told \in BOOLEAN, UpdateAgent(r, st, told)
      PROVE  AccessInv'
  <2>0. inbox' \in [Nodes -> SUBSET Notification] /\ faults' \in 0..MaxFaults
    BY <1>2, StatusNotified DEF UpdateAgent
  <2>1. AccessTypeOK'
    BY <1>2, <2>0, AccessAssumption DEF AccessTypeOK, UpdateAgent, Administer
  <2>2. BoundInv' /\ AckedInv'
    BY <1>2, TableFrame DEF UpdateAgent, AccessTypeOK, Exists, Statuses
  <2> QED BY <1>0, <2>1, <2>2
<1>3. ASSUME NEW r \in Rows, NEW st \in Statuses, BeginUpdate(r, st) PROVE AccessInv'
  <2>1. edit' \in [row : Rows, status : {"suspended"}]
    BY <1>3 DEF BeginUpdate, AgentAdminOnlyChange, Statuses
  <2>2. AccessTypeOK'
    BY <1>3, <2>1, AccessAssumption DEF AccessTypeOK, BeginUpdate, Administer, db, node
  <2>3. BoundInv' /\ AckedInv'
    BY <1>3, TableFrame DEF BeginUpdate, db, node
  <2> QED BY <1>0, <2>2, <2>3
<1>4. ASSUME NEW told \in BOOLEAN, FinishUpdate(told) PROVE AccessInv'
  <2>1. edit \in [row : Rows, status : {"suspended"}]
    BY <1>4 DEF FinishUpdate, AccessTypeOK
  <2>2. inbox' \in [Nodes -> SUBSET Notification] /\ faults' \in 0..MaxFaults
    <3>1. CASE Exists(edit.row)
      <4>1. edit.row \in Rows /\ NotifyAgentStatus(edit.row, told)
        BY <1>4, <2>1, <3>1 DEF FinishUpdate
      <4> QED BY <4>1, StatusNotified
    <3>2. CASE ~Exists(edit.row)
      BY <1>4, <3>2 DEF FinishUpdate, AccessTypeOK
    <3> QED BY <3>1, <3>2
  <2>3. /\ status' \in [Rows -> Statuses \cup {"absent", "deleted"}]
        /\ \A r \in Rows : status[r] = "deleted" => status'[r] = "deleted"
    BY <1>4, <2>1 DEF FinishUpdate, AccessTypeOK, Statuses, Exists
  <2>4. AccessTypeOK'
    BY <1>4, <2>2, <2>3, AccessAssumption DEF AccessTypeOK, FinishUpdate
  <2>5. BoundInv' /\ AckedInv'
    BY <1>4, <2>3, TableFrame DEF FinishUpdate
  <2> QED BY <1>0, <2>4, <2>5
<1>5. ASSUME NEW r \in Rows, NEW told \in BOOLEAN, DeleteAgent(r, told) PROVE AccessInv'
  <2>0. inbox' \in [Nodes -> SUBSET Notification] /\ faults' \in 0..MaxFaults
    BY <1>5, StatusNotified DEF DeleteAgent
  <2>1. AccessTypeOK'
    BY <1>5, <2>0, AccessAssumption DEF AccessTypeOK, DeleteAgent, Administer
  <2>2. BoundInv' /\ AckedInv'
    BY <1>5, TableFrame DEF DeleteAgent, AccessTypeOK
  <2> QED BY <1>0, <2>1, <2>2
<1>6. ASSUME NEW k \in Keys, NEW r \in Rows, CreateAPIKey(k, r) PROVE AccessInv'
  <2>1. AccessTypeOK'
    BY <1>6, AccessAssumption DEF AccessTypeOK, CreateAPIKey, node
  <2>2. BoundInv' /\ AckedInv'
    BY <1>6, TableFrame DEF CreateAPIKey, node
  <2> QED BY <1>0, <2>1, <2>2
<1>7. ASSUME NEW k \in Keys, RevokeAPIKey(k) PROVE AccessInv'
  <2> DEFINE live == {t \in issued : claims[t].key = k /\ Exists(claims[t].agent) /\ revokedDB[t] = Nil}
  <2>1. /\ key' = [key EXCEPT ![k].state = "revoked"]
        /\ revokedDB' = [t \in Tokens |-> IF t \in live THEN claims[t].agent ELSE revokedDB[t]]
        /\ inbox' = Notified({[channel |-> "token_revoked", token |-> t] : t \in live})
    BY <1>7 DEF RevokeAPIKey, RevokeAPIKeyAndTokens
  <2>2. \A t \in live : t \in Tokens /\ revokedDB[t] = Nil /\ claims[t].agent \in Rows
    BY DEF AccessTypeOK, Claims, MintedInv
  <2>3. inbox' \in [Nodes -> SUBSET Notification]
    <3>1. {[channel |-> "token_revoked", token |-> t] : t \in live} \in SUBSET Notification
      BY <2>2, NotificationFacts
    <3> QED BY <2>1, <3>1, NotifiedTyped
  <2>4. key' \in [Keys -> [state : {"none", "valid", "revoked"}, agent : Rows \cup {Nil}]]
    BY <2>1 DEF AccessTypeOK
  <2>5. /\ revokedDB' \in [Tokens -> Rows \cup {Nil}]
        /\ \A t \in Tokens : revokedDB[t] # Nil => revokedDB'[t] = revokedDB[t]
    BY <2>1, <2>2 DEF AccessTypeOK
  <2>6. AccessTypeOK'
    BY <1>7, <2>3, <2>4, <2>5, AccessAssumption DEF AccessTypeOK, RevokeAPIKey, Administer
  <2>7. BoundInv' /\ AckedInv'
    BY <1>7, <2>5, TableFrame DEF RevokeAPIKey
  <2> QED BY <1>0, <2>6, <2>7
<1> QED BY <1>1, <1>2, <1>3, <1>4, <1>5, <1>6, <1>7 DEF NextAPI

LEMMA IssueStep ==
    ASSUME AccessInv, NextIssue PROVE AccessInv'
<1> USE DEF AccessInv
<1>0. MintedInv'
  BY MintedStep DEF AccessNext
<1>1. ASSUME NEW k \in Keys, NEW r \in Rows, HandleIssue(k, r) PROVE AccessInv'
  <2>1. AccessTypeOK'
    BY <1>1, AccessAssumption DEF AccessTypeOK, HandleIssue, db, Claims
  <2>2. BoundInv' /\ AckedInv'
    BY <1>1, TableFrame DEF HandleIssue, db
  <2> QED BY <1>0, <2>1, <2>2
<1>2. ASSUME NEW t \in Tokens, Issue(t) PROVE AccessInv'
  <2>1. AccessTypeOK'
    BY <1>2, AccessAssumption DEF AccessTypeOK, Issue, db
  <2>2. BoundInv'
    BY <1>2 DEF Issue, BoundInv, AccessTypeOK
  <2>3. AckedInv'
    BY <1>2 DEF Issue, AckedInv, AccessTypeOK, db
  <2> QED BY <1>0, <2>1, <2>2, <2>3
<1>3. ASSUME NEW t \in Tokens, NEW ok \in BOOLEAN, RecordIssued(t, ok) PROVE AccessInv'
  <2>1. AccessTypeOK'
    BY <1>3, AccessAssumption DEF AccessTypeOK, RecordIssued, Fault
  <2>2. BoundInv' /\ AckedInv'
    BY <1>3, TableFrame DEF RecordIssued
  <2> QED BY <1>0, <2>1, <2>2
<1> QED BY <1>1, <1>2, <1>3 DEF NextIssue

LEMMA NodeStep ==
    ASSUME AccessInv, NEW n \in Nodes, NextNode(n) PROVE AccessInv'
<1> USE DEF AccessInv
<1>0. MintedInv'
  BY MintedStep DEF AccessNext
<1>1. CASE Start(n)
  <2>1. up' \in [Nodes -> BOOLEAN]
    BY <1>1, Zenon DEF Start, AccessTypeOK
  <2>2. AccessTypeOK'
    BY <1>1, <2>1, AccessAssumption DEF AccessTypeOK, Start, db, LoadAll
  <2>3. BoundInv' /\ AckedInv'
    BY <1>1, NodeFrame DEF Start, db
  <2> QED BY <1>0, <2>2, <2>3
<1>2. CASE Crash(n)
  <2>1. up' \in [Nodes -> BOOLEAN] /\ listening' \in [Nodes -> BOOLEAN]
    BY <1>2, Zenon DEF Crash, AccessTypeOK
  <2>2. AccessTypeOK'
    BY <1>2, <2>1, AccessAssumption DEF AccessTypeOK, Crash, db, Fault
  <2>3. BoundInv' /\ AckedInv'
    BY <1>2, NodeFrame DEF Crash, db, AccessTypeOK
  <2> QED BY <1>0, <2>2, <2>3
<1>3. ASSUME NEW t \in Tokens, ServeSSE(n, t) PROVE AccessInv'
  <2>1. PICK s \in Session : /\ s.token = t /\ claims[t] # Nil /\ claims[t].agent = s.agent
                             /\ opening' = [opening EXCEPT ![n] = @ \cup {s}]
    <3>1. PICK r \in Rows : /\ claims[t] # Nil /\ claims[t].agent = r
                            /\ opening' = [opening EXCEPT ![n] = @ \cup {[token |-> t, agent |-> r]}]
      BY <1>3 DEF ServeSSE, BoundTo, Validate, LookupByNameAndOrg
    <3> QED BY <3>1 DEF Session
  <2>2. AccessTypeOK'
    BY <1>3, <2>1, AccessAssumption DEF AccessTypeOK, ServeSSE, db
  <2>3. BoundInv'
    BY <1>3, <2>1 DEF ServeSSE, BoundInv, AccessTypeOK
  <2>4. AckedInv'
    BY <1>3 DEF ServeSSE, AckedInv, db
  <2> QED BY <1>0, <2>2, <2>3, <2>4
<1>4. ASSUME NEW t \in Tokens, NEW r \in Rows, NEW ok \in BOOLEAN, HandleRevoke(n, t, r, ok)
      PROVE  AccessInv'
  <2>1. /\ inbox' \in [Nodes -> SUBSET Notification] /\ faults' \in 0..MaxFaults
        /\ revokedDB' \in [Tokens -> Rows \cup {Nil}]
        /\ \A u \in Tokens : revokedDB[u] # Nil => revokedDB'[u] = revokedDB[u]
    <3>1. {[channel |-> "token_revoked", token |-> t]} \in SUBSET Notification
      BY NotificationFacts
    <3>2. Notified({[channel |-> "token_revoked", token |-> t]}) \in [Nodes -> SUBSET Notification]
      BY <3>1, NotifiedTyped
    <3>3. CASE Save(t, r) /\ UNCHANGED faults
      BY <3>2, <3>3 DEF Save, AccessTypeOK
    <3>4. CASE Fault /\ UNCHANGED <<revokedDB, inbox>>
      BY <3>4, AccessAssumption DEF Fault, AccessTypeOK
    <3> QED BY <1>4, <3>3, <3>4, Zenon DEF HandleRevoke, Revoke
  <2>2. acked' \subseteq Tokens /\ \A u \in acked' : u \in acked \/ (u = t /\ revokedDB'[t] = claims[t].agent)
    BY <1>4 DEF HandleRevoke, AccessTypeOK
  <2>3. AccessTypeOK'
    <3>1. /\ revoked' = [revoked EXCEPT ![n] = @ \cup {t}] /\ admin < MaxAdmin /\ admin' = admin + 1
          /\ UNCHANGED <<status, key, issued, claims, edit>>
          /\ UNCHANGED <<up, listening, issuing, recording, opening, sessions, calls>>
      BY <1>4, Zenon DEF HandleRevoke, Revoke, Administer
    <3> QED BY <2>1, <2>2, <3>1, AccessAssumption DEF AccessTypeOK
  <2>4. BoundInv'
    BY <1>4 DEF HandleRevoke, BoundInv
  <2>5. AckedInv'
    <3> SUFFICES ASSUME NEW u \in acked'
                 PROVE  claims[u] # Nil /\ (revokedDB'[u] = claims[u].agent \/ status[claims[u].agent] = "deleted")
      BY <1>4 DEF AckedInv, HandleRevoke
    <3>1. CASE u = t /\ revokedDB'[t] = claims[t].agent
      BY <1>4, <3>1 DEF HandleRevoke
    <3>2. CASE u \in acked
      BY <2>1, <3>2, AccessAssumption DEF AckedInv, AccessTypeOK, Claims
    <3> QED BY <2>2, <3>1, <3>2
  <2> QED BY <1>0, <2>3, <2>4, <2>5
<1>5. ASSUME NEW s \in Session, CreateSession(n, s) \/ EndSession(n, s) \/ ServeMessages(n, s)
                                \/ RunCall(n, s) \/ RefuseCall(n, s) \/ ServeToolsList(n, s)
      PROVE  AccessInv'
  <2>1. AccessTypeOK'
    BY <1>5, AccessAssumption DEF AccessTypeOK, CreateSession, EndSession, ServeMessages, RunCall, RefuseCall,
                ServeToolsList, NotLiveReason, Close, Fault, db
  <2>2. BoundInv' /\ AckedInv'
    BY <1>5, NodeFrame DEF AccessTypeOK, CreateSession, EndSession, ServeMessages, RunCall, RefuseCall,
                ServeToolsList, Close, db
  <2> QED BY <1>0, <2>1, <2>2
<1>6. CASE CatchUp(n)
  <2>1. AccessTypeOK'
    BY <1>6, AccessAssumption DEF AccessTypeOK, CatchUp, ReloadRevoked, RecheckSessions, LoadAll, db
  <2>2. BoundInv' /\ AckedInv'
    BY <1>6, NodeFrame DEF AccessTypeOK, CatchUp, RecheckSessions, db
  <2> QED BY <1>0, <2>1, <2>2
<1>7. CASE ListenLoop(n)
  <2>0. listening' \in [Nodes -> BOOLEAN]
    BY <1>7, Zenon DEF ListenLoop, AccessTypeOK
  <2>1. AccessTypeOK'
    BY <1>7, <2>0, AccessAssumption DEF AccessTypeOK, ListenLoop, ReloadRevoked, RecheckSessions, LoadAll, db
  <2>2. BoundInv' /\ AckedInv'
    BY <1>7, NodeFrame DEF AccessTypeOK, ListenLoop, RecheckSessions, db
  <2> QED BY <1>0, <2>1, <2>2
<1>8. CASE ListenerError(n)
  <2>0. listening' \in [Nodes -> BOOLEAN]
    BY <1>8, Zenon DEF ListenerError, AccessTypeOK
  <2>1. AccessTypeOK'
    BY <1>8, <2>0, AccessAssumption DEF AccessTypeOK, ListenerError, Fault, db
  <2>2. BoundInv' /\ AckedInv'
    BY <1>8, NodeFrame DEF ListenerError, db
  <2> QED BY <1>0, <2>1, <2>2
<1>9. ASSUME NEW m \in inbox[n], Handle(n, m) PROVE AccessInv'
  <2>1. inbox' \in [Nodes -> SUBSET Notification]
    BY <1>9 DEF Handle, AccessTypeOK
  <2>2. revoked' \in [Nodes -> SUBSET Tokens] /\ sessions' \in [Nodes -> SUBSET Session]
    <3>1. m.channel = "token_revoked" => m.token \in Tokens
      BY DEF AccessTypeOK, Notification
    <3> QED BY <1>9, <3>1 DEF Handle, Close, AccessTypeOK
  <2>3. AccessTypeOK'
    BY <1>9, <2>1, <2>2, AccessAssumption DEF Handle, AccessTypeOK, db
  <2>4. \A k \in Nodes : sessions'[k] \subseteq sessions[k]
    BY <1>9 DEF Handle, Close, AccessTypeOK
  <2>5. BoundInv' /\ AckedInv'
    BY <1>9, <2>4, NodeFrame DEF Handle, db
  <2> QED BY <1>0, <2>3, <2>5
<1> QED BY <1>1, <1>2, <1>3, <1>4, <1>5, <1>6, <1>7, <1>8, <1>9 DEF NextNode

LEMMA AccessStep == AccessInv /\ [AccessNext]_accessVars => AccessInv'
<1> SUFFICES ASSUME AccessInv, [AccessNext]_accessVars PROVE AccessInv'
  OBVIOUS
<1>1. CASE UNCHANGED accessVars
  BY <1>1 DEF accessVars, db, node, AccessInv, AccessTypeOK, BoundInv, AckedInv, MintedInv
<1> QED BY <1>1, ApiStep, IssueStep, NodeStep DEF AccessNext

\* The inductive invariant holds in every behaviour, for any nodes, agents,
\* keys and tokens.
THEOREM AccessSound == AccessSpec => []AccessInv
  BY AccessStart, AccessStep, PTL DEF AccessSpec

\* No call runs, on any node, in a session whose token, key or agent an
\* administrator has withdrawn: CheckLive asks the database for the very row
\* the token was issued for, and what was acknowledged is there or went with
\* the row (RunCall).
THEOREM WithdrawalsBind == AccessSpec => RefusedOnceWithdrawn
<1>1. ASSUME AccessInv, NEW n \in Nodes, NEW s \in Session, RunCall(n, s)
      PROVE  ~Withdrawn(s.token)
  <2>1. s \in calls[n] /\ status[s.agent] = "active" /\ revokedDB[s.token] = Nil
        /\ key[claims[s.token].key].state # "revoked"
    BY <1>1 DEF RunCall, CheckLive
  <2>2. claims[s.token] # Nil /\ claims[s.token].agent = s.agent
    BY <1>1, <2>1 DEF AccessInv, BoundInv
  <2>3. s.agent \in Rows /\ s.agent # Nil
    BY AccessAssumption DEF Session
  <2> QED BY <1>1, <2>1, <2>2, <2>3 DEF Withdrawn, AccessInv, AckedInv
<1>2. AccessInv /\ [AccessNext]_accessVars
        => [\A n \in Nodes, s \in Session : RunCall(n, s) => ~Withdrawn(s.token)]_accessVars
  BY <1>1
<1> QED BY <1>2, AccessSound, PTL DEF AccessSpec, RefusedOnceWithdrawn

\* A session that a node ends, other than by its client or because the database
\* could not be read, was not live: what a notification says is confirmed first.
THEOREM SessionsEndForCause == AccessSpec => EndedForCause
<1>1. ASSUME AccessInv, AccessNext, NEW n \in Nodes, NEW s \in sessions[n] \ sessions'[n]
      PROVE  faults' # faults \/ EndSession(n, s) \/ ~CheckLive(s) \/ SessionNotLive(n, s)
  <2>0. faults \in Nat /\ sessions \in [Nodes -> SUBSET Session] /\ s \in Session
    BY <1>1, AccessAssumption DEF AccessInv, AccessTypeOK
  <2>1. CASE NextAPI
    BY <1>1, <2>1 DEF NextAPI, CreateAgent, UpdateAgent, BeginUpdate, FinishUpdate, DeleteAgent,
                      CreateAPIKey, RevokeAPIKey, node
  <2>2. CASE NextIssue
    BY <1>1, <2>2 DEF NextIssue, HandleIssue, Issue, RecordIssued
  <2>3. ASSUME NEW k \in Nodes, NextNode(k)
        PROVE  faults' # faults \/ EndSession(n, s) \/ ~CheckLive(s) \/ SessionNotLive(n, s)
    <3>1. CASE Start(k) \/ ListenerError(k)
      BY <1>1, <3>1 DEF Start, ListenerError
    <3>2. CASE Crash(k)
      BY <2>0, <3>2 DEF Crash, Fault
    <3>3. CASE \E t \in Tokens : ServeSSE(k, t)
      BY <1>1, <3>3 DEF ServeSSE
    <3>4. CASE \E t \in Tokens, r \in Rows, ok \in BOOLEAN : HandleRevoke(k, t, r, ok)
      BY <1>1, <3>4 DEF HandleRevoke
    <3>5. ASSUME NEW x \in Session, CreateSession(k, x) \/ RunCall(k, x)
          PROVE  sessions[n] \subseteq sessions'[n]
      BY <2>0, <3>5 DEF CreateSession, RunCall
    <3>6. ASSUME NEW x \in Session, Close(k, {x}) PROVE s = x /\ n = k
      BY <1>1, <2>0, <3>6 DEF Close
    <3>7. ASSUME NEW x \in Session, EndSession(k, x) PROVE EndSession(n, s)
      BY <3>6, <3>7 DEF EndSession
    <3>8. ASSUME NEW x \in Session, ServeMessages(k, x) PROVE SessionNotLive(n, s)
      BY <1>1, <3>6, <3>8 DEF ServeMessages
    <3>9. ASSUME NEW x \in Session, RefuseCall(k, x) PROVE faults' # faults \/ ~CheckLive(s)
      BY <2>0, <3>6, <3>9 DEF RefuseCall, NotLiveReason, Fault
    <3>10. ASSUME NEW x \in Session, ServeToolsList(k, x)
           PROVE  faults' # faults \/ ~CheckLive(s) \/ SessionNotLive(n, s)
      BY <2>0, <3>6, <3>10 DEF ServeToolsList, NotLiveReason, Fault
    <3>11. CASE CatchUp(k) \/ ListenLoop(k)
      BY <1>1, <2>0, <3>11 DEF CatchUp, ListenLoop, RecheckSessions
    <3>12. ASSUME NEW m \in inbox[k], Handle(k, m) PROVE ~CheckLive(s)
      BY <1>1, <2>0, <3>12 DEF Handle, Close, AgentInactive, TokenRevoked, CheckLive
    <3> QED BY <1>1, <2>3, <3>1, <3>2, <3>3, <3>4, <3>5, <3>7, <3>8, <3>9, <3>10, <3>11, <3>12 DEF NextNode
  <2> QED BY <1>1, <2>1, <2>2, <2>3 DEF AccessNext
<1>2. AccessInv /\ [AccessNext]_accessVars
        => [\A n \in Nodes : \A s \in sessions[n] \ sessions'[n] :
               \/ faults' # faults \/ EndSession(n, s)
               \/ ~CheckLive(s) \/ SessionNotLive(n, s)]_accessVars
  BY <1>1
<1> QED BY <1>2, AccessSound, PTL DEF AccessSpec, EndedForCause

\* The write of a change by someone who is not an administrator never makes an
\* agent active: what it read was checked, and what it writes is not a status it
\* merely echoes (FinishUpdate).
THEOREM ReactivationIsReserved == AccessSpec => OnlyAdminsReactivate
<1>1. ASSUME AccessInv, NEW told \in BOOLEAN, NEW r \in Rows, FinishUpdate(told), status'[r] = "active"
      PROVE  status[r] = "active"
  BY <1>1 DEF AccessInv, AccessTypeOK, FinishUpdate
<1>2. AccessInv /\ [AccessNext]_accessVars
        => [\A told \in BOOLEAN, r \in Rows :
               (FinishUpdate(told) /\ status'[r] = "active") => status[r] = "active"]_accessVars
  BY <1>1
<1> QED BY <1>2, AccessSound, PTL DEF AccessSpec, OnlyAdminsReactivate

=============================================================================
