---------------------------- MODULE AgentAccess ----------------------------
(***************************************************************************)
(* Who may call: governed agents, their API keys and tokens, and the MCP   *)
(* sessions opened with them.  Administrators create, suspend, reactivate  *)
(* and delete agents and create and revoke keys through eami-api; gateway  *)
(* nodes issue tokens for keys, revoke tokens, open sessions and run calls *)
(* in them.  The database is shared; each node also keeps in memory the    *)
(* tokens it knows to be revoked, its sessions, and a listener for the     *)
(* notifications agent_status and token_revoked.                           *)
(*                                                                         *)
(* Abstractions: an agent row, a key and a token are model values, and     *)
(* Named gives the organisation and name of a row: a deleted agent that is *)
(* created again is another row with the same organisation and name.  All  *)
(* sessions of one token on one node are one.  A token's expiry ends its   *)
(* sessions just as the client does, and otherwise only refuses requests;  *)
(* requests that are refused and change nothing (bad input, an expired key *)
(* or token, a rate limit) are left out, as is the delivery of results.    *)
(***************************************************************************)
EXTENDS Integers, FiniteSets

CONSTANTS
    Nodes, Rows, Keys, Tokens,
    Named,      \* (organisation, name) of a row
    Nil,
    MaxUnderway, \* bound on connections being opened and calls being run, on all nodes
    MaxAdmin,   \* bound on changes, deletions and revocations
    MaxFaults   \* bound on crashes, failed writes and lost notifications

ASSUME AccessAssumption ==
    /\ Nil \notin Rows \cup Keys \cup Tokens
    /\ MaxUnderway \in Nat /\ MaxAdmin \in Nat /\ MaxFaults \in Nat

VARIABLES
    status,     \* gateway_agents.status, "absent" or "deleted" without a row
    key,        \* api_keys: state and agent_id
    revokedDB,  \* revoked_ai_tokens: agent_id of each jti, or Nil
    issued,     \* jtis with an ai_token_events row 'issued'
    claims,     \* the tokens minted: AgentUUID and APIKeyID
    edit,       \* a PATCH by a non-admin between its read and its write
    issuing,    \* a request for a token between its checks and the minting
    recording,  \* tokens whose event is yet to be written
    up, revoked, listening, inbox, opening, sessions, calls, \* of each node
    acked,      \* history: revocations answered 204 under the token's agent
    admin, faults

db == <<status, key, revokedDB, issued>>
node == <<up, revoked, listening, inbox, issuing, recording, opening, sessions, calls>>
accessVars == <<db, claims, edit, node, acked, admin, faults>>

\* "suspended" stands for "revoked" too: no check tells them apart.
Statuses == {"active", "suspended"}
Claims == [key : Keys, agent : Rows]
Session == [token : Tokens, agent : Rows]
Notification == [channel : {"agent_status"}, agent : Rows] \cup [channel : {"token_revoked"}, token : Tokens]

Exists(r) == status[r] \in Statuses
Fault == faults < MaxFaults /\ faults' = faults + 1
Administer == admin < MaxAdmin /\ admin' = admin + 1

Underway == {u \in Nodes \X Session : u[2] \in opening[u[1]] \cup calls[u[1]]}
MayBegin == Cardinality(Underway) < MaxUnderway

\* What NOTIFY leaves at the nodes that LISTEN.
Notified(ms) == [n \in Nodes |-> IF listening[n] THEN inbox[n] \cup ms ELSE inbox[n]]

\* loadAll: the jtis in revoked_ai_tokens.
LoadAll == {t \in Tokens : revokedDB[t] # Nil}

\* One query: the status of the session's agent, its token, and the token's key.
CheckLive(s) ==
    /\ status[s.agent] = "active"
    /\ revokedDB[s.token] = Nil
    /\ key[claims[s.token].key].state # "revoked"

-----------------------------------------------------------------------------
(* eami-api.                                                               *)

CreateAgent(r) ==
    /\ status[r] = "absent"
    /\ \A q \in Rows : Named[q] = Named[r] => ~Exists(q)
    /\ status' = [status EXCEPT ![r] = "active"]
    /\ UNCHANGED <<key, revokedDB, issued, claims, edit, node, acked, admin, faults>>

\* NotifyAgentStatus is best effort: told says whether it succeeds.
NotifyAgentStatus(r, told) ==
    \/ /\ told
       /\ inbox' = Notified({[channel |-> "agent_status", agent |-> r]})
       /\ UNCHANGED faults
    \/ /\ ~told /\ Fault
       /\ UNCHANGED inbox

\* An administrator's PATCH of the status.
UpdateAgent(r, st, told) ==
    /\ Administer
    /\ Exists(r)
    /\ status' = [status EXCEPT ![r] = st]
    /\ NotifyAgentStatus(r, told)
    /\ UNCHANGED <<key, revokedDB, issued, claims, edit, acked>>
    /\ UNCHANGED <<up, revoked, listening, issuing, recording, opening, sessions, calls>>

\* Mutant of AgentAdminOnlyChange: a status the row already has is written.
AgentAdminOnlyChange_Echo(st, cur) == [restricted |-> st = "active" /\ st # cur, write |-> st]

\* What a non-admin may change of the row as read: a status it already has is
\* dropped from the write, a reactivation is refused.
AgentAdminOnlyChange(st, cur) ==
    [restricted |-> st = "active" /\ st # cur, write |-> IF st = cur THEN Nil ELSE st]

\* UpdateAgent by a non-admin: the row is read and the request checked against it.
BeginUpdate(r, st) ==
    /\ Administer
    /\ edit = Nil /\ Exists(r)
    /\ LET c == AgentAdminOnlyChange(st, status[r]) IN
          /\ ~c.restricted /\ c.write # Nil
          /\ edit' = [row |-> r, status |-> c.write]
    /\ UNCHANGED <<db, claims, node, acked, faults>>

\* The write; the row may be gone or changed by now.
FinishUpdate(told) ==
    /\ edit # Nil /\ edit' = Nil
    /\ IF Exists(edit.row)
       THEN /\ status' = [status EXCEPT ![edit.row] = edit.status]
            /\ NotifyAgentStatus(edit.row, told)
       ELSE told /\ UNCHANGED <<status, inbox, faults>>
    /\ UNCHANGED <<key, revokedDB, issued, claims, acked, admin>>
    /\ UNCHANGED <<up, revoked, listening, issuing, recording, opening, sessions, calls>>

\* The row goes, its revocations with it (ON DELETE CASCADE), and its keys lose
\* their agent (ON DELETE SET NULL).
DeleteAgent(r, told) ==
    /\ Administer
    /\ Exists(r)
    /\ status' = [status EXCEPT ![r] = "deleted"]
    /\ revokedDB' = [t \in Tokens |-> IF revokedDB[t] = r THEN Nil ELSE revokedDB[t]]
    /\ key' = [k \in Keys |-> IF key[k].agent = r THEN [key[k] EXCEPT !.agent = Nil] ELSE key[k]]
    /\ NotifyAgentStatus(r, told)
    /\ UNCHANGED <<issued, claims, edit, acked>>
    /\ UNCHANGED <<up, revoked, listening, issuing, recording, opening, sessions, calls>>

CreateAPIKey(k, r) ==
    /\ key[k].state = "none" /\ status[r] = "active"
    /\ key' = [key EXCEPT ![k] = [state |-> "valid", agent |-> r]]
    /\ UNCHANGED <<status, revokedDB, issued, claims, edit, node, acked, admin, faults>>

\* In one transaction the key, those of its tokens that have an 'issued' event
\* and whose agent exists, and their notifications.
RevokeAPIKeyAndTokens(k) ==
    LET live == {t \in issued : claims[t].key = k /\ Exists(claims[t].agent) /\ revokedDB[t] = Nil} IN
    /\ key' = [key EXCEPT ![k].state = "revoked"]
    /\ revokedDB' = [t \in Tokens |-> IF t \in live THEN claims[t].agent ELSE revokedDB[t]]
    /\ inbox' = Notified({[channel |-> "token_revoked", token |-> t] : t \in live})

RevokeAPIKey(k) ==
    /\ Administer
    /\ key[k].state = "valid"
    /\ RevokeAPIKeyAndTokens(k)
    /\ UNCHANGED <<status, issued, claims, edit, acked, faults>>
    /\ UNCHANGED <<up, revoked, listening, issuing, recording, opening, sessions, calls>>

-----------------------------------------------------------------------------
(* A gateway node: the token manager.                                      *)

\* newManager: a node starts only with the whole list of revocations.
Start(n) ==
    /\ ~up[n]
    /\ up' = [up EXCEPT ![n] = TRUE]
    /\ revoked' = [revoked EXCEPT ![n] = LoadAll]
    /\ UNCHANGED <<db, claims, edit, acked, admin, faults>>
    /\ UNCHANGED <<listening, inbox, issuing, recording, opening, sessions, calls>>

Crash(n) ==
    /\ up[n] /\ Fault
    /\ up' = [up EXCEPT ![n] = FALSE] /\ listening' = [listening EXCEPT ![n] = FALSE]
    /\ revoked' = [revoked EXCEPT ![n] = {}] /\ inbox' = [inbox EXCEPT ![n] = {}]
    /\ opening' = [opening EXCEPT ![n] = {}]
    /\ sessions' = [sessions EXCEPT ![n] = {}] /\ calls' = [calls EXCEPT ![n] = {}]
    /\ UNCHANGED <<db, claims, edit, issuing, recording, acked, admin>>

\* The key is valid, and the agent named in its organisation is active.
ValidateAndResolveAgent(k, r) == key[k].state = "valid" /\ status[r] = "active"

\* HandleIssue, on some node, up to its checks: the agent resolved is the key's.
HandleIssue(k, r) ==
    /\ issuing = Nil
    /\ ValidateAndResolveAgent(k, r) /\ key[k].agent = r
    /\ issuing' = [key |-> k, agent |-> r]
    /\ UNCHANGED <<db, claims, edit, acked, admin, faults>>
    /\ UNCHANGED <<up, revoked, listening, inbox, recording, opening, sessions, calls>>

\* The token is minted from what was resolved, which may have changed since, and
\* its event is recorded in the background.
Issue(t) ==
    /\ issuing # Nil /\ claims[t] = Nil
    /\ claims' = [claims EXCEPT ![t] = issuing]
    /\ issuing' = Nil
    /\ recording' = recording \cup {t}
    /\ UNCHANGED <<db, edit, acked, admin, faults>>
    /\ UNCHANGED <<up, revoked, listening, inbox, opening, sessions, calls>>

\* The event is written, or lost with a crash or a failed write.
RecordIssued(t, ok) ==
    /\ t \in recording
    /\ recording' = recording \ {t}
    /\ \/ ok /\ issued' = issued \cup {t} /\ UNCHANGED faults
       \/ ~ok /\ Fault /\ UNCHANGED issued
    /\ UNCHANGED <<status, key, revokedDB, claims, edit, acked, admin>>
    /\ UNCHANGED <<up, revoked, listening, inbox, issuing, opening, sessions, calls>>

\* save: ON CONFLICT DO NOTHING, and the notification in the same statement.
Save(t, r) ==
    /\ revokedDB' = [revokedDB EXCEPT ![t] = IF @ = Nil THEN r ELSE @]
    /\ inbox' = Notified({[channel |-> "token_revoked", token |-> t]})

\* This node's memory first, then the table; ok says whether the write succeeds.
Revoke(n, t, r, ok) ==
    /\ revoked' = [revoked EXCEPT ![n] = @ \cup {t}]
    /\ \/ ok /\ Save(t, r) /\ UNCHANGED faults
       \/ ~ok /\ Fault /\ UNCHANGED <<revokedDB, inbox>>

\* The caller names the token and an agent, which need not be the token's.
HandleRevoke(n, t, r, ok) ==
    /\ Administer
    /\ up[n] /\ claims[t] # Nil /\ Exists(r)
    /\ Revoke(n, t, r, ok)
    /\ acked' = IF ok /\ revokedDB'[t] = claims[t].agent THEN acked \cup {t} ELSE acked
    /\ UNCHANGED <<status, key, issued, claims, edit>>
    /\ UNCHANGED <<up, listening, issuing, recording, opening, sessions, calls>>

-----------------------------------------------------------------------------
(* A gateway node: sessions and calls.                                     *)

Validate(n, t) == claims[t] # Nil /\ t \notin revoked[n]

\* The row a token's subject and organisation resolve to, if it is active.
LookupByNameAndOrg(t) == {r \in Rows : Named[r] = Named[claims[t].agent] /\ status[r] = "active"}

\* Mutant of BoundTo: the name is enough.
BoundTo_Name(t, r) == TRUE

BoundTo(t, r) == claims[t].agent = r

\* ServeSSE: every check, the last of them CheckLive.
ServeSSE(n, t) ==
    /\ MayBegin
    /\ up[n] /\ Validate(n, t)
    /\ \E r \in LookupByNameAndOrg(t) :
          LET s == [token |-> t, agent |-> r] IN
          /\ BoundTo(t, r) /\ CheckLive(s)
          /\ s \notin sessions[n] \cup opening[n]
          /\ opening' = [opening EXCEPT ![n] = @ \cup {s}]
    /\ UNCHANGED <<db, claims, edit, acked, admin, faults>>
    /\ UNCHANGED <<up, revoked, listening, inbox, issuing, recording, sessions, calls>>

\* ServeSSE: the session is created.
CreateSession(n, s) ==
    /\ s \in opening[n]
    /\ opening' = [opening EXCEPT ![n] = @ \ {s}]
    /\ sessions' = [sessions EXCEPT ![n] = @ \cup {s}]
    /\ UNCHANGED <<db, claims, edit, acked, admin, faults>>
    /\ UNCHANGED <<up, revoked, listening, inbox, issuing, recording, calls>>

\* Close and CloseWhere.
Close(n, ss) == sessions' = [sessions EXCEPT ![n] = @ \ ss]

\* The client goes away, or the session's context ends with its token.
EndSession(n, s) ==
    /\ s \in sessions[n]
    /\ Close(n, {s})
    /\ UNCHANGED <<db, claims, edit, acked, admin, faults>>
    /\ UNCHANGED <<up, revoked, listening, inbox, issuing, recording, opening, calls>>

SessionNotLive(n, s) == s.token \in revoked[n]

\* ServeMessages, a tool_call: refused from memory, or accepted (202) and left
\* to a goroutine.
ServeMessages(n, s) ==
    /\ s \in sessions[n]
    /\ IF SessionNotLive(n, s)
       THEN Close(n, {s}) /\ UNCHANGED calls
       ELSE MayBegin /\ calls' = [calls EXCEPT ![n] = @ \cup {s}] /\ UNCHANGED sessions
    /\ UNCHANGED <<db, claims, edit, acked, admin, faults>>
    /\ UNCHANGED <<up, revoked, listening, inbox, issuing, recording, opening>>

\* The goroutine dispatches: the check of every call, in the database, passes.
RunCall(n, s) ==
    /\ s \in calls[n] /\ CheckLive(s)
    /\ calls' = [calls EXCEPT ![n] = @ \ {s}]
    /\ UNCHANGED <<db, claims, edit, acked, admin, faults>>
    /\ UNCHANGED <<up, revoked, listening, inbox, issuing, recording, opening, sessions>>

\* A check that fails, or cannot be made: the call is refused.
NotLiveReason(s) ==
    \/ ~CheckLive(s) /\ UNCHANGED faults
    \/ Fault

\* ErrNotLive ends the session.
RefuseCall(n, s) ==
    /\ s \in calls[n] /\ NotLiveReason(s)
    /\ calls' = [calls EXCEPT ![n] = @ \ {s}]
    /\ Close(n, {s})
    /\ UNCHANGED <<db, claims, edit, acked, admin>>
    /\ UNCHANGED <<up, revoked, listening, inbox, issuing, recording, opening>>

\* serveToolsList of a session that is no longer live.
ServeToolsList(n, s) ==
    /\ s \in sessions[n]
    /\ \/ SessionNotLive(n, s) /\ UNCHANGED faults
       \/ ~SessionNotLive(n, s) /\ NotLiveReason(s)
    /\ Close(n, {s})
    /\ UNCHANGED <<db, claims, edit, acked, admin>>
    /\ UNCHANGED <<up, revoked, listening, inbox, issuing, recording, opening, calls>>

-----------------------------------------------------------------------------
(* A gateway node: the liveness listener.                                  *)

\* Mutant of RecheckSessions: only the token is looked at.
RecheckSessions_Token(n) == {s \in sessions[n] : revokedDB[s.token] = Nil}

\* The sessions a catch-up keeps.
RecheckSessions(n) == {s \in sessions[n] : CheckLive(s)}

\* ReloadRevoked, then RecheckSessions.
ReloadRevoked(n) == revoked' = [revoked EXCEPT ![n] = @ \cup LoadAll]

\* The ticker of Run, every 60 s.
CatchUp(n) ==
    /\ up[n]
    /\ ReloadRevoked(n)
    /\ sessions' = [sessions EXCEPT ![n] = RecheckSessions(n)]
    /\ UNCHANGED <<db, claims, edit, acked, admin, faults>>
    /\ UNCHANGED <<up, listening, inbox, issuing, recording, opening, calls>>

\* listenLoop: LISTEN, and a catch-up for what was missed.
ListenLoop(n) ==
    /\ up[n] /\ ~listening[n]
    /\ listening' = [listening EXCEPT ![n] = TRUE]
    /\ ReloadRevoked(n)
    /\ sessions' = [sessions EXCEPT ![n] = RecheckSessions(n)]
    /\ UNCHANGED <<db, claims, edit, acked, admin, faults>>
    /\ UNCHANGED <<up, inbox, issuing, recording, opening, calls>>

\* The connection fails; what it had not handed over is lost.
ListenerError(n) ==
    /\ listening[n] /\ Fault
    /\ listening' = [listening EXCEPT ![n] = FALSE] /\ inbox' = [inbox EXCEPT ![n] = {}]
    /\ UNCHANGED <<db, claims, edit, acked, admin>>
    /\ UNCHANGED <<up, revoked, issuing, recording, opening, sessions, calls>>

\* Mutant of AgentInactive: the notification is believed.
AgentInactive_Believed(r) == TRUE

AgentInactive(r) == status[r] # "active"

TokenRevoked(t) == revokedDB[t] # Nil

\* handle: what a notification says is confirmed in the database first.
Handle(n, m) ==
    /\ m \in inbox[n] /\ inbox' = [inbox EXCEPT ![n] = @ \ {m}]
    /\ \/ /\ m.channel = "agent_status" /\ AgentInactive(m.agent)
          /\ Close(n, {s \in Session : s.agent = m.agent})
          /\ UNCHANGED revoked
       \/ /\ m.channel = "token_revoked" /\ TokenRevoked(m.token)
          /\ revoked' = [revoked EXCEPT ![n] = @ \cup {m.token}]
          /\ Close(n, {s \in Session : s.token = m.token})
       \/ /\ \/ m.channel = "agent_status" /\ ~AgentInactive(m.agent)
             \/ m.channel = "token_revoked" /\ ~TokenRevoked(m.token)
          /\ UNCHANGED <<revoked, sessions>>
    /\ UNCHANGED <<db, claims, edit, acked, admin, faults>>
    /\ UNCHANGED <<up, listening, issuing, recording, opening, calls>>

-----------------------------------------------------------------------------

AccessInit ==
    /\ status = [r \in Rows |-> "absent"]
    /\ key = [k \in Keys |-> [state |-> "none", agent |-> Nil]]
    /\ revokedDB = [t \in Tokens |-> Nil]
    /\ issued = {} /\ claims = [t \in Tokens |-> Nil]
    /\ edit = Nil
    /\ up = [n \in Nodes |-> TRUE] /\ listening = [n \in Nodes |-> TRUE]
    /\ issuing = Nil /\ recording = {}
    /\ revoked = [n \in Nodes |-> {}] /\ inbox = [n \in Nodes |-> {}]
    /\ opening = [n \in Nodes |-> {}]
    /\ sessions = [n \in Nodes |-> {}] /\ calls = [n \in Nodes |-> {}]
    /\ acked = {}
    /\ admin = 0 /\ faults = 0

NextAPI ==
    \/ \E r \in Rows : CreateAgent(r)
    \/ \E r \in Rows, st \in Statuses, told \in BOOLEAN : UpdateAgent(r, st, told)
    \/ \E r \in Rows, st \in Statuses : BeginUpdate(r, st)
    \/ \E told \in BOOLEAN : FinishUpdate(told)
    \/ \E r \in Rows, told \in BOOLEAN : DeleteAgent(r, told)
    \/ \E k \in Keys, r \in Rows : CreateAPIKey(k, r)
    \/ \E k \in Keys : RevokeAPIKey(k)

NextIssue ==
    \/ \E k \in Keys, r \in Rows : HandleIssue(k, r)
    \/ \E t \in Tokens : Issue(t)
    \/ \E t \in Tokens, ok \in BOOLEAN : RecordIssued(t, ok)

NextNode(n) ==
    \/ Start(n) \/ Crash(n)
    \/ \E t \in Tokens : ServeSSE(n, t)
    \/ \E t \in Tokens, r \in Rows, ok \in BOOLEAN : HandleRevoke(n, t, r, ok)
    \/ \E s \in Session : \/ CreateSession(n, s) \/ EndSession(n, s) \/ ServeMessages(n, s)
                          \/ RunCall(n, s) \/ RefuseCall(n, s) \/ ServeToolsList(n, s)
    \/ CatchUp(n) \/ ListenLoop(n) \/ ListenerError(n)
    \/ \E m \in inbox[n] : Handle(n, m)

AccessNext ==
    \/ NextAPI
    \/ NextIssue
    \/ \E n \in Nodes : NextNode(n)

AccessSpec == AccessInit /\ [][AccessNext]_accessVars

\* The ticker of Run keeps firing whatever becomes of the listener.
AccessFairSpec == AccessSpec /\ \A n \in Nodes : WF_accessVars(CatchUp(n))

-----------------------------------------------------------------------------
(* Correctness.                                                            *)

\* The tables, the memory of each node and the bounds keep their types.
AccessTypeOK ==
    /\ status \in [Rows -> Statuses \cup {"absent", "deleted"}]
    /\ key \in [Keys -> [state : {"none", "valid", "revoked"}, agent : Rows \cup {Nil}]]
    /\ revokedDB \in [Tokens -> Rows \cup {Nil}]
    /\ claims \in [Tokens -> Claims \cup {Nil}]
    /\ issued \subseteq Tokens /\ acked \subseteq Tokens
    /\ edit \in [row : Rows, status : {"suspended"}] \cup {Nil}
    /\ up \in [Nodes -> BOOLEAN] /\ listening \in [Nodes -> BOOLEAN]
    /\ issuing \in Claims \cup {Nil}
    /\ revoked \in [Nodes -> SUBSET Tokens] /\ recording \subseteq Tokens
    /\ opening \in [Nodes -> SUBSET Session] /\ sessions \in [Nodes -> SUBSET Session]
    /\ calls \in [Nodes -> SUBSET Session] /\ inbox \in [Nodes -> SUBSET Notification]
    /\ admin \in 0 .. MaxAdmin /\ faults \in 0 .. MaxFaults

\* Withdrawn by an administrator: the token's revocation was answered 204, its
\* key is revoked, or the very agent it was issued for is not active.
Withdrawn(t) ==
    \/ t \in acked
    \/ key[claims[t].key].state = "revoked"
    \/ status[claims[t].agent] # "active"

\* Once an administrator has withdrawn a token, its key or its agent, no call in
\* a session of that token runs on any node: whatever notification was lost,
\* whatever node restarted, whether or not the token's issue was ever recorded,
\* and although an agent of the same name may be there again.
RefusedOnceWithdrawn ==
    [][\A n \in Nodes, s \in Session : RunCall(n, s) => ~Withdrawn(s.token)]_accessVars

\* A session is never ended by mistake: unless its client goes away or the
\* database cannot be read, a session that a node ends was not live there, or this
\* node was told to revoke its token; a stale notification ends nothing.
EndedForCause ==
    [][\A n \in Nodes : \A s \in sessions[n] \ sessions'[n] :
          \/ faults' # faults \/ EndSession(n, s)
          \/ ~CheckLive(s) \/ SessionNotLive(n, s)]_accessVars

\* A session that is not live does not stay open on any node, notified or not.
DeadSession(n, t) == \E s \in sessions[n] : s.token = t /\ ~CheckLive(s)
DeadSessionsEnd == \A n \in Nodes, t \in Tokens : DeadSession(n, t) ~> ~DeadSession(n, t)

\* A change by someone who is not an administrator never makes an agent active,
\* not even by echoing the status it read while an administrator suspends it.
OnlyAdminsReactivate ==
    [][\A told \in BOOLEAN, r \in Rows :
          (FinishUpdate(told) /\ status'[r] = "active") => status[r] = "active"]_accessVars

-----------------------------------------------------------------------------
(* Why it is so.                                                           *)

\* A session, from its opening to its calls, is of the agent its token was issued for.
BoundInv ==
    \A n \in Nodes : \A s \in opening[n] \cup sessions[n] \cup calls[n] :
        claims[s.token] # Nil /\ claims[s.token].agent = s.agent

\* A revocation that was answered is in the table for as long as its agent is.
AckedInv ==
    \A t \in acked :
        /\ claims[t] # Nil
        /\ revokedDB[t] = claims[t].agent \/ status[claims[t].agent] = "deleted"

\* Only what was minted is recorded.
MintedInv == \A t \in issued \cup recording : claims[t] # Nil

AccessInv == AccessTypeOK /\ BoundInv /\ AckedInv /\ MintedInv

=============================================================================
