--------------------------- MODULE AccountsProofs ---------------------------
(***************************************************************************)
(* Proofs about Accounts, for any number of accounts, requests and tokens. *)
(***************************************************************************)
EXTENDS Accounts, SequenceTheorems, FiniteSetTheorems, TLAPS

-----------------------------------------------------------------------------
(* Requests.                                                               *)

LEMMA ReqFields ==
    ASSUME TypeOK, NEW r \in Requests
    PROVE  /\ req[r].kind \in {"idle", "bootstrap", "link", "mint", "change", "login", "refresh"}
           /\ req[r].kind = "idle" => req[r] = Idle
           /\ req[r].kind = "bootstrap" => req[r].token \in SetupTokens /\ req[r].user \in Users
           /\ req[r].kind = "link" => req[r].link \in Nat
           /\ req[r].kind = "mint" =>
                 req[r].user \in Users /\ (req[r].stage = "tx" => req[r].prior \subseteq Nat)
           /\ req[r].kind = "change" => req[r].user \in Users
           /\ req[r].kind \in {"login", "refresh"} =>
                 /\ req[r].user \in Users /\ req[r].roles \subseteq Roles
                 /\ req[r].stage = "issue" => req[r].role \in Roles
           /\ req[r].kind = "refresh" => req[r].session \in RefreshTokens
<1>1. req[r] \in Running \cup {Idle}
  BY DEF TypeOK
<1> QED BY <1>1 DEF Running, Idle

\* A request that goes on is the only one that changes.
LEMMA ReqSet ==
    ASSUME TypeOK, NEW r \in Requests, NEW d, req' = [req EXCEPT ![r] = d]
    PROVE  /\ req'[r] = d /\ \A q \in Requests : q # r => req'[q] = req[q]
           /\ d \in Running \cup {Idle} => req' \in [Requests -> Running \cup {Idle}]
BY DEF TypeOK

\* The roles noted in a request change nothing else of it.
LEMMA NotedFacts ==
    ASSUME TypeOK, NEW u \in Users, NEW role \in Roles, req' = Noted(u, role)
    PROVE  /\ req' \in [Requests -> Running \cup {Idle}]
           /\ \A q \in Requests :
                 /\ req'[q].kind = req[q].kind
                 /\ req[q].kind \notin {"login", "refresh"} => req'[q] = req[q]
                 /\ req[q].kind \in {"login", "refresh"} =>
                       /\ req'[q].user = req[q].user /\ req'[q].stage = req[q].stage
                       /\ req'[q].role = req[q].role
                       /\ req[q].roles \subseteq req'[q].roles
                       /\ req[q].user = u => role \in req'[q].roles
<1>1. ASSUME NEW q \in Requests
      PROVE  /\ req'[q] \in Running \cup {Idle}
             /\ req'[q].kind = req[q].kind
             /\ req[q].kind \notin {"login", "refresh"} => req'[q] = req[q]
             /\ req[q].kind \in {"login", "refresh"} =>
                   /\ req'[q].user = req[q].user /\ req'[q].stage = req[q].stage
                   /\ req'[q].role = req[q].role
                   /\ req[q].roles \subseteq req'[q].roles
                   /\ req[q].user = u => role \in req'[q].roles
  <2>0. PICK d : d = req[q]
    OBVIOUS
  <2>1. d \in Running \cup {Idle}
    BY <2>0 DEF TypeOK
  <2>2. req'[q] = IF "roles" \in DOMAIN d /\ d.user = u
                  THEN [d EXCEPT !.roles = d.roles \cup {role}] ELSE d
    BY <2>0 DEF Noted
  <2>3. "roles" \in DOMAIN d <=> d.kind \in {"login", "refresh"}
    BY <2>1 DEF Running, Idle
  <2>4. CASE d.kind \in {"login", "refresh"} /\ d.user = u
    <3>1. req'[q] = [d EXCEPT !.roles = d.roles \cup {role}]
      BY <2>2, <2>3, <2>4
    <3>2. \/ d \in [kind : {"login"}, stage : {"issue"}, user : Users, role : Roles, roles : SUBSET Roles]
          \/ d \in [kind : {"refresh"}, stage : {"user"}, user : Users, session : RefreshTokens,
                    roles : SUBSET Roles]
          \/ d \in [kind : {"refresh"}, stage : {"issue"}, user : Users, session : RefreshTokens,
                    roles : SUBSET Roles, role : Roles]
      BY <2>1, <2>4 DEF Running, Idle
    <3>3. req'[q] \in Running
      <4>1. CASE d \in [kind : {"login"}, stage : {"issue"}, user : Users, role : Roles, roles : SUBSET Roles]
        BY <3>1, <4>1 DEF Running
      <4>2. CASE d \in [kind : {"refresh"}, stage : {"user"}, user : Users, session : RefreshTokens,
                        roles : SUBSET Roles]
        BY <3>1, <4>2 DEF Running
      <4>3. CASE d \in [kind : {"refresh"}, stage : {"issue"}, user : Users, session : RefreshTokens,
                        roles : SUBSET Roles, role : Roles]
        BY <3>1, <4>3 DEF Running
      <4> QED BY <3>2, <4>1, <4>2, <4>3
    <3>4. /\ req'[q].kind = d.kind /\ req'[q].user = d.user /\ req'[q].stage = d.stage
          /\ req'[q].roles = d.roles \cup {role}
      BY <3>1, <3>2
    <3>5. req'[q].role = d.role
      BY <3>1
    <3> QED BY <2>0, <2>4, <3>3, <3>4, <3>5
  <2>5. CASE ~(d.kind \in {"login", "refresh"} /\ d.user = u)
    BY <2>0, <2>1, <2>2, <2>3, <2>5
  <2> QED BY <2>4, <2>5
<1>2. req' = [q \in Requests |-> req'[q]]
  BY DEF Noted
<1> QED BY <1>1, <1>2

\* Links and what is done to them.
LEMMA LinkFields ==
    ASSUME NEW x \in Link
    PROVE  x.user \in Users /\ x.kind \in {"invite", "reset"} /\ x.used \in Nat
BY DEF Link

LEMMA LinkSpent ==
    ASSUME NEW x \in Link
    PROVE  LET y == [x EXCEPT !.consumed = TRUE]
           IN  y \in Link /\ y.user = x.user /\ y.kind = x.kind /\ y.used = x.used /\ y.consumed
<1>1. ASSUME NEW b \in BOOLEAN, b
      PROVE  LET y == [x EXCEPT !.consumed = b]
             IN  y \in Link /\ y.user = x.user /\ y.kind = x.kind /\ y.used = x.used /\ y.consumed
  BY <1>1, Zenon DEF Link
<1> QED BY <1>1, Zenon

LEMMA LinkUsed ==
    ASSUME NEW x \in Link, NEW n \in Nat
    PROVE  LET y == [x EXCEPT !.consumed = TRUE, !.used = n]
           IN  y \in Link /\ y.user = x.user /\ y.kind = x.kind /\ y.used = n /\ y.consumed
<1>1. ASSUME NEW b \in BOOLEAN, b
      PROVE  LET y == [x EXCEPT !.consumed = b, !.used = n]
             IN  y \in Link /\ y.user = x.user /\ y.kind = x.kind /\ y.used = n /\ y.consumed
  BY <1>1, Zenon DEF Link
<1> QED BY <1>1, Zenon

-----------------------------------------------------------------------------
(* Types.                                                                  *)

LEMMA AccountsTyped ==
    ASSUME TypeOK, LinkInUse, [Next]_vars PROVE TypeOK'
<1>1. ASSUME NEW r \in Requests, NEW d \in Running \cup {Idle}, req' = [req EXCEPT ![r] = d],
             UNCHANGED <<orgs, consumed, users, links, sessions, bearer>>
      PROVE  TypeOK'
  BY <1>1, ReqSet DEF TypeOK
<1>i. Idle \in Running \cup {Idle}
  OBVIOUS
<1>2. ASSUME NEW r \in Requests, NEW s \in SetupTokens, NEW u \in Users, BeginBootstrap(r, s, u)
      PROVE  TypeOK'
  <2>1. [kind |-> "bootstrap", token |-> s, user |-> u] \in Running
    BY DEF Running
  <2> QED BY <1>1, <1>2, <2>1 DEF BeginBootstrap
<1>3. ASSUME NEW r \in Requests, CommitBootstrap(r) PROVE TypeOK'
  <2>1. req[r].token \in SetupTokens /\ req[r].user \in Users
    BY <1>3, ReqFields DEF CommitBootstrap
  <2>2. [status |-> "active", role |-> "admin", pw |-> 1] \in User
    BY AccountsAssumption DEF User, Roles
  <2>3. req' \in [Requests -> Running \cup {Idle}]
    BY <1>3, ReqSet DEF CommitBootstrap
  <2> QED BY <1>3, <2>1, <2>2, <2>3 DEF CommitBootstrap, TypeOK
<1>4. ASSUME NEW r \in Requests, NEW l \in DOMAIN links, BeginLink(r, l) PROVE TypeOK'
  <2>1. l \in Nat
    BY DEF TypeOK
  <2>2. [kind |-> "link", link |-> l] \in Running
    BY <2>1 DEF Running
  <2> QED BY <1>1, <1>4, <2>2 DEF BeginLink
<1>p. ASSUME NEW u \in Users, SetPassword(u) PROVE users' \in [Users -> User]
  <2>1. users[u] \in User /\ users[u].pw < MaxPasswords
    BY <1>p DEF TypeOK, SetPassword
  <2>2. [users[u] EXCEPT !.pw = users[u].pw + 1] \in User
    BY <2>1, AccountsAssumption DEF User
  <2>3. users' = [users EXCEPT ![u] = [users[u] EXCEPT !.pw = users[u].pw + 1]]
    BY <1>p DEF SetPassword
  <2> QED BY <2>2, <2>3 DEF TypeOK
<1>5. ASSUME NEW r \in Requests, CommitLink(r) PROVE TypeOK'
  <2>1. PICK l \in DOMAIN links : l = req[r].link
    BY <1>5 DEF CommitLink, LinkInUse
  <2>2. links[l] \in Link /\ links[l].user \in Users /\ links[l].used + 1 \in Nat
    <3>1. links[l] \in Link
      BY DEF TypeOK
    <3> QED BY <3>1, LinkFields
  <2>3. users' \in [Users -> User]
    BY <1>5, <1>p, <2>1, <2>2 DEF CommitLink
  <2>4. links' = [links EXCEPT ![l] = [links[l] EXCEPT !.consumed = TRUE, !.used = links[l].used + 1]]
    BY <1>5, <2>1 DEF CommitLink, ConsumeLink
  <2>5. [links[l] EXCEPT !.consumed = TRUE, !.used = links[l].used + 1] \in Link
    BY <2>2, LinkUsed
  <2>6. links' \in Seq(Link)
    BY <2>4, <2>5, ExceptSeq DEF TypeOK
  <2>7. req' \in [Requests -> Running \cup {Idle}]
    BY <1>5, ReqSet DEF CommitLink
  <2> QED BY <1>5, <2>3, <2>6, <2>7 DEF CommitLink, TypeOK
<1>6. ASSUME NEW r \in Requests, NEW u \in Users, BeginMint(r, u) PROVE TypeOK'
  <2>1. [kind |-> "mint", stage |-> "checked", user |-> u] \in Running
    BY DEF Running
  <2> QED BY <1>1, <1>6, <2>1 DEF BeginMint
<1>7. ASSUME NEW r \in Requests, NEW u \in Users, BeginChange(r, u) PROVE TypeOK'
  <2>1. [kind |-> "change", user |-> u] \in Running
    BY DEF Running
  <2> QED BY <1>1, <1>7, <2>1 DEF BeginChange
<1>8. ASSUME NEW r \in Requests, NEW u \in Users, BeginLogin(r, u) PROVE TypeOK'
  <2>1. users[u].role \in Roles /\ RolesOf(u) \subseteq Roles
    BY DEF TypeOK, User, RolesOf
  <2>2. [kind |-> "login", stage |-> "issue", user |-> u,
         role |-> users[u].role, roles |-> RolesOf(u)] \in Running
    BY <2>1 DEF Running
  <2> QED BY <1>1, <1>8, <2>2 DEF BeginLogin
<1>9. ASSUME NEW r \in Requests, InvalidatePrior(r) PROVE TypeOK'
  <2>1. req[r].user \in Users
    BY <1>9, ReqFields DEF InvalidatePrior
  <2>2. Outstanding(req[r].user) \subseteq Nat
    BY DEF Outstanding, TypeOK
  <2>3. [kind |-> "mint", stage |-> "tx", user |-> req[r].user,
         prior |-> Outstanding(req[r].user)] \in Running
    BY <2>1, <2>2 DEF Running
  <2> QED BY <1>1, <1>9, <2>3 DEF InvalidatePrior
<1>10. ASSUME NEW r \in Requests, CommitMint(r) PROVE TypeOK'
  <2>1. req[r].user \in Users
    BY <1>10, ReqFields DEF CommitMint
  <2> DEFINE old == [l \in DOMAIN links |->
                        IF l \in req[r].prior THEN [links[l] EXCEPT !.consumed = TRUE]
                                              ELSE links[l]]
             new == [user |-> req[r].user, kind |-> "reset", consumed |-> FALSE, used |-> 0]
  <2>2. new \in Link
    BY <2>1 DEF Link
  <2>3. \A l \in DOMAIN links : [links[l] EXCEPT !.consumed = TRUE] \in Link /\ links[l] \in Link
    <3>1. \A l \in DOMAIN links : links[l] \in Link
      BY DEF TypeOK
    <3> QED BY <3>1, LinkSpent
  <2>4. PICK n \in Nat : DOMAIN links = 1..n
    BY DEF TypeOK
  <2>5. old \in [1..n -> Link]
    BY <2>3, <2>4
  <2>6. old \in Seq(Link)
    BY <2>5, SeqDef
  <2>7. links' = Append(old, new)
    BY <1>10 DEF CommitMint
  <2>8. links' \in Seq(Link)
    <3> HIDE DEF old, new
    <3> QED BY <2>2, <2>6, <2>7
  <2>9. req' \in [Requests -> Running \cup {Idle}]
    BY <1>10, ReqSet DEF CommitMint
  <2> QED BY <1>10, <2>8, <2>9 DEF CommitMint, TypeOK
<1>11. ASSUME NEW r \in Requests, FinishChange(r) PROVE TypeOK'
  <2>1. req[r].user \in Users
    BY <1>11, ReqFields DEF FinishChange
  <2>2. users' \in [Users -> User]
    BY <1>11, <1>p, <2>1 DEF FinishChange, TypeOK
  <2>3. req' \in [Requests -> Running \cup {Idle}]
    BY <1>11, ReqSet DEF FinishChange
  <2> QED BY <1>11, <2>2, <2>3 DEF FinishChange, TypeOK
<1>12. ASSUME NEW r \in Requests, NEW t \in RefreshTokens, BeginRefresh(r, t) PROVE TypeOK'
  <2>1. sessions[t] \in Users /\ RolesOf(sessions[t]) \subseteq Roles
    BY <1>12 DEF BeginRefresh, GetRefreshToken, TypeOK, User, RolesOf
  <2>2. [kind |-> "refresh", stage |-> "user", user |-> sessions[t], session |-> t,
         roles |-> RolesOf(sessions[t])] \in Running
    BY <2>1 DEF Running
  <2> QED BY <1>1, <1>12, <2>2 DEF BeginRefresh
<1>13. ASSUME NEW r \in Requests, ReadUser(r) PROVE TypeOK'
  <2>1. /\ req[r].user \in Users /\ req[r].session \in RefreshTokens /\ req[r].roles \subseteq Roles
        /\ users[req[r].user].role \in Roles
    BY <1>13, ReqFields DEF ReadUser, TypeOK, User
  <2>2. WithRole(req[r], users[req[r].user].role) \in Running
    BY <2>1 DEF Running, WithRole
  <2> QED BY <1>1, <1>13, <2>2 DEF ReadUser
<1>14. ASSUME NEW r \in Requests, NEW ok \in BOOLEAN
       PROVE  Rotated(r, ok) \in [RefreshTokens -> Users \cup {None}]
  BY ReqFields DEF Rotated, TypeOK
<1>15. ASSUME NEW r \in Requests, NEW t \in RefreshTokens, NEW ok \in BOOLEAN, Issue(r, t, ok)
       PROVE  TypeOK'
  <2>1. req[r].user \in Users
    BY <1>15, ReqFields DEF Issue
  <2>2. sessions' \in [RefreshTokens -> Users \cup {None}]
    BY <1>14, <1>15, <2>1 DEF Issue
  <2>3. bearer' \subseteq Users
    BY <1>15, <2>1 DEF Issue, IssueAccessToken, TypeOK
  <2>4. req' \in [Requests -> Running \cup {Idle}]
    BY <1>15, ReqSet DEF Issue
  <2> QED BY <1>15, <2>2, <2>3, <2>4 DEF Issue, TypeOK
<1>16. ASSUME NEW r \in Requests, IssueFails(r) PROVE TypeOK'
  <2>1. req' \in [Requests -> Running \cup {Idle}]
    BY <1>16, ReqSet DEF IssueFails
  <2> QED BY <1>14, <1>16, <2>1 DEF IssueFails, TypeOK
<1>17. ASSUME NEW r \in Requests, Fail(r) PROVE TypeOK'
  BY <1>1, <1>17, <1>i DEF Fail
<1>18. ASSUME NEW u \in Users, NEW role \in Roles, InviteUser(u, role) PROVE TypeOK'
  <2>1. [status |-> "active", role |-> role, pw |-> 0] \in User
    BY AccountsAssumption DEF User
  <2>2. [user |-> u, kind |-> "invite", consumed |-> FALSE, used |-> 0] \in Link
    BY DEF Link
  <2>3. links' \in Seq(Link)
    BY <1>18, <2>2 DEF InviteUser, TypeOK
  <2> QED BY <1>18, <2>1, <2>3 DEF InviteUser, TypeOK
<1>19. ASSUME NEW u \in Users, NEW role \in Roles, UpdateUserRole(u, role) PROVE TypeOK'
  <2>1. [users[u] EXCEPT !.role = role] \in User
    BY DEF TypeOK, User
  <2>2. req' \in [Requests -> Running \cup {Idle}]
    BY <1>19, NotedFacts DEF UpdateUserRole
  <2> QED BY <1>19, <2>1, <2>2 DEF UpdateUserRole, TypeOK
<1>20. ASSUME NEW u \in Users, DeleteUser(u) PROVE TypeOK'
  <2>1. [users[u] EXCEPT !.status = "deleted"] \in User
    BY DEF TypeOK, User
  <2> QED BY <1>20, <2>1 DEF DeleteUser, TypeOK
<1>21. CASE UNCHANGED vars
  BY <1>21 DEF vars, TypeOK
<1> QED BY <1>2, <1>3, <1>4, <1>5, <1>6, <1>7, <1>8, <1>9, <1>10, <1>11, <1>12, <1>13, <1>15,
           <1>16, <1>17, <1>18, <1>19, <1>20, <1>21 DEF Next

-----------------------------------------------------------------------------
(* The setup.                                                              *)

\* After the setup nothing but a request of the wizard could disturb SetupInv.
LEMMA AfterSetup ==
    ASSUME TypeOK, SetupInv, orgs # 0, UNCHANGED <<orgs, consumed>>,
           \A q \in Requests : req'[q].kind # "bootstrap"
    PROVE  SetupInv'
BY DEF SetupInv

LEMMA NobodyYet ==
    ASSUME TypeOK, SetupInv
    PROVE  /\ \A u \in Users : Found(u) \/ Present(u) => orgs # 0
           /\ Authorised => orgs # 0
           /\ \A r \in Requests : req[r].kind \notin {"idle", "bootstrap"} => orgs # 0
           /\ \A t \in RefreshTokens : sessions[t] # None => orgs # 0
           /\ orgs # 0 => \A r \in Requests : req[r].kind # "bootstrap"
BY DEF SetupInv, TypeOK, Found, Present, Authorised, MayAdminister

LEMMA SetupStep ==
    ASSUME TypeOK, SetupInv, [Next]_vars PROVE SetupInv'
<1>1. ASSUME NEW r \in Requests, NEW d, d.kind # "bootstrap", req' = [req EXCEPT ![r] = d],
             orgs # 0, UNCHANGED <<orgs, consumed>>
      PROVE  SetupInv'
  BY <1>1, ReqSet, NobodyYet, AfterSetup
<1>i. Idle.kind = "idle"
  BY DEF Idle
<1>2. ASSUME NEW r \in Requests, NEW s \in SetupTokens, NEW u \in Users, BeginBootstrap(r, s, u)
      PROVE  SetupInv'
  <2>1. orgs = 0 /\ \A q \in Requests : req[q].kind # "bootstrap"
    BY <1>2 DEF BeginBootstrap, SetupLockFree, SetupTokenGood
  <2>2. /\ \A q \in Requests : q # r => req'[q] = req[q]
        /\ req'[r].kind = "bootstrap"
    <3>1. PICK d : d.kind = "bootstrap" /\ req' = [req EXCEPT ![r] = d]
      BY <1>2 DEF BeginBootstrap
    <3> QED BY <3>1, ReqSet
  <2>3. UNCHANGED <<orgs, consumed, users, sessions, bearer>>
    BY <1>2 DEF BeginBootstrap
  <2> QED BY <2>1, <2>2, <2>3 DEF SetupInv, Present
<1>3. ASSUME NEW r \in Requests, CommitBootstrap(r) PROVE SetupInv'
  <2>1. orgs = 0 /\ consumed = {} /\ req[r].token \in SetupTokens
    BY <1>3, ReqFields DEF CommitBootstrap, SetupInv
  <2>2. orgs' = 1 /\ consumed' = {req[r].token}
    BY <1>3, <2>1 DEF CommitBootstrap
  <2>3. Cardinality(consumed') = 1
    BY <2>2, FS_Singleton
  <2>4. \A q \in Requests : req'[q].kind # "bootstrap"
    BY <1>3, <1>i, ReqSet DEF CommitBootstrap, SetupInv
  <2> QED BY <2>2, <2>3, <2>4 DEF SetupInv
<1>4. ASSUME NEW r \in Requests, Fail(r) PROVE SetupInv'
  <2>1. req'[r].kind = "idle" /\ \A q \in Requests : q # r => req'[q] = req[q]
    BY <1>4, <1>i, ReqSet DEF Fail
  <2>2. UNCHANGED <<orgs, consumed, users, sessions, bearer>>
    BY <1>4 DEF Fail
  <2> QED BY <2>1, <2>2 DEF SetupInv, Present
<1>5. ASSUME NEW r \in Requests, NEW l \in DOMAIN links, BeginLink(r, l) PROVE SetupInv'
  <2>1. links[l].user \in Users
    BY LinkFields DEF TypeOK
  <2> QED BY <1>1, <1>5, <2>1, NobodyYet DEF BeginLink, InviteGood, ResetGood
<1>6. ASSUME NEW r \in Requests, CommitLink(r) PROVE SetupInv'
  BY <1>1, <1>i, <1>6, NobodyYet DEF CommitLink
<1>7. ASSUME NEW r \in Requests, NEW u \in Users, BeginMint(r, u) PROVE SetupInv'
  BY <1>1, <1>7, NobodyYet DEF BeginMint
<1>8. ASSUME NEW r \in Requests, NEW u \in Users, BeginChange(r, u) PROVE SetupInv'
  BY <1>1, <1>8, NobodyYet DEF BeginChange
<1>9. ASSUME NEW r \in Requests, NEW u \in Users, BeginLogin(r, u) PROVE SetupInv'
  BY <1>1, <1>9, NobodyYet DEF BeginLogin
<1>10. ASSUME NEW r \in Requests, InvalidatePrior(r) PROVE SetupInv'
  BY <1>1, <1>10, NobodyYet DEF InvalidatePrior
<1>11. ASSUME NEW r \in Requests, CommitMint(r) PROVE SetupInv'
  BY <1>1, <1>i, <1>11, NobodyYet DEF CommitMint
<1>12. ASSUME NEW r \in Requests, FinishChange(r) PROVE SetupInv'
  BY <1>1, <1>i, <1>12, NobodyYet DEF FinishChange
<1>13. ASSUME NEW r \in Requests, NEW t \in RefreshTokens, BeginRefresh(r, t) PROVE SetupInv'
  BY <1>1, <1>13, NobodyYet DEF BeginRefresh, GetRefreshToken
<1>14. ASSUME NEW r \in Requests, ReadUser(r) PROVE SetupInv'
  BY <1>1, <1>14, NobodyYet DEF ReadUser, WithRole
<1>15. ASSUME NEW r \in Requests, NEW t \in RefreshTokens, NEW ok \in BOOLEAN, Issue(r, t, ok)
       PROVE  SetupInv'
  BY <1>1, <1>i, <1>15, NobodyYet DEF Issue
<1>16. ASSUME NEW r \in Requests, IssueFails(r) PROVE SetupInv'
  BY <1>1, <1>i, <1>16, NobodyYet DEF IssueFails
<1>17. ASSUME NEW u \in Users, NEW role \in Roles, InviteUser(u, role) PROVE SetupInv'
  BY <1>17, NobodyYet, AfterSetup DEF InviteUser
<1>18. ASSUME NEW u \in Users, NEW role \in Roles, UpdateUserRole(u, role) PROVE SetupInv'
  <2>1. \A q \in Requests : req'[q].kind = req[q].kind
    BY <1>18, NotedFacts DEF UpdateUserRole
  <2> QED BY <1>18, <2>1, NobodyYet, AfterSetup DEF UpdateUserRole
<1>19. ASSUME NEW u \in Users, DeleteUser(u) PROVE SetupInv'
  BY <1>19, NobodyYet, AfterSetup DEF DeleteUser
<1>20. CASE UNCHANGED vars
  BY <1>20 DEF vars, SetupInv, Present
<1> QED BY <1>2, <1>3, <1>4, <1>5, <1>6, <1>7, <1>8, <1>9, <1>10, <1>11, <1>12, <1>13, <1>14,
           <1>15, <1>16, <1>17, <1>18, <1>19, <1>20 DEF Next

-----------------------------------------------------------------------------
(* Links.                                                                  *)

\* The account of a link in use and what is known of the link.
LEMMA UsingLink ==
    ASSUME TypeOK, LinkInUse, NEW r \in Requests, req[r].kind = "link"
    PROVE  /\ req[r].link \in DOMAIN links /\ links[req[r].link] \in Link
           /\ links[req[r].link].user \in Users /\ Found(links[req[r].link].user)
           /\ ~links[req[r].link].consumed
<1>1. req[r].link \in DOMAIN links /\ ~links[req[r].link].consumed /\ Found(links[req[r].link].user)
  BY DEF LinkInUse
<1>2. links[req[r].link] \in Link
  BY <1>1 DEF TypeOK
<1> QED BY <1>1, <1>2, LinkFields

\* Links in use stay so when links and rows of users in use are left alone.
LEMMA LinkInUseKept ==
    ASSUME TypeOK, LinkInUse,
           \A q \in Requests : req'[q].kind = "link" =>
              /\ req[q].kind = "link" /\ req'[q].link = req[q].link
              /\ req[q].link \in DOMAIN links' /\ links'[req[q].link] = links[req[q].link]
              /\ users'[links[req[q].link].user].status = "active"
    PROVE  LinkInUse'
BY DEF LinkInUse, Found

\* What InviteUser and CommitMint do to the links.
LEMMA InvitedLinks ==
    ASSUME TypeOK, NEW u \in Users, NEW role \in Roles, InviteUser(u, role)
    PROVE  /\ Len(links) \in Nat /\ DOMAIN links = 1..Len(links)
           /\ DOMAIN links' = 1..(Len(links) + 1)
           /\ DOMAIN links \subseteq DOMAIN links'
           /\ \A l \in DOMAIN links : links'[l] = links[l]
           /\ links'[Len(links) + 1].kind = "invite" /\ links'[Len(links) + 1].used = 0
<1> DEFINE new == [user |-> u, kind |-> "invite", consumed |-> FALSE, used |-> 0]
<1>1. links \in Seq(Link) /\ links' = Append(links, new)
  BY DEF TypeOK, InviteUser
<1>2. new.kind = "invite" /\ new.used = 0
  OBVIOUS
<1>3. new \in Link
  BY DEF Link
<1> HIDE DEF new
<1> QED BY <1>1, <1>2, <1>3

LEMMA MintedLinks ==
    ASSUME TypeOK, NEW r \in Requests, CommitMint(r)
    PROVE  /\ Len(links) \in Nat /\ DOMAIN links = 1..Len(links)
           /\ DOMAIN links' = 1..(Len(links) + 1)
           /\ DOMAIN links \subseteq DOMAIN links'
           /\ \A l \in DOMAIN links : l \notin req[r].prior => links'[l] = links[l]
           /\ \A l \in DOMAIN links :
                 /\ links'[l].user = links[l].user /\ links'[l].kind = links[l].kind
                 /\ links'[l].used = links[l].used
                 /\ l \in req[r].prior => links'[l].consumed
           /\ links'[Len(links) + 1].user = req[r].user /\ links'[Len(links) + 1].used = 0
           /\ ~links'[Len(links) + 1].consumed
<1> DEFINE old == [l \in DOMAIN links |->
                      IF l \in req[r].prior THEN [links[l] EXCEPT !.consumed = TRUE]
                                            ELSE links[l]]
           new == [user |-> req[r].user, kind |-> "reset", consumed |-> FALSE, used |-> 0]
<1>1. /\ req[r].user \in Users /\ links \in Seq(Link) /\ Len(links) \in Nat
      /\ DOMAIN links = 1..Len(links) /\ links' = Append(old, new)
  BY ReqFields DEF CommitMint, TypeOK
<1>2. new \in Link
  BY <1>1 DEF Link
<1>3. \A l \in DOMAIN links : links[l] \in Link
  BY <1>1
<1>4. ASSUME NEW l \in DOMAIN links
      PROVE  /\ old[l] \in Link /\ old[l].user = links[l].user /\ old[l].kind = links[l].kind
             /\ old[l].used = links[l].used
             /\ l \in req[r].prior => old[l].consumed
             /\ l \notin req[r].prior => old[l] = links[l]
  <2>1. CASE l \in req[r].prior
    <3>1. old[l] = [links[l] EXCEPT !.consumed = TRUE] /\ links[l] \in Link
      BY <1>3, <2>1
    <3> HIDE DEF old
    <3> QED BY <2>1, <3>1, LinkSpent, Zenon
  <2>2. CASE l \notin req[r].prior
    BY <1>3, <2>2
  <2> QED BY <2>1, <2>2
<1>5. new.user = req[r].user /\ new.used = 0 /\ ~new.consumed
  OBVIOUS
<1>6. DOMAIN old = DOMAIN links
  OBVIOUS
<1> HIDE DEF old, new
<1>7. old \in [1..Len(links) -> Link]
  <2>1. old = [l \in DOMAIN links |-> old[l]]
    BY DEF old
  <2> QED BY <1>1, <1>4, <2>1
<1>8. old \in Seq(Link)
  BY <1>1, <1>7, SeqDef
<1>9. Len(old) = Len(links)
  BY <1>1, <1>6, <1>8, LenProperties
<1>10. /\ DOMAIN links' = 1..(Len(links) + 1)
       /\ \A l \in 1..Len(links) : links'[l] = old[l]
       /\ links'[Len(links) + 1] = new
  BY <1>1, <1>2, <1>8, <1>9
<1>11. DOMAIN links \subseteq DOMAIN links'
  BY <1>1, <1>10
<1> QED BY <1>1, <1>4, <1>5, <1>10, <1>11

LEMMA LinkInUseStep ==
    ASSUME TypeOK, LinkInUse, MintInv, [Next]_vars PROVE LinkInUse'
<1>a. ASSUME NEW q \in Requests, req[q].kind = "link"
      PROVE  /\ req[q].link \in DOMAIN links /\ links[req[q].link].user \in Users
             /\ users[links[req[q].link].user].status = "active"
  BY <1>a, UsingLink DEF Found
<1>1. ASSUME NEW r \in Requests, NEW d, d.kind # "link", req' = [req EXCEPT ![r] = d],
             UNCHANGED <<users, links>>
      PROVE  LinkInUse'
  BY <1>a, <1>1, ReqSet, LinkInUseKept
<1>i. Idle.kind = "idle"
  BY DEF Idle
<1>2. ASSUME NEW r \in Requests, NEW s \in SetupTokens, NEW u \in Users, BeginBootstrap(r, s, u)
      PROVE  LinkInUse'
  BY <1>1, <1>2 DEF BeginBootstrap
<1>u. ASSUME NEW r \in Requests, NEW d, d.kind # "link", req' = [req EXCEPT ![r] = d],
             UNCHANGED links, NEW u \in Users, NEW w, users' = [users EXCEPT ![u] = w],
             w.status = "active" \/ ~Found(u)
      PROVE  LinkInUse'
  <2>1. \A v \in Users : users[v].status = "active" => users'[v].status = "active"
    BY <1>u DEF TypeOK, Found
  <2> QED BY <1>a, <1>u, <2>1, ReqSet, LinkInUseKept
<1>3. ASSUME NEW r \in Requests, CommitBootstrap(r) PROVE LinkInUse'
  <2>1. req[r].user \in Users
    BY <1>3, ReqFields DEF CommitBootstrap
  <2> QED BY <1>3, <1>i, <1>u, <2>1 DEF CommitBootstrap
<1>4. ASSUME NEW r \in Requests, NEW l \in DOMAIN links, BeginLink(r, l) PROVE LinkInUse'
  <2>1. /\ req'[r].kind = "link" /\ req'[r].link = l
        /\ \A q \in Requests : q # r => req'[q] = req[q]
    <3>1. PICK d : d.kind = "link" /\ d.link = l /\ req' = [req EXCEPT ![r] = d]
      BY <1>4 DEF BeginLink
    <3> QED BY <3>1, ReqSet
  <2>2. Found(links[l].user) /\ ~links[l].consumed /\ UNCHANGED <<users, links>>
    BY <1>4 DEF BeginLink, InviteGood, ResetGood
  <2>3. \A q \in Requests : req[q].kind = "link" => links[req[q].link].user # links[l].user
    BY <1>4 DEF BeginLink, RowLocked
  <2> QED BY <2>1, <2>2, <2>3 DEF LinkInUse, Found
<1>p. ASSUME NEW u \in Users, SetPassword(u)
      PROVE  \A v \in Users : users'[v].status = users[v].status
  BY <1>p DEF SetPassword, TypeOK, User
<1>5. ASSUME NEW r \in Requests, CommitLink(r) PROVE LinkInUse'
  <2>1. PICK l : l = req[r].link
    OBVIOUS
  <2>2. l \in DOMAIN links /\ links[l] \in Link /\ links[l].user \in Users
    BY <1>5, <2>1, UsingLink DEF CommitLink
  <2>3. \A v \in Users : users'[v].status = users[v].status
    BY <1>5, <1>p, <2>1, <2>2 DEF CommitLink
  <2>4. req'[r].kind # "link" /\ \A q \in Requests : q # r => req'[q] = req[q]
    BY <1>5, <1>i, ReqSet DEF CommitLink
  <2>5. DOMAIN links' = DOMAIN links /\ \A k \in DOMAIN links : k # l => links'[k] = links[k]
    BY <1>5, <2>1 DEF CommitLink, ConsumeLink
  <2>6. \A q \in Requests : req[q].kind = "link" /\ q # r => req[q].link # l
    BY <1>5, <2>1 DEF LinkInUse, CommitLink
  <2> QED BY <1>a, <2>3, <2>4, <2>5, <2>6, LinkInUseKept
<1>6. ASSUME NEW r \in Requests, NEW u \in Users, BeginMint(r, u) PROVE LinkInUse'
  BY <1>1, <1>6 DEF BeginMint
<1>7. ASSUME NEW r \in Requests, NEW u \in Users, BeginChange(r, u) PROVE LinkInUse'
  BY <1>1, <1>7 DEF BeginChange
<1>8. ASSUME NEW r \in Requests, NEW u \in Users, BeginLogin(r, u) PROVE LinkInUse'
  BY <1>1, <1>8 DEF BeginLogin
<1>9. ASSUME NEW r \in Requests, InvalidatePrior(r) PROVE LinkInUse'
  BY <1>1, <1>9 DEF InvalidatePrior
<1>10. ASSUME NEW r \in Requests, CommitMint(r) PROVE LinkInUse'
  <2>1. /\ DOMAIN links \subseteq DOMAIN links'
        /\ \A l \in DOMAIN links : l \notin req[r].prior => links'[l] = links[l]
    BY <1>10, MintedLinks
  <2>2. \A q \in Requests : req[q].kind = "link" => req[q].link \notin req[r].prior
    BY <1>10 DEF CommitMint, MintInv, Minting
  <2>3. req'[r].kind # "link" /\ \A q \in Requests : q # r => req'[q] = req[q]
    BY <1>10, <1>i, ReqSet DEF CommitMint
  <2>4. UNCHANGED users
    BY <1>10 DEF CommitMint
  <2> QED BY <1>a, <2>1, <2>2, <2>3, <2>4, LinkInUseKept
<1>11. ASSUME NEW r \in Requests, FinishChange(r) PROVE LinkInUse'
  <2>1. \A v \in Users : users'[v].status = users[v].status
    BY <1>11, <1>p, ReqFields DEF FinishChange
  <2>2. req'[r].kind # "link" /\ \A q \in Requests : q # r => req'[q] = req[q]
    BY <1>11, <1>i, ReqSet DEF FinishChange
  <2>3. UNCHANGED links
    BY <1>11 DEF FinishChange
  <2> QED BY <1>a, <2>1, <2>2, <2>3, LinkInUseKept
<1>12. ASSUME NEW r \in Requests, NEW t \in RefreshTokens, BeginRefresh(r, t) PROVE LinkInUse'
  BY <1>1, <1>12 DEF BeginRefresh
<1>13. ASSUME NEW r \in Requests, ReadUser(r) PROVE LinkInUse'
  BY <1>1, <1>13 DEF ReadUser, WithRole
<1>14. ASSUME NEW r \in Requests, NEW t \in RefreshTokens, NEW ok \in BOOLEAN, Issue(r, t, ok)
       PROVE  LinkInUse'
  BY <1>1, <1>i, <1>14 DEF Issue
<1>15. ASSUME NEW r \in Requests, IssueFails(r) PROVE LinkInUse'
  BY <1>1, <1>i, <1>15 DEF IssueFails
<1>16. ASSUME NEW r \in Requests, Fail(r) PROVE LinkInUse'
  BY <1>1, <1>i, <1>16 DEF Fail
<1>17. ASSUME NEW u \in Users, NEW role \in Roles, InviteUser(u, role) PROVE LinkInUse'
  <2>1. /\ DOMAIN links \subseteq DOMAIN links' /\ \A l \in DOMAIN links : links'[l] = links[l]
    BY <1>17, InvitedLinks
  <2>2. \A v \in Users : users[v].status = "active" => users'[v].status = "active"
    BY <1>17 DEF InviteUser, TypeOK
  <2>3. UNCHANGED req
    BY <1>17 DEF InviteUser
  <2> QED BY <1>a, <2>1, <2>2, <2>3, LinkInUseKept
<1>18. ASSUME NEW u \in Users, NEW role \in Roles, UpdateUserRole(u, role) PROVE LinkInUse'
  <2>1. \A q \in Requests : req'[q].kind = "link" => req'[q] = req[q]
    BY <1>18, NotedFacts DEF UpdateUserRole
  <2>2. \A v \in Users : users'[v].status = users[v].status
    BY <1>18 DEF UpdateUserRole, TypeOK, User
  <2>3. UNCHANGED links
    BY <1>18 DEF UpdateUserRole
  <2> QED BY <1>a, <2>1, <2>2, <2>3, LinkInUseKept
<1>19. ASSUME NEW u \in Users, DeleteUser(u) PROVE LinkInUse'
  <2>1. \A q \in Requests : req[q].kind = "link" => links[req[q].link].user # u
    BY <1>19 DEF DeleteUser, RowLocked
  <2>2. \A v \in Users : v # u => users'[v] = users[v]
    BY <1>19 DEF DeleteUser, TypeOK
  <2>3. UNCHANGED <<links, req>>
    BY <1>19 DEF DeleteUser
  <2> QED BY <1>a, <2>1, <2>2, <2>3, LinkInUseKept
<1>20. CASE UNCHANGED vars
  BY <1>20 DEF vars, LinkInUse, Found
<1> QED BY <1>2, <1>3, <1>4, <1>5, <1>6, <1>7, <1>8, <1>9, <1>10, <1>11, <1>12, <1>13, <1>14,
           <1>15, <1>16, <1>17, <1>18, <1>19, <1>20 DEF Next

\* Only an invite, the use of a link and a new reset link change the links.
LEMMA LinkChanges ==
    ASSUME [Next]_vars
    PROVE  \/ UNCHANGED links
           \/ \E u \in Users, role \in Roles : InviteUser(u, role)
           \/ \E r \in Requests : CommitLink(r) \/ CommitMint(r)
BY DEF Next, vars, BeginBootstrap, CommitBootstrap, BeginLink, BeginMint, BeginChange, BeginLogin,
       InvalidatePrior, FinishChange, BeginRefresh, ReadUser, Issue, IssueFails, Fail,
       UpdateUserRole, DeleteUser

\* The use of a link: that link alone changes.
LEMMA UsedLinks ==
    ASSUME TypeOK, LinkInUse, NEW r \in Requests, CommitLink(r)
    PROVE  \E l \in DOMAIN links :
              /\ l = req[r].link /\ ~links[l].consumed
              /\ links[l].user \in Users /\ Found(links[l].user) /\ links[l].used \in Nat
              /\ DOMAIN links' = DOMAIN links
              /\ \A k \in DOMAIN links : k # l => links'[k] = links[k]
              /\ links'[l].user = links[l].user /\ links'[l].kind = links[l].kind
              /\ links'[l].used = links[l].used + 1 /\ links'[l].consumed
<1>1. PICK l : l = req[r].link
  OBVIOUS
<1>2. /\ l \in DOMAIN links /\ links[l] \in Link /\ links[l].user \in Users
      /\ Found(links[l].user) /\ ~links[l].consumed
  BY <1>1, UsingLink DEF CommitLink
<1>3. links[l].used \in Nat
  BY <1>2, LinkFields
<1>4. links' = [links EXCEPT ![l] = [links[l] EXCEPT !.consumed = TRUE, !.used = links[l].used + 1]]
  BY <1>1, <1>2 DEF CommitLink, ConsumeLink
<1>5. /\ DOMAIN links' = DOMAIN links
      /\ \A k \in DOMAIN links : k # l => links'[k] = links[k]
      /\ links'[l] = [links[l] EXCEPT !.consumed = TRUE, !.used = links[l].used + 1]
  BY <1>2, <1>4
<1>6. links[l].used + 1 \in Nat
  BY <1>3
<1>7. /\ links'[l].user = links[l].user /\ links'[l].kind = links[l].kind
      /\ links'[l].used = links[l].used + 1 /\ links'[l].consumed
  <2>1. PICK x \in Link, n \in Nat : x = links[l] /\ n = links[l].used + 1
    BY <1>2, <1>6
  <2>2. LET y == [x EXCEPT !.consumed = TRUE, !.used = n]
        IN  y.user = x.user /\ y.kind = x.kind /\ y.used = n /\ y.consumed
    BY LinkUsed, Zenon
  <2>3. links'[l] = [x EXCEPT !.consumed = TRUE, !.used = n]
    BY <1>5, <2>1
  <2> QED BY <2>1, <2>2, <2>3, Zenon
<1> QED BY <1>1, <1>2, <1>3, <1>5, <1>7

LEMMA LinksStep ==
    ASSUME TypeOK, LinkInUse, MintInv, UseInv, OnlyTheLastLinkWorks, [Next]_vars
    PROVE  UseInv' /\ OnlyTheLastLinkWorks'
<1>0. Len(links) \in Nat /\ DOMAIN links = 1..Len(links)
  BY DEF TypeOK
<1>1. CASE UNCHANGED links
  BY <1>1 DEF UseInv, OnlyTheLastLinkWorks
<1>2. ASSUME NEW u \in Users, NEW role \in Roles, InviteUser(u, role)
      PROVE  UseInv' /\ OnlyTheLastLinkWorks'
  <2>1. /\ DOMAIN links' = 1..(Len(links) + 1) /\ \A l \in DOMAIN links : links'[l] = links[l]
        /\ links'[Len(links) + 1].kind = "invite" /\ links'[Len(links) + 1].used = 0
    BY <1>2, InvitedLinks
  <2>2. \A l \in DOMAIN links' : l \in DOMAIN links \/ l = Len(links) + 1
    BY <1>0, <2>1
  <2>3. UseInv'
    BY <2>1, <2>2 DEF UseInv
  <2>4. \A l \in DOMAIN links' : links'[l].used <= 1
    BY <2>3 DEF UseInv
  <2>5. ASSUME NEW k \in DOMAIN links', NEW l \in DOMAIN links', k < l,
               links'[k].user = links'[l].user, links'[k].kind = "reset", links'[l].kind = "reset"
        PROVE  links'[k].consumed
    BY <2>1, <2>2, <2>5 DEF OnlyTheLastLinkWorks
  <2> QED BY <2>3, <2>4, <2>5 DEF OnlyTheLastLinkWorks
<1>3. ASSUME NEW r \in Requests, CommitLink(r)
      PROVE  UseInv' /\ OnlyTheLastLinkWorks'
  <2>1. PICK l \in DOMAIN links :
              /\ l = req[r].link /\ ~links[l].consumed
              /\ links[l].user \in Users /\ Found(links[l].user) /\ links[l].used \in Nat
              /\ DOMAIN links' = DOMAIN links
              /\ \A k \in DOMAIN links : k # l => links'[k] = links[k]
              /\ links'[l].user = links[l].user /\ links'[l].kind = links[l].kind
              /\ links'[l].used = links[l].used + 1 /\ links'[l].consumed
    BY <1>3, UsedLinks
  <2>2. links'[l].used = 1
    BY <2>1 DEF UseInv
  <2>3. UseInv'
    BY <2>1, <2>2 DEF UseInv
  <2>4. \A k \in DOMAIN links' : links'[k].used <= 1
    BY <2>3 DEF UseInv
  <2>5. \A k \in DOMAIN links :
           links'[k].user = links[k].user /\ links'[k].kind = links[k].kind
             /\ (links[k].consumed => links'[k].consumed)
    BY <2>1
  <2> QED BY <2>1, <2>4, <2>5, <2>3 DEF OnlyTheLastLinkWorks
<1>4. ASSUME NEW r \in Requests, CommitMint(r)
      PROVE  UseInv' /\ OnlyTheLastLinkWorks'
  <2>1. PICK n \in Nat : n = Len(links)
    BY <1>0
  <2>2. PICK u \in Users : u = req[r].user
    BY <1>4, ReqFields DEF CommitMint
  <2>3. /\ DOMAIN links = 1..n /\ DOMAIN links' = 1..(n + 1)
        /\ \A l \in DOMAIN links : l \notin req[r].prior => links'[l] = links[l]
        /\ \A l \in DOMAIN links :
              /\ links'[l].user = links[l].user /\ links'[l].kind = links[l].kind
              /\ links'[l].used = links[l].used
              /\ l \in req[r].prior => links'[l].consumed
        /\ links'[n + 1].user = u /\ links'[n + 1].used = 0
        /\ ~links'[n + 1].consumed
    BY <1>4, <2>1, <2>2, MintedLinks
  <2>4. \A l \in DOMAIN links' : l \in DOMAIN links \/ l = n + 1
    BY <2>3
  <2>5. \A l \in DOMAIN links : links[l].consumed => links'[l].consumed
    BY <2>3
  <2>6. UseInv'
    BY <2>3, <2>4, <2>5 DEF UseInv
  <2>7. \A l \in DOMAIN links' : links'[l].used <= 1
    BY <2>6 DEF UseInv
  <2>8. \A k \in DOMAIN links : links[k].user = u /\ links[k].kind = "reset" => links'[k].consumed
    <3>1. Outstanding(u) \subseteq req[r].prior
      BY <1>4, <2>2 DEF CommitMint, MintInv, Minting
    <3> QED BY <2>3, <2>5, <3>1 DEF Outstanding
  <2>9. ASSUME NEW k \in DOMAIN links', NEW l \in DOMAIN links', k < l,
               links'[k].user = links'[l].user, links'[k].kind = "reset", links'[l].kind = "reset"
        PROVE  links'[k].consumed
    <3>1. k \in DOMAIN links
      BY <2>3, <2>9
    <3>2. CASE l \in DOMAIN links
      BY <2>3, <2>5, <2>9, <3>1, <3>2 DEF OnlyTheLastLinkWorks
    <3>3. CASE l = n + 1
      BY <2>3, <2>8, <2>9, <3>1, <3>3
    <3> QED BY <2>4, <3>2, <3>3
  <2> QED BY <2>6, <2>7, <2>9 DEF OnlyTheLastLinkWorks
<1> QED BY <1>1, <1>2, <1>3, <1>4, LinkChanges

-----------------------------------------------------------------------------
(* The transactions that make reset links.                                 *)

\* MintInv survives when no new transaction of either kind is there and no
\* account that is being minted for gets another good reset link.
LEMMA MintKept ==
    ASSUME TypeOK, MintInv,
           \A q \in Requests : Minting(q)' =>
              Minting(q) /\ req'[q].user = req[q].user /\ req'[q].prior = req[q].prior,
           \A q \in Requests : req'[q].kind = "link" =>
              req[q].kind = "link" /\ req'[q].link = req[q].link,
           \A q \in Requests, u \in Users : Minting(q)' /\ u = req[q].user =>
              Outstanding(u)' \subseteq Outstanding(u)
    PROVE  MintInv'
<1>1. ASSUME NEW q \in Requests, Minting(q)'
      PROVE  /\ Outstanding(req[q].user)' \subseteq req'[q].prior
             /\ \A p \in Requests : req'[p].kind = "link" => req'[p].link \notin req'[q].prior
  <2>1. Minting(q) /\ req'[q].user = req[q].user /\ req'[q].prior = req[q].prior
    BY <1>1
  <2>2. PICK u \in Users : u = req[q].user
    BY <2>1, ReqFields DEF Minting
  <2>3. Outstanding(u)' \subseteq Outstanding(u) /\ Outstanding(u) \subseteq req[q].prior
    BY <1>1, <2>1, <2>2 DEF MintInv
  <2>4. Outstanding(req[q].user)' = Outstanding(u)'
    BY <2>1, <2>2 DEF Outstanding
  <2> QED BY <2>1, <2>3, <2>4 DEF MintInv
<1> QED BY <1>1 DEF MintInv

LEMMA MintStep ==
    ASSUME TypeOK, LinkInUse, MintInv, [Next]_vars PROVE MintInv'
<1>o. ASSUME UNCHANGED links, NEW u \in Users PROVE Outstanding(u)' = Outstanding(u)
  BY <1>o DEF Outstanding
<1>1. ASSUME NEW r \in Requests, NEW d, d.kind # "link", d.kind = "mint" => d.stage # "tx",
             req' = [req EXCEPT ![r] = d], UNCHANGED links
      PROVE  MintInv'
  <2>1. req'[r] = d /\ \A q \in Requests : q # r => req'[q] = req[q]
    BY <1>1, ReqSet
  <2> QED BY <1>1, <1>o, <2>1, MintKept DEF Minting
<1>i. Idle.kind = "idle"
  BY DEF Idle
<1>2. ASSUME NEW r \in Requests, NEW s \in SetupTokens, NEW u \in Users, BeginBootstrap(r, s, u)
      PROVE  MintInv'
  BY <1>1, <1>2 DEF BeginBootstrap
<1>3. ASSUME NEW r \in Requests, CommitBootstrap(r) PROVE MintInv'
  BY <1>1, <1>3, <1>i DEF CommitBootstrap
<1>4. ASSUME NEW r \in Requests, NEW l \in DOMAIN links, BeginLink(r, l) PROVE MintInv'
  <2>1. PICK d : d.kind = "link" /\ d.link = l /\ req' = [req EXCEPT ![r] = d]
    BY <1>4 DEF BeginLink
  <2>2. req'[r] = d /\ \A q \in Requests : q # r => req'[q] = req[q]
    BY <2>1, ReqSet
  <2>3. \A q \in Requests : Minting(q) => l \notin req[q].prior
    BY <1>4 DEF BeginLink, LinkFree, Minting
  <2>4. \A q \in Requests : Minting(q)' => q # r
    BY <2>1, <2>2 DEF Minting
  <2>5. UNCHANGED links
    BY <1>4 DEF BeginLink
  <2> QED BY <2>1, <2>2, <2>3, <2>4, <2>5 DEF MintInv, Minting, Outstanding
<1>5. ASSUME NEW r \in Requests, CommitLink(r) PROVE MintInv'
  <2>1. PICK l \in DOMAIN links :
              /\ DOMAIN links' = DOMAIN links
              /\ \A k \in DOMAIN links : k # l => links'[k] = links[k]
              /\ links'[l].consumed
    BY <1>5, UsedLinks
  <2>2. \A u \in Users : Outstanding(u)' \subseteq Outstanding(u)
    BY <2>1 DEF Outstanding
  <2>3. req'[r] = Idle /\ \A q \in Requests : q # r => req'[q] = req[q]
    BY <1>5, ReqSet DEF CommitLink
  <2> QED BY <1>i, <2>2, <2>3, MintKept DEF Minting
<1>6. ASSUME NEW r \in Requests, NEW u \in Users, BeginMint(r, u) PROVE MintInv'
  <2>1. PICK d : d.kind = "mint" /\ d.stage = "checked" /\ req' = [req EXCEPT ![r] = d]
    BY <1>6 DEF BeginMint
  <2> QED BY <1>1, <1>6, <2>1 DEF BeginMint
<1>7. ASSUME NEW r \in Requests, NEW u \in Users, BeginChange(r, u) PROVE MintInv'
  BY <1>1, <1>7 DEF BeginChange
<1>8. ASSUME NEW r \in Requests, NEW u \in Users, BeginLogin(r, u) PROVE MintInv'
  BY <1>1, <1>8 DEF BeginLogin
<1>9. ASSUME NEW r \in Requests, InvalidatePrior(r) PROVE MintInv'
  <2>1. PICK u \in Users : u = req[r].user
    BY <1>9, ReqFields DEF InvalidatePrior
  <2>2. PICK d : /\ d.kind = "mint" /\ d.stage = "tx" /\ d.user = u /\ d.prior = Outstanding(u)
                 /\ req' = [req EXCEPT ![r] = d]
    BY <1>9, <2>1 DEF InvalidatePrior
  <2>3. req'[r] = d /\ \A q \in Requests : q # r => req'[q] = req[q]
    BY <2>2, ReqSet
  <2>4. \A q \in Requests : Minting(q) => req[q].user # u
    BY <1>9, <2>1 DEF InvalidatePrior, MintLockFree, Minting
  <2>5. \A l \in Outstanding(u), q \in Requests : req[q].kind = "link" => req[q].link # l
    BY <1>9, <2>1 DEF InvalidatePrior, LinkFree
  <2>6. UNCHANGED links
    BY <1>9 DEF InvalidatePrior
  <2>7. Outstanding(req[r].user)' = Outstanding(u)
    BY <2>2, <2>3, <2>6 DEF Outstanding
  <2>8. \A q \in Requests : q # r /\ Minting(q)' =>
           Minting(q) /\ Outstanding(req[q].user)' = Outstanding(req[q].user)
    BY <2>3, <2>6 DEF Outstanding, Minting
  <2> QED BY <2>2, <2>3, <2>4, <2>5, <2>7, <2>8 DEF MintInv, Minting
<1>10. ASSUME NEW r \in Requests, CommitMint(r) PROVE MintInv'
  <2>1. PICK n \in Nat : n = Len(links)
    BY DEF TypeOK
  <2>2. PICK w \in Users : w = req[r].user
    BY <1>10, ReqFields DEF CommitMint
  <2>3. /\ DOMAIN links = 1..n /\ DOMAIN links' = 1..(n + 1)
        /\ \A l \in DOMAIN links : l \notin req[r].prior => links'[l] = links[l]
        /\ \A l \in DOMAIN links : l \in req[r].prior => links'[l].consumed
        /\ links'[n + 1].user = w
    BY <1>10, <2>1, <2>2, MintedLinks
  <2>4. \A l \in DOMAIN links' : l \in DOMAIN links \/ l = n + 1
    BY <2>3
  <2>5. \A u \in Users : u # w => Outstanding(u)' \subseteq Outstanding(u)
    BY <2>3, <2>4 DEF Outstanding
  <2>6. req'[r] = Idle /\ \A q \in Requests : q # r => req'[q] = req[q]
    BY <1>10, ReqSet DEF CommitMint
  <2>7. \A q \in Requests : Minting(q)' => Minting(q) /\ req[q].user # w
    BY <1>10, <1>i, <2>2, <2>6 DEF CommitMint, MintInv, Minting
  <2> QED BY <1>i, <2>5, <2>6, <2>7, MintKept DEF Minting
<1>11. ASSUME NEW r \in Requests, FinishChange(r) PROVE MintInv'
  BY <1>1, <1>11, <1>i DEF FinishChange
<1>12. ASSUME NEW r \in Requests, NEW t \in RefreshTokens, BeginRefresh(r, t) PROVE MintInv'
  BY <1>1, <1>12 DEF BeginRefresh
<1>13. ASSUME NEW r \in Requests, ReadUser(r) PROVE MintInv'
  BY <1>1, <1>13 DEF ReadUser, WithRole
<1>14. ASSUME NEW r \in Requests, NEW t \in RefreshTokens, NEW ok \in BOOLEAN, Issue(r, t, ok)
       PROVE  MintInv'
  BY <1>1, <1>i, <1>14 DEF Issue
<1>15. ASSUME NEW r \in Requests, IssueFails(r) PROVE MintInv'
  BY <1>1, <1>i, <1>15 DEF IssueFails
<1>16. ASSUME NEW r \in Requests, Fail(r) PROVE MintInv'
  BY <1>1, <1>i, <1>16 DEF Fail
<1>17. ASSUME NEW u \in Users, NEW role \in Roles, InviteUser(u, role) PROVE MintInv'
  <2>1. /\ DOMAIN links = 1..Len(links) /\ DOMAIN links' = 1..(Len(links) + 1)
        /\ \A l \in DOMAIN links : links'[l] = links[l]
        /\ links'[Len(links) + 1].kind = "invite" /\ Len(links) \in Nat
    BY <1>17, InvitedLinks
  <2>2. \A l \in DOMAIN links' : l \in DOMAIN links \/ l = Len(links) + 1
    BY <2>1
  <2>3. \A v \in Users : Outstanding(v)' \subseteq Outstanding(v)
    BY <2>1, <2>2 DEF Outstanding
  <2>4. UNCHANGED req
    BY <1>17 DEF InviteUser
  <2> QED BY <2>3, <2>4, MintKept DEF Minting
<1>18. ASSUME NEW u \in Users, NEW role \in Roles, UpdateUserRole(u, role) PROVE MintInv'
  <2>1. \A q \in Requests : req'[q].kind \in {"link", "mint"} => req'[q] = req[q]
    BY <1>18, NotedFacts DEF UpdateUserRole
  <2>2. UNCHANGED links
    BY <1>18 DEF UpdateUserRole
  <2> QED BY <1>o, <2>1, <2>2, MintKept DEF Minting
<1>19. ASSUME NEW u \in Users, DeleteUser(u) PROVE MintInv'
  BY <1>19, <1>o, MintKept DEF DeleteUser, Minting
<1>20. CASE UNCHANGED vars
  BY <1>20, <1>o, MintKept DEF vars, Minting
<1> QED BY <1>2, <1>3, <1>4, <1>5, <1>6, <1>7, <1>8, <1>9, <1>10, <1>11, <1>12, <1>13, <1>14,
           <1>15, <1>16, <1>17, <1>18, <1>19, <1>20 DEF Next

-----------------------------------------------------------------------------
(* Accounts and who signs in.                                              *)

\* What a step may do to an account that is there.
LEMMA UsersStep ==
    ASSUME TypeOK, LinkInUse, [Next]_vars, NEW u \in Users
    PROVE  /\ Present(u) => users'[u].status # "none"
           /\ users[u].status = "deleted" => users'[u] = users[u]
           /\ \/ \E role \in Roles : UpdateUserRole(u, role)
              \/ Present(u) /\ users'[u].status = "active" =>
                    users[u].status = "active" /\ users'[u].role = users[u].role
<1> DEFINE Kept == /\ Present(u) => users'[u].status # "none"
                   /\ users[u].status = "deleted" => users'[u] = users[u]
                   /\ Present(u) /\ users'[u].status = "active" =>
                         users[u].status = "active" /\ users'[u].role = users[u].role
<1>t. users[u] \in User
  BY DEF TypeOK
<1>1. CASE UNCHANGED users
  BY <1>1 DEF Present
<1>2. ASSUME NEW v \in Users, NEW w, users' = [users EXCEPT ![v] = w], ~Present(v) PROVE Kept
  BY <1>2 DEF Present, TypeOK
<1>3. ASSUME NEW v \in Users, SetPassword(v), Found(v) PROVE Kept
  <2>1. users' = [users EXCEPT ![v] = [users[v] EXCEPT !.pw = users[v].pw + 1]]
    BY <1>3 DEF SetPassword
  <2>2. users[v] \in User /\ users[v].status = "active"
    BY <1>3 DEF TypeOK, Found
  <2>3. CASE u = v
    <3>1. users'[u] = [users[v] EXCEPT !.pw = users[v].pw + 1]
      BY <2>1, <2>3 DEF TypeOK
    <3>2. users'[u].status = users[v].status /\ users'[u].role = users[v].role
      BY <2>2, <3>1 DEF User
    <3> QED BY <2>2, <2>3, <3>2 DEF Present
  <2>4. CASE u # v
    BY <2>1, <2>4 DEF TypeOK, Present
  <2> QED BY <2>3, <2>4
<1>4. ASSUME NEW r \in Requests, CommitBootstrap(r) PROVE Kept
  BY <1>2, <1>4, ReqFields DEF CommitBootstrap
<1>5. ASSUME NEW r \in Requests, CommitLink(r) PROVE Kept
  BY <1>3, <1>5, UsingLink DEF CommitLink
<1>6. ASSUME NEW r \in Requests, FinishChange(r) PROVE Kept
  <2>1. req[r].user \in Users
    BY <1>6, ReqFields DEF FinishChange
  <2>2. CASE Found(req[r].user)
    BY <1>3, <1>6, <2>1, <2>2 DEF FinishChange
  <2>3. CASE ~Found(req[r].user)
    BY <1>6, <2>3 DEF FinishChange, Present
  <2> QED BY <2>2, <2>3
<1>7. ASSUME NEW v \in Users, NEW role \in Roles, InviteUser(v, role) PROVE Kept
  BY <1>2, <1>7 DEF InviteUser
<1>8. ASSUME NEW v \in Users, NEW role \in Roles, UpdateUserRole(v, role), v # u PROVE Kept
  BY <1>8 DEF UpdateUserRole, TypeOK, Present
<1>9. ASSUME NEW role \in Roles, UpdateUserRole(u, role)
      PROVE  /\ Present(u) => users'[u].status # "none"
             /\ users[u].status = "deleted" => users'[u] = users[u]
  <2>1. users'[u] = [users[u] EXCEPT !.role = role] /\ users[u].status = "active"
    BY <1>9 DEF UpdateUserRole, TypeOK, Found
  <2> QED BY <1>t, <2>1 DEF User
<1>10. ASSUME NEW v \in Users, DeleteUser(v) PROVE Kept
  <2>1. CASE v = u
    <3>1. users'[u] = [users[u] EXCEPT !.status = "deleted"]
      BY <1>10, <2>1 DEF DeleteUser, TypeOK
    <3> QED BY <1>t, <3>1 DEF User
  <2>2. CASE v # u
    BY <1>10, <2>2 DEF DeleteUser, TypeOK, Present
  <2> QED BY <2>1, <2>2
<1>11. UNCHANGED users \/ Kept \/ \E role \in Roles : UpdateUserRole(u, role)
  <2> HIDE DEF Kept
  <2> QED BY <1>4, <1>5, <1>6, <1>7, <1>8, <1>10
          DEF Next, vars, BeginBootstrap, BeginLink, BeginMint, BeginChange, BeginLogin,
              InvalidatePrior, CommitMint, BeginRefresh, ReadUser, Issue, IssueFails, Fail
<1> QED BY <1>1, <1>9, <1>11

\* What a request that signs in is owed.
LEMMA SignInKept ==
    ASSUME TypeOK, SignInInv,
           \A u \in Users : Present(u) =>
              /\ users'[u].status # "none"
              /\ users'[u].status = "active" =>
                    users[u].status = "active" /\ users'[u].role = users[u].role,
           \A t \in RefreshTokens : sessions'[t] # None =>
              sessions'[t] = sessions[t] \/ (sessions'[t] \in Users /\ Present(sessions'[t])),
           \A q \in Requests : req'[q].kind \in {"login", "refresh"} =>
              \/ req'[q] = req[q]
              \/ /\ req'[q].user \in Users /\ Present(req'[q].user)
                 /\ req'[q].stage = "issue" => req'[q].role \in req'[q].roles
                 /\ req'[q].stage = "user" /\ Found(req'[q].user) =>
                       users[req'[q].user].role \in req'[q].roles
    PROVE  SignInInv'
<1>1. ASSUME NEW t \in RefreshTokens, sessions'[t] # None
      PROVE  users'[sessions'[t]].status # "none"
  <2>1. sessions'[t] \in Users /\ Present(sessions'[t])
    BY <1>1 DEF SignInInv, TypeOK
  <2> QED BY <2>1
<1>2. ASSUME NEW q \in Requests, req'[q].kind \in {"login", "refresh"}
      PROVE  /\ users'[req'[q].user].status # "none"
             /\ req'[q].stage = "issue" => req'[q].role \in req'[q].roles
             /\ req'[q].stage = "user" /\ users'[req'[q].user].status = "active" =>
                   users'[req'[q].user].role \in req'[q].roles
  <2>1. /\ req'[q].user \in Users /\ Present(req'[q].user)
        /\ req'[q].stage = "issue" => req'[q].role \in req'[q].roles
        /\ req'[q].stage = "user" /\ Found(req'[q].user) =>
              users[req'[q].user].role \in req'[q].roles
    <3>1. CASE req'[q] = req[q]
      BY <1>2, <3>1, ReqFields DEF SignInInv
    <3> QED BY <1>2, <3>1
  <2> QED BY <2>1 DEF Found
<1> QED BY <1>1, <1>2 DEF SignInInv, Present, Found

LEMMA SignInStep ==
    ASSUME TypeOK, LinkInUse, SignInInv, [Next]_vars PROVE SignInInv'
<1>u. ASSUME \A u \in Users, role \in Roles : ~UpdateUserRole(u, role)
      PROVE  \A u \in Users : Present(u) =>
                /\ users'[u].status # "none"
                /\ users'[u].status = "active" =>
                      users[u].status = "active" /\ users'[u].role = users[u].role
  BY <1>u, UsersStep
<1>1. ASSUME NEW r \in Requests, NEW d, req' = [req EXCEPT ![r] = d],
             d.kind \in {"login", "refresh"} =>
                 /\ d.user \in Users /\ Present(d.user)
                 /\ d.stage = "issue" => d.role \in d.roles
                 /\ d.stage = "user" /\ Found(d.user) => users[d.user].role \in d.roles,
             \A u \in Users, role \in Roles : ~UpdateUserRole(u, role),
             \A t \in RefreshTokens : sessions'[t] # None =>
                 sessions'[t] = sessions[t] \/ (sessions'[t] \in Users /\ Present(sessions'[t]))
      PROVE  SignInInv'
  <2>1. req'[r] = d /\ \A q \in Requests : q # r => req'[q] = req[q]
    BY <1>1, ReqSet
  <2>2. \A q \in Requests : req'[q].kind \in {"login", "refresh"} =>
              \/ req'[q] = req[q]
              \/ /\ req'[q].user \in Users /\ Present(req'[q].user)
                 /\ req'[q].stage = "issue" => req'[q].role \in req'[q].roles
                 /\ req'[q].stage = "user" /\ Found(req'[q].user) =>
                       users[req'[q].user].role \in req'[q].roles
    BY <1>1, <2>1
  <2> QED BY <1>1, <1>u, <2>2, SignInKept
<1>i. Idle.kind = "idle"
  BY DEF Idle
<1>2. ASSUME NEW u \in Users, NEW role \in Roles, UpdateUserRole(u, role) PROVE SignInInv'
  <2>1. /\ users'[u].status = "active" /\ users[u].status = "active" /\ users'[u].role = role
        /\ \A v \in Users : v # u => users'[v] = users[v]
    BY <1>2 DEF UpdateUserRole, TypeOK, User, Found
  <2>2. UNCHANGED sessions
    BY <1>2 DEF UpdateUserRole
  <2>3. \A q \in Requests :
           /\ req'[q].kind = req[q].kind
           /\ req[q].kind \in {"login", "refresh"} =>
                 /\ req[q].user \in Users /\ req'[q].user = req[q].user /\ req'[q].stage = req[q].stage
                 /\ req'[q].role = req[q].role /\ req[q].roles \subseteq req'[q].roles
                 /\ req[q].user = u => role \in req'[q].roles
    BY <1>2, NotedFacts, ReqFields DEF UpdateUserRole
  <2>4. \A t \in RefreshTokens : sessions[t] \in Users \cup {None}
    BY DEF TypeOK
  <2> QED BY <2>1, <2>2, <2>3, <2>4 DEF SignInInv, Present, Found
<1>3. SUFFICES ASSUME \A u \in Users, role \in Roles : ~UpdateUserRole(u, role)
      PROVE  SignInInv'
  BY <1>2
<1>4. ASSUME NEW r \in Requests, NEW s \in SetupTokens, NEW u \in Users, BeginBootstrap(r, s, u)
      PROVE  SignInInv'
  BY <1>1, <1>3, <1>4 DEF BeginBootstrap
<1>5. ASSUME NEW r \in Requests, CommitBootstrap(r) PROVE SignInInv'
  BY <1>1, <1>3, <1>5, <1>i DEF CommitBootstrap
<1>6. ASSUME NEW r \in Requests, NEW l \in DOMAIN links, BeginLink(r, l) PROVE SignInInv'
  BY <1>1, <1>3, <1>6 DEF BeginLink
<1>7. ASSUME NEW r \in Requests, CommitLink(r) PROVE SignInInv'
  BY <1>1, <1>3, <1>7, <1>i DEF CommitLink
<1>8. ASSUME NEW r \in Requests, NEW u \in Users, BeginMint(r, u) PROVE SignInInv'
  BY <1>1, <1>3, <1>8 DEF BeginMint
<1>9. ASSUME NEW r \in Requests, NEW u \in Users, BeginChange(r, u) PROVE SignInInv'
  BY <1>1, <1>3, <1>9 DEF BeginChange
<1>10. ASSUME NEW r \in Requests, NEW u \in Users, BeginLogin(r, u) PROVE SignInInv'
  <2>1. PICK d : /\ d.kind = "login" /\ d.stage = "issue" /\ d.user = u
                 /\ d.role = users[u].role /\ d.roles = RolesOf(u)
                 /\ req' = [req EXCEPT ![r] = d]
    BY <1>10 DEF BeginLogin
  <2>2. Present(u) /\ d.role \in d.roles
    BY <1>10, <2>1 DEF BeginLogin, Found, Present, RolesOf
  <2>3. UNCHANGED sessions
    BY <1>10 DEF BeginLogin
  <2> QED BY <1>1, <1>3, <2>1, <2>2, <2>3
<1>11. ASSUME NEW r \in Requests, InvalidatePrior(r) PROVE SignInInv'
  BY <1>1, <1>3, <1>11 DEF InvalidatePrior
<1>12. ASSUME NEW r \in Requests, CommitMint(r) PROVE SignInInv'
  BY <1>1, <1>3, <1>12, <1>i DEF CommitMint
<1>13. ASSUME NEW r \in Requests, FinishChange(r) PROVE SignInInv'
  BY <1>1, <1>3, <1>13, <1>i DEF FinishChange
<1>14. ASSUME NEW r \in Requests, NEW t \in RefreshTokens, BeginRefresh(r, t) PROVE SignInInv'
  <2>1. PICK d : /\ d.kind = "refresh" /\ d.stage = "user" /\ d.user = sessions[t]
                 /\ d.roles = RolesOf(sessions[t])
                 /\ req' = [req EXCEPT ![r] = d]
    BY <1>14 DEF BeginRefresh
  <2>2. d.user \in Users /\ Present(d.user)
    BY <1>14, <2>1 DEF BeginRefresh, GetRefreshToken, SignInInv, TypeOK
  <2>3. Found(d.user) => users[d.user].role \in d.roles
    BY <2>1 DEF Found, RolesOf
  <2>4. UNCHANGED sessions
    BY <1>14 DEF BeginRefresh
  <2> QED BY <1>1, <1>3, <2>1, <2>2, <2>3, <2>4
<1>15. ASSUME NEW r \in Requests, ReadUser(r) PROVE SignInInv'
  <2>1. PICK d : /\ d.kind = "refresh" /\ d.stage = "issue" /\ d.user = req[r].user
                 /\ d.role = users[req[r].user].role /\ d.roles = req[r].roles
                 /\ req' = [req EXCEPT ![r] = d]
    BY <1>15 DEF ReadUser, WithRole
  <2>2. /\ d.user \in Users /\ Present(d.user) /\ d.role \in d.roles
    BY <1>15, <2>1, ReqFields DEF ReadUser, SignInInv
  <2>3. UNCHANGED sessions
    BY <1>15 DEF ReadUser
  <2> QED BY <1>1, <1>3, <2>1, <2>2, <2>3
<1>r. ASSUME NEW r \in Requests, NEW ok \in BOOLEAN, NEW t \in RefreshTokens
      PROVE  Rotated(r, ok)[t] = None \/ Rotated(r, ok)[t] = sessions[t]
  BY <1>r, ReqFields DEF Rotated, TypeOK
<1>16. ASSUME NEW r \in Requests, NEW t \in RefreshTokens, NEW ok \in BOOLEAN, Issue(r, t, ok)
       PROVE  SignInInv'
  <2>1. req[r].user \in Users /\ Present(req[r].user)
    BY <1>16, ReqFields DEF Issue, SignInInv
  <2>2. \A k \in RefreshTokens :
            sessions'[k] = Rotated(r, ok)[k] \/ sessions'[k] = req[r].user
    BY <1>16, ReqFields DEF Issue, Rotated, TypeOK
  <2>3. \A k \in RefreshTokens : sessions'[k] # None =>
           sessions'[k] = sessions[k] \/ (sessions'[k] \in Users /\ Present(sessions'[k]))
    BY <1>r, <2>1, <2>2
  <2> QED BY <1>1, <1>3, <1>16, <1>i, <2>3 DEF Issue
<1>17. ASSUME NEW r \in Requests, IssueFails(r) PROVE SignInInv'
  BY <1>1, <1>3, <1>17, <1>i, <1>r DEF IssueFails
<1>18. ASSUME NEW r \in Requests, Fail(r) PROVE SignInInv'
  BY <1>1, <1>3, <1>18, <1>i DEF Fail
<1>19. ASSUME NEW u \in Users, NEW role \in Roles, InviteUser(u, role) PROVE SignInInv'
  BY <1>u, <1>3, <1>19, SignInKept DEF InviteUser
<1>20. ASSUME NEW u \in Users, DeleteUser(u) PROVE SignInInv'
  BY <1>u, <1>3, <1>20, SignInKept DEF DeleteUser
<1>21. CASE UNCHANGED vars
  BY <1>21 DEF vars, SignInInv, Present, Found
<1> QED BY <1>3, <1>4, <1>5, <1>6, <1>7, <1>8, <1>9, <1>10, <1>11, <1>12, <1>13, <1>14, <1>15,
           <1>16, <1>17, <1>18, <1>19, <1>20, <1>21 DEF Next

-----------------------------------------------------------------------------
(* The theorems.                                                           *)

LEMMA AccountsInit == Init => AccountsInv
<1> SUFFICES ASSUME Init PROVE AccountsInv
  OBVIOUS
<1>0. Idle.kind = "idle"
  BY DEF Idle
<1>1. \A r \in Requests : req[r] = Idle /\ req[r].kind = "idle"
  BY <1>0 DEF Init
<1>2. TypeOK
  <2>1. [status |-> "none", role |-> "viewer", pw |-> 0] \in User
    BY AccountsAssumption DEF User, Roles
  <2> QED BY <2>1 DEF Init, TypeOK
<1>3. SetupInv
  BY <1>1, FS_EmptySet DEF Init, SetupInv, Present
<1>4. LinkInUse /\ MintInv
  BY <1>1 DEF LinkInUse, MintInv, Minting
<1>5. DOMAIN links = {}
  BY DEF Init
<1>6. UseInv /\ OnlyTheLastLinkWorks
  BY <1>5 DEF UseInv, OnlyTheLastLinkWorks
<1>7. SignInInv
  BY <1>1 DEF Init, SignInInv
<1> QED BY <1>2, <1>3, <1>4, <1>6, <1>7 DEF AccountsInv

LEMMA AccountsKept == AccountsInv /\ [Next]_vars => AccountsInv'
BY AccountsTyped, SetupStep, LinkInUseStep, MintStep, LinksStep, SignInStep DEF AccountsInv

\* The inductive invariant of the accounts: what every request under way
\* holds, of the setup, of links, of reset transactions and of sign-ins.
THEOREM AccountsSound == Spec => []AccountsInv
<1>1. Init => AccountsInv
  BY AccountsInit
<1>2. AccountsInv /\ [Next]_vars => AccountsInv'
  BY AccountsKept
<1> QED BY <1>1, <1>2, PTL DEF Spec

\* The wizard of bootstrap.go sets the appliance up at most once and spends
\* only the token of that setup, for any number of tokens and of attempts
\* that race.
THEOREM ApplianceIsSetUpOnce == Spec => []SetupOnce
<1>1. AccountsInv => SetupOnce
  BY DEF AccountsInv, SetupInv, SetupOnce
<1> QED BY <1>1, AccountsSound, PTL

\* A link of provisioning.go sets at most one password, and only the last
\* reset link of an account can, for any number of administrators, links and
\* requests.
THEOREM ResetLinksAreSingle == Spec => []OnlyTheLastLinkWorks
<1>1. AccountsInv => OnlyTheLastLinkWorks
  BY DEF AccountsInv
<1> QED BY <1>1, AccountsSound, PTL

\* Nothing that is under way when an account is deleted or demoted changes
\* the deleted account, or is issued a role the account did not have.
THEOREM DeletedAccountsStay == Spec => DeletionsStand
<1>1. AccountsInv /\ [Next]_vars =>
         (\A u \in Users : users[u].status = "deleted" => users'[u] = users[u])
  BY UsersStep DEF AccountsInv
<1>2. AccountsInv => TokensFollowTheAccount
  BY DEF AccountsInv, SignInInv, TokensFollowTheAccount
<1>3. AccountsInv /\ AccountsInv' /\ [Next]_vars =>
         [/\ \A u \in Users : users[u].status = "deleted" => users'[u] = users[u]
          /\ TokensFollowTheAccount']_vars
  BY <1>1, <1>2, PTL
<1> QED BY <1>3, AccountsSound, PTL DEF Spec, DeletionsStand

=============================================================================
