------------------------------ MODULE Accounts ------------------------------
(***************************************************************************)
(* The accounts of the API: the first-boot wizard (bootstrap.go), users    *)
(* (users.go), invite and reset links (provisioning.go), and sign-in with  *)
(* access and refresh tokens (auth.go, middleware.go).                     *)
(*                                                                         *)
(* A request runs in a slot of Requests.  A handler is one step where one  *)
(* statement or transaction does all of its work, and several where        *)
(* another request can come between: between two statements outside a      *)
(* transaction, and between what a transaction reads under its locks and   *)
(* its commit.  The locks of a transaction are not a variable: a request   *)
(* in the stage "tx" holds what its record names.                          *)
(*                                                                         *)
(* A refusal (a rate limit, a malformed body, a wrong password, an expired *)
(* link or token) changes nothing, so it is left out: the step is not      *)
(* taken.  Links and tokens therefore need no clock, and an access token   *)
(* that has expired is one that is not used any more.                      *)
(***************************************************************************)
EXTENDS Naturals, Sequences, FiniteSets

CONSTANTS
    Users,          \* accounts, by email (users.email is UNIQUE)
    SetupTokens,    \* rows of setup_tokens, minted on the console
    Requests,       \* requests under way at the same time
    RefreshTokens,  \* refresh tokens: a bound on how many are good at a time
    MaxLinks,       \* bound: invite and reset links ever made
    MaxPasswords,   \* bound: passwords an account ever has
    None

ASSUME AccountsAssumption ==
    /\ IsFiniteSet(SetupTokens)
    /\ None \notin Users
    /\ MaxLinks \in Nat /\ MaxPasswords \in Nat \ {0}

VARIABLES
    orgs,       \* number of rows of orgs
    consumed,   \* setup tokens with consumed_at
    users,      \* rows of users
    links,      \* rows of invite_tokens and reset_tokens, in the order made
    sessions,   \* the rows of refresh_tokens that are not revoked
    bearer,     \* who has an access token that claims the role admin
    req         \* the requests under way

vars == <<orgs, consumed, users, links, sessions, bearer, req>>

\* The roles InviteUser and UpdateUserRole assign; the properties tell only
\* the administrator from the others.
Roles == {"admin", "viewer"}

\* password_hash: 0 is NULL, and every hash written is another one.
User == [status : {"none", "active", "deleted"}, role : Roles, pw : 0..MaxPasswords]

\* used counts the passwords the link has set (a history).
Link == [user : Users, kind : {"invite", "reset"}, consumed : BOOLEAN, used : Nat]

Idle == [kind |-> "idle"]

\* Who has been deleted is found by no lookup of GetUserByID, GetUserByEmail.
Found(u) == users[u].status = "active"

Present(u) == users[u].status # "none"

\* The roles the account of a request has had since the request began, while
\* it was active (a history).
RolesOf(u) == IF users[u].status = "active" THEN {users[u].role} ELSE {}

\* jwtMiddleware: the claims of the token say who calls and with which role.
MayAdminister(u) == u \in bearer

\* requireRole("admin") on the routes of this module: the claims decide, not
\* the row.
Authorised == \E a \in Users : MayAdminister(a)

-----------------------------------------------------------------------------
(* First boot.                                                             *)

\* pg_advisory_xact_lock('eami_setup_bootstrap'), and the token row FOR UPDATE.
SetupLockFree_TokenOnly(s) ==
    \A r \in Requests : req[r].kind = "bootstrap" => req[r].token # s

SetupLockFree(s) == \A r \in Requests : req[r].kind # "bootstrap"

\* What ValidateSetupToken answers without a lock, and Bootstrap asks again
\* under its own.
SetupTokenGood(s) == s \notin consumed /\ orgs = 0

\* Bootstrap, up to the count of orgs.
BeginBootstrap(r, s, u) ==
    /\ req[r] = Idle
    /\ SetupLockFree(s)
    /\ SetupTokenGood(s)
    /\ ~Present(u)
    /\ req' = [req EXCEPT ![r] = [kind |-> "bootstrap", token |-> s, user |-> u]]
    /\ UNCHANGED <<orgs, consumed, users, links, sessions, bearer>>

\* The inserts, the consumption of the token and the commit.
CommitBootstrap(r) ==
    /\ req[r].kind = "bootstrap"
    /\ ~Present(req[r].user)
    /\ orgs' = orgs + 1
    /\ consumed' = consumed \cup {req[r].token}
    /\ users' = [users EXCEPT ![req[r].user] = [status |-> "active", role |-> "admin", pw |-> 1]]
    /\ req' = [req EXCEPT ![r] = Idle]
    /\ UNCHANGED <<links, sessions, bearer>>

-----------------------------------------------------------------------------
(* Users.                                                                  *)

\* InviteUser: the user and the invite link in one transaction; the UNIQUE
\* email refuses an account that exists, deleted ones included.
InviteUser(u, role) ==
    /\ ~Present(u)
    /\ Authorised
    /\ Len(links) < MaxLinks
    /\ users' = [users EXCEPT ![u] = [status |-> "active", role |-> role, pw |-> 0]]
    /\ links' = Append(links, [user |-> u, kind |-> "invite", consumed |-> FALSE, used |-> 0])
    /\ UNCHANGED <<orgs, consumed, sessions, bearer, req>>

\* A request that began before keeps in its history what the account is now.
Noted(u, role) ==
    [r \in Requests |->
        IF "roles" \in DOMAIN req[r] /\ req[r].user = u
        THEN [req[r] EXCEPT !.roles = @ \cup {role}] ELSE req[r]]

\* A transaction that holds the row of u FOR UPDATE.
RowLocked(u) == \E r \in Requests : req[r].kind = "link" /\ links[req[r].link].user = u

\* UpdateUserRole: one statement, for accounts that are not deleted.
UpdateUserRole(u, role) ==
    /\ Authorised
    /\ Found(u) /\ ~RowLocked(u)
    /\ users' = [users EXCEPT ![u].role = role]
    /\ req' = Noted(u, role)
    /\ UNCHANGED <<orgs, consumed, links, sessions, bearer>>

\* DeleteUser and SoftDeleteUser: any account but the caller's own.
DeleteUser(u) ==
    /\ \E a \in Users \ {u} : MayAdminister(a)
    /\ Present(u) /\ ~RowLocked(u)
    /\ users' = [users EXCEPT ![u].status = "deleted"]
    /\ UNCHANGED <<orgs, consumed, links, sessions, bearer, req>>

-----------------------------------------------------------------------------
(* Passwords.                                                              *)

SetPassword(u) ==
    /\ users[u].pw < MaxPasswords
    /\ users' = [users EXCEPT ![u].pw = @ + 1]

\* AcceptInvite and ResetPassword read the link FOR UPDATE: they wait for a
\* transaction that uses it, or that is about to invalidate it.
LinkFree(l) ==
    \A r \in Requests :
        /\ req[r].kind = "link" => req[r].link # l
        /\ req[r].kind = "mint" /\ req[r].stage = "tx" => l \notin req[r].prior

\* What AcceptInvite asks of the link and, its row locked, of the account: an
\* invite is only good while there is no password.
InviteGood(l) ==
    /\ links[l].kind = "invite" /\ ~links[l].consumed
    /\ Found(links[l].user) /\ users[links[l].user].pw = 0

\* What ResetPassword asks.
ResetGood(l) ==
    /\ links[l].kind = "reset" /\ ~links[l].consumed
    /\ Found(links[l].user)

\* AcceptInvite and ResetPassword, up to the password hash.
BeginLink(r, l) ==
    /\ req[r] = Idle
    /\ LinkFree(l)
    /\ ~RowLocked(links[l].user)
    /\ InviteGood(l) \/ ResetGood(l)
    /\ req' = [req EXCEPT ![r] = [kind |-> "link", link |-> l]]
    /\ UNCHANGED <<orgs, consumed, users, links, sessions, bearer>>

\* consumed_at of a link that has set a password.
ConsumeLink(l) == [links EXCEPT ![l].consumed = TRUE, ![l].used = @ + 1]

\* The new hash, the consumption of the link and the commit.
CommitLink(r) ==
    /\ req[r].kind = "link"
    /\ SetPassword(links[req[r].link].user)
    /\ links' = ConsumeLink(req[r].link)
    /\ req' = [req EXCEPT ![r] = Idle]
    /\ UNCHANGED <<orgs, consumed, sessions, bearer>>

\* AdminGenerateResetLink looks at the account outside of its transaction.
BeginMint(r, u) ==
    /\ req[r] = Idle
    /\ Authorised
    /\ Found(u) /\ users[u].pw # 0
    /\ req' = [req EXCEPT ![r] = [kind |-> "mint", stage |-> "checked", user |-> u]]
    /\ UNCHANGED <<orgs, consumed, users, links, sessions, bearer>>

\* pg_advisory_xact_lock('reset_token:' || user).
MintLockFree_None(u) == TRUE

MintLockFree(u) ==
    \A r \in Requests : req[r].kind = "mint" /\ req[r].stage = "tx" => req[r].user # u

\* The reset links of u that are still good.
Outstanding(u) ==
    {l \in DOMAIN links : links[l].user = u /\ links[l].kind = "reset" /\ ~links[l].consumed}

\* Under the lock, the UPDATE that invalidates the links there are: it waits
\* for the ones that are being used.
InvalidatePrior(r) ==
    /\ req[r].kind = "mint" /\ req[r].stage = "checked"
    /\ MintLockFree(req[r].user)
    /\ \A l \in Outstanding(req[r].user) : LinkFree(l)
    /\ req' = [req EXCEPT ![r] = [kind |-> "mint", stage |-> "tx", user |-> req[r].user,
                                  prior |-> Outstanding(req[r].user)]]
    /\ UNCHANGED <<orgs, consumed, users, links, sessions, bearer>>

\* The INSERT of the new link, and the commit.
CommitMint(r) ==
    /\ req[r].kind = "mint" /\ req[r].stage = "tx"
    /\ Len(links) < MaxLinks
    /\ links' = Append([l \in DOMAIN links |->
                           IF l \in req[r].prior THEN [links[l] EXCEPT !.consumed = TRUE]
                                                 ELSE links[l]],
                       [user |-> req[r].user, kind |-> "reset", consumed |-> FALSE, used |-> 0])
    /\ req' = [req EXCEPT ![r] = Idle]
    /\ UNCHANGED <<orgs, consumed, users, sessions, bearer>>

\* ChangeMyPassword reads the account and checks the current password (a
\* caller that knows it can always have an access token) ...
BeginChange(r, u) ==
    /\ req[r] = Idle
    /\ Found(u) /\ users[u].pw # 0
    /\ req' = [req EXCEPT ![r] = [kind |-> "change", user |-> u]]
    /\ UNCHANGED <<orgs, consumed, users, links, sessions, bearer>>

\* ... and UpdateUserPasswordHash writes the new one if it is still there.
FinishChange(r) ==
    /\ req[r].kind = "change" /\ ~RowLocked(req[r].user)
    /\ IF Found(req[r].user) THEN SetPassword(req[r].user) ELSE UNCHANGED users
    /\ req' = [req EXCEPT ![r] = Idle]
    /\ UNCHANGED <<orgs, consumed, links, sessions, bearer>>

-----------------------------------------------------------------------------
(* Tokens.                                                                 *)

\* Login: GetUserByEmail and CheckPassword.
BeginLogin(r, u) ==
    /\ req[r] = Idle
    /\ Found(u) /\ users[u].pw # 0
    /\ req' = [req EXCEPT ![r] = [kind |-> "login", stage |-> "issue", user |-> u,
                                  role |-> users[u].role, roles |-> RolesOf(u)]]
    /\ UNCHANGED <<orgs, consumed, users, links, sessions, bearer>>

\* GetRefreshToken finds a token that is not revoked.
GetRefreshToken(t) == sessions[t] # None

\* Refresh, its first read.
BeginRefresh(r, t) ==
    /\ req[r] = Idle
    /\ GetRefreshToken(t)
    /\ req' = [req EXCEPT ![r] = [kind |-> "refresh", stage |-> "user", user |-> sessions[t],
                                  session |-> t, roles |-> RolesOf(sessions[t])]]
    /\ UNCHANGED <<orgs, consumed, users, links, sessions, bearer>>

\* What the request goes on with when it has read the role.
WithRole(q, role) ==
    [kind |-> "refresh", stage |-> "issue", user |-> q.user, session |-> q.session,
     roles |-> q.roles, role |-> role]

\* Refresh: GetUserByID, for the role of now; it finds no deleted account.
ReadUser_Deleted(r) ==
    /\ req[r].kind = "refresh" /\ req[r].stage = "user"
    /\ req' = [req EXCEPT ![r] = WithRole(req[r], users[req[r].user].role)]
    /\ UNCHANGED <<orgs, consumed, users, links, sessions, bearer>>

ReadUser(r) ==
    /\ req[r].kind = "refresh" /\ req[r].stage = "user"
    /\ Found(req[r].user)
    /\ req' = [req EXCEPT ![r] = WithRole(req[r], users[req[r].user].role)]
    /\ UNCHANGED <<orgs, consumed, users, links, sessions, bearer>>

\* RevokeRefreshToken of a refresh, whose error is ignored.  It is by id: two
\* requests with the same token both get here.
Rotated(r, ok) ==
    IF req[r].kind = "refresh" /\ ok
    THEN [sessions EXCEPT ![req[r].session] = None] ELSE sessions

\* The name t stands for no token that is good or that another request holds.
Fresh(r, t, revoked) ==
    /\ Rotated(r, revoked)[t] = None
    /\ \A q \in Requests \ {r} : req[q].kind = "refresh" => req[q].session # t

\* The token says what the row said when the request read it.
IssueAccessToken(u, role) == bearer \cup (IF role = "admin" THEN {u} ELSE {})

\* IssueAccessToken, CreateRefreshToken and the answer: revoked says whether
\* the old refresh token could be revoked.
Issue(r, t, revoked) ==
    /\ req[r].kind \in {"login", "refresh"} /\ req[r].stage = "issue"
    /\ Fresh(r, t, revoked)
    /\ sessions' = [Rotated(r, revoked) EXCEPT ![t] = req[r].user]
    /\ bearer' = IssueAccessToken(req[r].user, req[r].role)
    /\ req' = [req EXCEPT ![r] = Idle]
    /\ UNCHANGED <<orgs, consumed, users, links>>

\* CreateRefreshToken fails: the caller is given neither token, and the one
\* it came with may be revoked.
IssueFails(r) ==
    /\ req[r].kind = "refresh" /\ req[r].stage = "issue"
    /\ sessions' = Rotated(r, TRUE)
    /\ req' = [req EXCEPT ![r] = Idle]
    /\ UNCHANGED <<orgs, consumed, users, links, bearer>>

\* The database fails a statement or the commit, or the process stops: the
\* deferred Rollback leaves nothing of the request.
Fail(r) ==
    /\ req[r] # Idle
    /\ req' = [req EXCEPT ![r] = Idle]
    /\ UNCHANGED <<orgs, consumed, users, links, sessions, bearer>>

-----------------------------------------------------------------------------

Init ==
    /\ orgs = 0 /\ consumed = {}
    /\ users = [u \in Users |-> [status |-> "none", role |-> "viewer", pw |-> 0]]
    /\ links = <<>> /\ bearer = {}
    /\ sessions = [t \in RefreshTokens |-> None]
    /\ req = [r \in Requests |-> Idle]

Next ==
    \/ \E r \in Requests :
          \/ \E s \in SetupTokens, u \in Users : BeginBootstrap(r, s, u)
          \/ CommitBootstrap(r)
          \/ \E l \in DOMAIN links : BeginLink(r, l)
          \/ CommitLink(r)
          \/ \E u \in Users : BeginMint(r, u) \/ BeginChange(r, u) \/ BeginLogin(r, u)
          \/ InvalidatePrior(r)
          \/ CommitMint(r)
          \/ FinishChange(r)
          \/ \E t \in RefreshTokens : BeginRefresh(r, t)
          \/ ReadUser(r)
          \/ \E t \in RefreshTokens, revoked \in BOOLEAN : Issue(r, t, revoked)
          \/ IssueFails(r)
          \/ Fail(r)
    \/ \E u \in Users :
          \/ \E role \in Roles : InviteUser(u, role) \/ UpdateUserRole(u, role)
          \/ DeleteUser(u)

Spec == Init /\ [][Next]_vars

-----------------------------------------------------------------------------
(* Correctness.                                                            *)

\* The requests between two of their steps.
Running ==
    [kind : {"bootstrap"}, token : SetupTokens, user : Users]
    \cup [kind : {"link"}, link : Nat]
    \cup [kind : {"mint"}, stage : {"checked"}, user : Users]
    \cup [kind : {"mint"}, stage : {"tx"}, user : Users, prior : SUBSET Nat]
    \cup [kind : {"change"}, user : Users]
    \cup [kind : {"login"}, stage : {"issue"}, user : Users, role : Roles, roles : SUBSET Roles]
    \cup [kind : {"refresh"}, stage : {"user"}, user : Users, session : RefreshTokens,
          roles : SUBSET Roles]
    \cup [kind : {"refresh"}, stage : {"issue"}, user : Users, session : RefreshTokens,
          roles : SUBSET Roles, role : Roles]

TypeOK ==
    /\ orgs \in Nat /\ consumed \subseteq SetupTokens
    /\ users \in [Users -> User]
    /\ links \in Seq(Link)
    /\ sessions \in [RefreshTokens -> Users \cup {None}]
    /\ bearer \subseteq Users
    /\ req \in [Requests -> Running \cup {Idle}]

\* The wizard sets the appliance up once, whatever requests race with
\* whatever tokens, and a token is spent only by the setup it made: an
\* attempt that failed leaves it good, and no organisation behind
\* (bootstrap.go:14-21, 145-151).
SetupOnce ==
    /\ orgs <= 1
    /\ Cardinality(consumed) = orgs
    /\ orgs = 0 => \A u \in Users : ~Present(u)

\* A link sets one password at most, and of the reset links of an account
\* only the last one made is good (provisioning.go:325-327), even when two
\* administrators ask for one at the same time or a link is used meanwhile.
OnlyTheLastLinkWorks ==
    /\ \A l \in DOMAIN links : links[l].used <= 1
    /\ \A k, l \in DOMAIN links :
          (k < l /\ links[k].user = links[l].user /\ links[l].kind = "reset"
                 /\ links[k].kind = "reset") => links[k].consumed

\* Whatever a caller is issued is for an account that was active at some
\* moment of the request, with a role it had then: after a deletion or a
\* demotion only the requests that were under way can still be answered
\* with what was true before.
TokensFollowTheAccount ==
    \A r \in Requests :
        req[r].kind \in {"login", "refresh"} /\ req[r].stage = "issue" =>
            req[r].role \in req[r].roles

\* Deletions and demotions stand: no invite, link, password change, role
\* change or login that was under way, or comes later, changes or restores a
\* deleted account, or is issued more than the account allowed.
DeletionsStand ==
    [][/\ \A u \in Users : users[u].status = "deleted" => users'[u] = users[u]
       /\ TokensFollowTheAccount']_vars

-----------------------------------------------------------------------------
(* Why it is so.                                                           *)

\* SetupOnce, with the request that holds the setup lock; before the setup
\* nobody has an account, a token or another request under way.
SetupInv ==
    /\ orgs \in {0, 1} /\ Cardinality(consumed) = orgs
    /\ \A r \in Requests : req[r].kind = "bootstrap" => orgs = 0
    /\ \A q, r \in Requests : req[q].kind = "bootstrap" /\ req[r].kind = "bootstrap" => q = r
    /\ orgs = 0 =>
          /\ consumed = {} /\ bearer = {}
          /\ \A u \in Users : ~Present(u)
          /\ \A t \in RefreshTokens : sessions[t] = None
          /\ \A r \in Requests : req[r].kind \in {"idle", "bootstrap"}

\* A link that is being used is good, its account is there, and no other
\* request uses a link of the account.
LinkInUse ==
    /\ \A r \in Requests : req[r].kind = "link" =>
          /\ req[r].link \in DOMAIN links /\ ~links[req[r].link].consumed
          /\ Found(links[req[r].link].user)
    /\ \A q, r \in Requests :
          req[q].kind = "link" /\ req[r].kind = "link"
              /\ links[req[q].link].user = links[req[r].link].user => q = r

Minting(r) == req[r].kind = "mint" /\ req[r].stage = "tx"

\* A transaction that makes a reset link has in hand every link of the
\* account that is good, and none that is being used.
MintInv ==
    /\ \A r \in Requests : Minting(r) =>
          /\ Outstanding(req[r].user) \subseteq req[r].prior
          /\ \A q \in Requests : req[q].kind = "link" => req[q].link \notin req[r].prior
    /\ \A q, r \in Requests : Minting(q) /\ Minting(r) /\ req[q].user = req[r].user => q = r

\* A link is used once, when it is consumed.
UseInv ==
    \A l \in DOMAIN links :
        links[l].used <= 1 /\ (~links[l].consumed => links[l].used = 0)

\* Who signs in, or has signed in, has an account, and the history of the
\* request has the role of now.
SignInInv ==
    /\ \A t \in RefreshTokens : sessions[t] # None => Present(sessions[t])
    /\ \A r \in Requests : req[r].kind \in {"login", "refresh"} =>
          /\ Present(req[r].user)
          /\ req[r].stage = "issue" => req[r].role \in req[r].roles
          /\ req[r].stage = "user" /\ Found(req[r].user) => users[req[r].user].role \in req[r].roles

AccountsInv ==
    TypeOK /\ SetupInv /\ LinkInUse /\ MintInv /\ UseInv /\ SignInInv /\ OnlyTheLastLinkWorks

=============================================================================
