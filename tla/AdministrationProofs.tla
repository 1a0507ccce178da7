------------------------ MODULE AdministrationProofs ------------------------
(***************************************************************************)
(* Proofs about the administrative parts of the API, for any number of     *)
(* accounts, workspaces, requests and keys: who is a member of which       *)
(* workspace (Workspaces), the configuration of an agent (AgentConfig),    *)
(* the audit trail of administrators' changes (AdminAudit), the alerts     *)
(* that the rules of operators raise (Alerting) and the limiters of the    *)
(* login and other routes (RateLimit).                                     *)
(***************************************************************************)
EXTENDS Workspaces, AgentConfig, AdminAudit, Alerting, RateLimit,
        SequenceTheorems, FiniteSetTheorems, TLAPS

-----------------------------------------------------------------------------
(* Workspaces and their members.                                           *)

SpacesSpec == SpacesInit /\ [][SpacesNext]_spaceVars

LEMMA SpacesStart == SpacesInit => SpacesInv
BY DEF SpacesInit, SpacesInv, MembershipsWithinOrg, NoCall

\* A call that ends, or that is let by to its handler, has nothing checked.
LEMMA CallTyped ==
    ASSUME SpacesInv, NEW c \in Calls, NEW d \in WorkspaceCalls \cup {NoCall},
           d.op = "insert" => OrgOf[d.user] = OrgOf[d.space],
           call' = [call EXCEPT ![c] = d]
    PROVE  /\ call' \in [Calls -> WorkspaceCalls \cup {NoCall}]
           /\ \A e \in Calls : call'[e].op = "insert" => OrgOf[call'[e].user] = OrgOf[call'[e].space]
BY DEF SpacesInv

\* What one statement writes to the memberships of a live workspace keeps
\* them inside its organisation.
LEMMA MemberWritten ==
    ASSUME SpacesInv, NEW s \in Spaces, NEW u \in People,
           NEW role \in MemberRoles \cup {"none"},
           space' = space, member' = [member EXCEPT ![s][u] = role],
           role # "none" => Live(s) /\ OrgOf[u] = OrgOf[s]
    PROVE  /\ member' \in [Spaces -> [People -> MemberRoles \cup {"none"}]]
           /\ MembershipsWithinOrg'
BY DEF SpacesInv, MembershipsWithinOrg, Live

LEMMA SpacesStep == SpacesInv /\ [SpacesNext]_spaceVars => SpacesInv'
<1> SUFFICES ASSUME SpacesInv, [SpacesNext]_spaceVars PROVE SpacesInv'
  OBVIOUS
<1>1. ASSUME NEW u \in People, NEW s \in Spaces, NEW n \in Names, CreateWorkspace(u, s, n)
      PROVE  SpacesInv'
  <2>1. /\ space' = [space EXCEPT ![s] = n]
        /\ member' = [member EXCEPT ![s][u] = "workspace_admin"]
        /\ call' = call /\ OrgOf[u] = OrgOf[s]
    BY <1>1 DEF CreateWorkspace
  <2>2. space' \in [Spaces -> Names \cup {NoName}] /\ n # NoName
    BY <2>1, NamesAssumption DEF SpacesInv
  <2>3. member' \in [Spaces -> [People -> MemberRoles \cup {"none"}]]
    BY <2>1 DEF SpacesInv, MemberRoles
  <2>4. MembershipsWithinOrg'
    BY <2>1, <2>2 DEF SpacesInv, MembershipsWithinOrg, Live
  <2> QED BY <2>1, <2>2, <2>3, <2>4 DEF SpacesInv
<1>2. ASSUME NEW u \in People, NEW s \in Spaces, DeleteWorkspace(u, s) PROVE SpacesInv'
  BY <1>2 DEF DeleteWorkspace, SpacesInv, MembershipsWithinOrg, Live
<1>3. ASSUME NEW c \in Calls, NEW u \in People, NEW s \in Spaces,
             NEW op \in {"add", "update", "remove", "rename"}, NEW v \in People,
             NEW role \in MemberRoles \cup {"none"}, Begin(c, u, s, op, v, role)
      PROVE  SpacesInv'
  <2> DEFINE d == [op |-> op, caller |-> u, space |-> s, user |-> v, role |-> role]
  <2>1. d \in WorkspaceCalls /\ d.op # "insert"
    BY DEF WorkspaceCalls
  <2> QED BY <1>3, <2>1, CallTyped DEF Begin, SpacesInv, MembershipsWithinOrg, Live
<1>4. ASSUME NEW c \in Calls, CheckUser(c) PROVE SpacesInv'
  <2>1. PICK d \in WorkspaceCalls : call[c] = d
    BY <1>4 DEF CheckUser, SpacesInv, NoCall
  <2>2. /\ OrgOf[d.user] = OrgOf[d.space]
        /\ call' = [call EXCEPT ![c] = [d EXCEPT !.op = "insert"]]
        /\ space' = space /\ member' = member
    BY <1>4, <2>1 DEF CheckUser, userOrgMatches
  <2>3. PICK e : e = [d EXCEPT !.op = "insert"]
    OBVIOUS
  <2>4. e \in WorkspaceCalls /\ e.user = d.user /\ e.space = d.space
    BY <2>3 DEF WorkspaceCalls
  <2> QED BY <2>2, <2>3, <2>4, CallTyped DEF SpacesInv, MembershipsWithinOrg, Live
<1>5. ASSUME NEW c \in Calls,
             AddWorkspaceMember(c) \/ UpdateWorkspaceMemberRole(c) \/ RemoveWorkspaceMember(c)
      PROVE  SpacesInv'
  <2>1. PICK d \in WorkspaceCalls : call[c] = d
    BY <1>5 DEF AddWorkspaceMember, UpdateWorkspaceMemberRole, RemoveWorkspaceMember,
                SpacesInv, NoCall
  <2>2. PICK role \in MemberRoles \cup {"none"} :
           /\ member' = [member EXCEPT ![d.space][d.user] = role]
           /\ role # "none" => Live(d.space) /\ OrgOf[d.user] = OrgOf[d.space]
    <3>1. d.space \in Spaces /\ d.user \in People /\ d.role \in MemberRoles \cup {"none"}
      BY DEF WorkspaceCalls
    <3> QED BY <1>5, <2>1, <3>1
            DEF AddWorkspaceMember, UpdateWorkspaceMemberRole, RemoveWorkspaceMember,
                SpacesInv, MembershipsWithinOrg, InOrg
  <2>3. call' = [call EXCEPT ![c] = NoCall] /\ space' = space
    BY <1>5 DEF AddWorkspaceMember, UpdateWorkspaceMemberRole, RemoveWorkspaceMember
  <2>4. d.space \in Spaces /\ d.user \in People
    BY DEF WorkspaceCalls
  <2>5. member' \in [Spaces -> [People -> MemberRoles \cup {"none"}]] /\ MembershipsWithinOrg'
    BY <2>2, <2>3, <2>4, MemberWritten
  <2> QED BY <2>3, <2>5, CallTyped DEF SpacesInv, NoCall
<1>6. ASSUME NEW c \in Calls, NEW n \in Names, UpdateWorkspace(c, n) PROVE SpacesInv'
  <2>1. PICK d \in WorkspaceCalls : call[c] = d
    BY <1>6 DEF UpdateWorkspace, SpacesInv, NoCall
  <2>2. /\ space' = [space EXCEPT ![d.space] = n] /\ member' = member
        /\ call' = [call EXCEPT ![c] = NoCall]
        /\ d.space \in Spaces
    BY <1>6, <2>1 DEF UpdateWorkspace, WorkspaceCalls
  <2>3. space' \in [Spaces -> Names \cup {NoName}] /\ MembershipsWithinOrg'
    BY <2>2, NamesAssumption DEF SpacesInv, MembershipsWithinOrg, Live
  <2> QED BY <2>2, <2>3, CallTyped DEF SpacesInv, NoCall
<1>7. ASSUME NEW c \in Calls, Drop(c) PROVE SpacesInv'
  BY <1>7, CallTyped DEF Drop, SpacesInv, NoCall, MembershipsWithinOrg, Live
<1>8. CASE UNCHANGED spaceVars
  BY <1>8 DEF spaceVars, SpacesInv, MembershipsWithinOrg, Live
<1> QED BY <1>1, <1>2, <1>3, <1>4, <1>5, <1>6, <1>7, <1>8 DEF SpacesNext, MemberRoles

\* No call of an administrator, however it races with the deletion of a
\* workspace or with other calls, joins a user of one organisation to a
\* workspace of another, or leaves a membership of a workspace that is gone.
THEOREM MembersAreOfTheOrganisation == SpacesSpec => []MembershipsWithinOrg
<1>1. SpacesInv => MembershipsWithinOrg
  BY DEF SpacesInv
<1> QED BY <1>1, SpacesStart, SpacesStep, PTL DEF SpacesSpec

-----------------------------------------------------------------------------
(* The configuration of an agent.                                          *)

ConfigSpec == ConfigInit /\ [][ConfigNext]_configVars

LEMMA ConfigStart == ConfigInit => ConfigInv
<1> SUFFICES ASSUME ConfigInit PROVE ConfigInv
  OBVIOUS
<1>1. agent \in BOOLEAN /\ agent /\ legacy \in BOOLEAN
  BY DEF ConfigInit
<1>2. legacy <=> config.paths = "profiles"
  BY DEF ConfigInit
<1>3. Storable(config)
  BY <1>2 DEF ConfigInit, Storable
<1>4. put = [p \in Puts |-> put[p]] /\ \A p \in Puts : PutInv(put[p])
  BY DEF ConfigInit, PutInv
<1> QED BY <1>1, <1>3, <1>4 DEF ConfigInv

\* What was sent is not forgotten, and an agent that is gone does not come
\* back: a PUT that may be finished, may be finished later.
LEMMA PutKept ==
    ASSUME NEW d, PutInv(d),
           sent.interval \subseteq sent'.interval, sent.paths \subseteq sent'.paths,
           agent' => agent, legacy' = legacy
    PROVE  PutInv(d)'
BY DEF PutInv, Storable

LEMMA ConfigStep == ConfigInv /\ [ConfigNext]_configVars => ConfigInv'
<1> SUFFICES ASSUME ConfigInv, [ConfigNext]_configVars PROVE ConfigInv'
  OBVIOUS
<1>1. ASSUME NEW p \in Puts, NEW d, put' = [put EXCEPT ![p] = d], PutInv(d)',
             sent.interval \subseteq sent'.interval, sent.paths \subseteq sent'.paths,
             agent' = agent, legacy' = legacy,
             \/ config' = config
             \/ \E row : config' = row /\ agent /\ Storable(row)
      PROVE  ConfigInv'
  <2>1. put' = [q \in Puts |-> put'[q]]
    BY <1>1 DEF ConfigInv
  <2>2. ASSUME NEW q \in Puts PROVE PutInv(put[q])'
    <3>1. CASE q = p
      BY <1>1, <3>1 DEF ConfigInv
    <3>2. CASE q # p
      <4>1. PICK e : e = put[q]
        OBVIOUS
      <4>2. PutInv(e)'
        BY <1>1, <4>1, PutKept DEF ConfigInv
      <4>3. put'[q] = e
        BY <1>1, <3>2, <4>1 DEF ConfigInv
      <4> QED BY <4>2, <4>3
    <3> QED BY <3>1, <3>2
  <2>3. (agent => Storable(config))' /\ (~agent => config = NoRow)'
    <3>1. ASSUME NEW row, Storable(row) PROVE Storable(row)'
      BY <1>1, <3>1 DEF Storable
    <3> QED BY <1>1, <3>1 DEF ConfigInv
  <2> QED BY <1>1, <2>1, <2>2, <2>3 DEF ConfigInv
<1>2. ASSUME NEW p \in Puts, NEW i \in Intervals \cup {"absent"},
             NEW l \in Paths \cup {"absent"}, BeginPut(p, i, l)
      PROVE  ConfigInv'
  <2>1. PICK d : d = [stage |-> "owned", interval |-> i, paths |-> l]
    OBVIOUS
  <2>2. /\ put' = [put EXCEPT ![p] = d]
        /\ sent'.interval = sent.interval \cup ({i} \ {"absent"})
        /\ sent'.paths = sent.paths \cup ({l} \ {"absent"})
        /\ agent' = agent /\ config' = config /\ legacy' = legacy
    BY <1>2, <2>1 DEF BeginPut
  <2>3. PutInv(d)'
    BY <2>1, <2>2 DEF PutInv
  <2> QED BY <1>1, <2>2, <2>3
<1>3. ASSUME NEW p \in Puts, ReadConfig(p) PROVE ConfigInv'
  <2>1. PICK d, e : d = put[p] /\ e = GetAgentConfig
    OBVIOUS
  <2>2. PICK f : f = IF PathsAccepted(e, d) THEN [stage |-> "merged", row |-> Merge(e, d)]
                     ELSE NoPut
    OBVIOUS
  <2>3. /\ put' = [put EXCEPT ![p] = f] /\ d.stage = "owned"
        /\ agent' = agent /\ config' = config /\ legacy' = legacy /\ sent' = sent
    BY <1>3, <2>1, <2>2 DEF ReadConfig, Merged
  <2>4. PutInv(f)
    <3>1. CASE ~PathsAccepted(e, d)
      BY <2>2, <3>1 DEF PutInv
    <3>2. CASE PathsAccepted(e, d)
      <4>1. /\ d.interval \in sent.interval \cup {"absent"}
            /\ d.paths \in (sent.paths \cap Paths) \cup {"absent"}
        BY <2>1, <2>3 DEF ConfigInv, PutInv, NoPut
      <4>2. ASSUME agent PROVE Storable(Merge(e, d))
        <5>1. Storable(e)
          BY <2>1, <4>2 DEF ConfigInv, GetAgentConfig, Storable, NoRow, Paths
        <5>2. d.paths = "profiles" => e.paths = "profiles"
          BY <3>2 DEF PathsAccepted, ValidateModelScanPathsFull, IsProfileParentScanPath
        <5> QED BY <4>1, <5>1, <5>2 DEF Storable, Merge
      <4> QED BY <2>2, <3>2, <4>2 DEF PutInv
    <3> QED BY <3>1, <3>2
  <2>5. PutInv(f)'
    BY <2>3, <2>4, PutKept
  <2> QED BY <1>1, <2>3, <2>5
<1>4. ASSUME NEW p \in Puts, ReadFails(p) PROVE ConfigInv'
  <2>1. PutInv(NoPut)'
    BY DEF PutInv
  <2> QED BY <1>1, <1>4, <2>1 DEF ReadFails
<1>5. ASSUME NEW p \in Puts, UpsertAgentConfig(p) PROVE ConfigInv'
  <2>1. PutInv(NoPut)'
    BY DEF PutInv
  <2>2. PICK d : d = put[p].row
    OBVIOUS
  <2>3. agent => Storable(d)
    BY <1>5, <2>2 DEF UpsertAgentConfig, ConfigInv, PutInv, NoPut, Storable, NoRow, Paths
  <2>4. config' = config \/ (agent /\ config' = d)
    BY <1>5, <2>2 DEF UpsertAgentConfig
  <2>5. /\ put' = [put EXCEPT ![p] = NoPut]
        /\ agent' = agent /\ sent' = sent /\ legacy' = legacy
    BY <1>5 DEF UpsertAgentConfig
  <2> QED BY <1>1, <2>1, <2>3, <2>4, <2>5
<1>6. CASE DropAgent
  <2>1. ASSUME NEW q \in Puts PROVE PutInv(put[q])'
    <3>1. PICK e : e = put[q]
      OBVIOUS
    <3>2. PutInv(e)'
      BY <1>6, <3>1, PutKept DEF ConfigInv, DropAgent
    <3> QED BY <1>6, <3>1, <3>2 DEF DropAgent
  <2> QED BY <1>6, <2>1 DEF DropAgent, ConfigInv
<1>7. CASE UNCHANGED configVars
  BY <1>7 DEF configVars, ConfigInv, Storable, PutInv
<1> QED BY <1>2, <1>3, <1>4, <1>5, <1>6, <1>7 DEF ConfigNext

\* Whatever PUTs race and whatever fails, a field no request sent keeps its
\* value, the paths of old are kept only where they were, and the row goes
\* with the agent.
THEOREM ConfigurationKept == ConfigSpec => []ConfigKept
<1>1. ConfigInv => ConfigKept
  BY DEF ConfigInv, ConfigKept, Storable, NoRow
<1> QED BY <1>1, ConfigStart, ConfigStep, PTL DEF ConfigSpec

-----------------------------------------------------------------------------
(* The audit trail of administrators' changes.                             *)

AuditSpec == AuditInit /\ [][AuditNext]_auditVars

\* A key and its event go together.
THEOREM RevocationsAreAudited == AuditSpec => []AuditedOrUndone
<1>1. AuditInit => AuditedOrUndone
  BY DEF AuditInit, AuditedOrUndone
<1>2. AuditedOrUndone /\ [AuditNext]_auditVars => AuditedOrUndone'
  BY DEF AuditedOrUndone, AuditNext, Change, LockChain, Commit, Rollback, Tamper, auditVars
<1> QED BY <1>1, <1>2, PTL DEF AuditSpec

\* Every set of naturals that is not empty has a least element.
LEMMA LeastNatural ==
    ASSUME NEW T, T \subseteq Nat, T # {}
    PROVE  \E x \in T : \A y \in T : x <= y
<1>1. PICK x \in T : \A y \in T : ~ <<y, x>> \in OpToRel(<, Nat)
  BY NatLessThanWellFounded, WFMin
<1>2. \A y \in T : ~(y < x)
  BY <1>1 DEF OpToRel
<1> QED BY <1>2

\* A walk that finds no fault has counted the rows.
LEMMA ValidNumbers ==
    ASSUME Ordered(rows), VerifyAdminAuditChain
    PROVE  \A i \in DOMAIN rows : rows[i].seq = i
<1>0. \A i \in DOMAIN rows : i \in 1..Len(rows) /\ rows[i].seq \in Nat
  BY DEF Ordered, IsRow
<1> DEFINE T == {i \in DOMAIN rows : rows[i].seq # i}
<1>1. SUFFICES ASSUME T # {} PROVE FALSE
  OBVIOUS
<1>2. T \subseteq Nat
  BY <1>0
<1>3. PICK x \in T : \A y \in T : x <= y
  BY <1>1, <1>2, LeastNatural
<1>4. x # 1
  BY <1>3 DEF VerifyAdminAuditChain
<1>5. x - 1 \in DOMAIN rows /\ x - 1 < x /\ x - 1 \in Nat
  BY <1>0, <1>3, <1>4 DEF Ordered
<1>6. rows[x-1].seq = x - 1
  <2>1. x \in Nat /\ ~(x <= x - 1)
    BY <1>2
  <2>2. x - 1 \notin T
    BY <1>3, <2>1
  <2> QED BY <1>5, <2>2
<1>7. rows[x].seq = rows[x-1].seq + 1
  BY <1>3, <1>4 DEF VerifyAdminAuditChain
<1> QED BY <1>0, <1>3, <1>6, <1>7

\* The hashes of a chain are different, as each has its number in it.
LEMMA ChainedDistinct ==
    ASSUME NEW n, NEW G, Chained(G, n), NEW i \in 1..n, NEW j \in 1..n, G[i] = G[j]
    PROVE  i = j
BY DEF Chained

\* Different hashes are in different rows.
LEMMA HashesFit ==
    ASSUME NEW n \in Nat, NEW m \in Nat, NEW rs, DOMAIN rs = 1..m,
           NEW G \in [1..n -> HashesOf(rs)],
           \A i, j \in 1..n : G[i] = G[j] => i = j
    PROVE  n <= m
<1>1. SUFFICES ASSUME m < n PROVE FALSE
  OBVIOUS
<1> DEFINE f == [j \in 1..n |-> CHOOSE i \in 1..m : rs[i].hash = G[j]]
<1>2. \A j \in 1..n : f[j] \in 1..m /\ rs[f[j]].hash = G[j]
  BY DEF HashesOf
<1>3. f \in [1..n -> 1..m]
  BY <1>2
<1>4. /\ IsFiniteSet(1..n) /\ Cardinality(1..n) = n
      /\ IsFiniteSet(1..m) /\ Cardinality(1..m) = m
  BY FS_Interval
<1> HIDE DEF f
<1>5. PICK x \in 1..n, y \in 1..n : x # y /\ f[x] = f[y]
  BY <1>1, <1>3, <1>4, FS_PigeonHole
<1> QED BY <1>2, <1>5

\* A function on 1..n is a sequence.
LEMMA FunctionIsSeq ==
    ASSUME NEW n \in Nat, NEW S, NEW s \in [1..n -> S]
    PROVE  s \in Seq(S) /\ Len(s) = n
<1>1. s \in Seq(S)
  BY SeqDef
<1> QED BY <1>1, LenProperties

\* Rows changed in place keep the order.
LEMMA EditedOrdered ==
    ASSUME NEW old, Ordered(old), NEW new, DOMAIN new = DOMAIN old, new = [i \in DOMAIN new |-> new[i]],
           \A i \in DOMAIN old : IsRow(new[i]) /\ new[i].seq = old[i].seq
    PROVE  Ordered(new) /\ Len(new) = Len(old)
<1>1. PICK n \in Nat : DOMAIN old = 1..n /\ n = Len(old)
  BY DEF Ordered
<1>2. new \in [1..n -> {new[i] : i \in DOMAIN new}]
  BY <1>1
<1>3. new \in Seq({new[i] : i \in DOMAIN new}) /\ Len(new) = n
  BY <1>2, FunctionIsSeq
<1> QED BY <1>1, <1>3 DEF Ordered

\* So do the ones that are left when one is taken out.
LEMMA RemovedOrdered ==
    ASSUME NEW old, Ordered(old), NEW x \in DOMAIN old, NEW new, new = RemoveAt(old, x)
    PROVE  /\ Ordered(new) /\ Len(new) = Len(old) - 1
           /\ \A i \in DOMAIN new : \E j \in DOMAIN old : new[i] = old[j]
<1> DEFINE S == {old[i] : i \in DOMAIN old}
<1>1. old \in Seq(S) /\ x \in 1..Len(old) /\ Len(old) \in Nat /\ DOMAIN old = 1..Len(old)
  BY DEF Ordered
<1> DEFINE a == SubSeq(old, 1, x-1)
           b == SubSeq(old, x+1, Len(old))
<1>2. /\ a \in Seq(S) /\ Len(a) = x - 1
      /\ \A i \in 1..(x-1) : a[i] = old[i]
  BY <1>1
<1>3. /\ b \in Seq(S) /\ Len(b) = Len(old) - x
      /\ \A i \in 1..(Len(old) - x) : b[i] = old[x + i]
  <2>1. x + 1 \in Int /\ Len(old) \in Int /\ \A i \in (x+1)..Len(old) : old[i] \in S
    BY <1>1
  <2>2. /\ b \in Seq(S)
        /\ Len(b) = (IF x + 1 <= Len(old) THEN Len(old) - (x + 1) + 1 ELSE 0)
        /\ \A i \in 1..(Len(old) - (x + 1) + 1) : b[i] = old[x + 1 + i - 1]
    BY <2>1, SubSeqProperties
  <2>3. Len(b) = Len(old) - x
    BY <1>1, <2>2
  <2>4. ASSUME NEW i \in 1..(Len(old) - x) PROVE b[i] = old[x + i]
    <3>1. i \in 1..(Len(old) - (x + 1) + 1) /\ x + 1 + i - 1 = x + i
      BY <1>1
    <3> HIDE DEF b
    <3> QED BY <2>2, <3>1
  <2> QED BY <2>2, <2>3, <2>4
<1> HIDE DEF S, a, b
<1>4. new = a \o b
  BY DEF RemoveAt, a, b
<1>5. /\ new \in Seq(S) /\ Len(new) = Len(old) - 1 /\ DOMAIN new = 1..(Len(old) - 1)
      /\ \A i \in 1..(Len(old) - 1) : new[i] = IF i < x THEN a[i] ELSE b[i - (x-1)]
  <2>1. /\ new \in Seq(S) /\ Len(new) = Len(a) + Len(b)
        /\ \A i \in 1..(Len(a) + Len(b)) :
              new[i] = IF i <= Len(a) THEN a[i] ELSE b[i - Len(a)]
    BY <1>2, <1>3, <1>4, ConcatProperties
  <2>2. Len(a) + Len(b) = Len(old) - 1
    BY <1>1, <1>2, <1>3
  <2>3. \A i \in 1..(Len(old) - 1) : i <= Len(a) <=> i < x
    BY <1>1, <1>2
  <2>4. DOMAIN new = 1..(Len(old) - 1)
    BY <2>1, <2>2, LenProperties
  <2> QED BY <1>2, <2>1, <2>2, <2>3, <2>4
<1>6. ASSUME NEW i \in DOMAIN new PROVE new[i] = old[IF i < x THEN i ELSE i + 1]
  <2>1. i \in 1..(Len(old) - 1)
    BY <1>5
  <2>2. CASE i < x
    <3>1. i \in 1..(x - 1)
      BY <1>1, <2>1, <2>2
    <3> QED BY <1>2, <1>5, <2>1, <2>2, <3>1
  <2>3. CASE ~(i < x)
    <3>1. i - (x-1) \in 1..(Len(old) - x) /\ x + (i - (x-1)) = i + 1
      BY <1>1, <2>1, <2>3
    <3> QED BY <1>3, <1>5, <2>1, <2>3, <3>1
  <2> QED BY <2>2, <2>3
<1>7. new \in [1..Len(new) -> {new[j] : j \in DOMAIN new}]
  BY <1>5, LenProperties
<1>8. new \in Seq({new[j] : j \in DOMAIN new})
  BY <1>1, <1>5, <1>7, FunctionIsSeq
<1> DEFINE at(i) == IF i < x THEN i ELSE i + 1
<1>9. \A i \in DOMAIN new : /\ i \in Int /\ at(i) \in DOMAIN old /\ at(i) \in Int /\ at(i) >= i
                            /\ new[i] = old[at(i)]
  BY <1>1, <1>5, <1>6
<1>10. \A i, j \in DOMAIN new : i < j => at(i) < at(j)
  BY <1>1, <1>5
<1> HIDE DEF at
<1>11. \A i \in DOMAIN new : IsRow(new[i]) /\ new[i].seq >= i
  BY <1>9 DEF Ordered, IsRow
<1>12. \A i, j \in DOMAIN new : i < j => new[i].seq < new[j].seq
  BY <1>9, <1>10 DEF Ordered
<1>13. Ordered(new)
  BY <1>8, <1>11, <1>12 DEF Ordered
<1> QED BY <1>5, <1>9, <1>13


\* What a change by hand can do: rows stay in order, there are no more of
\* them, and no hash is made but the empty one.
LEMMA ByHandKeeps ==
    ASSUME Ordered(rows), NEW new \in ByHand
    PROVE  /\ Ordered(new) /\ Len(new) <= Len(rows)
           /\ HashesOf(new) \subseteq HashesOf(rows) \cup {<<>>}
           /\ \A i \in DOMAIN new : \E j \in DOMAIN rows : new[i].seq = rows[j].seq
<1>0. Len(rows) \in Nat /\ DOMAIN rows = 1..Len(rows) /\ \A i \in DOMAIN rows : IsRow(rows[i])
  BY DEF Ordered
<1>1. ASSUME DOMAIN new = DOMAIN rows, new = [i \in DOMAIN new |-> new[i]],
             \A i \in DOMAIN rows :
                /\ IsRow(new[i]) /\ new[i].seq = rows[i].seq
                /\ new[i].hash \in HashesOf(rows) \cup {<<>>}
      PROVE  /\ Ordered(new) /\ Len(new) <= Len(rows)
             /\ HashesOf(new) \subseteq HashesOf(rows) \cup {<<>>}
             /\ \A i \in DOMAIN new : \E j \in DOMAIN rows : new[i].seq = rows[j].seq
  <2>1. Ordered(new) /\ Len(new) = Len(rows)
    BY <1>1, EditedOrdered
  <2>2. HashesOf(new) \subseteq HashesOf(rows) \cup {<<>>}
    BY <1>1 DEF HashesOf
  <2> QED BY <1>0, <1>1, <2>1, <2>2
<1>2. PICK x \in DOMAIN rows :
         \/ \E k \in Keys : new = [rows EXCEPT ![x].target = k]
         \/ new = [rows EXCEPT ![x].prev = <<>>]
         \/ new = [rows EXCEPT ![x].hash = <<>>]
         \/ new = RemoveAt(rows, x)
         \/ \E y \in DOMAIN rows :
               new = [rows EXCEPT ![x] = [rows[y] EXCEPT !.seq = rows[x].seq],
                                  ![y] = [rows[x] EXCEPT !.seq = rows[y].seq]]
  BY DEF ByHand
<1>3. ASSUME NEW k \in Keys, new = [rows EXCEPT ![x].target = k]
      PROVE  \A i \in DOMAIN rows : IsRow(new[i]) /\ new[i].seq = rows[i].seq /\ new[i].hash = rows[i].hash
  <2>1. ASSUME NEW i \in DOMAIN rows
        PROVE  IsRow(new[i]) /\ new[i].seq = rows[i].seq /\ new[i].hash = rows[i].hash
    <3>1. new[i] = IF i = x THEN [rows[i] EXCEPT !.target = k] ELSE rows[i]
      BY <1>3
    <3> QED BY <1>0, <3>1 DEF IsRow
  <2> QED BY <2>1
<1>4. ASSUME new = [rows EXCEPT ![x].prev = <<>>]
      PROVE  \A i \in DOMAIN rows : IsRow(new[i]) /\ new[i].seq = rows[i].seq /\ new[i].hash = rows[i].hash
  <2>1. ASSUME NEW i \in DOMAIN rows
        PROVE  IsRow(new[i]) /\ new[i].seq = rows[i].seq /\ new[i].hash = rows[i].hash
    <3>1. new[i] = IF i = x THEN [rows[i] EXCEPT !.prev = <<>>] ELSE rows[i]
      BY <1>4
    <3> QED BY <1>0, <3>1 DEF IsRow
  <2> QED BY <2>1
<1>5. ASSUME new = [rows EXCEPT ![x].hash = <<>>]
      PROVE  \A i \in DOMAIN rows :
                IsRow(new[i]) /\ new[i].seq = rows[i].seq /\ new[i].hash \in {rows[i].hash, <<>>}
  <2>1. ASSUME NEW i \in DOMAIN rows
        PROVE  IsRow(new[i]) /\ new[i].seq = rows[i].seq /\ new[i].hash \in {rows[i].hash, <<>>}
    <3>1. new[i] = IF i = x THEN [rows[i] EXCEPT !.hash = <<>>] ELSE rows[i]
      BY <1>5
    <3> QED BY <1>0, <3>1 DEF IsRow
  <2> QED BY <2>1
<1>6. ASSUME NEW y \in DOMAIN rows,
             new = [rows EXCEPT ![x] = [rows[y] EXCEPT !.seq = rows[x].seq],
                                ![y] = [rows[x] EXCEPT !.seq = rows[y].seq]]
      PROVE  \A i \in DOMAIN rows :
                IsRow(new[i]) /\ new[i].seq = rows[i].seq /\ \E j \in DOMAIN rows : new[i].hash = rows[j].hash
  <2>1. ASSUME NEW i \in DOMAIN rows
        PROVE  IsRow(new[i]) /\ new[i].seq = rows[i].seq /\ \E j \in DOMAIN rows : new[i].hash = rows[j].hash
    <3>1. CASE i # x /\ i # y
      BY <1>0, <1>6, <3>1
    <3>2. CASE i = y
      <4>1. new[i] = [rows[x] EXCEPT !.seq = rows[y].seq]
        BY <1>6, <3>2
      <4> QED BY <1>0, <3>2, <4>1 DEF IsRow
    <3>3. CASE i = x /\ i # y
      <4>1. new[i] = [rows[y] EXCEPT !.seq = rows[x].seq]
        BY <1>6, <3>3
      <4> QED BY <1>0, <3>3, <4>1 DEF IsRow
    <3> QED BY <3>1, <3>2, <3>3
  <2> QED BY <2>1
<1>7. ASSUME new = RemoveAt(rows, x)
      PROVE  /\ Ordered(new) /\ Len(new) <= Len(rows)
             /\ HashesOf(new) \subseteq HashesOf(rows) \cup {<<>>}
             /\ \A i \in DOMAIN new : \E j \in DOMAIN rows : new[i].seq = rows[j].seq
  <2>1. /\ Ordered(new) /\ Len(new) = Len(rows) - 1
        /\ \A i \in DOMAIN new : \E j \in DOMAIN rows : new[i] = rows[j]
    BY <1>7, RemovedOrdered
  <2>2. HashesOf(new) \subseteq HashesOf(rows)
    BY <2>1 DEF HashesOf
  <2> QED BY <1>0, <2>1, <2>2
<1>8. \A i \in DOMAIN rows : rows[i].hash \in HashesOf(rows)
  BY DEF HashesOf
<1>9. CASE new = RemoveAt(rows, x)
  BY <1>7, <1>9
<1>10. CASE new # RemoveAt(rows, x)
  <2>1. DOMAIN new = DOMAIN rows /\ new = [i \in DOMAIN new |-> new[i]]
    BY <1>2, <1>10
  <2>2. \A i \in DOMAIN rows :
           /\ IsRow(new[i]) /\ new[i].seq = rows[i].seq
           /\ new[i].hash \in HashesOf(rows) \cup {<<>>}
    BY <1>2, <1>3, <1>4, <1>5, <1>6, <1>8, <1>10
  <2> QED BY <1>1, <2>1, <2>2
<1> QED BY <1>9, <1>10

\* Taking hashes away makes no chain.
LEMMA AncestryTampered ==
    ASSUME AncestryInv, written' = written,
           Len(rows) \in Nat, Len(rows') \in Nat, Len(rows') <= Len(rows),
           HashesOf(rows') \subseteq HashesOf(rows) \cup {<<>>}
    PROVE  AncestryInv'
<1> SUFFICES ASSUME NEW n \in 1..Len(rows'), NEW G \in [1..n -> HashesOf(rows')], Chained(G, n)
             PROVE  \A j \in 1..n : j \in DOMAIN written /\ written[j].hash = G[j]
  BY DEF AncestryInv, HashesOf, Chained, AdminAuditGenesis
<1>1. \A j \in 1..n : G[j] # <<>>
  BY DEF Chained
<1>2. G \in [1..n -> HashesOf(rows)]
  BY <1>1
<1>3. n \in 1..Len(rows)
  OBVIOUS
<1> QED BY <1>2, <1>3 DEF AncestryInv

\* The row that is inserted after all the others is the end of the chains it
\* is in, and a chain it is not in is too short to reach its number.
LEMMA AncestryAppended ==
    ASSUME AncestryInv, Ordered(rows), NEW row, rows' = Append(rows, row),
           row.seq \in Nat \ {0}, \A i \in DOMAIN rows : rows[i].seq < row.seq,
           row.hash = <<row.prev, row.seq, row.target>>,
           written' = [i \in DOMAIN written \cup {row.seq} |->
                          IF i = row.seq THEN row ELSE written[i]]
    PROVE  AncestryInv'
<1> DEFINE m == Len(rows)
           s == row.seq
           h == row.hash
<1>0. m \in Nat /\ DOMAIN rows = 1..m /\ \A i \in DOMAIN rows : rows[i].seq \in Nat /\ rows[i].seq >= i
  BY DEF Ordered, IsRow
<1>1. m < s
  <2>1. CASE m = 0
    BY <2>1
  <2>2. CASE m # 0
    <3>1. m \in DOMAIN rows
      BY <1>0, <2>2
    <3> QED BY <1>0, <3>1
  <2> QED BY <2>1, <2>2
<1>2. /\ Len(rows') = m + 1 /\ DOMAIN rows' = 1..(m+1)
      /\ rows'[m+1] = row /\ \A i \in 1..m : rows'[i] = rows[i]
  BY DEF Ordered
<1>3. HashesOf(rows)' = HashesOf(rows) \cup {h}
  <2>1. 1..(m+1) = (1..m) \cup {m+1}
    BY <1>0
  <2>2. HashesOf(rows)' = {rows'[i].hash : i \in (1..m) \cup {m+1}}
    BY <1>2, <2>1 DEF HashesOf
  <2>3. HashesOf(rows) = {rows'[i].hash : i \in 1..m}
    BY <1>0, <1>2 DEF HashesOf
  <2> QED BY <1>2, <2>2, <2>3
<1> SUFFICES ASSUME NEW n \in 1..Len(rows'), NEW G \in [1..n -> HashesOf(rows)'], Chained(G, n)
             PROVE  \A j \in 1..n : j \in DOMAIN written' /\ written'[j].hash = G[j]
  BY Zenon DEF AncestryInv
<1>a. n \in 1..(m+1) /\ G \in [1..n -> HashesOf(rows) \cup {h}]
  BY <1>2, <1>3
<1> USE <1>a
<1>4. \A j \in 1..n : G[j] = h => j = s
  BY DEF Chained
<1>5. \A j \in DOMAIN written : j # s => j \in DOMAIN written' /\ written'[j] = written[j]
  OBVIOUS
<1>6. CASE \E j \in 1..n : G[j] = h
  <2>1. n = s /\ s = m + 1 /\ G[s] = h
    BY <1>0, <1>1, <1>4, <1>6
  <2>2. s \in DOMAIN written' /\ written'[s].hash = h
    OBVIOUS
  <2>3. CASE m = 0
    BY <2>1, <2>2, <2>3
  <2>4. CASE m # 0
    <3> DEFINE F == [i \in 1..m |-> G[i]]
    <3>1. \A i \in 1..m : i \in 1..n /\ G[i] # h
      BY <1>0, <1>4, <2>1
    <3>2. F \in [1..m -> HashesOf(rows)]
      BY <3>1
    <3>3. Chained(F, m)
      <4>1. ASSUME NEW j \in 1..m
            PROVE  \E k \in Keys : F[j] = <<IF j = 1 THEN AdminAuditGenesis ELSE F[j-1], j, k>>
        <5>1. PICK k \in Keys : G[j] = <<IF j = 1 THEN AdminAuditGenesis ELSE G[j-1], j, k>>
          BY <3>1 DEF Chained
        <5>2. j # 1 => j - 1 \in 1..m
          BY <1>0
        <5>3. F[j] = G[j] /\ (j # 1 => F[j-1] = G[j-1])
          BY <5>2
        <5> QED BY <5>1, <5>3
      <4> QED BY <4>1 DEF Chained
    <3>4. m \in 1..Len(rows)
      BY <1>0, <2>4
    <3> HIDE DEF F
    <3>5. \A j \in 1..m : j \in DOMAIN written /\ written[j].hash = F[j]
      BY <3>2, <3>3, <3>4 DEF AncestryInv
    <3>6. \A j \in 1..m : F[j] = G[j] /\ j # s
      BY <1>0, <1>1 DEF F
    <3>7. \A j \in 1..n : j = s \/ j \in 1..m
      BY <1>0, <2>1
    <3> QED BY <1>5, <2>1, <2>2, <3>5, <3>6, <3>7
  <2> QED BY <2>3, <2>4
<1>7. CASE \A j \in 1..n : G[j] # h
  <2>1. G \in [1..n -> HashesOf(rows)]
    BY <1>7
  <2>2. \A i, j \in 1..n : G[i] = G[j] => i = j
    BY ChainedDistinct
  <2>3. n <= m
    BY <1>0, <2>1, <2>2, HashesFit
  <2>4. n \in 1..Len(rows)
    BY <1>0, <2>3
  <2>5. \A j \in 1..n : j \in DOMAIN written /\ written[j].hash = G[j]
    BY <2>1, <2>4 DEF AncestryInv
  <2>6. \A j \in 1..n : j # s
    BY <1>0, <1>1, <2>3
  <2> QED BY <1>5, <2>5, <2>6
<1> QED BY <1>6, <1>7

LEMMA AppendOrdered ==
    ASSUME Ordered(rows), NEW row, IsRow(row), row.seq # 0,
           \A i \in DOMAIN rows : rows[i].seq < row.seq
    PROVE  /\ Ordered(Append(rows, row))
           /\ Len(Append(rows, row)) = Len(rows) + 1
           /\ Append(rows, row)[Len(rows) + 1] = row
           /\ \A i \in DOMAIN rows : Append(rows, row)[i] = rows[i]
<1> DEFINE m == Len(rows)
           new == Append(rows, row)
           S == {rows[i] : i \in DOMAIN rows} \cup {row}
<1>0. /\ m \in Nat /\ DOMAIN rows = 1..m /\ row.seq \in Nat
      /\ \A i \in DOMAIN rows : IsRow(rows[i]) /\ rows[i].seq \in Nat /\ rows[i].seq >= i
  BY DEF Ordered, IsRow
<1>1. m < row.seq
  <2>1. CASE m = 0
    BY <1>0, <2>1
  <2>2. CASE m # 0
    <3>1. m \in DOMAIN rows
      BY <1>0, <2>2
    <3> QED BY <1>0, <3>1
  <2> QED BY <2>1, <2>2
<1>2. rows \in Seq(S)
  BY SeqMonotonic DEF Ordered
<1>3. /\ new \in Seq(S) /\ Len(new) = m + 1
      /\ new[m+1] = row /\ \A i \in 1..m : new[i] = rows[i]
  BY <1>2
<1> HIDE DEF new, S
<1>4. DOMAIN new = 1..(m+1) /\ new \in [1..(m+1) -> S]
  BY <1>3, LenProperties
<1>5. new \in [1..(m+1) -> {new[i] : i \in DOMAIN new}]
  BY <1>4
<1>6. new \in Seq({new[i] : i \in DOMAIN new})
  BY <1>0, <1>5, FunctionIsSeq
<1>7. \A i \in DOMAIN new : IsRow(new[i]) /\ new[i].seq >= i
  <2>1. ASSUME NEW i \in 1..(m+1) PROVE IsRow(new[i]) /\ new[i].seq >= i
    BY <1>0, <1>1, <1>3
  <2> QED BY <1>4, <2>1
<1>8. \A i, j \in DOMAIN new : i < j => new[i].seq < new[j].seq
  <2>1. ASSUME NEW i \in 1..(m+1), NEW j \in 1..(m+1), i < j PROVE new[i].seq < new[j].seq
    <3>1. i \in 1..m
      BY <1>0, <2>1
    <3>2. CASE j = m + 1
      BY <1>0, <1>3, <3>1, <3>2
    <3>3. CASE j \in 1..m
      BY <1>0, <1>3, <2>1, <3>1, <3>3 DEF Ordered
    <3> QED BY <1>0, <3>2, <3>3
  <2> QED BY <1>4, <2>1
<1>9. Ordered(new)
  BY <1>6, <1>7, <1>8 DEF Ordered
<1> QED BY <1>0, <1>3, <1>9 DEF new

\* A transaction is not disturbed by rows that go, nor by its lock being held.
LEMMA TxKept ==
    ASSUME NEW t, TxInv(t),
           \A i \in DOMAIN rows' : \E j \in DOMAIN rows : rows'[i].seq = rows[j].seq,
           tampering' = 0 => tampering = 0 /\ ChainHead' = ChainHead
    PROVE  TxInv(t)'
BY DEF TxInv, HeldHead

\* The head that is read is the last row, and no row has a greater number.
LEMMA HeadIsLast ==
    ASSUME Ordered(rows)
    PROVE  /\ ChainHead.seq \in Nat
           /\ \A i \in DOMAIN rows : rows[i].seq <= ChainHead.seq
           /\ rows = <<>> => ChainHead.seq = 0 /\ ChainHead.hash = AdminAuditGenesis
           /\ rows # <<>> => ChainHead = rows[Len(rows)] /\ Len(rows) \in DOMAIN rows
<1>0. /\ Len(rows) \in Nat /\ DOMAIN rows = 1..Len(rows)
      /\ \A i \in DOMAIN rows : rows[i].seq \in Nat
  BY DEF Ordered, IsRow
<1>1. CASE rows = <<>>
  BY <1>1 DEF ChainHead
<1>2. CASE rows # <<>>
  <2>1. Len(rows) \in DOMAIN rows
    BY <1>0, <1>2 DEF Ordered
  <2>2. ChainHead = rows[Len(rows)]
    BY <1>2 DEF ChainHead, Last
  <2>3. ASSUME NEW i \in DOMAIN rows PROVE rows[i].seq <= rows[Len(rows)].seq
    <3>1. i = Len(rows) \/ i < Len(rows)
      BY <1>0
    <3> QED BY <1>0, <2>1, <3>1 DEF Ordered
  <2> QED BY <1>0, <1>2, <2>1, <2>2, <2>3
<1> QED BY <1>1, <1>2

LEMMA AuditStart == AuditInit => AuditInv
<1> SUFFICES ASSUME AuditInit PROVE AuditInv
  OBVIOUS
<1>1. /\ rows = <<>> /\ written = <<>> /\ tampering = 0 /\ tx = [w \in Writers |-> NoTx]
      /\ Len(rows) = 0 /\ DOMAIN rows = {} /\ 1..0 = {}
  BY DEF AuditInit
<1>2. Ordered(rows)
  BY <1>1 DEF Ordered
<1>3. AncestryInv
  BY <1>1 DEF AncestryInv
<1>4. VerifyAdminAuditChain
  BY <1>1 DEF VerifyAdminAuditChain
<1>5. \A w \in Writers : TxInv(tx[w]) /\ tx[w].stage = "none"
  BY <1>1 DEF TxInv, NoTx
<1> QED BY <1>1, <1>2, <1>3, <1>4, <1>5 DEF AuditInv

\* The commit of a revocation and its event.
LEMMA CommitAudit ==
    ASSUME AuditInv, NEW w \in Writers, Commit(w) PROVE AuditInv'
<1>1. PICK t : t = tx[w]
  OBVIOUS
<1>2. /\ t.stage = "locked" /\ t.key \in Keys /\ HeldHead(t.head)
      /\ t.head.seq \in Nat
  BY <1>1 DEF Commit, AuditInv, TxInv, NoTx, HeldHead
<1>3. PICK row : row = NextRow(t.head, t.key)
  OBVIOUS
<1>4. /\ row = [seq |-> t.head.seq + 1, target |-> t.key, prev |-> t.head.hash,
                hash |-> <<t.head.hash, t.head.seq + 1, t.key>>]
  BY <1>3 DEF NextRow, adminAuditRowHash
<1>5. /\ IsRow(row) /\ row.seq \in Nat \ {0} /\ row.seq = t.head.seq + 1
      /\ row.prev = t.head.hash /\ row.hash = <<row.prev, row.seq, row.target>>
      /\ row.hash = adminAuditRowHash(row)
  BY <1>2, <1>4 DEF IsRow, adminAuditRowHash
<1>6. \A i \in DOMAIN rows : rows[i].seq < row.seq
  BY <1>2, <1>5 DEF HeldHead, AuditInv, Ordered, IsRow
<1>7. /\ rows' = Append(rows, row)
      /\ written' = [i \in DOMAIN written \cup {row.seq} |->
                        IF i = row.seq THEN row ELSE written[i]]
      /\ tx' = [tx EXCEPT ![w] = NoTx] /\ tampering' = tampering
  BY <1>1, <1>3 DEF Commit
<1>8. /\ Ordered(rows') /\ Len(rows') = Len(rows) + 1 /\ rows'[Len(rows) + 1] = row
      /\ \A i \in DOMAIN rows : rows'[i] = rows[i]
  BY <1>5, <1>6, <1>7, AppendOrdered DEF AuditInv
<1>9. AncestryInv'
  BY <1>5, <1>6, <1>7, AncestryAppended DEF AuditInv
<1>10. /\ written' = [i \in DOMAIN written' |-> written'[i]]
       /\ \A i \in DOMAIN written' :
             IsRow(written'[i]) /\ written'[i].hash = adminAuditRowHash(written'[i])
  BY <1>5, <1>7 DEF AuditInv
<1>11. tx' = [v \in Writers |-> tx'[v]] /\ tx'[w] = NoTx /\ \A v \in Writers : v # w => tx'[v] = tx[v]
  BY <1>7 DEF AuditInv
<1>12. ASSUME NEW v \in Writers PROVE TxInv(tx[v])' /\ tx'[v].stage # "locked"
  <2>1. CASE v = w
    BY <1>11, <2>1 DEF TxInv, NoTx
  <2>2. CASE v # w
    <3>1. tx[v].stage # "locked"
      BY <1>1, <1>2, <2>2 DEF AuditInv
    <3> QED BY <1>11, <2>2, <3>1 DEF AuditInv, TxInv
  <2> QED BY <2>1, <2>2
<1>13. ASSUME tampering = 0 PROVE VerifyAdminAuditChain' /\ rows' = written'
  <2>0. /\ Len(rows) \in Nat /\ DOMAIN rows = 1..Len(rows) /\ DOMAIN rows' = 1..(Len(rows) + 1)
    BY <1>8 DEF AuditInv, Ordered
  <2>1. VerifyAdminAuditChain /\ rows = written
    BY <1>13 DEF AuditInv
  <2>2. t.head.seq = ChainHead.seq /\ t.head.hash = ChainHead.hash
    BY <1>2, <1>13 DEF HeldHead
  <2>3. t.head.seq = Len(rows)
    <3>1. CASE rows = <<>>
      BY <2>2, <3>1, HeadIsLast DEF AuditInv
    <3>2. CASE rows # <<>>
      BY <2>1, <2>2, <3>2, HeadIsLast, ValidNumbers DEF AuditInv
    <3> QED BY <3>1, <3>2
  <2>4. row.seq = Len(rows) + 1
    BY <1>5, <2>3
  <2>5. row.prev = IF Len(rows) + 1 = 1 THEN AdminAuditGenesis ELSE rows[Len(rows)].hash
    <3>1. CASE rows = <<>>
      BY <1>5, <2>0, <2>2, <3>1, HeadIsLast DEF AuditInv
    <3>2. CASE rows # <<>>
      BY <1>5, <2>0, <2>2, <3>2, HeadIsLast DEF AuditInv
    <3> QED BY <3>1, <3>2
  <2>6. ASSUME NEW i \in 1..(Len(rows) + 1)
        PROVE  /\ rows'[i].seq = IF i = 1 THEN 1 ELSE rows'[i-1].seq + 1
               /\ rows'[i].prev = IF i = 1 THEN AdminAuditGenesis ELSE rows'[i-1].hash
               /\ rows'[i].hash = adminAuditRowHash(rows'[i])
    <3>1. i # 1 => i - 1 \in DOMAIN rows /\ rows'[i-1] = rows[i-1]
      BY <1>8, <2>0
    <3>2. CASE i \in DOMAIN rows
      BY <1>8, <2>1, <3>1, <3>2 DEF VerifyAdminAuditChain
    <3>3. CASE i = Len(rows) + 1
      <4>1. rows'[i] = row
        BY <1>8, <3>3
      <4>2. i # 1 => rows[i-1].seq = i - 1
        BY <2>1, <3>1, ValidNumbers DEF AuditInv
      <4>3. i - 1 = Len(rows)
        BY <2>0, <3>3
      <4> QED BY <1>5, <2>0, <2>4, <2>5, <3>1, <3>3, <4>1, <4>2, <4>3
    <3> QED BY <2>0, <3>2, <3>3
  <2>7. VerifyAdminAuditChain'
    <3>1. AdminAuditGenesis' = AdminAuditGenesis
      BY DEF AdminAuditGenesis
    <3> QED BY <2>0, <2>6, <3>1 DEF VerifyAdminAuditChain, adminAuditRowHash
  <2>8. DOMAIN written' = DOMAIN rows'
    BY <1>7, <2>0, <2>1, <2>4
  <2>9. \A i \in DOMAIN rows' : rows'[i] = written'[i]
    BY <1>7, <1>8, <2>0, <2>1, <2>4
  <2>10. rows' = [i \in DOMAIN rows' |-> rows'[i]]
    BY <1>8 DEF Ordered
  <2> QED BY <1>10, <2>7, <2>8, <2>9, <2>10
<1> QED BY <1>7, <1>8, <1>9, <1>10, <1>11, <1>12, <1>13 DEF AuditInv

LEMMA AuditStep == AuditInv /\ [AuditNext]_auditVars => AuditInv'
<1> SUFFICES ASSUME AuditInv, [AuditNext]_auditVars PROVE AuditInv'
  OBVIOUS
<1>1. ASSUME NEW w \in Writers, NEW t, tx' = [tx EXCEPT ![w] = t], TxInv(t),
             t.stage = "locked" => \A v \in Writers : tx[v].stage # "locked",
             UNCHANGED <<rows, written, tampering>>
      PROVE  AuditInv'
  <2>1. /\ tx' = [v \in Writers |-> tx'[v]] /\ tx'[w] = t
        /\ \A v \in Writers : v # w => tx'[v] = tx[v]
    BY <1>1 DEF AuditInv
  <2>2. ChainHead' = ChainHead
    BY <1>1 DEF ChainHead, AdminAuditGenesis
  <2>3. ASSUME NEW v \in Writers PROVE TxInv(tx[v])'
    <3>1. PICK u : u = tx'[v] /\ TxInv(u)
      BY <1>1, <2>1 DEF AuditInv
    <3>2. TxInv(u)'
      BY <1>1, <2>2, <3>1, TxKept
    <3> QED BY <3>1, <3>2
  <2>4. \A u, v \in Writers : tx'[u].stage = "locked" /\ tx'[v].stage = "locked" => u = v
    BY <1>1, <2>1 DEF AuditInv
  <2>5. AncestryInv'
    BY <1>1 DEF AuditInv, AncestryInv, HashesOf, Chained, AdminAuditGenesis
  <2>6. (tampering = 0 => VerifyAdminAuditChain /\ rows = written)'
    BY <1>1 DEF AuditInv, VerifyAdminAuditChain, AdminAuditGenesis, adminAuditRowHash
  <2>7. Ordered(rows') /\ tampering' \in Nat
    BY <1>1 DEF AuditInv
  <2>8. /\ written' = [i \in DOMAIN written' |-> written'[i]]
        /\ \A i \in DOMAIN written' :
              IsRow(written'[i]) /\ written'[i].hash = adminAuditRowHash(written'[i])
    BY <1>1 DEF AuditInv
  <2> QED BY <2>1, <2>3, <2>4, <2>5, <2>6, <2>7, <2>8 DEF AuditInv
<1>2. ASSUME NEW w \in Writers, NEW k \in Keys, Change(w, k) PROVE AuditInv'
  <2>1. PICK t : t = [stage |-> "changed", key |-> k]
    OBVIOUS
  <2>2. TxInv(t) /\ t.stage # "locked"
    BY <2>1 DEF TxInv
  <2> QED BY <1>1, <1>2, <2>1, <2>2 DEF Change
<1>3. ASSUME NEW w \in Writers, LockChain(w) PROVE AuditInv'
  <2>1. PICK k, head : k = tx[w].key /\ head = [seq |-> ChainHead.seq, hash |-> ChainHead.hash]
    OBVIOUS
  <2>2. k \in Keys
    BY <1>3, <2>1 DEF LockChain, AuditInv, TxInv, NoTx
  <2>3. HeldHead(head)
    BY <2>1, HeadIsLast DEF HeldHead, AuditInv
  <2>4. PICK t : t = [stage |-> "locked", key |-> k, head |-> head]
    OBVIOUS
  <2>5. TxInv(t)
    BY <2>2, <2>3, <2>4 DEF TxInv
  <2>6. tx' = [tx EXCEPT ![w] = t]
    BY <1>3, <2>1, <2>4 DEF LockChain
  <2> QED BY <1>1, <1>3, <2>5, <2>6 DEF LockChain
<1>4. ASSUME NEW w \in Writers, Rollback(w) PROVE AuditInv'
  <2>1. TxInv(NoTx) /\ NoTx.stage # "locked"
    BY DEF TxInv, NoTx
  <2> QED BY <1>1, <1>4, <2>1 DEF Rollback
<1>5. CASE Tamper
  <2>1. PICK new \in ByHand : rows' = new
    BY <1>5 DEF Tamper
  <2>2. /\ Ordered(rows') /\ Len(rows') <= Len(rows)
        /\ HashesOf(rows') \subseteq HashesOf(rows) \cup {<<>>}
        /\ \A i \in DOMAIN rows' : \E j \in DOMAIN rows : rows'[i].seq = rows[j].seq
    BY <2>1, ByHandKeeps DEF AuditInv
  <2>3. tampering' \in Nat /\ tampering' # 0 /\ tx' = tx /\ written' = written
    BY <1>5 DEF Tamper, AuditInv
  <2>4. AncestryInv'
    BY <2>2, <2>3, AncestryTampered DEF AuditInv, Ordered
  <2>5. ASSUME NEW v \in Writers PROVE TxInv(tx[v])'
    <3>1. PICK u : u = tx[v] /\ TxInv(u)
      BY DEF AuditInv
    <3>2. TxInv(u)'
      BY <2>2, <2>3, <3>1, TxKept
    <3> QED BY <2>3, <3>1, <3>2
  <2> QED BY <2>2, <2>3, <2>4, <2>5 DEF AuditInv
<1>6. CASE UNCHANGED auditVars
  <2>1. UNCHANGED <<rows, written, tampering, tx>>
    BY <1>6 DEF auditVars
  <2>2. ChainHead' = ChainHead
    BY <2>1 DEF ChainHead, AdminAuditGenesis
  <2>3. AncestryInv' /\ (VerifyAdminAuditChain' <=> VerifyAdminAuditChain)
    BY <2>1 DEF AuditInv, AncestryInv, VerifyAdminAuditChain
  <2>4. ASSUME NEW w \in Writers PROVE TxInv(tx[w])'
    BY <2>1, <2>2 DEF AuditInv, TxInv, HeldHead
  <2> QED BY <2>1, <2>3, <2>4 DEF AuditInv
<1> QED BY <1>2, <1>3, <1>4, <1>5, <1>6, CommitAudit DEF AuditNext

\* Two triples that are one agree in their parts.
LEMMA SameTriple ==
    ASSUME NEW a, NEW b, NEW c, NEW d, NEW e, NEW f, <<a, b, c>> = <<d, e, f>>
    PROVE  a = d /\ b = e /\ c = f
  OBVIOUS

\* A chain that verifies is, row for row, what was recorded last at each
\* number, however often the table was edited, rows exchanged or deleted and
\* new ones appended; and one that nobody touched verifies, whichever
\* writers raced.
THEOREM VerificationIsTruthful == AuditSpec => []VerifyTruthful
<1>1. AuditInv => VerifyTruthful
  <2> SUFFICES ASSUME AuditInv, VerifyAdminAuditChain, NEW i \in DOMAIN rows
               PROVE  i \in DOMAIN written /\ rows[i] = written[i]
    BY DEF AuditInv, VerifyTruthful
  <2> DEFINE n == Len(rows)
             G == [j \in 1..n |-> rows[j].hash]
  <2>0. n \in Nat /\ DOMAIN rows = 1..n /\ i \in 1..n /\ n \in 1..n
    BY DEF AuditInv, Ordered
  <2>1. \A j \in 1..n : rows[j].seq = j /\ IsRow(rows[j]) /\ rows[j].target \in Keys
    BY <2>0, ValidNumbers DEF AuditInv, Ordered, IsRow
  <2>2. G \in [1..n -> HashesOf(rows)]
    BY <2>0 DEF HashesOf
  <2>3. ASSUME NEW j \in 1..n
        PROVE  G[j] = <<IF j = 1 THEN AdminAuditGenesis ELSE G[j-1], j, rows[j].target>>
    <3>1. j # 1 => j - 1 \in 1..n
      BY <2>0
    <3>2. rows[j].prev = IF j = 1 THEN AdminAuditGenesis ELSE G[j-1]
      BY <2>0, <3>1 DEF VerifyAdminAuditChain
    <3>3. rows[j].hash = <<rows[j].prev, rows[j].seq, rows[j].target>>
      BY <2>0 DEF VerifyAdminAuditChain, adminAuditRowHash
    <3> QED BY <2>1, <3>2, <3>3
  <2>4. Chained(G, n)
    BY <2>1, <2>3 DEF Chained
  <2> HIDE DEF G
  <2>5. i \in DOMAIN written /\ written[i].hash = G[i]
    BY <2>0, <2>2, <2>4 DEF AuditInv, AncestryInv
  <2>6. written[i].hash = rows[i].hash
    BY <2>0, <2>5 DEF G
  <2>7. /\ IsRow(written[i]) /\ written[i].hash = <<written[i].prev, written[i].seq, written[i].target>>
        /\ IsRow(rows[i]) /\ rows[i].hash = <<rows[i].prev, rows[i].seq, rows[i].target>>
    BY <2>0, <2>1, <2>5 DEF AuditInv, VerifyAdminAuditChain, adminAuditRowHash
  <2>8. /\ written[i].prev = rows[i].prev /\ written[i].seq = rows[i].seq
        /\ written[i].target = rows[i].target
    <3>1. PICK a, b, c, d, e, f :
              /\ a = written[i].prev /\ b = written[i].seq /\ c = written[i].target
              /\ d = rows[i].prev /\ e = rows[i].seq /\ f = rows[i].target
      OBVIOUS
    <3>2. <<a, b, c>> = <<d, e, f>>
      BY <2>6, <2>7, <3>1
    <3>3. a = d /\ b = e /\ c = f
      BY ONLY <3>2, SameTriple
    <3> QED BY <3>1, <3>3
  <2> QED BY <2>5, <2>6, <2>7, <2>8 DEF IsRow
<1> QED BY <1>1, AuditStart, AuditStep, PTL DEF AuditSpec

-----------------------------------------------------------------------------
(* Alerts (Alerting).                                                      *)

LEMMA AlertFields ==
    ASSUME NEW x \in Alert
    PROVE  /\ \A s \in {"open", "acknowledged", "resolved"} :
                 /\ [x EXCEPT !.status = s] \in Alert /\ [x EXCEPT !.status = s].status = s
                 /\ [x EXCEPT !.status = s].rule = x.rule
                 /\ [x EXCEPT !.status = s].notified = x.notified
           /\ \A b \in BOOLEAN :
                 /\ [x EXCEPT !.notified = b] \in Alert
                 /\ [x EXCEPT !.notified = b].status = x.status
                 /\ [x EXCEPT !.notified = b].rule = x.rule
  BY DEF Alert

LEMMA NewAlert ==
    ASSUME NEW r \in Rules, NEW x, x = [rule |-> r, status |-> "open", notified |-> FALSE]
    PROVE  x \in Alert /\ x.rule = r /\ x.status = "open" /\ ~x.notified
<1>1. ASSUME NEW b \in BOOLEAN, ~b, NEW y, y = [rule |-> r, status |-> "open", notified |-> b]
      PROVE  y \in Alert /\ y.rule = r /\ y.status = "open" /\ ~y.notified
  BY <1>1, Zenon DEF Alert
<1> QED BY <1>1, Zenon

LEMMA AtFacts ==
    \A p \in {"down", "idle", "rules", "check", "create"} :
        At(p) \in Engine /\ At(p).at = p /\ At(p).rule = "none" /\ At(p).alert = 0
  BY DEF At, Engine

\* The engine as it goes on to notify of an alert.
Notifying(e, n) == [e EXCEPT !.at = "notify", !.alert = n]

LEMMA EngineNotify ==
    ASSUME NEW e \in Engine, e.at = "create", e.rule \in Rules, NEW n \in Nat,
           NEW f, f = Notifying(e, n)
    PROVE  f.at = "notify" /\ f.alert = n /\ (n > 0 => f \in Engine)
<1>1. e \in [at : {"down", "idle", "rules", "check", "create"}, rule : Rules \cup {"none"}, alert : {0}]
  BY DEF Engine
<1>2. f = [at |-> "notify", rule |-> e.rule, alert |-> n]
  BY <1>1 DEF Notifying
<1> QED BY <1>2 DEF Engine

\* The engine is at a rule, or at no alert.
LEMMA EngineElsewhere ==
    ASSUME AlertInv, UNCHANGED <<alerts, posted>>, engine' \in Engine,
           engine'.at \in {"down", "idle", "rules", "check"},
           engine'.at = "check" => engine'.rule \in Rules
    PROVE  AlertInv'
  BY DEF AlertInv, OpenOnce, EngineInv, NotifiedTruthfully

\* An alert is acknowledged or resolved.
LEMMA StatusStep ==
    ASSUME AlertInv, NEW i \in DOMAIN alerts, NEW s \in {"acknowledged", "resolved"},
           UpdateAlertStatus(i, s)
    PROVE  AlertInv'
<1>1. alerts' = [alerts EXCEPT ![i] = [alerts[i] EXCEPT !.status = s]] /\ UNCHANGED <<posted, engine>>
  BY DEF UpdateAlertStatus
<1>2. PICK x : x = [alerts[i] EXCEPT !.status = s]
  OBVIOUS
<1>3. x \in Alert /\ x.status = s /\ x.rule = alerts[i].rule /\ x.notified = alerts[i].notified
  <2>1. alerts[i] \in Alert
    BY DEF AlertInv
  <2>2. s \in {"open", "acknowledged", "resolved"}
    OBVIOUS
  <2> QED BY ONLY <1>2, <2>1, <2>2, AlertFields, Zenon
<1>4. /\ alerts' \in Seq(Alert) /\ Len(alerts') = Len(alerts) /\ DOMAIN alerts' = DOMAIN alerts
      /\ alerts'[i] = x /\ \A j \in DOMAIN alerts : j # i => alerts'[j] = alerts[j]
  BY <1>1, <1>2, <1>3 DEF AlertInv
<1>5. \A j \in DOMAIN alerts : /\ alerts'[j].rule = alerts[j].rule
                               /\ alerts'[j].notified = alerts[j].notified
                               /\ alerts'[j].status = "open" => alerts[j].status = "open"
  BY <1>3, <1>4
<1>6. OpenOnce'
  BY <1>4, <1>5 DEF AlertInv, OpenOnce
<1>7. EngineInv'
  BY <1>1, <1>4, <1>5 DEF AlertInv, EngineInv, Open
<1>8. NotifiedTruthfully'
  BY <1>1, <1>4, <1>5 DEF AlertInv, NotifiedTruthfully
<1> QED BY <1>1, <1>4, <1>6, <1>7, <1>8 DEF AlertInv

LEMMA CreateStep ==
    ASSUME AlertInv, CreateAlert PROVE AlertInv'
<1>1. engine.at = "create" /\ engine.rule \in Rules /\ Open(engine.rule) = {} /\ engine \in Engine
  BY DEF CreateAlert, AlertInv, EngineInv
<1>2. CASE engine' = At("rules") /\ UNCHANGED <<alerts, posted>>
  BY <1>2, AtFacts, EngineElsewhere
<1>3. CASE /\ alerts' = Append(alerts, [rule |-> engine.rule, status |-> "open", notified |-> FALSE])
           /\ posted' = Append(posted, 0)
           /\ engine' = [engine EXCEPT !.at = "notify", !.alert = Len(alerts) + 1]
  <2>1. PICK x : x = [rule |-> engine.rule, status |-> "open", notified |-> FALSE]
    OBVIOUS
  <2>2. x \in Alert /\ x.rule = engine.rule /\ x.status = "open" /\ ~x.notified
    BY <1>1, <2>1, NewAlert
  <2>3. PICK n \in Nat : n = Len(alerts) /\ n = Len(posted) /\ DOMAIN alerts = 1..n /\ DOMAIN posted = 1..n
    BY DEF AlertInv
  <2>4. alerts' = Append(alerts, x) /\ posted' = Append(posted, 0)
    BY <1>3, <2>1
  <2>5. /\ alerts' \in Seq(Alert) /\ Len(alerts') = n + 1 /\ DOMAIN alerts' = 1..(n+1)
        /\ alerts'[n+1] = x /\ \A j \in 1..n : alerts'[j] = alerts[j]
    BY <2>2, <2>3, <2>4 DEF AlertInv
  <2>6. /\ posted' \in Seq(Nat) /\ Len(posted') = n + 1 /\ DOMAIN posted' = 1..(n+1)
        /\ posted'[n+1] = 0 /\ \A j \in 1..n : posted'[j] = posted[j]
    BY <2>3, <2>4 DEF AlertInv
  <2>7. engine' \in Engine /\ engine'.at = "notify" /\ engine'.alert = n + 1
    <3>1. PICK m \in Nat : m = n + 1 /\ m > 0
      OBVIOUS
    <3>2. engine' = Notifying(engine, m)
      BY <1>3, <2>3, <3>1 DEF Notifying
    <3>3. engine'.at = "notify" /\ engine'.alert = m /\ (m > 0 => engine' \in Engine)
      BY <1>1, <3>2, EngineNotify
    <3> QED BY <3>1, <3>3
  <2>8. OpenOnce'
    <3>1. \A j \in 1..n : alerts[j].status = "open" => alerts[j].rule # engine.rule
      BY <1>1, <2>3 DEF Open
    <3> QED BY <2>2, <2>3, <2>5, <3>1 DEF AlertInv, OpenOnce
  <2>9. EngineInv'
    BY <2>3, <2>5, <2>6, <2>7 DEF EngineInv
  <2>10. NotifiedTruthfully'
    BY <2>2, <2>3, <2>5, <2>6 DEF AlertInv, NotifiedTruthfully
  <2> QED BY <2>5, <2>6, <2>7, <2>8, <2>9, <2>10 DEF AlertInv
<1> QED BY <1>2, <1>3 DEF CreateAlert

LEMMA SlackStep ==
    ASSUME AlertInv, SendSlack PROVE AlertInv'
<1>1. /\ engine.at = "send" /\ engine \in Engine /\ engine.alert \in DOMAIN alerts
      /\ posted[engine.alert] = 0 /\ UNCHANGED alerts
  BY DEF SendSlack, AlertInv, EngineInv
<1>2. PICK n \in Nat : n = Len(alerts) /\ n = Len(posted) /\ DOMAIN alerts = 1..n /\ DOMAIN posted = 1..n
  BY DEF AlertInv
<1>3. ASSUME posted' = [posted EXCEPT ![engine.alert] = @ + 1]
      PROVE  /\ posted' \in Seq(Nat) /\ Len(posted') = n /\ DOMAIN posted' = 1..n
             /\ posted'[engine.alert] = 1 /\ \A j \in 1..n : j # engine.alert => posted'[j] = posted[j]
  BY <1>1, <1>2, <1>3 DEF AlertInv
<1>4. ASSUME posted' = [posted EXCEPT ![engine.alert] = @ + 1] PROVE NotifiedTruthfully'
  BY <1>1, <1>2, <1>3, <1>4 DEF AlertInv, NotifiedTruthfully
<1>5. CASE engine' = [engine EXCEPT !.at = "mark"] /\ posted' = [posted EXCEPT ![engine.alert] = @ + 1]
  <2>1. engine' \in Engine /\ engine'.at = "mark" /\ engine'.alert = engine.alert
    BY <1>1, <1>5 DEF Engine
  <2>2. EngineInv'
    BY <1>1, <1>3, <1>5, <2>1 DEF EngineInv
  <2> QED BY <1>1, <1>2, <1>3, <1>4, <1>5, <2>1, <2>2 DEF AlertInv, OpenOnce
<1>6. CASE engine' = At("rules") /\ posted' = [posted EXCEPT ![engine.alert] = @ + 1]
  <2>1. EngineInv' /\ engine' \in Engine
    BY <1>6, AtFacts DEF EngineInv
  <2> QED BY <1>1, <1>2, <1>3, <1>4, <1>6, <2>1 DEF AlertInv, OpenOnce
<1>7. CASE engine' = At("rules") /\ posted' = posted
  BY <1>1, <1>7, AtFacts, EngineElsewhere
<1> QED BY <1>5, <1>6, <1>7 DEF SendSlack, AfterSendError

LEMMA MarkStep ==
    ASSUME AlertInv, MarkAlertNotified PROVE AlertInv'
<1>1. /\ engine.at = "mark" /\ engine.alert \in DOMAIN alerts /\ posted[engine.alert] = 1
      /\ engine' = At("rules") /\ UNCHANGED posted
  BY DEF MarkAlertNotified, AlertInv, EngineInv
<1>2. CASE UNCHANGED alerts
  BY <1>1, <1>2, AtFacts, EngineElsewhere
<1>3. CASE alerts' = [alerts EXCEPT ![engine.alert].notified = TRUE]
  <2>1. PICK b \in BOOLEAN, k \in DOMAIN alerts : b = TRUE /\ k = engine.alert
    BY <1>1, Zenon
  <2>2. PICK x : x = [alerts[k] EXCEPT !.notified = b]
    OBVIOUS
  <2>3. alerts[k] \in Alert
    BY DEF AlertInv
  <2>4. x \in Alert /\ x.status = alerts[k].status /\ x.rule = alerts[k].rule
    BY <2>2, <2>3, AlertFields
  <2>5. alerts' = [alerts EXCEPT ![k] = x]
    BY <1>3, <2>1, <2>2
  <2>6. /\ alerts' \in Seq(Alert) /\ Len(alerts') = Len(alerts) /\ DOMAIN alerts' = DOMAIN alerts
        /\ alerts'[k] = x /\ \A j \in DOMAIN alerts : j # k => alerts'[j] = alerts[j]
    BY <2>4, <2>5 DEF AlertInv
  <2>7. \A j \in DOMAIN alerts : alerts'[j].rule = alerts[j].rule /\ alerts'[j].status = alerts[j].status
    BY <2>4, <2>6
  <2>8. OpenOnce'
    BY <2>6, <2>7 DEF AlertInv, OpenOnce
  <2>9. EngineInv' /\ engine' \in Engine
    BY <1>1, AtFacts DEF EngineInv
  <2>10. NotifiedTruthfully'
    BY <1>1, <2>1, <2>6 DEF AlertInv, NotifiedTruthfully
  <2> QED BY <1>1, <2>6, <2>8, <2>9, <2>10 DEF AlertInv
<1> QED BY <1>2, <1>3 DEF MarkAlertNotified

LEMMA AlertStart == Init => AlertInv
<1> SUFFICES ASSUME Init PROVE AlertInv
  OBVIOUS
<1>1. alerts = <<>> /\ posted = <<>> /\ engine = At("down")
  BY DEF Init
<1> QED BY <1>1, AtFacts DEF AlertInv, OpenOnce, EngineInv, NotifiedTruthfully

LEMMA AlertStep == AlertInv /\ [Next]_vars => AlertInv'
<1> SUFFICES ASSUME AlertInv, [Next]_vars PROVE AlertInv'
  OBVIOUS
<1>1. ASSUME UNCHANGED <<alerts, posted, engine>> PROVE AlertInv'
  BY <1>1 DEF AlertInv, OpenOnce, EngineInv, NotifiedTruthfully, Open
<1>2. ASSUME engine' = At("idle") \/ engine' = At("rules") \/ engine' = At("down"), UNCHANGED <<alerts, posted>>
      PROVE  AlertInv'
  BY <1>2, AtFacts, EngineElsewhere
<1>3. ASSUME NEW r \in Rules, evaluateRule(r) PROVE AlertInv'
  <2>1. CASE engine' = [At("check") EXCEPT !.rule = r]
    <3>1. engine' \in Engine /\ engine'.at = "check" /\ engine'.rule = r
      BY <2>1 DEF At, Engine
    <3> QED BY <1>3, <3>1, EngineElsewhere DEF evaluateRule
  <2>2. CASE UNCHANGED engine
    BY <1>1, <1>3, <2>2 DEF evaluateRule
  <2> QED BY <1>3, <2>1, <2>2 DEF evaluateRule
<1>4. CASE CheckOpenAlert
  <2>1. CASE engine' = At("rules")
    BY <1>2, <1>4, <2>1 DEF CheckOpenAlert
  <2>2. CASE engine' = [engine EXCEPT !.at = "create"] /\ Open(engine.rule) = {}
    <3>1. engine.at = "check" /\ engine.rule \in Rules /\ engine \in Engine /\ UNCHANGED <<alerts, posted>>
      BY <1>4 DEF CheckOpenAlert, AlertInv, EngineInv
    <3>2. engine' \in Engine /\ engine'.at = "create" /\ engine'.rule = engine.rule
      BY <2>2, <3>1 DEF Engine
    <3> QED BY <2>2, <3>1, <3>2 DEF AlertInv, OpenOnce, EngineInv, NotifiedTruthfully, Open
  <2> QED BY <1>4, <2>1, <2>2 DEF CheckOpenAlert, GetOpenAlertByRuleID
<1>5. CASE dispatchNotifications
  <2>1. CASE engine' = At("rules")
    BY <1>2, <1>5, <2>1 DEF dispatchNotifications
  <2>2. CASE engine' = [engine EXCEPT !.at = "send"]
    <3>1. engine.at = "notify" /\ engine \in Engine /\ UNCHANGED <<alerts, posted>>
      BY <1>5 DEF dispatchNotifications, AlertInv
    <3>2. engine' \in Engine /\ engine'.at = "send" /\ engine'.alert = engine.alert
      BY <2>2, <3>1 DEF Engine
    <3> QED BY <3>1, <3>2 DEF AlertInv, OpenOnce, EngineInv, NotifiedTruthfully
  <2> QED BY <1>5, <2>1, <2>2 DEF dispatchNotifications
<1>6. CASE Run \/ EvaluatedAll \/ Restart \/ tick
  BY <1>1, <1>2, <1>6 DEF Run, EvaluatedAll, Restart, tick
<1>7. CASE Evaluate
  BY <1>3, <1>4, <1>5, <1>6, <1>7, CreateStep, SlackStep, MarkStep DEF Evaluate
<1>8. CASE Operator
  <2>1. ASSUME NEW r \in Rules, CreateAlertRule(r) \/ UpdateAlertRule(r) \/ DeleteAlertRule(r) PROVE AlertInv'
    BY <1>1, <2>1 DEF CreateAlertRule, UpdateAlertRule, DeleteAlertRule
  <2>2. ASSUME NEW i \in DOMAIN alerts, AcknowledgeAlert(i) \/ ResolveAlert(i) PROVE AlertInv'
    BY <2>2, StatusStep DEF AcknowledgeAlert, ResolveAlert
  <2>3. CASE UpdateNotificationConfig
    BY <1>1, <2>3 DEF UpdateNotificationConfig
  <2> QED BY <1>8, <2>1, <2>2, <2>3 DEF Operator
<1>9. CASE Handler \/ Measure \/ UNCHANGED vars
  BY <1>1, <1>9 DEF Handler, WriteAlertRule, Measure, vars
<1> QED BY <1>6, <1>7, <1>8, <1>9 DEF Next

\* A rule has at most one open alert, for any number of rules, edits and
\* restarts: nobody but the engine opens one, and it has looked.
THEOREM AlertsAreNotRepeated == Spec => []OneOpenAlertPerRule
<1>1. AlertInv => OneOpenAlertPerRule
  <2> SUFFICES ASSUME AlertInv, NEW r \in Rules PROVE Cardinality(Open(r)) <= 1
    BY DEF OneOpenAlertPerRule
  <2>1. CASE Open(r) = {}
    BY <2>1, FS_EmptySet
  <2>2. CASE Open(r) # {}
    <3>1. PICK i \in Open(r) : TRUE
      BY <2>2
    <3>2. Open(r) = {i}
      BY <3>1 DEF Open, AlertInv, OpenOnce
    <3>3. Cardinality({i}) = 1
      BY FS_Singleton
    <3> QED BY <3>2, <3>3
  <2> QED BY <2>1, <2>2
<1> QED BY <1>1, AlertStart, AlertStep, PTL DEF Spec

\* An alert is posted at most once, and is marked only once it was: the mark
\* and the message stay apart only where a step between them failed.
THEOREM NotificationsAreTruthful == Spec => []NotifiedTruthfully
<1>1. AlertInv => NotifiedTruthfully
  BY DEF AlertInv
<1> QED BY <1>1, AlertStart, AlertStep, PTL DEF Spec

-----------------------------------------------------------------------------
(* The limiter of the login and of the other limited routes.               *)

\* Ages oldest first, none above the window.
Aging(s, w) ==
    /\ s \in Seq(0..w)
    /\ \A i, j \in DOMAIN s : i <= j => s[j] <= s[i]

\* What has expired is at the front.
LEMMA ExpiredFirst ==
    ASSUME NEW w \in Nat, NEW s, Aging(s, w)
    PROVE  /\ Expired(s, w) \in 0..Len(s)
           /\ \A i \in 1..Len(s) : i <= Expired(s, w) <=> ~(s[i] < w)
<1>0. Len(s) \in Nat /\ DOMAIN s = 1..Len(s) /\ \A i \in 1..Len(s) : s[i] \in Nat
  BY DEF Aging
<1> DEFINE E == {i \in DOMAIN s : s[i] >= w}
<1> DEFINE T == {k \in 1..(Len(s)+1) : k = Len(s)+1 \/ s[k] < w}
<1>1. PICK k \in T : \A y \in T : k <= y
  <2>1. Len(s) + 1 \in T
    BY <1>0
  <2>2. T \subseteq Nat
    BY <1>0
  <2> HIDE DEF T
  <2> QED BY <2>1, <2>2, LeastNatural
<1>2. k \in 1..(Len(s)+1) /\ k - 1 \in Nat
  BY <1>0, <1>1
<1>3. \A i \in 1..Len(s) : i <= k - 1 <=> ~(s[i] < w)
  <2> TAKE i \in 1..Len(s)
  <2>1. ASSUME s[i] < w PROVE ~(i <= k - 1)
    <3>1. i \in T
      BY <1>0, <2>1
    <3> QED BY <3>1, <1>1, <1>0
  <2>2. ASSUME ~(i <= k - 1) PROVE s[i] < w
    <3>1. k <= i /\ k \in 1..Len(s) /\ i \in DOMAIN s /\ k \in DOMAIN s
      BY <1>0, <1>2, <2>2
    <3>2. s[k] < w
      BY <1>1, <3>1, <1>0
    <3>3. s[i] <= s[k]
      BY <3>1 DEF Aging
    <3> QED BY <3>1, <3>2, <3>3, <1>0
  <2> QED BY <2>1, <2>2
<1>4. E = 1..(k-1)
  BY <1>0, <1>2, <1>3
<1>5. Cardinality(E) = k - 1
  <2>1. Cardinality(1..(k-1)) = IF 1 > k - 1 THEN 0 ELSE (k - 1) - 1 + 1
    BY <1>2, FS_Interval
  <2>2. Cardinality(1..(k-1)) = k - 1
    BY <1>2, <2>1
  <2> QED BY <1>4, <2>2
<1>6. Expired(s, w) = k - 1
  BY <1>5 DEF Expired
<1> QED BY <1>0, <1>2, <1>3, <1>6

\* The count of the expired is the only number that divides the ages so.
LEMMA ExpiredUnique ==
    ASSUME NEW w \in Nat, NEW s, Aging(s, w), NEW k \in 0..Len(s),
           \A i \in 1..Len(s) : i <= k <=> ~(s[i] < w)
    PROVE  Expired(s, w) = k
<1>1. Len(s) \in Nat
  BY DEF Aging
<1>2. /\ Expired(s, w) \in 0..Len(s)
      /\ \A i \in 1..Len(s) : i <= Expired(s, w) <=> ~(s[i] < w)
  BY ExpiredFirst
<1>3. \A i \in 1..Len(s) : i <= k <=> i <= Expired(s, w)
  BY <1>2
<1> DEFINE e == Expired(s, w)
<1>4. e \in 0..Len(s) /\ \A i \in 1..Len(s) : i <= k <=> i <= e
  BY <1>2, <1>3
<1> HIDE DEF e
<1>5. CASE k < e
  <2>1. k + 1 \in 1..Len(s) /\ k + 1 <= e /\ ~(k + 1 <= k)
    BY <1>1, <1>4, <1>5
  <2> QED BY <1>4, <2>1
<1>6. CASE e < k
  <2>1. e + 1 \in 1..Len(s) /\ e + 1 <= k /\ ~(e + 1 <= e)
    BY <1>1, <1>4, <1>6
  <2> QED BY <1>4, <2>1
<1>7. k = e
  BY <1>1, <1>4, <1>5, <1>6
<1> QED BY <1>7 DEF e

\* What is left when the expired are dropped, and none of it has expired.
LEMMA RecentIs ==
    ASSUME NEW w \in Nat, NEW s, Aging(s, w)
    PROVE  /\ Aging(Recent(s, w), w)
           /\ Len(Recent(s, w)) = Len(s) - Expired(s, w)
           /\ \A i \in 1..Len(Recent(s, w)) :
                 Recent(s, w)[i] = s[i + Expired(s, w)] /\ Recent(s, w)[i] < w
<1>0. Len(s) \in Nat /\ DOMAIN s = 1..Len(s) /\ \A i \in 1..Len(s) : s[i] \in 0..w
  BY DEF Aging
<1> DEFINE e == Expired(s, w)
<1> DEFINE t == Recent(s, w)
<1>1. e \in 0..Len(s) /\ \A i \in 1..Len(s) : i <= e <=> ~(s[i] < w)
  BY ExpiredFirst
<1>2. t = SubSeq(s, e + 1, Len(s))
  BY DEF Recent
<1> HIDE DEF e, t
<1>3. t \in Seq(0..w) /\ Len(t) = Len(s) - e /\ \A i \in 1..(Len(s) - e) : t[i] = s[i + e]
  <2> DEFINE p == e + 1
  <2> DEFINE n == Len(s)
  <2>1. p \in Int /\ n \in Int /\ \A i \in p..n : s[i] \in 0..w
    BY <1>0, <1>1
  <2>2. t = SubSeq(s, p, n)
    BY <1>2
  <2>3. p = e + 1 /\ n = Len(s)
    OBVIOUS
  <2> HIDE DEF p, n
  <2>4. /\ t \in Seq(0..w)
        /\ Len(t) = IF p <= n THEN n - p + 1 ELSE 0
        /\ \A i \in 1..(n - p + 1) : t[i] = s[p + i - 1]
    BY <2>1, <2>2, SubSeqProperties
  <2>5. Len(t) = n - e /\ n - p + 1 = n - e
    BY <2>3, <2>4, <1>0, <1>1
  <2>6. \A i \in 1..(n - e) : p + i - 1 = i + e
    BY <2>3, <1>0, <1>1
  <2>7. \A i \in 1..(n - e) : t[i] = s[i + e]
    BY <2>4, <2>5, <2>6
  <2> QED BY <2>3, <2>4, <2>5, <2>7
<1>4. \A i \in 1..Len(t) : t[i] < w
  BY <1>0, <1>1, <1>3
<1>5. \A i, j \in DOMAIN t : i <= j => t[j] <= t[i]
  <2> SUFFICES ASSUME NEW i \in DOMAIN t, NEW j \in DOMAIN t, i <= j PROVE t[j] <= t[i]
    OBVIOUS
  <2>1. i \in 1..(Len(s) - e) /\ j \in 1..(Len(s) - e)
    BY <1>3
  <2>2. i + e \in DOMAIN s /\ j + e \in DOMAIN s /\ i + e <= j + e
    BY <2>1, <1>0, <1>1
  <2>3. s[j + e] <= s[i + e]
    BY <2>2 DEF Aging
  <2> QED BY <2>1, <2>3, <1>3
<1> QED BY <1>1, <1>3, <1>4, <1>5 DEF e, t, Aging

\* Nothing more is dropped a second time.
LEMMA RecentOfRecent ==
    ASSUME NEW w \in Nat, NEW t, Aging(t, w), \A i \in 1..Len(t) : t[i] < w
    PROVE  Recent(t, w) = t
<1>0. Len(t) \in Nat /\ t \in Seq(0..w)
  BY DEF Aging
<1>1. Expired(t, w) = 0
  <2>1. 0 \in 0..Len(t) /\ \A i \in 1..Len(t) : i <= 0 <=> ~(t[i] < w)
    BY <1>0
  <2> QED BY <2>1, ExpiredUnique
<1> QED BY <1>0, <1>1, RecentIs, SeqEqual DEF Recent

LEMMA OlderIs ==
    ASSUME NEW w \in Nat, NEW s, Aging(s, w)
    PROVE  /\ Aging(Older(s, w), w) /\ Len(Older(s, w)) = Len(s)
           /\ \A i \in 1..Len(s) : Older(s, w)[i] = IF s[i] < w THEN s[i] + 1 ELSE s[i]
<1>0. Len(s) \in Nat /\ DOMAIN s = 1..Len(s) /\ \A i \in 1..Len(s) : s[i] \in 0..w
  BY DEF Aging
<1> DEFINE t == Older(s, w)
<1>1. t = [i \in 1..Len(s) |-> IF s[i] < w THEN s[i] + 1 ELSE s[i]]
  BY <1>0 DEF Older
<1>2. \A i \in 1..Len(s) : t[i] = (IF s[i] < w THEN s[i] + 1 ELSE s[i]) /\ t[i] \in 0..w
  BY <1>0, <1>1
<1> HIDE DEF t
<1>3. t \in [1..Len(s) -> 0..w]
  BY <1>1, <1>2
<1>4. t \in Seq(0..w) /\ Len(t) = Len(s) /\ DOMAIN t = 1..Len(s)
  BY <1>0, <1>3
<1>5. \A i, j \in DOMAIN t : i <= j => t[j] <= t[i]
  <2> SUFFICES ASSUME NEW i \in DOMAIN t, NEW j \in DOMAIN t, i <= j PROVE t[j] <= t[i]
    OBVIOUS
  <2>1. s[j] <= s[i] /\ s[i] \in 0..w /\ s[j] \in 0..w
    BY <1>0, <1>4 DEF Aging
  <2> QED BY <2>1, <1>2, <1>4
<1>6. Aging(t, w)
  BY <1>4, <1>5 DEF Aging
<1> QED BY <1>2, <1>4, <1>6 DEF t

\* A second passes for what was kept as for all: dropping before it and after
\* it drops what dropping after it does.
LEMMA RecentOfOlder ==
    ASSUME NEW w \in Nat, NEW a, Aging(a, w), NEW d, d = Recent(a, w)
    PROVE  /\ Recent(Older(d, w), w) = Recent(Older(a, w), w)
           /\ \/ Len(Recent(Older(d, w), w)) < Len(d)
              \/ /\ Len(Recent(Older(d, w), w)) = Len(d)
                 /\ Len(d) > 0 => Recent(Older(d, w), w)[1] = d[1] + 1
<1> DEFINE oa == Older(a, w)
<1> DEFINE od == Older(d, w)
<1> DEFINE e == Expired(a, w)
<1> DEFINE f == Expired(oa, w)
<1>1. Aging(d, w) /\ Len(d) = Len(a) - e /\ \A i \in 1..Len(d) : d[i] = a[i + e] /\ d[i] < w
  BY RecentIs
<1>2. /\ Aging(oa, w) /\ Len(oa) = Len(a)
      /\ \A i \in 1..Len(a) : oa[i] = IF a[i] < w THEN a[i] + 1 ELSE a[i]
  BY OlderIs
<1>3. /\ Aging(od, w) /\ Len(od) = Len(d)
      /\ \A i \in 1..Len(d) : od[i] = IF d[i] < w THEN d[i] + 1 ELSE d[i]
  BY <1>1, OlderIs
<1>4. e \in 0..Len(a) /\ \A i \in 1..Len(a) : i <= e <=> ~(a[i] < w)
  BY ExpiredFirst
<1>5. f \in 0..Len(oa) /\ \A i \in 1..Len(oa) : i <= f <=> ~(oa[i] < w)
  BY <1>2, ExpiredFirst
<1>6. /\ Aging(Recent(oa, w), w) /\ Len(Recent(oa, w)) = Len(oa) - f
      /\ \A i \in 1..Len(Recent(oa, w)) : Recent(oa, w)[i] = oa[i + f]
  BY <1>2, RecentIs
<1>7. /\ Aging(Recent(od, w), w) /\ Len(Recent(od, w)) = Len(od) - Expired(od, w)
      /\ \A i \in 1..Len(Recent(od, w)) : Recent(od, w)[i] = od[i + Expired(od, w)]
  BY <1>3, RecentIs
<1>8. Len(a) \in Nat /\ Len(d) \in Nat /\ (\A i \in 1..Len(a) : a[i] \in Nat)
  BY <1>1 DEF Aging
<1> HIDE DEF oa, od, e, f
<1>9. e <= f
  <2>1. CASE e = 0
    BY <2>1, <1>5, <1>2, <1>8
  <2>2. CASE e > 0
    <3>1. e \in 1..Len(a) /\ e <= e
      BY <2>2, <1>4, <1>8
    <3>2. ~(a[e] < w)
      BY <3>1, <1>4
    <3>3. ~(oa[e] < w)
      BY <3>1, <3>2, <1>2
    <3> QED BY <3>1, <3>3, <1>2, <1>5
  <2> QED BY <2>1, <2>2, <1>4, <1>8
<1>10. \A i \in 1..Len(d) : od[i] = oa[i + e] /\ i + e \in 1..Len(a)
  <2> TAKE i \in 1..Len(d)
  <2>1. i + e \in 1..Len(a)
    BY <1>1, <1>4, <1>8
  <2>2. d[i] = a[i + e] /\ d[i] < w
    BY <1>1
  <2> QED BY <2>1, <2>2, <1>2, <1>3
<1>11. Expired(od, w) = f - e
  <2>1. f - e \in 0..Len(od)
    BY <1>1, <1>2, <1>3, <1>4, <1>5, <1>8, <1>9
  <2>2. \A i \in 1..Len(od) : i <= f - e <=> ~(od[i] < w)
    <3> TAKE i \in 1..Len(od)
    <3>1. i + e \in 1..Len(oa) /\ od[i] = oa[i + e]
      BY <1>2, <1>3, <1>10
    <3>2. (i + e <= f) <=> ~(oa[i + e] < w)
      BY <3>1, <1>5
    <3>3. (i + e <= f) <=> (i <= f - e)
      BY <1>2, <1>3, <1>4, <1>5, <1>8
    <3> QED BY <3>1, <3>2, <3>3
  <2> QED BY <2>1, <2>2, <1>3, ExpiredUnique
<1>12. Len(Recent(od, w)) = Len(a) - f /\ Len(Recent(oa, w)) = Len(a) - f /\ Len(a) - f \in Nat
  BY <1>1, <1>2, <1>3, <1>4, <1>5, <1>6, <1>7, <1>8, <1>9, <1>11
<1>13. \A i \in 1..(Len(a) - f) : Recent(od, w)[i] = Recent(oa, w)[i]
  <2> TAKE i \in 1..(Len(a) - f)
  <2>1. Recent(od, w)[i] = od[i + (f - e)] /\ Recent(oa, w)[i] = oa[i + f]
    BY <1>6, <1>7, <1>11, <1>12
  <2>2. i + (f - e) \in 1..Len(d) /\ (i + (f - e)) + e = i + f
    BY <1>1, <1>2, <1>4, <1>5, <1>8, <1>9
  <2>3. od[i + (f - e)] = oa[(i + (f - e)) + e]
    BY <2>2, <1>10
  <2> QED BY <2>1, <2>2, <2>3
<1>14. Recent(od, w) = Recent(oa, w)
  <2>1. Recent(od, w) \in Seq(0..w) /\ Recent(oa, w) \in Seq(0..w)
    BY <1>6, <1>7 DEF Aging
  <2> QED BY <2>1, <1>12, <1>13, SeqEqual
<1>15. CASE e < f
  BY <1>15, <1>1, <1>2, <1>4, <1>5, <1>8, <1>12, <1>14 DEF oa, od
<1>16. CASE e = f
  <2>1. Len(Recent(od, w)) = Len(d)
    BY <1>16, <1>1, <1>12
  <2>2. ASSUME Len(d) > 0 PROVE Recent(od, w)[1] = d[1] + 1
    <3>1. 1 \in 1..Len(d) /\ 1 \in 1..Len(Recent(od, w)) /\ 1 + (f - e) = 1
      BY <2>1, <2>2, <1>16, <1>4, <1>5, <1>2, <1>8
    <3>2. Recent(od, w)[1] = od[1]
      BY <3>1, <1>7, <1>11
    <3> QED BY <3>1, <3>2, <1>1, <1>3
  <2> QED BY <2>1, <2>2, <1>14 DEF oa, od
<1> QED BY <1>9, <1>15, <1>16, <1>4, <1>5, <1>2, <1>8

\* A bucket is sound: a limiter in force has let by what it still keeps, no
\* more than its limit, and whoever it has refused was told to wait at least
\* until the oldest of that expires.
Sound(a, d, p, l, w) ==
    /\ Aging(a, w) /\ p \in Nat \cup {NoPromise}
    /\ l = 0 => d = <<>>
    /\ l > 0 => /\ d = Recent(a, w) /\ Len(d) <= l
                /\ p # NoPromise => Len(d) < l \/ w - d[1] <= p

LimitInv == \A b \in Buckets : Sound(attempts[b], admitted[b], promised[b], Limit[b], Window[b])

LEMMA NothingAging == \A w \in Nat : Aging(<<>>, w) /\ Recent(<<>>, w) = <<>> /\ Older(<<>>, w) = <<>>
<1> TAKE w \in Nat
<1>1. Aging(<<>>, w)
  BY DEF Aging
<1>2. Recent(<<>>, w) = <<>>
  BY <1>1, RecentOfRecent
<1>3. Older(<<>>, w) = <<>>
  <2>1. Aging(Older(<<>>, w), w) /\ Len(Older(<<>>, w)) = 0
    BY <1>1, OlderIs
  <2> QED BY <2>1 DEF Aging
<1> QED BY <1>1, <1>2, <1>3

LEMMA SoundOlder ==
    ASSUME NEW w \in Nat, NEW l \in Nat, NEW a, NEW d, NEW p, Sound(a, d, p, l, w),
           NEW q, q = IF p \in {0, NoPromise} THEN p ELSE p - 1
    PROVE  Sound(Older(a, w), Recent(Older(d, w), w), q, l, w)
<1>1. Aging(a, w) /\ Aging(Older(a, w), w)
  BY OlderIs DEF Sound
<1>2. q \in Nat \cup {NoPromise}
  BY DEF Sound
<1>3. ASSUME l = 0 PROVE Recent(Older(d, w), w) = <<>>
  BY <1>3, NothingAging DEF Sound
<1>4. ASSUME l > 0
      PROVE  /\ Recent(Older(d, w), w) = Recent(Older(a, w), w) /\ Len(Recent(Older(d, w), w)) <= l
             /\ q # NoPromise => \/ Len(Recent(Older(d, w), w)) < l
                                 \/ w - Recent(Older(d, w), w)[1] <= q
  <2>1. d = Recent(a, w) /\ Len(d) <= l /\ (p # NoPromise => Len(d) < l \/ w - d[1] <= p)
    BY <1>4 DEF Sound
  <2> DEFINE e == Recent(Older(d, w), w)
  <2>2. e = Recent(Older(a, w), w)
    BY <1>1, <2>1, RecentOfOlder
  <2>3. Len(e) < Len(d) \/ (Len(e) = Len(d) /\ (Len(d) > 0 => e[1] = d[1] + 1))
    BY <1>1, <2>1, RecentOfOlder
  <2>4. Aging(e, w) /\ Aging(d, w) /\ (\A i \in 1..Len(d) : d[i] < w)
    BY <1>1, <2>1, <2>2, RecentIs
  <2>5. Len(e) \in Nat /\ Len(d) \in Nat /\ (Len(d) > 0 => d[1] \in Nat /\ d[1] < w)
    <3>1. Len(d) > 0 => 1 \in 1..Len(d)
      BY <2>4 DEF Aging
    <3> QED BY <2>4, <3>1 DEF Aging
  <2> HIDE DEF e
  <2>6. Len(e) <= l
    BY <2>1, <2>3, <2>5
  <2>7. ASSUME q # NoPromise PROVE Len(e) < l \/ w - e[1] <= q
    <3>1. p # NoPromise /\ p \in Nat
      BY <2>7 DEF Sound
    <3>2. CASE Len(d) < l
      BY <3>2, <2>3, <2>5
    <3>3. CASE ~(Len(d) < l)
      <4>1. w - d[1] <= p /\ Len(d) > 0 /\ d[1] \in Nat /\ d[1] < w
        BY <3>1, <3>3, <2>1, <2>5, <1>4
      <4>2. q = p - 1 /\ p > 0
        BY <4>1, <3>1
      <4> QED BY <4>1, <4>2, <2>1, <2>3, <2>5, <3>1
    <3> QED BY <3>2, <3>3
  <2> QED BY <2>2, <2>6, <2>7 DEF e
<1> QED BY <1>1, <1>2, <1>3, <1>4 DEF Sound

\* What Allow does to a bucket it is asked for.
LEMMA SoundAdmitted ==
    ASSUME NEW w \in Nat \ {0}, NEW l \in Nat, NEW a, NEW d, NEW p, Sound(a, d, p, l, w),
           l > 0, Len(Recent(a, w)) < l
    PROVE  Sound(Append(Recent(a, w), 0), Append(d, 0), NoPromise, l, w)
<1> DEFINE t == Recent(a, w)
<1>1. Aging(t, w) /\ (\A i \in 1..Len(t) : t[i] < w) /\ d = t
  BY RecentIs DEF Sound
<1> HIDE DEF t
<1>2. t \in Seq(0..w) /\ Len(t) \in Nat /\ 0 \in 0..w /\ (\A i \in 1..Len(t) : t[i] \in 0..w)
  BY <1>1 DEF Aging
<1> DEFINE u == Append(t, 0)
<1>3. /\ u \in Seq(0..w) /\ Len(u) = Len(t) + 1
      /\ \A i \in 1..Len(t) : u[i] = t[i]
      /\ u[Len(t) + 1] = 0
  BY <1>2, AppendProperties
<1> HIDE DEF u
<1>4. \A i \in 1..Len(u) : u[i] < w /\ (i \in 1..Len(t) \/ (i = Len(t) + 1 /\ u[i] = 0))
  <2> TAKE i \in 1..Len(u)
  <2>1. CASE i \in 1..Len(t)
    BY <2>1, <1>1, <1>3
  <2>2. CASE i = Len(t) + 1
    BY <2>2, <1>3
  <2> QED BY <2>1, <2>2, <1>2, <1>3
<1>5. \A i, j \in 1..Len(u) : i <= j => u[j] <= u[i]
  <2> SUFFICES ASSUME NEW i \in 1..Len(u), NEW j \in 1..Len(u), i <= j PROVE u[j] <= u[i]
    OBVIOUS
  <2>1. CASE j \in 1..Len(t)
    <3>1. i \in 1..Len(t) /\ i \in DOMAIN t /\ j \in DOMAIN t
      BY <2>1, <1>2
    <3> QED BY <3>1, <2>1, <1>1, <1>3 DEF Aging
  <2>2. CASE j = Len(t) + 1
    BY <2>2, <1>2, <1>3
  <2> QED BY <2>1, <2>2, <1>2, <1>3
<1>6. Aging(u, w)
  BY <1>3, <1>5 DEF Aging
<1>7. Recent(u, w) = u
  BY <1>4, <1>6, RecentOfRecent
<1>8. Len(u) <= l
  BY <1>2, <1>3 DEF t
<1> QED BY <1>1, <1>6, <1>7, <1>8 DEF Sound, t, u

LEMMA SoundRefused ==
    ASSUME NEW w \in Nat \ {0}, NEW l \in Nat, NEW a, NEW d, NEW p, Sound(a, d, p, l, w),
           l > 0, ~(Len(Recent(a, w)) < l),
           NEW r, r = IF w > Recent(a, w)[1] THEN w - Recent(a, w)[1] ELSE 1,
           NEW q, q = IF p = NoPromise \/ r < p THEN r ELSE p
    PROVE  Sound(Recent(a, w), d, q, l, w)
<1>1. /\ Aging(d, w) /\ (\A i \in 1..Len(d) : d[i] < w) /\ d = Recent(a, w) /\ Len(d) <= l
      /\ p # NoPromise => w - d[1] <= p
      /\ p \in Nat \cup {NoPromise}
  <2>1. Aging(a, w) /\ d = Recent(a, w) /\ Len(d) <= l /\ p \in Nat \cup {NoPromise}
    BY DEF Sound
  <2>2. p # NoPromise => w - d[1] <= p
    BY <2>1 DEF Sound
  <2> QED BY <2>1, <2>2, RecentIs
<1>2. Recent(d, w) = d
  BY <1>1, RecentOfRecent
<1>3. 1 \in 1..Len(d) /\ d[1] \in Nat /\ d[1] < w
  <2>1. Len(d) \in Nat /\ Len(d) > 0
    BY <1>1 DEF Aging
  <2>2. 1 \in 1..Len(d)
    BY <2>1
  <2> QED BY <1>1, <2>1, <2>2 DEF Aging
<1>4. r = w - d[1] /\ r \in Nat
  BY <1>1, <1>3
<1>5. q \in Nat /\ w - d[1] <= q
  BY <1>1, <1>4
<1> QED BY <1>1, <1>2, <1>5 DEF Sound

LEMMA LimitStart == LimitInit => LimitInv
<1> SUFFICES ASSUME LimitInit, NEW b \in Buckets
             PROVE  Sound(attempts[b], admitted[b], promised[b], Limit[b], Window[b])
  BY DEF LimitInv
<1>1. Limit[b] \in Nat /\ Window[b] \in Nat
  BY LimitAssumption
<1>2. attempts[b] = <<>> /\ admitted[b] = <<>> /\ promised[b] = NoPromise
  BY DEF LimitInit
<1> QED BY <1>1, <1>2, NothingAging DEF Sound

LEMMA LimitStep == LimitInv /\ [LimitNext]_limitVars => LimitInv'
<1> SUFFICES ASSUME LimitInv, [LimitNext]_limitVars, NEW b \in Buckets
             PROVE  Sound(attempts'[b], admitted'[b], promised'[b], Limit[b], Window[b])
  BY Zenon DEF LimitInv
<1>0. Limit[b] \in Nat /\ Window[b] \in Nat \ {0} /\ Window[b] \in Nat
  BY LimitAssumption
<1>1. Sound(attempts[b], admitted[b], promised[b], Limit[b], Window[b])
  BY DEF LimitInv
<1>2. CASE Tick
  <2>1. /\ attempts'[b] = Older(attempts[b], Window[b])
        /\ admitted'[b] = Recent(Older(admitted[b], Window[b]), Window[b])
        /\ promised'[b] = IF promised[b] \in {0, NoPromise} THEN promised[b] ELSE promised[b] - 1
    BY <1>2 DEF Tick
  <2> QED BY <1>0, <1>1, <2>1, SoundOlder
<1>3. ASSUME NEW route \in Routes, Call(route)
      PROVE  Sound(attempts'[b], admitted'[b], promised'[b], Limit[b], Window[b])
  <2>1. CASE b \notin AskedBuckets(route)
    <3>1. attempts'[b] = attempts[b] /\ admitted'[b] = admitted[b] /\ promised'[b] = promised[b]
      BY <1>3, <2>1 DEF Call
    <3> QED BY <1>1, <3>1
  <2>2. CASE b \in AskedBuckets(route) /\ Allowed(b)
    <3>1. /\ attempts'[b] = Append(Kept(b), 0) /\ admitted'[b] = Append(admitted[b], 0)
          /\ promised'[b] = NoPromise
          /\ Limit[b] > 0 /\ Len(Recent(attempts[b], Window[b])) < Limit[b]
      BY <1>0, <1>3, <2>2 DEF Call, After, Allowed, Kept
    <3> QED BY <1>0, <1>1, <3>1, SoundAdmitted DEF Kept
  <2>3. CASE b \in AskedBuckets(route) /\ ~Allowed(b) /\ Limit[b] > 0
    <3>1. /\ attempts'[b] = Kept(b) /\ admitted'[b] = admitted[b]
          /\ promised'[b] = IF promised[b] = NoPromise \/ RetryAfter(b) < promised[b]
                            THEN RetryAfter(b) ELSE promised[b]
      BY <1>0, <1>3, <2>3 DEF Call, After
    <3>2. RetryAfter(b) = IF Window[b] > Recent(attempts[b], Window[b])[1]
                          THEN Window[b] - Recent(attempts[b], Window[b])[1] ELSE 1
      BY <1>0, <2>3 DEF RetryAfter, Kept
    <3>3. ~(Len(Recent(attempts[b], Window[b])) < Limit[b])
      BY <2>3 DEF Allowed, Kept
    <3> QED BY <1>0, <1>1, <2>3, <3>1, <3>2, <3>3, SoundRefused DEF Kept
  <2>4. CASE b \in AskedBuckets(route) /\ Limit[b] = 0
    <3>1. attempts'[b] = attempts[b] /\ admitted'[b] = admitted[b]
      BY <1>0, <1>3, <2>4 DEF Call, After, Allowed
    <3>2. promised'[b] \in {promised[b], Window[b]}
      BY <1>0, <1>3, <2>4 DEF Call, Allowed, RetryAfter
    <3> QED BY <1>0, <1>1, <2>4, <3>1, <3>2 DEF Sound
  <2> QED BY <1>0, <2>1, <2>2, <2>3, <2>4
<1>4. CASE UNCHANGED limitVars
  BY <1>1, <1>4 DEF limitVars
<1> QED BY <1>2, <1>3, <1>4 DEF LimitNext

\* No limiter lets more than its limit by in any stretch of its window, and a
\* caller that is refused and waits as long as it is told is let by unless
\* another took the place, whatever the limits, the windows and the routes
\* (ratelimit.go, Allow; ratelimit_login.go).
THEOREM LimitersAreFair == LimitSpec => []LimiterFair
<1>1. LimitInv => LimiterFair
  <2> SUFFICES ASSUME LimitInv, NEW b \in Buckets
               PROVE  /\ Len(admitted[b]) <= Limit[b]
                      /\ Limit[b] > 0 /\ promised[b] = 0 => Allowed(b)
    BY DEF LimiterFair
  <2>0. Limit[b] \in Nat /\ Window[b] \in Nat /\ NoPromise \notin Nat
    BY LimitAssumption
  <2>1. Sound(attempts[b], admitted[b], promised[b], Limit[b], Window[b])
    BY DEF LimitInv
  <2>2. Len(admitted[b]) <= Limit[b]
    <3>1. Limit[b] = 0 => Len(admitted[b]) = 0
      BY <2>1 DEF Sound
    <3>2. Limit[b] > 0 => Len(admitted[b]) <= Limit[b]
      BY <2>1 DEF Sound
    <3> QED BY <2>0, <3>1, <3>2
  <2>3. ASSUME Limit[b] > 0, promised[b] = 0, ~Allowed(b) PROVE FALSE
    <3> DEFINE d == Recent(attempts[b], Window[b])
    <3>1. Aging(d, Window[b]) /\ \A i \in 1..Len(d) : d[i] < Window[b]
      BY <2>0, <2>1, RecentIs DEF Sound
    <3>2. ~(Len(d) < Limit[b])
      BY <2>3 DEF Allowed, Kept
    <3>3. Window[b] - d[1] <= 0
      BY <2>0, <2>1, <2>3, <3>2 DEF Sound
    <3> HIDE DEF d
    <3>4. Len(d) \in Nat /\ Len(d) > 0
      BY <2>0, <2>3, <3>1, <3>2 DEF Aging
    <3>5. 1 \in 1..Len(d) /\ d[1] \in Nat
      <4>1. 1 \in 1..Len(d)
        BY <3>4
      <4> QED BY <2>0, <3>1, <3>4, <4>1 DEF Aging
    <3> QED BY <2>0, <3>1, <3>3, <3>5
  <2> QED BY <2>2, <2>3
<1> QED BY <1>1, LimitStart, LimitStep, PTL DEF LimitSpec

=============================================================================
