-------------------------- MODULE AuditChainProofs --------------------------
(* Untouched audit history verifies, for any number of processes, entries and *)
(* organisations, with restarts, failed inserts and ambiguous ones.           *)
EXTENDS AuditChain, TLAPS

USE ChainAssumption

LEMMA InitInv == Init => Inv
  BY DEF Init, Inv, TypeOK, ChainInv, MutexInv, Hashes, Pcs

\* The types, one step at a time.
LEMMA TypeStep == TypeOK /\ [Next]_vars => TypeOK'
<1> SUFFICES ASSUME TypeOK, [Next]_vars PROVE TypeOK'
    OBVIOUS
<1> USE DEF TypeOK, Pcs, writer, verifier, history
<1>1. ASSUME NEW e \in Entries, NEW p \in Procs, NEW o \in Orgs, Arrive(e, p, o)
      PROVE TypeOK'
  <2>1. clock' \in 0..MaxClock
    BY <1>1 DEF Arrive
  <2>2. [proc |-> p, org |-> o, ts |-> clock'] \in Waiting
    BY <2>1 DEF Waiting
  <2>3. at' \in [Entries -> Waiting \cup {None}] /\ at'[e] \in Waiting
    BY <1>1, <2>2 DEF Arrive
  <2>4. \A f \in Entries : pc'[f] # "new" => at'[f] \in Waiting
    BY <1>1, <2>3 DEF Arrive
  <2> QED BY <1>1, <2>1, <2>3, <2>4 DEF Arrive
<1>2. ASSUME NEW e \in Entries, WriteStep(e) PROVE TypeOK'
  <2>1. pc[e] # "new"
    BY <1>2 DEF WriteStep, Lock, LoadLastHash, LoadFails, InsertEntry, InsertFails
  <2>2. at[e].proc \in Procs
    BY <2>1 DEF Waiting
  <2>3. CASE Lock(e)
    BY <2>1, <2>2, <2>3 DEF Lock
  <2>4. CASE LoadLastHash(e)
    BY <2>1, <2>2, <2>4 DEF LoadLastHash
  <2>5. CASE LoadFails(e)
    BY <2>1, <2>2, <2>5 DEF LoadFails
  <2>6. CASE InsertEntry(e)
    BY <2>1, <2>2, <2>6 DEF InsertEntry
  <2>7. CASE InsertFails(e)
    BY <2>1, <2>2, <2>7 DEF InsertFails
  <2> QED BY <1>2, <2>3, <2>4, <2>5, <2>6, <2>7 DEF WriteStep
<1>3. ASSUME NEW p \in Procs, Restart(p) PROVE TypeOK'
  BY <1>3 DEF Restart
<1>4. ASSUME NEW r \in log, Delete(r) \/ Alter(r) PROVE TypeOK'
  BY <1>4 DEF Delete, Alter
<1>5. ASSUME NEW o \in Orgs, ReadHashes(o) PROVE TypeOK'
  BY <1>5 DEF ReadHashes
<1>6. CASE CheckRows
  BY <1>6 DEF CheckRows
<1>7. CASE UNCHANGED vars
  BY <1>7 DEF vars
<1> QED BY <1>1, <1>2, <1>3, <1>4, <1>5, <1>6, <1>7 DEF Next

\* The row that Write builds is self-consistent and its hash is its own.
LEMMA RowFacts ==
    ASSUME NEW e \in Entries
    PROVE  /\ SelfConsistent(Row(e))
           /\ Row(e).prev = lastHash[at[e].proc]
  BY DEF Row, SelfConsistent, Digest

\* Inserting the row of an initialised Writer keeps the table linked.
LEMMA InsertKeeps ==
    ASSUME Inv, NEW e \in Entries, pc[e] = "insert", deleted = {},
           log' = log \cup {Row(e)}
    PROVE  /\ Row(e).hash \in Hashes'
           /\ Hashes \subseteq Hashes'
           /\ \A r \in log' : SelfConsistent(r) /\ (r.prev = Genesis \/ r.prev \in Hashes')
<1>1. at[e].proc \in Procs
  BY DEF Inv, TypeOK, Waiting
<1>2. lastHash[at[e].proc] = Genesis \/ lastHash[at[e].proc] \in Hashes
  BY <1>1 DEF Inv, ChainInv
<1>3. Row(e).hash \in Hashes' /\ Hashes \subseteq Hashes'
  BY DEF Hashes
<1>4. ASSUME NEW r \in log'
      PROVE SelfConsistent(r) /\ (r.prev = Genesis \/ r.prev \in Hashes')
  <2>1. CASE r = Row(e)
    BY <2>1, <1>2, <1>3, RowFacts
  <2>2. CASE r \in log
    BY <2>2, <1>3 DEF Inv, ChainInv
  <2> QED BY <2>1, <2>2
<1> QED BY <1>3, <1>4

LEMMA ChainStep == Inv /\ [Next]_vars => ChainInv'
<1> SUFFICES ASSUME Inv, [Next]_vars, deleted' = {}
             PROVE  ChainInv'
    BY DEF ChainInv
<1>0. deleted = {}
  BY DEF Next, vars, Arrive, WriteStep, Lock, LoadLastHash, LoadFails, InsertEntry,
         InsertFails, Restart, Delete, Alter, ReadHashes, CheckRows, history
<1> USE <1>0
<1>a. ASSUME log' = log PROVE Hashes' = Hashes
  BY <1>a DEF Hashes
<1>b. /\ \A r \in log : SelfConsistent(r) /\ (r.prev = Genesis \/ r.prev \in Hashes)
      /\ \A p \in Procs : initialized[p] => lastHash[p] = Genesis \/ lastHash[p] \in Hashes
      /\ \A e \in Entries : pc[e] = "insert" => initialized[at[e].proc]
  BY DEF Inv, ChainInv
<1>c. ASSUME log' = log
      PROVE \A r \in log' : SelfConsistent(r) /\ (r.prev = Genesis \/ r.prev \in Hashes')
  BY <1>a, <1>b, <1>c
<1>1. ASSUME NEW e \in Entries, NEW p \in Procs, NEW o \in Orgs, Arrive(e, p, o)
      PROVE ChainInv'
  <2>1. \A f \in Entries : pc'[f] = "insert" => pc[f] = "insert" /\ at'[f] = at[f]
    BY <1>1 DEF Arrive, Inv, TypeOK
  <2> QED BY <1>1, <2>1, <1>a, <1>b, <1>c DEF Arrive, ChainInv
<1>2. ASSUME NEW e \in Entries, WriteStep(e) PROVE ChainInv'
  <2>1. pc[e] # "new"
    BY <1>2 DEF WriteStep, Lock, LoadLastHash, LoadFails, InsertEntry, InsertFails
  <2>2. at[e].proc \in Procs
    BY <2>1 DEF Inv, TypeOK, Waiting
  <2>3. CASE Lock(e)
    <3>1. \A f \in Entries : pc'[f] = "insert" => initialized[at[f].proc]
      BY <1>b, <2>3 DEF Lock, Inv, TypeOK
    <3> QED BY <2>3, <3>1, <1>a, <1>b, <1>c DEF Lock, ChainInv
  <2>4. CASE LoadLastHash(e)
    <3>1. \A p \in Procs :
             \/ initialized'[p] = initialized[p] /\ lastHash'[p] = lastHash[p]
             \/ lastHash'[p] = Genesis \/ lastHash'[p] \in Hashes
      <4>1. CASE log = {}
        BY <2>2, <2>4, <4>1 DEF LoadLastHash, Inv, TypeOK
      <4>2. CASE log # {}
        <5>1. PICK r \in Latest : lastHash' = [lastHash EXCEPT ![at[e].proc] = r.hash]
          BY <2>4, <4>2 DEF LoadLastHash
        <5>2. r.hash \in Hashes
          BY <5>1 DEF Latest, Hashes
        <5> QED BY <2>2, <2>4, <5>1, <5>2 DEF LoadLastHash, Inv, TypeOK
      <4> QED BY <4>1, <4>2
    <3>2. \A f \in Entries : pc'[f] = "insert" => initialized'[at'[f].proc]
      BY <1>b, <2>2, <2>4 DEF LoadLastHash, Inv, TypeOK
    <3> QED BY <2>4, <3>1, <3>2, <1>a, <1>b, <1>c DEF LoadLastHash, ChainInv
  <2>5. CASE LoadFails(e)
    <3>1. \A f \in Entries : pc'[f] = "insert" => pc[f] = "insert"
      BY <2>5 DEF LoadFails, Inv, TypeOK
    <3> QED BY <2>5, <3>1, <1>a, <1>b, <1>c DEF LoadFails, ChainInv
  <2>6. CASE InsertEntry(e)
    <3>1. \A f \in Entries : pc'[f] = "insert" => pc[f] = "insert"
      BY <2>6 DEF InsertEntry, Inv, TypeOK
    <3>2. /\ Row(e).hash \in Hashes' /\ Hashes \subseteq Hashes'
          /\ \A r \in log' : SelfConsistent(r) /\ (r.prev = Genesis \/ r.prev \in Hashes')
      BY <2>6, InsertKeeps DEF InsertEntry
    <3>3. \A p \in Procs : lastHash'[p] = lastHash[p] \/ lastHash'[p] = Row(e).hash
      BY <2>2, <2>6 DEF InsertEntry, Inv, TypeOK
    <3> QED BY <2>6, <3>1, <3>2, <3>3, <1>b DEF InsertEntry, ChainInv
  <2>7. CASE InsertFails(e)
    <3>1. \A f \in Entries : pc'[f] = "insert" => pc[f] = "insert"
      BY <2>7 DEF InsertFails, Inv, TypeOK
    <3>2. CASE log' = log
      BY <2>7, <3>1, <3>2, <1>a, <1>b, <1>c DEF InsertFails, ChainInv
    <3>3. CASE log' = log \cup {Row(e)}
      <4>1. /\ Hashes \subseteq Hashes'
            /\ \A r \in log' : SelfConsistent(r) /\ (r.prev = Genesis \/ r.prev \in Hashes')
        BY <2>7, <3>3, InsertKeeps DEF InsertFails
      <4> QED BY <2>7, <3>1, <4>1, <1>b DEF InsertFails, ChainInv
    <3> QED BY <2>7, <3>2, <3>3 DEF InsertFails
  <2> QED BY <1>2, <2>3, <2>4, <2>5, <2>6, <2>7 DEF WriteStep
<1>3. ASSUME NEW p \in Procs, Restart(p) PROVE ChainInv'
  <2>1. \A f \in Entries : pc'[f] = "insert" => pc[f] = "insert" /\ at[f].proc # p
    BY <1>3 DEF Restart, Inv, TypeOK
  <2>2. \A f \in Entries : pc[f] = "insert" => at[f].proc \in Procs
    BY DEF Inv, TypeOK, Waiting
  <2>3. \A q \in Procs : q # p => initialized'[q] = initialized[q]
    BY <1>3 DEF Restart, Inv, TypeOK
  <2>4. ~initialized'[p]
    BY <1>3 DEF Restart, Inv, TypeOK
  <2>5. \A f \in Entries : pc'[f] = "insert" => initialized'[at'[f].proc]
    BY <1>3, <1>b, <2>1, <2>2, <2>3 DEF Restart
  <2>6. \A q \in Procs : initialized'[q] => initialized[q]
    BY <2>3, <2>4
  <2> QED BY <1>3, <1>a, <1>b, <1>c, <2>5, <2>6 DEF Restart, ChainInv
<1>4. ASSUME NEW r \in log, Delete(r) \/ Alter(r) PROVE ChainInv'
  BY <1>4 DEF Delete, Alter
<1>5. ASSUME UNCHANGED <<log, writer, deleted>> PROVE ChainInv'
  BY <1>5, <1>a, <1>b, <1>c DEF writer, ChainInv
<1> QED
  BY <1>1, <1>2, <1>3, <1>4, <1>5
  DEF Next, vars, writer, history, ReadHashes, CheckRows

\* Every step hands the mutex on as sync.Mutex does.
LEMMA MutexStep == Inv /\ [Next]_vars => MutexInv'
<1> SUFFICES ASSUME Inv, [Next]_vars, NEW f \in Entries, NEW q \in Procs
             PROVE  mu'[q] = f <=> pc'[f] \in {"load", "insert"} /\ at'[f].proc = q
    BY DEF MutexInv
<1>0. /\ TypeOK
      /\ \A e \in Entries, p \in Procs :
            mu[p] = e <=> pc[e] \in {"load", "insert"} /\ at[e].proc = p
  BY DEF Inv, MutexInv
<1>1. ASSUME NEW e \in Entries, NEW p \in Procs, NEW o \in Orgs, Arrive(e, p, o)
      PROVE mu'[q] = f <=> pc'[f] \in {"load", "insert"} /\ at'[f].proc = q
  BY <1>0, <1>1 DEF Arrive, TypeOK
<1>2. ASSUME NEW e \in Entries, WriteStep(e)
      PROVE mu'[q] = f <=> pc'[f] \in {"load", "insert"} /\ at'[f].proc = q
  <2>1. at[e].proc \in Procs
    BY <1>0, <1>2
    DEF WriteStep, Lock, LoadLastHash, LoadFails, InsertEntry, InsertFails, TypeOK, Waiting
  <2>2. CASE Lock(e)
    BY <1>0, <2>1, <2>2 DEF Lock, TypeOK
  <2>3. CASE LoadLastHash(e)
    BY <1>0, <2>1, <2>3 DEF LoadLastHash, TypeOK
  <2>4. CASE LoadFails(e)
    BY <1>0, <2>1, <2>4 DEF LoadFails, TypeOK
  <2>5. CASE InsertEntry(e)
    BY <1>0, <2>1, <2>5 DEF InsertEntry, TypeOK
  <2>6. CASE InsertFails(e)
    BY <1>0, <2>1, <2>6 DEF InsertFails, TypeOK
  <2> QED BY <1>2, <2>2, <2>3, <2>4, <2>5, <2>6 DEF WriteStep
<1>3. ASSUME NEW p \in Procs, Restart(p)
      PROVE mu'[q] = f <=> pc'[f] \in {"load", "insert"} /\ at'[f].proc = q
  BY <1>0, <1>3 DEF Restart, TypeOK
<1>4. ASSUME UNCHANGED writer
      PROVE mu'[q] = f <=> pc'[f] \in {"load", "insert"} /\ at'[f].proc = q
  BY <1>0, <1>4 DEF writer
<1> QED
  BY <1>1, <1>2, <1>3, <1>4 DEF Next, vars, writer, Delete, Alter, ReadHashes, CheckRows

\* Inv holds in every reachable state of every instance.
THEOREM ChainInvariance == Spec => []Inv
<1>1. Inv /\ [Next]_vars => Inv'
  BY TypeStep, ChainStep, MutexStep DEF Inv
<1> QED BY InitInv, <1>1, PTL DEF Spec

\* History nobody touched always verifies: no failed or ambiguous insert, no
\* restart and no concurrent process leaves a row VerifyAuditChain would call
\* broken in one consistent reading.
THEOREM HonestHistoryVerifies == Spec => []HonestVerifies
<1>1. Inv => HonestVerifies
  BY DEF Inv, ChainInv, HonestVerifies, Valid, Linked
<1> QED BY ChainInvariance, <1>1, PTL

-----------------------------------------------------------------------------
(* Tampering shows, and each process writes one chain.                     *)

\* No hash is that of two rows, and none is the genesis hash.
LEMMA DigestFacts ==
  ASSUME NEW a, NEW i, NEW o, NEW d, NEW t, NEW b, NEW j, NEW p, NEW e, NEW u
  PROVE  /\ Digest(a, i, o, d, t)[2] = i
         /\ Digest(a, i, o, d, t) # Genesis
         /\ Digest(a, i, o, d, t) = Digest(b, j, p, e, u) => i = j /\ d = e
  BY DEF Digest, Genesis

\* Rows, progress and timestamps of the entries that were written stay.
LEMMA WrittenStays ==
  ASSUME TypeOK, [Next]_vars, NEW e \in Entries, pc[e] \in {"ok", "failed"}
  PROVE  pc'[e] = pc[e] /\ at'[e] = at[e]
<1>1. ASSUME NEW f \in Entries, NEW p \in Procs, NEW o \in Orgs, Arrive(f, p, o)
      PROVE  pc'[e] = pc[e] /\ at'[e] = at[e]
  BY <1>1 DEF Arrive, TypeOK
<1>2. ASSUME NEW f \in Entries, WriteStep(f) PROVE pc'[e] = pc[e] /\ at'[e] = at[e]
  BY <1>2 DEF WriteStep, Lock, LoadLastHash, LoadFails, InsertEntry, InsertFails, TypeOK
<1>3. ASSUME NEW p \in Procs, Restart(p) PROVE pc'[e] = pc[e] /\ at'[e] = at[e]
  BY <1>3 DEF Restart, TypeOK
<1> QED BY <1>1, <1>2, <1>3 DEF Next, vars, Delete, Alter, ReadHashes, CheckRows, writer

LEMMA ChainedStays ==
  ASSUME TypeOK, [Next]_vars, NEW h, Chained(h) PROVE Chained(h)'
  BY WrittenStays DEF Chained

\* The row Write builds, once its INSERT has been tried.
LEMMA BuiltRow ==
  ASSUME TypeOK, HeadInv, NEW e \in Entries, pc[e] = "insert"
  PROVE  /\ Row(e) = [id |-> Row(e).id, prev |-> Row(e).prev, org |-> Row(e).org,
                      ts |-> Row(e).ts, decision |-> Row(e).decision, hash |-> Row(e).hash]
         /\ Row(e).id = e /\ Row(e).decision = "made"
         /\ Row(e).hash = Digest(Row(e).prev, e, Row(e).org, "made", Row(e).ts)
         /\ Row(e).prev = lastHash[at[e].proc]
         /\ Chained(Row(e).prev)
         /\ at[e].proc \in Procs
<1>1. at[e].proc \in Procs
  BY DEF TypeOK, Waiting
<1>2. Chained(lastHash[at[e].proc])
  BY <1>1 DEF HeadInv
<1> QED BY <1>1, <1>2 DEF Row

\* Every step adds a well-formed row, alters one, or removes some.
LEMMA RowStep == TypeOK /\ RowInv /\ HeadInv /\ [Next]_vars => RowInv'
<1> SUFFICES ASSUME TypeOK, RowInv, HeadInv, [Next]_vars PROVE RowInv'
  OBVIOUS
<1> DEFINE Good(r) == /\ r = [id |-> r.id, prev |-> r.prev, org |-> r.org, ts |-> r.ts,
                              decision |-> r.decision, hash |-> r.hash]
                      /\ r.id \in Entries /\ pc[r.id] \in {"ok", "failed"}
                      /\ r.decision \in {"made", "altered"}
                      /\ r.hash = Digest(r.prev, r.id, r.org, "made", r.ts)
                      /\ Chained(r.prev)
<1>1. \A r : Good(r) => Good(r)'
  BY WrittenStays, ChainedStays
<1>2. \A r \in log : Good(r)'
  BY <1>1 DEF RowInv
<1>3. ASSUME log' \subseteq log, deleted' = deleted PROVE RowInv'
  BY <1>2, <1>3 DEF RowInv
<1>4. ASSUME NEW e \in Entries, WriteStep(e) PROVE RowInv'
  <2>1. CASE Lock(e) \/ LoadLastHash(e) \/ LoadFails(e)
    BY <1>3, <2>1 DEF Lock, LoadLastHash, LoadFails, history
  <2>2. CASE InsertEntry(e) \/ InsertFails(e)
    <3>1. /\ pc[e] = "insert" /\ pc'[e] \in {"ok", "failed"} /\ deleted' = deleted
          /\ log' = log \/ log' = log \cup {Row(e)}
      BY <2>2 DEF InsertEntry, InsertFails, TypeOK, history
    <3>2. PICK R : R = Row(e)
      OBVIOUS
    <3>3. /\ R = [id |-> R.id, prev |-> R.prev, org |-> R.org, ts |-> R.ts,
                  decision |-> R.decision, hash |-> R.hash]
          /\ R.id = e /\ R.decision = "made"
          /\ R.hash = Digest(R.prev, e, R.org, "made", R.ts)
          /\ Chained(R.prev)
      BY <3>1, <3>2, BuiltRow
    <3>4. Chained(R.prev)'
      BY <3>3, ChainedStays
    <3>5. Good(R)'
      BY <3>1, <3>3, <3>4
    <3>6. log' = log \/ log' = log \cup {R}
      BY <3>1, <3>2
    <3> HIDE DEF Good
    <3>7. \A r \in log' : Good(r)'
      BY <1>2, <3>5, <3>6
    <3> QED BY <3>1, <3>7 DEF RowInv, Good
  <2> QED BY <1>4, <2>1, <2>2 DEF WriteStep
<1>5. ASSUME NEW r \in log, Delete(r) \/ Alter(r) PROVE RowInv'
  <2>1. deleted' = deleted \cup {r.hash} /\ r.hash # Genesis
    BY <1>5, DigestFacts DEF Delete, Alter, RowInv
  <2>2. Genesis \notin deleted'
    BY <2>1 DEF RowInv
  <2>3. \A s \in log' : Good(s)'
    <3>1. CASE Delete(r)
      BY <1>2, <3>1 DEF Delete
    <3>2. CASE Alter(r)
      <4>0. PICK S : S = [r EXCEPT !.decision = "altered"]
        OBVIOUS
      <4>1. Good(r)'
        BY <1>2
      <4>2. UNCHANGED <<pc, at>>
        BY <3>2 DEF Alter, writer
      <4>3. /\ S = [id |-> S.id, prev |-> S.prev, org |-> S.org, ts |-> S.ts,
                    decision |-> S.decision, hash |-> S.hash]
            /\ S.id = r.id /\ S.prev = r.prev /\ S.org = r.org /\ S.ts = r.ts /\ S.hash = r.hash
            /\ S.decision = "altered"
        BY <4>0 DEF RowInv
      <4>4. Good(S)'
        BY <4>1, <4>3
      <4>5. log' = (log \ {r}) \cup {S}
        BY <3>2, <4>0 DEF Alter
      <4> QED BY <1>2, <4>4, <4>5
    <3> QED BY <1>5, <3>1, <3>2
  <2> QED BY <2>2, <2>3 DEF RowInv
<1>6. ASSUME NEW e \in Entries, NEW p \in Procs, NEW o \in Orgs, Arrive(e, p, o) PROVE RowInv'
  BY <1>3, <1>6 DEF Arrive, history
<1>7. ASSUME NEW p \in Procs, Restart(p) PROVE RowInv'
  BY <1>3, <1>7 DEF Restart
<1>8. CASE UNCHANGED vars \/ CheckRows \/ \E o \in Orgs : ReadHashes(o)
  BY <1>3, <1>8 DEF vars, CheckRows, ReadHashes, history
<1> QED BY <1>4, <1>5, <1>6, <1>7, <1>8 DEF Next

\* A Writer hangs each row on a head of its own.
LEMMA HeadStep == TypeOK /\ MutexInv /\ RowInv /\ HeadInv /\ [Next]_vars => HeadInv'
<1> SUFFICES ASSUME TypeOK, MutexInv, RowInv, HeadInv, [Next]_vars PROVE HeadInv'
  OBVIOUS
<1> DEFINE Load(e) == /\ pc[e] = "load" => ~initialized[at[e].proc]
                      /\ pc[e] = "insert" => initialized[at[e].proc]
           Fresh(p) == ~initialized[p] => \A e \in Entries : pc[e] = "ok" => at[e].proc # p
           Free(p) == \A r \in log : pc[r.id] = "ok" /\ at[r.id].proc = p => r.prev # lastHash[p]
<1>0. /\ \A p \in Procs : initialized[p] => Chained(lastHash[p])
      /\ \A e \in Entries : Load(e)
      /\ \A p \in Procs \ restarted : Fresh(p) /\ Free(p)
  BY DEF HeadInv
<1>a. \A r \in log : r.id \in Entries /\ pc'[r.id] = pc[r.id] /\ at'[r.id] = at[r.id]
  BY WrittenStays DEF RowInv
<1>b. ASSUME NEW p \in Procs, initialized[p], lastHash'[p] = lastHash[p]
      PROVE  Chained(lastHash[p])'
  <2>1. PICK h : h = lastHash[p]
    OBVIOUS
  <2>2. Chained(h)'
    BY <1>0, <1>b, <2>1, ChainedStays
  <2> QED BY <1>b, <2>1, <2>2 DEF Chained
<1>c. \A e \in Entries : pc[e] # "new" => at[e].proc \in Procs
  BY DEF TypeOK, Waiting
<1>1. ASSUME UNCHANGED <<initialized, lastHash>>, restarted \subseteq restarted',
             \A r \in log' : \E s \in log : r.id = s.id /\ r.prev = s.prev,
             \A e \in Entries : pc'[e] \in {"load", "insert", "ok"} =>
                                     pc'[e] = pc[e] /\ at'[e] = at[e]
      PROVE  HeadInv'
  <2>1. \A p \in Procs : initialized'[p] => Chained(lastHash[p])'
    BY <1>1, <1>b
  <2>2. \A e \in Entries : Load(e)'
    BY <1>0, <1>1
  <2>3. \A p \in Procs \ restarted' : Fresh(p)'
    BY <1>0, <1>1
  <2>4. \A p \in Procs \ restarted' : Free(p)'
    BY <1>0, <1>1, <1>a
  <2> QED BY <2>1, <2>2, <2>3, <2>4 DEF HeadInv
<1>2. ASSUME NEW e \in Entries, NEW p \in Procs, NEW o \in Orgs, Arrive(e, p, o) PROVE HeadInv'
  BY <1>1, <1>2 DEF Arrive, TypeOK, history
<1>3. ASSUME NEW e \in Entries, WriteStep(e) PROVE HeadInv'
  <2>0. PICK p \in Procs : p = at[e].proc
    BY <1>3, <1>c DEF WriteStep, Lock, LoadLastHash, LoadFails, InsertEntry, InsertFails
  <2>1. CASE Lock(e)
    <3>1. \A f \in Entries : Load(f)'
      BY <1>0, <2>1 DEF Lock, TypeOK
    <3>2. \A q \in Procs : initialized'[q] => Chained(lastHash[q])'
      BY <1>b, <2>1 DEF Lock
    <3>3. \A q \in Procs \ restarted' : Fresh(q)'
      BY <1>0, <2>1 DEF Lock, TypeOK, history
    <3>4. \A q \in Procs \ restarted' : Free(q)'
      BY <1>0, <1>a, <2>1 DEF Lock, history
    <3> QED BY <3>1, <3>2, <3>3, <3>4 DEF HeadInv
  <2>2. CASE LoadLastHash(e)
    <3>0. /\ pc[e] = "load" /\ pc' = [pc EXCEPT ![e] = "insert"] /\ mu[p] = e
          /\ initialized' = [initialized EXCEPT ![p] = TRUE]
          /\ UNCHANGED <<log, at, restarted>>
          /\ \E h : lastHash' = [lastHash EXCEPT ![p] = h]
      BY <2>0, <2>2 DEF LoadLastHash, MutexInv, history
    <3>1. Chained(lastHash[p])'
      <4>1. CASE log = {}
        BY <2>0, <2>2, <4>1 DEF LoadLastHash, TypeOK, Chained
      <4>2. CASE log # {}
        <5>1. PICK r \in Latest : lastHash' = [lastHash EXCEPT ![p] = r.hash]
          BY <2>0, <2>2, <4>2 DEF LoadLastHash
        <5>2. r \in log /\ r.hash[2] = r.id
          BY <5>1, DigestFacts DEF Latest, RowInv
        <5>3. lastHash'[p] = r.hash
          BY <2>0, <5>1 DEF TypeOK
        <5>4. r.id \in Entries /\ pc'[r.id] \in {"ok", "failed"}
          BY <1>a, <5>2 DEF RowInv
        <5> QED BY <5>2, <5>3, <5>4 DEF Chained
      <4> QED BY <4>1, <4>2
    <3>2. \A q \in Procs : initialized'[q] => Chained(lastHash[q])'
      <4>1. \A q \in Procs : q # p => initialized'[q] = initialized[q] /\ lastHash'[q] = lastHash[q]
        BY <2>0, <3>0 DEF TypeOK
      <4> QED BY <1>b, <3>1, <4>1
    <3>3. \A f \in Entries : Load(f)'
      <4>1. \A f \in Entries : f # e /\ pc[f] \in {"load", "insert"} => at[f].proc # p
        BY <2>0, <3>0 DEF MutexInv
      <4>2. \A f \in Entries : f # e => pc'[f] = pc[f]
        BY <3>0 DEF TypeOK
      <4>3. pc'[e] = "insert" /\ initialized'[p]
        BY <2>0, <3>0 DEF TypeOK
      <4>4. \A q \in Procs : q # p => initialized'[q] = initialized[q]
        BY <3>0 DEF TypeOK
      <4> QED BY <1>0, <1>c, <2>0, <3>0, <4>1, <4>2, <4>3, <4>4
    <3>4. \A q \in Procs \ restarted' : Fresh(q)'
      BY <1>0, <3>0 DEF TypeOK
    <3>5. \A q \in Procs \ restarted' : Free(q)'
      <4>1. ASSUME p \notin restarted, NEW r \in log, pc'[r.id] = "ok", at'[r.id].proc = p
            PROVE  FALSE
        BY <1>0, <1>a, <2>0, <3>0, <4>1
      <4>2. \A q \in Procs : q # p => lastHash'[q] = lastHash[q]
        BY <3>0 DEF TypeOK
      <4> QED BY <1>0, <1>a, <3>0, <4>1, <4>2
    <3> QED BY <3>2, <3>3, <3>4, <3>5 DEF HeadInv
  <2>3. CASE LoadFails(e)
    BY <1>1, <2>3 DEF LoadFails, TypeOK, history
  <2>4. CASE InsertEntry(e) \/ InsertFails(e)
    <3>1. PICK R : R = Row(e)
      OBVIOUS
    <3>2. /\ pc[e] = "insert" /\ UNCHANGED <<at, initialized, restarted>>
          /\ log' = log \/ log' = log \cup {R}
          /\ \/ /\ pc' = [pc EXCEPT ![e] = "ok"]
                /\ lastHash' = [lastHash EXCEPT ![p] = R.hash]
             \/ /\ pc' = [pc EXCEPT ![e] = "failed"]
                /\ lastHash' = lastHash
      BY <2>0, <2>4, <3>1 DEF InsertEntry, InsertFails, history
    <3>3. /\ R.id = e /\ R.hash = Digest(R.prev, e, R.org, "made", R.ts) /\ R.hash[2] = e
          /\ R.prev = lastHash[p] /\ Chained(R.prev)
      BY <2>0, <3>1, <3>2, BuiltRow, DigestFacts
    <3>4. initialized[p] /\ \A f \in Entries : f # e => pc'[f] = pc[f]
      BY <1>0, <2>0, <3>2 DEF TypeOK
    <3>5. \A q \in Procs : q # p => lastHash'[q] = lastHash[q]
      BY <3>2 DEF TypeOK
    <3>6. \A f \in Entries : Load(f)'
      BY <1>0, <2>0, <3>2, <3>4 DEF TypeOK
    <3>7. \A q \in Procs \ restarted' : Fresh(q)'
      BY <1>0, <2>0, <3>2, <3>4
    <3>8. CASE pc' = [pc EXCEPT ![e] = "ok"] /\ lastHash' = [lastHash EXCEPT ![p] = R.hash]
      <4>1. pc'[e] = "ok" /\ lastHash'[p] = R.hash
        BY <2>0, <3>8 DEF TypeOK
      <4>2. Chained(lastHash[p])'
        BY <3>3, <4>1 DEF Chained
      <4>3. \A q \in Procs : initialized'[q] => Chained(lastHash[q])'
        BY <1>b, <3>2, <3>5, <4>2
      <4>4. \A r \in log' : r.prev # R.hash
        <5>1. \A r \in log' : Chained(r.prev)
          BY <3>2, <3>3 DEF RowInv
        <5>2. ~Chained(R.hash)
          BY <3>2, <3>3, DigestFacts DEF Chained
        <5> QED BY <5>1, <5>2
      <4>5. ASSUME NEW q \in Procs \ restarted', q # p, NEW r \in log',
                   pc'[r.id] = "ok", at'[r.id].proc = q
            PROVE  r.prev # lastHash'[q]
        <5>1. r \in log
          BY <2>0, <3>2, <3>3, <4>5
        <5> QED BY <1>0, <1>a, <3>2, <3>5, <4>5, <5>1
      <4>6. \A q \in Procs \ restarted' : Free(q)'
        BY <4>1, <4>4, <4>5
      <4> QED BY <3>6, <3>7, <4>3, <4>6 DEF HeadInv
    <3>9. CASE pc' = [pc EXCEPT ![e] = "failed"] /\ lastHash' = lastHash
      <4>1. pc'[e] = "failed"
        BY <3>9 DEF TypeOK
      <4>2. \A q \in Procs : initialized'[q] => Chained(lastHash[q])'
        BY <1>b, <3>2, <3>9
      <4>3. ASSUME NEW q \in Procs \ restarted', NEW r \in log',
                   pc'[r.id] = "ok", at'[r.id].proc = q
            PROVE  r.prev # lastHash'[q]
        <5>1. r \in log
          BY <3>2, <3>3, <4>1, <4>3
        <5> QED BY <1>0, <1>a, <3>2, <3>9, <4>3, <5>1
      <4>4. \A q \in Procs \ restarted' : Free(q)'
        BY <4>3
      <4> QED BY <3>6, <3>7, <4>2, <4>4 DEF HeadInv
    <3> QED BY <3>2, <3>8, <3>9
  <2> QED BY <1>3, <2>1, <2>2, <2>3, <2>4 DEF WriteStep
<1>4. ASSUME NEW p \in Procs, Restart(p) PROVE HeadInv'
  <2>1. /\ initialized' = [initialized EXCEPT ![p] = FALSE] /\ restarted' = restarted \cup {p}
        /\ UNCHANGED <<log, lastHash, at>>
        /\ \A e \in Entries :
              pc'[e] = IF pc[e] \in {"arrived", "load", "insert"} /\ at[e].proc = p
                       THEN "lost" ELSE pc[e]
    BY <1>4 DEF Restart
  <2>2. \A q \in Procs : q # p => initialized'[q] = initialized[q]
    BY <2>1 DEF TypeOK
  <2>3. \A q \in Procs : initialized'[q] => Chained(lastHash[q])'
    BY <1>b, <2>1 DEF TypeOK
  <2>4. \A e \in Entries : Load(e)'
    BY <1>0, <1>c, <2>1, <2>2
  <2>5. \A q \in Procs \ restarted' : Fresh(q)'
    BY <1>0, <2>1, <2>2
  <2>6. \A q \in Procs \ restarted' : Free(q)'
    BY <1>0, <1>a, <2>1
  <2> QED BY <2>3, <2>4, <2>5, <2>6 DEF HeadInv
<1>5. ASSUME NEW r \in log, Delete(r) \/ Alter(r) PROVE HeadInv'
  <2>1. UNCHANGED <<initialized, lastHash, restarted, pc, at>>
    BY <1>5 DEF Delete, Alter, writer
  <2>2. \A s \in log' : \E t \in log : s.id = t.id /\ s.prev = t.prev
    BY <1>5 DEF Delete, Alter, RowInv
  <2> QED BY <1>1, <2>1, <2>2
<1>6. CASE UNCHANGED vars \/ CheckRows \/ \E o \in Orgs : ReadHashes(o)
  BY <1>1, <1>6 DEF vars, CheckRows, ReadHashes, history, writer
<1> QED BY <1>2, <1>3, <1>4, <1>5, <1>6 DEF Next

\* No two rows of a process that was not restarted have the same predecessor.
LEMMA LinearStep ==
  TypeOK /\ RowInv /\ HeadInv /\ Linear /\ [Next]_vars => Linear'
<1> SUFFICES ASSUME TypeOK, RowInv, HeadInv, Linear, [Next]_vars PROVE Linear'
  OBVIOUS
<1>a. \A r \in log : r.id \in Entries /\ pc'[r.id] = pc[r.id] /\ at'[r.id] = at[r.id]
  BY WrittenStays DEF RowInv
<1>1. ASSUME restarted \subseteq restarted',
             \A r \in log' : pc'[r.id] = "ok" => \E s \in log : r.id = s.id /\ r.prev = s.prev
      PROVE  Linear'
  <2>1. SUFFICES ASSUME NEW r \in log', NEW s \in log',
                        pc'[r.id] = "ok", pc'[s.id] = "ok",
                        at'[r.id].proc = at'[s.id].proc, at'[r.id].proc \notin restarted',
                        r.prev = s.prev
                 PROVE  r.id = s.id
    BY DEF Linear
  <2>2. PICK t \in log : r.id = t.id /\ r.prev = t.prev
    BY <1>1, <2>1
  <2>3. PICK u \in log : s.id = u.id /\ s.prev = u.prev
    BY <1>1, <2>1
  <2>4. /\ pc[t.id] = "ok" /\ at[t.id].proc = at'[r.id].proc
        /\ pc[u.id] = "ok" /\ at[u.id].proc = at'[s.id].proc
    BY <1>a, <2>1, <2>2, <2>3
  <2>5. at[t.id].proc = at[u.id].proc /\ at[t.id].proc \notin restarted /\ t.prev = u.prev
    BY <1>1, <2>1, <2>2, <2>3, <2>4
  <2>6. t.id = u.id
    BY <2>4, <2>5 DEF Linear
  <2> QED BY <2>2, <2>3, <2>6
<1>2. ASSUME NEW e \in Entries, WriteStep(e) PROVE Linear'
  <2>1. CASE Lock(e) \/ LoadLastHash(e) \/ LoadFails(e)
    BY <1>1, <2>1 DEF Lock, LoadLastHash, LoadFails, history
  <2>2. CASE InsertFails(e)
    <3>1. pc'[e] = "failed" /\ Row(e).id = e
      BY <2>2 DEF InsertFails, TypeOK, Row
    <3> QED BY <1>1, <2>2, <3>1 DEF InsertFails, history
  <2>3. CASE InsertEntry(e)
    <3>1. PICK R : R = Row(e)
      OBVIOUS
    <3>2. /\ pc[e] = "insert" /\ at' = at /\ restarted' = restarted
          /\ log' = log \cup {R}
      BY <2>3, <3>1 DEF InsertEntry, history
    <3>3. R.id = e /\ R.prev = lastHash[at[e].proc] /\ at[e].proc \in Procs
      BY <3>1, <3>2, BuiltRow
    <3>4. ASSUME NEW s \in log, pc'[s.id] = "ok", at[s.id].proc = at[e].proc,
                 at[e].proc \notin restarted
          PROVE  s.prev # R.prev
      BY <1>a, <3>3, <3>4 DEF HeadInv
    <3>5. SUFFICES ASSUME NEW r \in log', NEW s \in log',
                          pc'[r.id] = "ok", pc'[s.id] = "ok",
                          at'[r.id].proc = at'[s.id].proc, at'[r.id].proc \notin restarted',
                          r.prev = s.prev
                   PROVE  r.id = s.id
      BY DEF Linear
    <3>6. CASE r \in log /\ s \in log
      BY <1>a, <3>2, <3>5, <3>6 DEF Linear
    <3>7. CASE r = R /\ s \in log
      BY <3>2, <3>3, <3>4, <3>5, <3>7
    <3>8. CASE r \in log /\ s = R
      BY <3>2, <3>3, <3>4, <3>5, <3>8
    <3> QED BY <3>2, <3>5, <3>6, <3>7, <3>8
  <2> QED BY <1>2, <2>1, <2>2, <2>3 DEF WriteStep
<1>3. ASSUME NEW r \in log, Delete(r) \/ Alter(r) PROVE Linear'
  <2>1. \A s \in log' : \E t \in log : s.id = t.id /\ s.prev = t.prev
    BY <1>3 DEF Delete, Alter, RowInv
  <2> QED BY <1>1, <1>3, <2>1 DEF Delete, Alter
<1>4. ASSUME log' = log, restarted \subseteq restarted' PROVE Linear'
  BY <1>1, <1>4
<1> QED BY <1>2, <1>3, <1>4 DEF Next, Arrive, Restart, ReadHashes, CheckRows, vars, history

\* Whoever alters a row, or removes one that another hangs on, is found out
\* when the organisation is verified next; and as long as a process runs, the
\* rows whose insertion it saw succeed form one chain, however many calls write
\* at once and whatever inserts fail or only seem to.
THEOREM TamperingIsEvident == Spec => []TamperEvident
<1>1. Init => EvidenceInv
  <2> SUFFICES ASSUME Init PROVE EvidenceInv
    OBVIOUS
  <2>1. TypeOK /\ MutexInv
    BY InitInv DEF Inv
  <2>2. RowInv /\ HeadInv /\ Linear
    BY DEF Init, RowInv, HeadInv, Linear
  <2> QED BY <2>1, <2>2 DEF EvidenceInv
<1>2. Inv /\ EvidenceInv /\ [Next]_vars => EvidenceInv'
  BY TypeStep, MutexStep, RowStep, HeadStep, LinearStep DEF EvidenceInv
<1>3. EvidenceInv => TamperEvident
  <2> SUFFICES ASSUME EvidenceInv PROVE TamperEvident
    OBVIOUS
  <2>1. ASSUME NEW r \in log, r.decision = "altered" PROVE ~SelfConsistent(r)
    <3>1. r.hash = Digest(r.prev, r.id, r.org, "made", r.ts)
      BY DEF EvidenceInv, RowInv
    <3> QED BY <2>1, <3>1, DigestFacts DEF SelfConsistent
  <2>2. ASSUME NEW r \in log, r.prev \in deleted \ Hashes PROVE ~Linked(r, Hashes)
    BY <2>2 DEF EvidenceInv, RowInv, Linked
  <2>3. TamperingShows
    BY <2>1, <2>2 DEF TamperingShows, Valid
  <2> QED BY <2>3 DEF EvidenceInv, TamperEvident
<1> QED BY <1>1, <1>2, <1>3, ChainInvariance, PTL DEF Spec

=============================================================================
