----------------------------- MODULE AuditChain -----------------------------
(***************************************************************************)
(* The hash-chained audit log: Writer.Write of the gateway processes       *)
(* (eami-gateway/internal/audit), and VerifyAuditChain of eami-api, which  *)
(* reads the table in two queries while the gateways go on writing.        *)
(***************************************************************************)
EXTENDS Naturals, FiniteSets

CONSTANTS
    Procs,      \* gateway processes, each with one Writer
    Entries,    \* audit entries (fresh UUIDs) that dispatches will write
    Orgs,       \* organisations
    None,       \* nobody holds the mutex
    MaxClock,   \* bound on the clock of the request timestamps
    Restarts,   \* may a process restart?
    Ambiguous,  \* may an INSERT report an error and yet be applied?
    MaxTampering \* bound on the rows somebody with access to the database changes

ASSUME ChainAssumption ==
    /\ None \notin Entries
    /\ MaxClock \in Nat /\ MaxTampering \in Nat
    /\ Restarts \in BOOLEAN /\ Ambiguous \in BOOLEAN

VARIABLES
    log,         \* audit_log: rows [id, prev, org, ts, decision, hash]
    lastHash,    \* Writer.lastHash of each process
    initialized, \* Writer.initialized of each process
    mu,          \* the entry whose Write holds the mutex of each process
    clock,       \* time.Now()
    pc,          \* the goroutine that writes each entry
    at,          \* the process, organisation and ReceivedAt of each entry
    deleted,     \* history: hashes of rows somebody removed or altered
    restarted,   \* history: processes that were restarted
    known,       \* existingHashes, as read by the verifier
    vpc,         \* the verifier: "idle", or the organisation it is verifying
    report       \* the last answer of /v1/audit/verify per organisation

history == <<deleted, restarted>>
writer == <<lastHash, initialized, mu, clock, pc, at>>
verifier == <<known, vpc, report>>
vars == <<log, lastHash, initialized, mu, clock, pc, at,
          deleted, restarted, known, vpc, report>>

\* SHA-256("eami-genesis-2026"): no row has this hash.
Genesis == <<"eami-genesis-2026">>

\* A perfect hash of the chained fields.
Digest(prev, id, org, decision, ts) == <<prev, id, org, decision, ts>>

Hashes == {r.hash : r \in log}

Pcs == {"new", "arrived", "load", "insert", "ok", "failed", "lost"}
Waiting == [proc: Procs, org: Orgs, ts: 0..MaxClock]

TypeOK ==
    /\ lastHash = [p \in Procs |-> lastHash[p]]
    /\ initialized \in [Procs -> BOOLEAN]
    /\ mu \in [Procs -> Entries \cup {None}]
    /\ clock \in 0..MaxClock
    /\ pc \in [Entries -> Pcs]
    /\ at \in [Entries -> Waiting \cup {None}]
    /\ \A e \in Entries : pc[e] # "new" => at[e] \in Waiting
    /\ restarted \subseteq Procs
    /\ vpc \in Orgs \cup {None}
    /\ report \in [Orgs -> {"none", "valid", "broken"}]

Init ==
    /\ log = {}
    /\ lastHash = [p \in Procs |-> None]
    /\ initialized = [p \in Procs |-> FALSE]
    /\ mu = [p \in Procs |-> None]
    /\ clock = 0
    /\ pc = [e \in Entries |-> "new"]
    /\ at = [e \in Entries |-> None]
    /\ deleted = {} /\ restarted = {}
    /\ known = {}
    /\ vpc = None
    /\ report = [o \in Orgs |-> "none"]

-----------------------------------------------------------------------------
(* Writer.                                                                 *)

\* A request arrives; its ReceivedAt is the timestamp of its audit row.
Arrive(e, p, o) ==
    /\ pc[e] = "new"
    /\ clock' \in {clock, clock + 1} /\ clock' <= MaxClock
    /\ at' = [at EXCEPT ![e] = [proc |-> p, org |-> o, ts |-> clock']]
    /\ pc' = [pc EXCEPT ![e] = "arrived"]
    /\ UNCHANGED <<log, lastHash, initialized, mu, history, verifier>>

\* Mutant: Write is not serialised.
Lock_Unserialised(e) ==
    /\ pc[e] = "arrived"
    /\ mu' = [mu EXCEPT ![at[e].proc] = e]
    /\ pc' = [pc EXCEPT ![e] = IF initialized[at[e].proc] THEN "insert" ELSE "load"]
    /\ UNCHANGED <<log, lastHash, initialized, clock, at, history, verifier>>

\* w.mu.Lock().
Lock(e) ==
    /\ pc[e] = "arrived"
    /\ mu[at[e].proc] = None
    /\ mu' = [mu EXCEPT ![at[e].proc] = e]
    /\ pc' = [pc EXCEPT ![e] = IF initialized[at[e].proc] THEN "insert" ELSE "load"]
    /\ UNCHANGED <<log, lastHash, initialized, clock, at, history, verifier>>

\* GetLastHash: ... ORDER BY timestamp DESC LIMIT 1.
Latest == {r \in log : \A s \in log : s.ts <= r.ts}

LoadLastHash(e) ==
    LET p == at[e].proc IN
    /\ pc[e] = "load"
    /\ IF log = {} THEN lastHash' = [lastHash EXCEPT ![p] = Genesis]
                   ELSE \E r \in Latest : lastHash' = [lastHash EXCEPT ![p] = r.hash]
    /\ initialized' = [initialized EXCEPT ![p] = TRUE]
    /\ pc' = [pc EXCEPT ![e] = "insert"]
    /\ UNCHANGED <<log, mu, clock, at, history, verifier>>

\* A real database error: Write fails and the Writer stays uninitialised.
LoadFails(e) ==
    /\ pc[e] = "load"
    /\ mu' = [mu EXCEPT ![at[e].proc] = None]
    /\ pc' = [pc EXCEPT ![e] = "failed"]
    /\ UNCHANGED <<log, lastHash, initialized, clock, at, history, verifier>>

\* The row Write builds on top of lastHash.
Row(e) ==
    LET a == at[e]
        prev == lastHash[a.proc]
    IN  [id |-> e, prev |-> prev, org |-> a.org, ts |-> a.ts, decision |-> "made",
         hash |-> Digest(prev, e, a.org, "made", a.ts)]

InsertEntry(e) ==
    /\ pc[e] = "insert"
    /\ log' = log \cup {Row(e)}
    /\ lastHash' = [lastHash EXCEPT ![at[e].proc] = Row(e).hash]
    /\ mu' = [mu EXCEPT ![at[e].proc] = None]
    /\ pc' = [pc EXCEPT ![e] = "ok"]
    /\ UNCHANGED <<initialized, clock, at, history, verifier>>

\* Mutant: lastHash advances whether or not the row was inserted.
InsertFails_Advances(e) ==
    /\ pc[e] = "insert"
    /\ UNCHANGED log
    /\ lastHash' = [lastHash EXCEPT ![at[e].proc] = Row(e).hash]
    /\ mu' = [mu EXCEPT ![at[e].proc] = None]
    /\ pc' = [pc EXCEPT ![e] = "failed"]
    /\ UNCHANGED <<initialized, clock, at, history, verifier>>

\* The INSERT reports an error: lastHash stays where it was.
InsertFails(e) ==
    /\ pc[e] = "insert"
    /\ \/ UNCHANGED log
       \/ Ambiguous /\ log' = log \cup {Row(e)}
    /\ mu' = [mu EXCEPT ![at[e].proc] = None]
    /\ pc' = [pc EXCEPT ![e] = "failed"]
    /\ UNCHANGED <<lastHash, initialized, clock, at, history, verifier>>

\* The process restarts with a fresh Writer; the calls it carried are gone.
Restart(p) ==
    /\ Restarts
    /\ initialized' = [initialized EXCEPT ![p] = FALSE]
    /\ mu' = [mu EXCEPT ![p] = None]
    /\ pc' = [e \in Entries |->
                IF pc[e] \in {"arrived", "load", "insert"} /\ at[e].proc = p
                THEN "lost" ELSE pc[e]]
    /\ restarted' = restarted \cup {p}
    /\ UNCHANGED <<log, lastHash, clock, at, deleted, verifier>>

-----------------------------------------------------------------------------
(* Database access outside the application, and the verifier.              *)

Delete(r) ==
    /\ Cardinality(deleted) < MaxTampering
    /\ log' = log \ {r}
    /\ deleted' = deleted \cup {r.hash}
    /\ UNCHANGED <<restarted, writer, verifier>>

\* A chained column is changed; the stored hash is left as it was.
Alter(r) ==
    /\ Cardinality(deleted) < MaxTampering
    /\ r.decision = "made"
    /\ log' = (log \ {r}) \cup {[r EXCEPT !.decision = "altered"]}
    /\ deleted' = deleted \cup {r.hash}
    /\ UNCHANGED <<restarted, writer, verifier>>

SelfConsistent(r) == r.hash = Digest(r.prev, r.id, r.org, r.decision, r.ts)

Linked(r, hashes) == r.prev = Genesis \/ r.prev \in hashes

\* SELECT hash FROM audit_log: the whole table.
ReadHashes(o) ==
    /\ vpc = None
    /\ known' = Hashes
    /\ vpc' = o
    /\ UNCHANGED <<log, writer, history, report>>

\* The rows of the organisation, in a second query.
CheckRows ==
    /\ vpc # None
    /\ report' = [report EXCEPT ![vpc] =
          IF \A r \in log : r.org = vpc => SelfConsistent(r) /\ Linked(r, known)
          THEN "valid" ELSE "broken"]
    /\ vpc' = None
    /\ known' = {}
    /\ UNCHANGED <<log, writer, history>>

-----------------------------------------------------------------------------
WriteStep(e) ==
    \/ Lock(e) \/ LoadLastHash(e) \/ LoadFails(e) \/ InsertEntry(e) \/ InsertFails(e)

Next ==
    \/ \E e \in Entries : \/ \E p \in Procs, o \in Orgs : Arrive(e, p, o)
                          \/ WriteStep(e)
    \/ \E p \in Procs : Restart(p)
    \/ \E r \in log : Delete(r) \/ Alter(r)
    \/ \E o \in Orgs : ReadHashes(o)
    \/ CheckRows

Spec == Init /\ [][Next]_vars

-----------------------------------------------------------------------------
(* Properties.                                                             *)

\* What one consistent reading of the table would report for an organisation.
Valid(o) == \A r \in log : r.org = o => SelfConsistent(r) /\ Linked(r, Hashes)

\* Untouched history always verifies: failed and ambiguous inserts, restarts,
\* several processes and interleaved organisations never leave a row that the
\* verifier would call broken.
HonestVerifies == deleted = {} => \A o \in Orgs : Valid(o)

\* A row whose predecessor was removed, and a row that was altered, make the
\* organisation's log invalid, the row a running gateway chains next included.
TamperingShows ==
    \A r \in log :
        (r.decision = "altered" \/ r.prev \in deleted \ Hashes) => ~Valid(r.org)

\* Until a process is restarted, the rows whose insertion it saw succeed form
\* one chain: no two have the same predecessor, however many calls write at the
\* same time, and whatever inserts failed or only seemed to.
Linear ==
    \A r, s \in log :
        /\ pc[r.id] = "ok" /\ pc[s.id] = "ok"
        /\ at[r.id].proc = at[s.id].proc /\ at[r.id].proc \notin restarted
        /\ r.prev = s.prev
        => r.id = s.id

\* The log is tamper-evident because each process writes one chain.
TamperEvident == TamperingShows /\ Linear

\* Whatever a Writer chains on is in the table.
ChainInv ==
    deleted = {} =>
        /\ \A r \in log : SelfConsistent(r) /\ (r.prev = Genesis \/ r.prev \in Hashes)
        /\ \A p \in Procs : initialized[p] => lastHash[p] = Genesis \/ lastHash[p] \in Hashes
        /\ \A e \in Entries : pc[e] = "insert" => initialized[at[e].proc]

\* The mutex is held by the Write between its Lock and its return, and only
\* then: no failure keeps it, no restart leaves it behind.
MutexInv ==
    \A e \in Entries, p \in Procs :
        mu[p] = e <=> pc[e] \in {"load", "insert"} /\ at[e].proc = p

\* What a Writer chains on exists, and it is the only one to do so: the
\* inductive invariant behind HonestVerifies.
Inv == TypeOK /\ ChainInv /\ MutexInv

\* A hash to chain on is Genesis or that of a row whose INSERT was tried; the
\* row's id is the second of the fields it digests.
Chained(h) == h = Genesis \/ (h[2] \in Entries /\ pc[h[2]] \in {"ok", "failed"})

\* The rows of the table, and what was removed from it.
RowInv ==
    /\ \A r \in log :
          /\ r = [id |-> r.id, prev |-> r.prev, org |-> r.org, ts |-> r.ts,
                  decision |-> r.decision, hash |-> r.hash]
          /\ r.id \in Entries /\ pc[r.id] \in {"ok", "failed"}
          /\ r.decision \in {"made", "altered"}
          /\ r.hash = Digest(r.prev, r.id, r.org, "made", r.ts)
          /\ Chained(r.prev)
    /\ Genesis \notin deleted

\* The head of a Writer: it has a chained hash once it is initialised, which
\* happens under the mutex, and no row it inserted since its start hangs there.
HeadInv ==
    /\ \A p \in Procs : initialized[p] => Chained(lastHash[p])
    /\ \A e \in Entries : /\ pc[e] = "load" => ~initialized[at[e].proc]
                          /\ pc[e] = "insert" => initialized[at[e].proc]
    /\ \A p \in Procs \ restarted :
          /\ ~initialized[p] => \A e \in Entries : pc[e] = "ok" => at[e].proc # p
          /\ \A r \in log : pc[r.id] = "ok" /\ at[r.id].proc = p => r.prev # lastHash[p]

\* The inductive invariant behind TamperEvident.
EvidenceInv == TypeOK /\ MutexInv /\ RowInv /\ HeadInv /\ Linear

=============================================================================
