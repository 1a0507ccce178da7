----------------------------- MODULE AdminAudit -----------------------------
(***************************************************************************)
(* The audit trail of administrators' changes: store/admin_audit.go, and   *)
(* the revocation of an API key (api/auth.go), the one change that is      *)
(* recorded through it.  The module is about the chain of one              *)
(* organisation; the chains of two share no row and no lock.               *)
(*                                                                         *)
(* A change and its event are one transaction: a writer changes the key    *)
(* under its row lock, waits for the lock of the chain, reads the head,    *)
(* inserts head+1 and commits.  What it has not committed is in tx only.   *)
(***************************************************************************)
EXTENDS Naturals, Sequences, SequencesExt

CONSTANTS
    Keys,           \* API keys of the organisation
    Writers,        \* revocations under way at the same time
    MaxEvents,      \* bound: rows the chain has at a time
    MaxTampering    \* bound: changes made to the table by hand

VARIABLES
    revoked,    \* keys with revoked_at
    rows,       \* admin_audit_events of the organisation, by seq
    tx,         \* the transactions under way
    written,    \* history: at each seq, the row last committed there
    recorded,   \* history: the keys some committed event names
    tampering   \* history: how often the table was changed by hand

auditVars == <<revoked, rows, tx, written, recorded, tampering>>

NoTx == [stage |-> "none"]

-----------------------------------------------------------------------------
(* The chain.                                                              *)

\* The prev_hash of the first row.
AdminAuditGenesis == <<>>

\* SHA-256 over every column but hash, prev_hash and seq included: another
\* row has another hash.
adminAuditRowHash_NoTarget(r) == <<r.prev, r.seq>>

adminAuditRowHash(r) == <<r.prev, r.seq, r.target>>

\* The row the transaction of an event inserts after the head it has read.
NextRow(head, k) ==
    LET r == [seq |-> head.seq + 1, target |-> k, prev |-> head.hash]
    IN  [seq |-> r.seq, target |-> k, prev |-> r.prev, hash |-> adminAuditRowHash(r)]

\* SELECT seq, hash ... ORDER BY seq DESC LIMIT 1.
ChainHead == IF rows = <<>> THEN [seq |-> 0, hash |-> AdminAuditGenesis] ELSE Last(rows)

\* VerifyAdminAuditChain walks the rows in order; Valid is that no row fails.
VerifyAdminAuditChain ==
    \A i \in DOMAIN rows :
        /\ rows[i].seq = IF i = 1 THEN 1 ELSE rows[i-1].seq + 1
        /\ rows[i].prev = IF i = 1 THEN AdminAuditGenesis ELSE rows[i-1].hash
        /\ rows[i].hash = adminAuditRowHash(rows[i])

-----------------------------------------------------------------------------
(* RevokeAPIKey through RunAudited.                                        *)

\* The change: UPDATE api_keys, on a row no other transaction has changed.
\* A key that is revoked already can be revoked again.
Change_Autocommit(w, k) ==
    /\ tx[w] = NoTx
    /\ \A v \in Writers : tx[v] # NoTx => tx[v].key # k
    /\ revoked' = revoked \cup {k}
    /\ tx' = [tx EXCEPT ![w] = [stage |-> "changed", key |-> k]]
    /\ UNCHANGED <<rows, written, recorded, tampering>>

Change(w, k) ==
    /\ tx[w] = NoTx
    /\ \A v \in Writers : tx[v] # NoTx => tx[v].key # k
    /\ tx' = [tx EXCEPT ![w] = [stage |-> "changed", key |-> k]]
    /\ UNCHANGED <<revoked, rows, written, recorded, tampering>>

\* AppendAdminAuditEvent: the lock of the chain, and then the head.
LockChain(w) ==
    /\ tx[w].stage = "changed"
    /\ \A v \in Writers : tx[v].stage # "locked"
    /\ tx' = [tx EXCEPT ![w] = [stage |-> "locked", key |-> tx[w].key,
                                head |-> [seq |-> ChainHead.seq, hash |-> ChainHead.hash]]]
    /\ UNCHANGED <<revoked, rows, written, recorded, tampering>>

\* The insert, which UNIQUE (org_id, seq) may refuse, and the commit of both.
Commit(w) ==
    /\ tx[w].stage = "locked"
    /\ Len(rows) < MaxEvents
    /\ LET row == NextRow(tx[w].head, tx[w].key)
       IN  /\ \A i \in DOMAIN rows : rows[i].seq # row.seq
           /\ rows' = Append(rows, row)
           /\ written' = [i \in DOMAIN written \cup {row.seq} |->
                             IF i = row.seq THEN row ELSE written[i]]
    /\ revoked' = revoked \cup {tx[w].key}
    /\ recorded' = recorded \cup {tx[w].key}
    /\ tx' = [tx EXCEPT ![w] = NoTx]
    /\ UNCHANGED tampering

\* A statement or the commit fails, the lock is not had within 5 s, or the
\* process stops: the deferred Rollback leaves the key as it was.
Rollback(w) ==
    /\ tx[w] # NoTx
    /\ tx' = [tx EXCEPT ![w] = NoTx]
    /\ UNCHANGED <<revoked, rows, written, recorded, tampering>>

-----------------------------------------------------------------------------
(* Someone with write access to the database, past the triggers.           *)

\* One column of one row edited, two rows exchanged, or a row deleted.
ByHand ==
    UNION {{[rows EXCEPT ![i].target = k] : k \in Keys}
             \cup {[rows EXCEPT ![i].prev = <<>>], [rows EXCEPT ![i].hash = <<>>]}
             \cup {RemoveAt(rows, i)}
             \cup {[rows EXCEPT ![i] = [rows[j] EXCEPT !.seq = rows[i].seq],
                                ![j] = [rows[i] EXCEPT !.seq = rows[j].seq]] : j \in DOMAIN rows}
           : i \in DOMAIN rows}

Tamper ==
    /\ tampering < MaxTampering
    /\ \E new \in ByHand : new # rows /\ rows' = new
    /\ tampering' = tampering + 1
    /\ UNCHANGED <<revoked, tx, written, recorded>>

-----------------------------------------------------------------------------

AuditInit ==
    /\ revoked = {} /\ rows = <<>> /\ written = <<>> /\ recorded = {}
    /\ tx = [w \in Writers |-> NoTx]
    /\ tampering = 0

AuditNext ==
    \/ \E w \in Writers :
          \/ \E k \in Keys : Change(w, k)
          \/ LockChain(w)
          \/ Commit(w)
          \/ Rollback(w)
    \/ Tamper

-----------------------------------------------------------------------------
(* Correctness.                                                            *)

\* A key is revoked exactly when an event says so: a revocation whose event
\* cannot be recorded is undone, and no event is left of one that was
\* (admin_audit.go:43-46, 610-617), whatever fails and whoever else writes.
AuditedOrUndone == revoked = recorded

\* A chain the verification calls valid is what was recorded, up to its
\* newest row: an edit, a deletion inside and an exchange of rows are found,
\* also after more rows were appended to them; and a chain nobody touched is
\* valid, whichever writers raced (admin_audit.go:10-19).  The rows missing
\* at the end are not found: the header of the file says so.
VerifyTruthful ==
    /\ VerifyAdminAuditChain =>
          \A i \in DOMAIN rows : i \in DOMAIN written /\ rows[i] = written[i]
    /\ tampering = 0 => VerifyAdminAuditChain /\ rows = written

-----------------------------------------------------------------------------
(* Why it is so.                                                           *)

IsRow(r) ==
    /\ r = [seq |-> r.seq, target |-> r.target, prev |-> r.prev, hash |-> r.hash]
    /\ r.seq \in Nat /\ r.target \in Keys

\* The table is read by seq; as rows only go, no number is below its place.
Ordered(rs) ==
    /\ rs \in Seq({rs[i] : i \in DOMAIN rs})
    /\ \A i \in DOMAIN rs : IsRow(rs[i]) /\ rs[i].seq >= i
    /\ \A i, j \in DOMAIN rs : i < j => rs[i].seq < rs[j].seq

HashesOf(rs) == {rs[i].hash : i \in DOMAIN rs}

\* The hashes of n rows in a valid chain: each commits to the one before.
Chained(G, n) ==
    \A j \in 1..n : \E k \in Keys :
        G[j] = <<IF j = 1 THEN AdminAuditGenesis ELSE G[j-1], j, k>>

\* A chain whose hashes are all still in the table, wherever they stand, is
\* the one last recorded: for another row to have been recorded at its
\* number, the rows from there on had to be gone, and the hashes of a chain
\* do not fit into the places before.
AncestryInv ==
    \A n \in 1..Len(rows) : \A G \in [1..n -> HashesOf(rows)] :
        Chained(G, n) => \A j \in 1..n : j \in DOMAIN written /\ written[j].hash = G[j]

\* The head that a transaction holds the lock for: later rows are not there,
\* and without tampering it is the head still.
HeldHead(head) ==
    /\ head = [seq |-> head.seq, hash |-> head.hash] /\ head.seq \in Nat
    /\ \A i \in DOMAIN rows : rows[i].seq <= head.seq
    /\ tampering = 0 => head.seq = ChainHead.seq /\ head.hash = ChainHead.hash

TxInv(t) ==
    \/ t = NoTx
    \/ /\ t.stage = "changed" /\ t.key \in Keys
       /\ t = [stage |-> "changed", key |-> t.key]
    \/ /\ t.stage = "locked" /\ t.key \in Keys
       /\ t = [stage |-> "locked", key |-> t.key, head |-> t.head]
       /\ HeldHead(t.head)

AuditInv ==
    /\ Ordered(rows)
    /\ written = [i \in DOMAIN written |-> written[i]]
    /\ \A i \in DOMAIN written : IsRow(written[i]) /\ written[i].hash = adminAuditRowHash(written[i])
    /\ tx = [w \in Writers |-> tx[w]] /\ \A w \in Writers : TxInv(tx[w])
    /\ \A v, w \in Writers : tx[v].stage = "locked" /\ tx[w].stage = "locked" => v = w
    /\ tampering \in Nat
    /\ AncestryInv
    /\ tampering = 0 => VerifyAdminAuditChain /\ rows = written

=============================================================================
