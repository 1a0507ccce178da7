---------------------------- MODULE RemoteConfig ----------------------------
(***************************************************************************)
(* The endpoint agent's remote configuration (eami-agent                   *)
(* internal/remoteconfig): the Manager that the scan loop polls before     *)
(* every scan, and the state file in which the last configuration it       *)
(* accepted survives a restart.  The agent may be pointed at another       *)
(* collector, or given another agent id, between two runs.                 *)
(*                                                                         *)
(* Abstractions: scan interval and model paths obey the same rules and are *)
(* one field, paths; model file size and report size are one, size, which  *)
(* only a versioned answer sets.  A version is the SHA-256 of a canonical  *)
(* configuration and is modelled by that configuration; the bounds checks  *)
(* are membership in Valid.  The agent has a collector and a directory for *)
(* its state file (without the one it never polls, without the other never *)
(* saves).                                                                 *)
(***************************************************************************)
EXTENDS Integers

CONSTANTS
    Ids,        \* identities: agent id and collector URL
    Scanners, Paths, Sizes,
    Known,      \* the scanners this agent build runs
    Configs,    \* configurations the servers hold
    Valid,      \* those within the bounds of Validate
    Legacy,     \* answers without a version, of older servers
    Unset,      \* an empty list or a zero in such an answer
    Local,      \* the configuration of the YAML file, or the defaults
    None,       \* no version, no configuration, no file
    Bad,        \* a state file that fails a check of Load
    MaxChanges, \* bound on changes on the servers
    MaxFaults   \* bound on failures, restarts and stray answers

Config == [scanners : SUBSET Scanners, paths : Paths, size : Sizes]

ASSUME ConfigAssumption ==
    /\ Valid \subseteq Configs /\ Configs \subseteq Config /\ Local \in Config
    /\ Legacy \subseteq [scanners : (SUBSET Scanners) \cup {Unset}, paths : Paths \cup {Unset}]
    /\ None \notin Config
    /\ MaxChanges \in Nat /\ MaxFaults \in Nat

\* State files that pass Load's checks of trust, size and form.
Files == [id : Ids, version : Configs, config : Configs]
ASSUME FileAssumption == None \notin Files /\ Bad \notin Files /\ Bad # None

\* What a fetch comes back with: FetchResult, and the wire form of its body.
Versioned(v, c) == [status |-> 200, versioned |-> TRUE, version |-> v, body |-> c]
Unversioned(g) == [status |-> 200, versioned |-> FALSE, version |-> None, body |-> g]
NotFound == [status |-> 404, versioned |-> FALSE, version |-> None, body |-> None]
Unusable == [status |-> 0, versioned |-> FALSE, version |-> None, body |-> None]

VARIABLES
    serves,     \* what eami-api answers for each identity
    file,       \* remote-config.json
    run,        \* the scan loop: "down", "fetch" or "scan"
    id,         \* Manager.id, and the fields of Manager below
    cur, haveRemote, versioned, version, source, lastErr, persisted, consecutive404,
    seen404,    \* history: 404s since the last other answer, or start
    undeleted,  \* history: the last Delete of the state file failed
    changes, faults

manager == <<cur, haveRemote, versioned, version, source, lastErr, persisted, consecutive404>>
history == <<seen404, undeleted>>
vars == <<serves, file, run, id, manager, history, changes, faults>>

Fault == faults < MaxFaults /\ faults' = faults + 1

-----------------------------------------------------------------------------
(* What is in force, and what each report says of it.                      *)

\* KnownScanners.
Filtered(c) == [scanners |-> c.scanners \cap Known, paths |-> c.paths, size |-> c.size]

Snapshot ==
    IF haveRemote
    THEN [scanners |-> cur.scanners, paths |-> cur.paths,
          size |-> IF versioned THEN cur.size ELSE Local.size]
    ELSE Local

StatusVersion == IF haveRemote /\ versioned THEN version ELSE None

\* Load: the hash, the bounds, then the identity.
Loadable(f, i) ==
    /\ f \in Files
    /\ f.version = f.config /\ f.config \in Valid
    /\ f.id = i

-----------------------------------------------------------------------------
(* The servers.                                                            *)

\* AgentRemoteConfig, relayed by ConfigProxyHandler.
Answers == {Versioned(c, c) : c \in Configs} \cup {Unversioned(g) : g \in Legacy} \cup {NotFound}

\* An administrator edits the configuration, links or unlinks the endpoint,
\* or the server is replaced by an older or a newer one.
ServerChanges(i, a) ==
    /\ changes < MaxChanges /\ changes' = changes + 1
    /\ serves' = [serves EXCEPT ![i] = a]
    /\ UNCHANGED <<file, run, id, manager, history, faults>>

-----------------------------------------------------------------------------
(* The agent.  In the operations of the Manager, ok says whether the write *)
(* or removal of the state file succeeds.                                  *)

ApplyVersioned(c, v) ==
    /\ cur' = Filtered(c)
    /\ haveRemote' = TRUE /\ versioned' = TRUE /\ version' = v

DropRemote == cur' = None /\ haveRemote' = FALSE /\ versioned' = FALSE /\ version' = None

\* NewManager and LoadPersisted.
Start(i) ==
    /\ run = "down"
    /\ run' = "fetch" /\ id' = i
    /\ consecutive404' = 0
    /\ IF Loadable(file, i)
       THEN /\ ApplyVersioned(file.config, file.version)
            /\ source' = "persisted" /\ persisted' = file.version
            /\ lastErr' = "none"
       ELSE /\ DropRemote
            /\ source' = "local" /\ persisted' = None
            /\ lastErr' = IF file = None THEN "none" ELSE "state_ignored"
    /\ seen404' = 0 /\ undeleted' = FALSE
    /\ UNCHANGED <<serves, file, changes, faults>>

Keep == UNCHANGED <<cur, haveRemote, versioned, version, source, persisted, file, undeleted>>

\* Apply: anything that is not a verified configuration keeps the current one.
Reject == consecutive404' = 0 /\ lastErr' = "rejected" /\ Keep

\* Save: the configuration as received.
Saved(c, v) == [id |-> id, version |-> v, config |-> c]

\* Mutant of Accept: the version counts as saved although it is not.
Accept_Unsaved(c, v, ok) ==
    /\ consecutive404' = 0
    /\ ApplyVersioned(c, v) /\ source' = "remote"
    /\ persisted' = v
    /\ file' = IF persisted # v /\ ok THEN Saved(c, v) ELSE file
    /\ lastErr' = IF persisted # v /\ ~ok THEN "state_write_failed" ELSE "none"
    /\ undeleted' = (undeleted /\ (persisted = v \/ ~ok))

\* Apply: a verified configuration replaces the current one, and the state file
\* unless its version is already there.
Accept(c, v, ok) ==
    /\ consecutive404' = 0
    /\ ApplyVersioned(c, v) /\ source' = "remote"
    /\ \/ /\ persisted # v /\ ok
          /\ file' = Saved(c, v) /\ persisted' = v
          /\ lastErr' = "none" /\ undeleted' = FALSE
       \/ /\ persisted # v /\ ~ok
          /\ lastErr' = "state_write_failed"
          /\ UNCHANGED <<file, persisted, undeleted>>
       \/ /\ persisted = v
          /\ lastErr' = "none"
          /\ UNCHANGED <<file, persisted, undeleted>>

Merged(g) ==
    LET old == IF haveRemote THEN cur ELSE Local
    IN  [scanners |-> IF g.scanners = Unset THEN old.scanners ELSE g.scanners,
         paths |-> IF g.paths = Unset THEN old.paths ELSE g.paths,
         size |-> old.size]

\* Mutant of Merge: the state file is forgotten with the version.
Merge_ForgetsFile(g) ==
    /\ consecutive404' = 0
    /\ cur' = Merged(g) /\ haveRemote' = TRUE
    /\ versioned' = FALSE /\ version' = None /\ persisted' = None
    /\ source' = "remote" /\ lastErr' = "none"
    /\ UNCHANGED <<file, undeleted>>

\* Apply: an older server's answer is merged and never saved.
Merge(g) ==
    /\ consecutive404' = 0
    /\ cur' = Merged(g) /\ haveRemote' = TRUE
    /\ versioned' = FALSE /\ version' = None
    /\ source' = "remote" /\ lastErr' = "none"
    /\ UNCHANGED <<persisted, file, undeleted>>

AtMost2(n) == IF n < 2 THEN n ELSE 2

\* handleNotFound: back to the local configuration.  The state file goes only
\* if this run loaded or wrote it; a Delete that fails is not tried again.
Revert(ok) ==
    /\ DropRemote
    /\ persisted' = None /\ source' = "local" /\ consecutive404' = 0
    /\ \/ /\ persisted # None /\ ok
          /\ file' = None /\ lastErr' = "none"
          /\ UNCHANGED undeleted
       \/ /\ persisted # None /\ ~ok
          /\ lastErr' = "state_write_failed" /\ undeleted' = TRUE
          /\ UNCHANGED file
       \/ /\ persisted = None
          /\ lastErr' = "none"
          /\ UNCHANGED <<file, undeleted>>

\* handleNotFound: only the second consecutive 404 drops a configuration.
\* (The count matters up to 2.)
HandleNotFound(ok) ==
    IF consecutive404 + 1 < 2 \/ ~haveRemote
    THEN /\ consecutive404' = AtMost2(consecutive404 + 1)
         /\ lastErr' = "none"
         /\ Keep
    ELSE Revert(ok)

\* Apply, with ParseResponse.
Apply(r, ok) ==
    /\ seen404' = IF r.status = 404 THEN AtMost2(seen404 + 1) ELSE 0
    /\ \/ r.status = 404 /\ HandleNotFound(ok)
       \/ r.status = 200 /\ ~r.versioned /\ Merge(r.body)
       \/ r.status = 200 /\ r.versioned
          /\ r.version = r.body /\ r.body \in Valid
          /\ Accept(r.body, r.version, ok)
       \/ /\ r.status = 0 \/ (r.versioned /\ ~(r.version = r.body /\ r.body \in Valid))
          /\ Reject

\* The scan loop fetches before every scan.
Poll ==
    /\ run = "fetch" /\ run' = "scan"
    /\ Apply(serves[id], TRUE)
    /\ UNCHANGED <<serves, id, changes, faults>>

\* A fetch that fails, times out or is answered with an error or with something
\* too large, malformed or altered; a 404 of something on the way; and a poll
\* that goes well but for the state file.
FaultyPoll ==
    /\ run = "fetch" /\ run' = "scan"
    /\ Fault
    /\ \E r \in {Unusable, NotFound, serves[id]} \cup {Versioned(v, c) : v, c \in Valid}, ok \in BOOLEAN :
          /\ r.versioned => (r = serves[id] \/ r.version # r.body)
          /\ Apply(r, ok)
    /\ UNCHANGED <<serves, id, changes>>

\* The scan runs with Snapshot, its report carries Status, and the loop waits.
Scan ==
    /\ run = "scan" /\ run' = "fetch"
    /\ UNCHANGED <<serves, file, id, manager, history, changes, faults>>

\* The agent stops, at any point; Save is atomic, so a stop inside Apply is one
\* before or one after it.
Stop ==
    /\ run # "down" /\ run' = "down"
    /\ Fault
    /\ UNCHANGED <<serves, file, id, manager, history, changes>>

\* The file is damaged, or its owner or permissions are no longer trusted.
FileSpoils ==
    /\ Fault
    /\ file \in Files /\ file' = Bad
    /\ UNCHANGED <<serves, run, id, manager, history, changes>>

-----------------------------------------------------------------------------

Init ==
    /\ serves = [i \in Ids |-> NotFound]
    /\ file = None
    /\ run = "down" /\ id \in Ids
    /\ cur = None /\ haveRemote = FALSE /\ versioned = FALSE /\ version = None
    /\ source = "local" /\ lastErr = "none" /\ persisted = None /\ consecutive404 = 0
    /\ seen404 = 0 /\ undeleted = FALSE
    /\ changes = 0 /\ faults = 0

Next ==
    \/ \E i \in Ids, a \in Answers : ServerChanges(i, a)
    \/ \E i \in Ids : Start(i)
    \/ Poll
    \/ FaultyPoll
    \/ Scan
    \/ Stop
    \/ FileSpoils

Spec == Init /\ [][Next]_vars

\* The service manager restarts the agent, and the loop neither blocks in a
\* fetch (FetchTimeout) nor waits for ever between two scans.
FairSpec ==
    /\ Spec
    /\ WF_vars(\E i \in Ids : Start(i))
    /\ WF_vars(Poll)
    /\ WF_vars(Scan)

-----------------------------------------------------------------------------
(* Correctness.                                                            *)

\* The fields of Manager, the state file and the bounds keep their types.
TypeOK ==
    /\ serves \in [Ids -> Answers]
    /\ file \in Files \cup {None, Bad}
    /\ run \in {"down", "fetch", "scan"} /\ id \in Ids
    /\ cur \in Config \cup {None}
    /\ haveRemote \in BOOLEAN /\ versioned \in BOOLEAN
    /\ version \in Configs \cup {None} /\ persisted \in Configs \cup {None}
    /\ source \in {"local", "persisted", "remote"}
    /\ lastErr \in {"none", "rejected", "state_ignored", "state_write_failed"}
    /\ consecutive404 \in 0 .. 2 /\ seen404 \in 0 .. 2
    /\ undeleted \in BOOLEAN
    /\ changes \in 0 .. MaxChanges /\ faults \in 0 .. MaxFaults

\* What a report says of the configuration its scan ran with is true: a version
\* is that of exactly the configuration in force (but for scanners this build
\* does not have) and one the server or the state file vouched for within the
\* bounds, and "local" means that no remote setting is left in it.
ReportNamesConfig ==
    run = "scan" =>
        /\ StatusVersion # None => StatusVersion \in Valid /\ Snapshot = Filtered(StatusVersion)
        /\ source = "local" => Snapshot = Local /\ StatusVersion = None
        /\ source = "persisted" => StatusVersion # None

\* Last-known-good survives a restart: when the Manager takes its version to be
\* in the state file and nothing spoilt that file, a restart with the same
\* identity loads exactly the configuration now in force, whatever scanners
\* this build dropped from it.
RestartSafe ==
    run # "down" /\ persisted # None /\ file # Bad =>
        /\ Loadable(file, id) /\ file.version = persisted
        /\ versioned /\ version = persisted => Filtered(file.config) = cur

\* A configuration the server withdrew does not come back by a restart: after
\* two 404s in a row nothing remote is in force and, unless its removal failed,
\* no state file of this identity is left to load.
WithdrawnStaysAway ==
    run # "down" /\ seen404 = 2 /\ ~undeleted => ~haveRemote /\ ~Loadable(file, id)

\* A remote configuration is dropped by two consecutive 404s and by nothing
\* else, in particular not by one stray 404 between failures.
StrayNotFoundHarmless ==
    [][(run = "fetch" /\ haveRemote /\ ~haveRemote') => (seen404' = 2)]_vars

\* The state file of another identity may be replaced, when this one saves its
\* own, and is never removed.
OtherFileKept ==
    [][(file \in Files /\ file' = None) => (file.id = id)]_vars

\* Once the servers stop changing and failures stop, the agent ends up with
\* what its server serves, on disk too: a valid configuration is in force,
\* reported and saved (or the save was spoilt later); an older server's fields
\* are in force; without a configuration the local one is; and one the agent
\* refuses is reported as an error.
Converged ==
    LET a == serves[id] IN
    /\ run # "down"
    /\ a = NotFound => ~haveRemote /\ Snapshot = Local
    /\ a.versioned /\ a.body \in Valid =>
          /\ StatusVersion = a.body /\ Snapshot = Filtered(a.body)
          /\ file = Bad \/ (Loadable(file, id) /\ file.version = a.body)
    /\ a.versioned /\ a.body \notin Valid => lastErr # "none"
    /\ a.status = 200 /\ ~a.versioned =>
          /\ a.body.scanners \in {Unset, Snapshot.scanners}
          /\ a.body.paths \in {Unset, Snapshot.paths}
Converges == <>[]Converged

=============================================================================
