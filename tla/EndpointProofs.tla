--------------------------- MODULE EndpointProofs ---------------------------
(***************************************************************************)
(* Proofs about the endpoints: the configuration of their agent            *)
(* (RemoteConfig) for any identities, answers, changes and faults, its     *)
(* scans (ScanReport) for any list of scanners and any number of scans,    *)
(* and the way of its reports (ReportPipeline) for any agents, keys and    *)
(* reports, any batch size and limit of attempts, and any failures.        *)
(***************************************************************************)
EXTENDS RemoteConfig, ScanReport, ReportPipeline, SequenceTheorems, FiniteSetTheorems,
        WellFoundedInduction, TLAPS

-----------------------------------------------------------------------------
(* The inductive invariant.                                                *)

\* A version in force names the configuration in force.
InForce ==
    /\ haveRemote => cur # None
    /\ versioned => haveRemote /\ version \in Valid /\ cur = Filtered(version)
    /\ (source = "local") = ~haveRemote
    /\ source = "persisted" => versioned

\* What the Manager takes to be in the state file is there, and under its own
\* identity; and it knows of every file it could load, but one it failed to
\* remove.
OnDisk ==
    /\ persisted # None =>
          /\ haveRemote /\ persisted \in Valid
          /\ file = Bad \/ file = [id |-> id, version |-> persisted, config |-> persisted]
    /\ run # "down" /\ Loadable(file, id) /\ ~undeleted => persisted # None

\* The Manager's count of 404s is the true one while it matters.
Count404 == haveRemote => consecutive404 = seen404 /\ seen404 < 2

Inv == TypeOK /\ InForce /\ OnDisk /\ Count404

\* A fresh agent, without a state file, satisfies the invariant.
LEMMA InitInv == Init => Inv
<1> SUFFICES ASSUME Init PROVE Inv
    OBVIOUS
<1> USE DEF Init
<1>1. TypeOK
    <2>1. serves \in [Ids -> Answers]
        BY DEF Answers
    <2>2. consecutive404 \in 0 .. 2 /\ seen404 \in 0 .. 2
          /\ changes \in 0 .. MaxChanges /\ faults \in 0 .. MaxFaults
        BY ConfigAssumption
    <2> QED
        BY <2>1, <2>2 DEF TypeOK
<1>2. InForce /\ OnDisk /\ Count404
    BY DEF InForce, OnDisk, Count404
<1> QED
    BY <1>1, <1>2 DEF Inv

\* What Apply does, whatever the answer and whether or not the disk works.
LEMMA ApplyInv ==
    ASSUME Inv, run = "fetch", run' = "scan", id' = id,
           NEW ok \in BOOLEAN,
           NEW r, r.status = 200 /\ ~r.versioned => r.body \in Legacy,
           r.status = 404 => ~r.versioned,
           Apply(r, ok)
    PROVE  /\ cur' \in Config \cup {None}
           /\ file' \in Files \cup {None, Bad}
           /\ haveRemote' \in BOOLEAN /\ versioned' \in BOOLEAN
           /\ version' \in Configs \cup {None} /\ persisted' \in Configs \cup {None}
           /\ source' \in {"local", "persisted", "remote"}
           /\ lastErr' \in {"none", "rejected", "state_ignored", "state_write_failed"}
           /\ consecutive404' \in 0 .. 2 /\ seen404' \in 0 .. 2
           /\ undeleted' \in BOOLEAN
           /\ InForce' /\ OnDisk' /\ Count404'
<1>1. seen404' \in 0 .. 2
    BY DEF Apply, AtMost2, Inv, TypeOK
<1>2. CASE r.status = 404 /\ HandleNotFound(ok)
    <2>1. seen404' = AtMost2(seen404 + 1)
        BY <1>2 DEF Apply
    <2>2. CASE consecutive404 + 1 < 2 \/ ~haveRemote
        <3>1. consecutive404' = AtMost2(consecutive404 + 1) /\ lastErr' = "none" /\ Keep
            BY <1>2, <2>2 DEF HandleNotFound
        <3>2. InForce' /\ OnDisk'
            BY <3>1 DEF Keep, Inv, InForce, OnDisk, Loadable
        <3>3. Count404' /\ consecutive404' \in 0 .. 2
            BY <2>1, <2>2, <3>1 DEF Keep, Inv, TypeOK, Count404, AtMost2
        <3> QED
            BY <1>1, <3>1, <3>2, <3>3 DEF Keep, Inv, TypeOK
    <2>3. CASE ~(consecutive404 + 1 < 2 \/ ~haveRemote)
        <3>1. Revert(ok)
            BY <1>2, <2>3 DEF HandleNotFound
        <3>2. InForce' /\ Count404'
            BY <3>1 DEF Revert, DropRemote, InForce, Count404
        <3>3. OnDisk'
            BY <3>1, FileAssumption DEF Revert, DropRemote, Inv, TypeOK, OnDisk, Loadable
        <3>4. consecutive404' \in 0 .. 2
            BY <3>1 DEF Revert
        <3>5. /\ cur' = None /\ haveRemote' = FALSE /\ versioned' = FALSE
              /\ version' = None /\ persisted' = None /\ source' = "local"
              /\ file' \in {file, None} /\ lastErr' \in {"none", "state_write_failed"}
              /\ undeleted' \in {undeleted, TRUE}
            BY <3>1 DEF Revert, DropRemote
        <3> QED
            BY <1>1, <3>2, <3>3, <3>4, <3>5 DEF Inv, TypeOK
    <2> QED
        BY <2>2, <2>3
<1>3. CASE r.status = 200 /\ ~r.versioned /\ Merge(r.body)
    <2>1. r.body \in Legacy /\ Merge(r.body) /\ seen404' = 0
        BY <1>3 DEF Apply
    <2>2. cur' \in Config
        <3>1. (IF haveRemote THEN cur ELSE Local) \in Config
            BY ConfigAssumption DEF Inv, TypeOK, InForce
        <3>2. r.body \in [scanners : (SUBSET Scanners) \cup {Unset}, paths : Paths \cup {Unset}]
            BY <2>1, ConfigAssumption
        <3> QED
            BY <2>1, <3>1, <3>2 DEF Merge, Merged, Config
    <2>3. InForce'
        BY <2>1, <2>2, ConfigAssumption DEF Merge, InForce
    <2>4. OnDisk' /\ Count404'
        BY <2>1 DEF Merge, Inv, OnDisk, Count404, Loadable
    <2> QED
        BY <1>1, <2>1, <2>2, <2>3, <2>4 DEF Merge, Inv, TypeOK
<1>4. CASE /\ r.status = 200 /\ r.versioned
           /\ r.version = r.body /\ r.body \in Valid
           /\ Accept(r.body, r.version, ok)
    <2> DEFINE c == r.body
    <2>1. c \in Valid /\ c \in Configs /\ c \in Config /\ c # None /\ Accept(c, c, ok) /\ seen404' = 0
        BY <1>4, ConfigAssumption DEF Apply
    <2> HIDE DEF c
    <2>2. Filtered(c) \in Config
        BY <2>1 DEF Filtered, Config
    <2>3. InForce' /\ Count404'
        <3>1. /\ cur' = Filtered(c) /\ haveRemote' = TRUE /\ versioned' = TRUE /\ version' = c
              /\ source' = "remote" /\ consecutive404' = 0
            BY <2>1 DEF Accept, ApplyVersioned
        <3>2. Filtered(c) # None
            BY <2>2, ConfigAssumption
        <3> QED
            BY <2>1, <3>1, <3>2 DEF InForce, Count404, Filtered
    <2>4. CASE persisted # c /\ ok
        <3>1. file' = [id |-> id, version |-> c, config |-> c] /\ persisted' = c /\ undeleted' = FALSE
              /\ lastErr' = "none"
            BY <2>1, <2>4 DEF Accept, Saved
        <3>2. file' \in Files
            BY <2>1, <3>1 DEF Files, Inv, TypeOK
        <3>3. OnDisk'
            BY <2>1, <3>1 DEF OnDisk, Accept, ApplyVersioned
        <3> QED
            BY <1>1, <2>1, <2>2, <2>3, <3>1, <3>2, <3>3 DEF Accept, ApplyVersioned
    <2>5. CASE ~(persisted # c /\ ok)
        <3>1. UNCHANGED <<file, persisted, undeleted>> /\ lastErr' \in {"none", "state_write_failed"}
            BY <2>1, <2>5 DEF Accept
        <3>2. OnDisk'
            BY <2>1, <3>1 DEF Accept, ApplyVersioned, Inv, OnDisk, Loadable
        <3> QED
            BY <1>1, <2>1, <2>2, <2>3, <3>1, <3>2 DEF Accept, ApplyVersioned, Inv, TypeOK
    <2> QED
        BY <2>4, <2>5
<1>5. CASE (r.status = 0 \/ (r.versioned /\ ~(r.version = r.body /\ r.body \in Valid))) /\ Reject
    <2>1. InForce' /\ OnDisk'
        BY <1>5 DEF Reject, Keep, Inv, InForce, OnDisk, Loadable
    <2>2. CASE r.status # 404
        <3>1. seen404' = 0
            BY <2>2 DEF Apply
        <3> QED
            BY <1>1, <1>5, <2>1, <3>1 DEF Reject, Keep, Inv, TypeOK, Count404
    <2>3. CASE r.status = 404
        BY <1>5, <2>3
    <2> QED
        BY <2>2, <2>3
<1> QED
    BY <1>1, <1>2, <1>3, <1>4, <1>5 DEF Apply

\* Every step of the servers, the agent and the disk preserves the invariant.
LEMMA NextInv == Inv /\ [Next]_vars => Inv'
<1> SUFFICES ASSUME Inv, [Next]_vars PROVE Inv'
    OBVIOUS
<1>1. ASSUME NEW i \in Ids, NEW a \in Answers, ServerChanges(i, a) PROVE Inv'
    <2>1. serves' \in [Ids -> Answers] /\ changes' \in 0 .. MaxChanges
        BY <1>1, ConfigAssumption DEF ServerChanges, Inv, TypeOK
    <2>2. UNCHANGED <<file, run, id, manager, history, faults>>
        BY <1>1 DEF ServerChanges
    <2>3. TypeOK'
        BY <2>1, <2>2 DEF Inv, TypeOK, manager, history
    <2> QED
        BY <2>2, <2>3 DEF Inv, InForce, OnDisk, Count404, Loadable, manager, history
<1>2. ASSUME NEW i \in Ids, Start(i) PROVE Inv'
    <2>1. /\ run' = "fetch" /\ id' = i /\ consecutive404' = 0 /\ seen404' = 0 /\ undeleted' = FALSE
          /\ UNCHANGED <<serves, file, changes, faults>>
        BY <1>2 DEF Start
    <2>n. consecutive404' \in 0 .. 2 /\ seen404' \in 0 .. 2
        BY <2>1
    <2>2. CASE Loadable(file, i)
        <3> DEFINE c == file.config
        <3>1. /\ c \in Valid /\ c \in Configs /\ c \in Config /\ c # None
              /\ file = [id |-> i, version |-> c, config |-> c]
            BY <2>2, ConfigAssumption DEF Loadable, Files
        <3>2. /\ cur' = Filtered(c) /\ haveRemote' = TRUE /\ versioned' = TRUE /\ version' = c
              /\ source' = "persisted" /\ persisted' = c /\ lastErr' = "none"
            BY <1>2, <2>2, <3>1 DEF Start, ApplyVersioned
        <3> HIDE DEF c
        <3>3. Filtered(c) \in Config /\ Filtered(c) # None
            BY <3>1, ConfigAssumption DEF Filtered, Config
        <3>4. TypeOK'
            BY <2>1, <2>n, <3>1, <3>2, <3>3 DEF Inv, TypeOK
        <3>5. InForce' /\ Count404'
            BY <2>1, <3>1, <3>2, <3>3 DEF InForce, Count404, Filtered
        <3>6. OnDisk'
            BY <2>1, <3>1, <3>2 DEF OnDisk
        <3> QED
            BY <3>4, <3>5, <3>6 DEF Inv
    <2>3. CASE ~Loadable(file, i)
        <3>1. /\ cur' = None /\ haveRemote' = FALSE /\ versioned' = FALSE /\ version' = None
              /\ source' = "local" /\ persisted' = None /\ lastErr' \in {"none", "state_ignored"}
            BY <1>2, <2>3 DEF Start, DropRemote
        <3>2. TypeOK'
            BY <2>1, <2>n, <3>1 DEF Inv, TypeOK
        <3>3. InForce' /\ Count404'
            BY <2>1, <3>1 DEF InForce, Count404
        <3>4. OnDisk'
            BY <2>1, <2>3, <3>1 DEF OnDisk, Loadable
        <3> QED
            BY <3>2, <3>3, <3>4 DEF Inv
    <2> QED
        BY <2>2, <2>3
<1>3. CASE Poll
    <2>1. serves[id] \in Answers
        BY DEF Inv, TypeOK
    <2>2. /\ serves[id].status = 200 /\ ~serves[id].versioned => serves[id].body \in Legacy
          /\ serves[id].status = 404 => ~serves[id].versioned
        BY <2>1 DEF Answers, Versioned, Unversioned, NotFound
    <2>3. /\ run = "fetch" /\ run' = "scan" /\ Apply(serves[id], TRUE)
          /\ UNCHANGED <<serves, id, changes, faults>>
        BY <1>3 DEF Poll
    <2> QED
        BY <2>2, <2>3, ApplyInv DEF Inv, TypeOK
<1>4. CASE FaultyPoll
    <2>1. PICK r \in {Unusable, NotFound, serves[id]} \cup {Versioned(v, c) : v, c \in Valid},
               ok \in BOOLEAN : Apply(r, ok)
        BY <1>4 DEF FaultyPoll
    <2>2. serves[id] \in Answers
        BY DEF Inv, TypeOK
    <2>3. /\ r.status = 200 /\ ~r.versioned => r.body \in Legacy
          /\ r.status = 404 => ~r.versioned
        BY <2>1, <2>2 DEF Answers, Versioned, Unversioned, NotFound, Unusable
    <2>4. run = "fetch" /\ run' = "scan" /\ UNCHANGED <<serves, id, changes>>
        BY <1>4 DEF FaultyPoll
    <2>5. faults' \in 0 .. MaxFaults
        BY <1>4, ConfigAssumption DEF FaultyPoll, Fault, Inv, TypeOK
    <2> QED
        BY <2>1, <2>3, <2>4, <2>5, ApplyInv DEF Inv, TypeOK
<1>5. CASE Scan
    <2>1. run' = "fetch" /\ run = "scan" /\ UNCHANGED <<serves, file, id, manager, history, changes, faults>>
        BY <1>5 DEF Scan
    <2>2. TypeOK'
        BY <2>1 DEF Inv, TypeOK, manager, history
    <2> QED
        BY <2>1, <2>2 DEF Inv, InForce, OnDisk, Count404, Loadable, manager, history
<1>6. CASE Stop
    <2>1. run' = "down" /\ UNCHANGED <<serves, file, id, manager, history, changes>>
        BY <1>6 DEF Stop
    <2>2. faults' \in 0 .. MaxFaults
        BY <1>6, ConfigAssumption DEF Stop, Fault, Inv, TypeOK
    <2>3. TypeOK'
        BY <2>1, <2>2 DEF Inv, TypeOK, manager, history
    <2> QED
        BY <2>1, <2>3 DEF Inv, InForce, OnDisk, Count404, Loadable, manager, history
<1>7. CASE FileSpoils
    <2>1. file' = Bad /\ UNCHANGED <<serves, run, id, manager, history, changes>>
        BY <1>7 DEF FileSpoils
    <2>2. faults' \in 0 .. MaxFaults
        BY <1>7, ConfigAssumption DEF FileSpoils, Fault, Inv, TypeOK
    <2>3. TypeOK'
        BY <2>1, <2>2 DEF Inv, TypeOK, manager, history
    <2> QED
        BY <2>1, <2>3, FileAssumption DEF Inv, InForce, OnDisk, Count404, Loadable, manager, history
<1>8. CASE UNCHANGED vars
    BY <1>8 DEF vars, manager, history, Inv, TypeOK, InForce, OnDisk, Count404, Loadable
<1> QED
    BY <1>1, <1>2, <1>3, <1>4, <1>5, <1>6, <1>7, <1>8 DEF Next

\* A poll, disturbed or not, hands one answer to Apply.
LEMMA PollsApply == Poll \/ FaultyPoll => \E r : \E ok \in BOOLEAN : Apply(r, ok)
<1>1. ASSUME Poll PROVE \E r : \E ok \in BOOLEAN : Apply(r, ok)
    <2>1. Apply(serves[id], TRUE)
        BY <1>1 DEF Poll
    <2> HIDE DEF Apply
    <2> QED
        BY <2>1
<1>2. ASSUME FaultyPoll PROVE \E r : \E ok \in BOOLEAN : Apply(r, ok)
    BY <1>2 DEF FaultyPoll
<1> QED
    BY <1>1, <1>2

\* The invariant holds throughout.
LEMMA Invariance == Spec => []Inv
<1> QED
    BY InitInv, NextInv, PTL DEF Spec

-----------------------------------------------------------------------------
(* The theorems.                                                           *)

\* The Manager's fields, the state file and the counters keep their types.
THEOREM TypeCorrect == Spec => []TypeOK
<1>1. Inv => TypeOK
    BY DEF Inv
<1> QED
    BY <1>1, Invariance, PTL

\* A report never names a version or a source other than that of the
\* configuration its scan ran with (Snapshot, Status).
THEOREM ReportsAreTruthful == Spec => []ReportNamesConfig
<1>1. Inv => ReportNamesConfig
    <2> SUFFICES ASSUME Inv PROVE ReportNamesConfig
        OBVIOUS
    <2>1. haveRemote /\ versioned => Snapshot = Filtered(version) /\ version \in Valid
        BY DEF Inv, InForce, Snapshot, Filtered
    <2>2. ~haveRemote => Snapshot = Local
        BY DEF Snapshot
    <2>3. \A v \in Valid : v # None
        BY ConfigAssumption
    <2> QED
        BY <2>1, <2>2, <2>3 DEF Inv, TypeOK, InForce, ReportNamesConfig, StatusVersion
<1> QED
    BY <1>1, Invariance, PTL

\* A restart loads back what the Manager takes to be saved (LoadPersisted after
\* Save).
THEOREM RestartIsSafe == Spec => []RestartSafe
<1>1. Inv => RestartSafe
    <2> SUFFICES ASSUME Inv, run # "down", persisted # None, file # Bad
                 PROVE  /\ Loadable(file, id) /\ file.version = persisted
                        /\ versioned /\ version = persisted => Filtered(file.config) = cur
        BY DEF RestartSafe
    <2>1. file = [id |-> id, version |-> persisted, config |-> persisted] /\ persisted \in Valid
        BY DEF Inv, OnDisk
    <2>2. file \in Files
        BY <2>1, ConfigAssumption DEF Inv, TypeOK, Files
    <2> QED
        BY <2>1, <2>2 DEF Inv, InForce, Loadable
<1> QED
    BY <1>1, Invariance, PTL

\* After two 404s in a row nothing remote is in force or left to be loaded
\* (handleNotFound), unless the removal failed.
THEOREM WithdrawnConfigStaysAway == Spec => []WithdrawnStaysAway
<1>1. Inv => WithdrawnStaysAway
    BY DEF Inv, TypeOK, OnDisk, Count404, WithdrawnStaysAway
<1> QED
    BY <1>1, Invariance, PTL

\* Only the second 404 in a row drops a remote configuration (Apply).
THEOREM StrayNotFoundIsHarmless == Spec => StrayNotFoundHarmless
<1> DEFINE A == (run = "fetch" /\ haveRemote /\ ~haveRemote') => (seen404' = 2)
<1>1. ASSUME Inv, Next PROVE A
    <2> SUFFICES ASSUME run = "fetch", haveRemote, ~haveRemote' PROVE seen404' = 2
        OBVIOUS
    <2>a. Poll \/ FaultyPoll
        BY <1>1 DEF Next, ServerChanges, Start, Scan, Stop, FileSpoils, manager
    <2>b. PICK r : \E ok \in BOOLEAN : Apply(r, ok)
        BY <2>a, PollsApply
    <2>1. PICK ok \in BOOLEAN : Apply(r, ok)
        BY <2>b
    <2>2. r.status = 404 /\ HandleNotFound(ok)
        BY <2>1 DEF Apply, Merge, Accept, ApplyVersioned, Reject, Keep
    <2>3. seen404' = AtMost2(seen404 + 1) /\ ~(consecutive404 + 1 < 2)
        BY <2>1, <2>2 DEF Apply, HandleNotFound, Keep
    <2> QED
        BY <1>1, <2>3 DEF Inv, TypeOK, Count404, AtMost2
<1>2. ASSUME Inv, [Next]_vars PROVE [A]_vars
    BY <1>1, <1>2
<1> HIDE DEF A
<1>3. Spec => [][A]_vars
    BY <1>2, Invariance, PTL DEF Spec
<1> QED
    BY <1>3 DEF A, StrayNotFoundHarmless

\* handleNotFound never removes a state file of another identity.
THEOREM OtherFilesAreKept == Spec => OtherFileKept
<1> DEFINE A == (file \in Files /\ file' = None) => (file.id = id)
<1>1. ASSUME Inv, Next PROVE A
    <2> SUFFICES ASSUME file \in Files, file' = None PROVE file.id = id
        OBVIOUS
    <2>a. Poll \/ FaultyPoll
        BY <1>1, FileAssumption DEF Next, ServerChanges, Start, Scan, Stop, FileSpoils
    <2>b. PICK r : \E ok \in BOOLEAN : Apply(r, ok)
        BY <2>a, PollsApply
    <2>1. PICK ok \in BOOLEAN : Apply(r, ok)
        BY <2>b
    <2>2. HandleNotFound(ok)
        <3>1. r.body \in Valid => Saved(r.body, r.body) # None
            BY <1>1, FileAssumption, ConfigAssumption DEF Saved, Files, Inv, TypeOK
        <3> QED
            BY <2>1, <3>1, FileAssumption DEF Apply, Merge, Accept, Reject, Keep
    <2>3. Revert(ok) /\ persisted # None
        BY <2>2, FileAssumption DEF HandleNotFound, Keep, Revert
    <2>4. file # Bad
        BY FileAssumption
    <2> QED
        BY <1>1, <2>3, <2>4 DEF Inv, OnDisk
<1>2. ASSUME Inv, [Next]_vars PROVE [A]_vars
    BY <1>1, <1>2
<1> HIDE DEF A
<1>3. Spec => [][A]_vars
    BY <1>2, Invariance, PTL DEF Spec
<1> QED
    BY <1>3 DEF A, OtherFileKept

-----------------------------------------------------------------------------
(* The scans of an agent (ScanReport).                                     *)

LEMMA NothingIsResult == Nothing \in Result
<1>1. FALSE \in BOOLEAN
  BY Zenon
<1>2. ASSUME NEW b \in BOOLEAN PROVE [size |-> 0, complete |-> b] \in Result
  BY DEF Result
<1> QED BY <1>1, <1>2 DEF Nothing

LEMMA OutcomeFacts ==
    /\ OK \in Outcome /\ OK.status = "ok" /\ OK.reason = "none"
    /\ \A r \in {"timeout", "panic", "error"} :
          Failed(r) \in Outcome /\ Failed(r).status = "error" /\ Failed(r).reason = r
    /\ \A o \in Outcome : o.status \in Statuses /\ o.reason \in Reasons \cup {"none"}
  BY DEF Outcome, OK, Failed, Statuses, Reasons

\* Where a goroutine can be.
Places == {"fn", "returned", "leaving", "sending"}

\* What becomes of a goroutine when it moves on.
Moved(g, a, o) == [g EXCEPT !.at = a, !.out = o]

LEMMA MovedFacts ==
    ASSUME NEW g \in Goroutine, NEW a \in Places, NEW o \in Outcome, NEW h, h = Moved(g, a, o)
    PROVE  /\ h \in Goroutine /\ h.name = g.name /\ h.cycle = g.cycle /\ h.at = a /\ h.out = o
           /\ g.name \in Names /\ g.cycle \in 1..MaxCycles /\ g.at \in Places /\ g.out \in Outcome
  BY DEF Moved, Goroutine, Places

LEMMA StaysAsItWas ==
    ASSUME NEW g \in Goroutine, NEW a \in Places
    PROVE  [g EXCEPT !.at = a] = Moved(g, a, g.out)
  BY DEF Moved, Goroutine

LEMMA SpecsFacts ==
    /\ Len(Specs) \in Nat /\ DOMAIN Specs = 1..Len(Specs)
    /\ \A i \in 1..Len(Specs) : Specs[i] \in Names
    /\ \A i, j \in 1..Len(Specs) : i # j => Specs[i] # Specs[j]
<1>1. Len(Specs) \in Nat /\ DOMAIN Specs = 1..Len(Specs)
  BY ScanAssumption
<1> QED BY <1>1, ScanAssumption

\* Every step of a goroutine but the ones out of inFlight: it moves on, and at
\* most what its own scanner found changes.
Moves(g, a, o) ==
    /\ gs' = (gs \ {g}) \cup {Moved(g, a, o)}
    /\ UNCHANGED <<loop, pending, results, running, status, reasons>>

LEMMA GoStep ==
    ASSUME ScanInv, NEW g \in gs,
           FnCommits(g) \/ FnFails(g) \/ FnPanics(g) \/ Classified(g)
    PROVE  \E a \in {"returned", "leaving"}, o \in Outcome :
              /\ g.at \in {"fn", "returned"} /\ Moves(g, a, o)
              /\ \/ FnCommits(g) /\ a = "returned"
                 \/ /\ UNCHANGED <<data, found>> /\ a = "leaving"
                    /\ o.status = "ok" => g.at = "returned" /\ ~Over(g)
<1>1. g \in Goroutine /\ g.out \in Outcome
  BY DEF ScanInv, ScanTypeOK, Goroutine
<1>2. CASE FnCommits(g)
  <2>1. Moves(g, "returned", g.out)
    BY <1>1, <1>2, StaysAsItWas DEF FnCommits, Replace, Moves, Places
  <2> QED BY <1>1, <1>2, <2>1 DEF FnCommits
<1>3. CASE FnFails(g)
  <2>1. PICK r \in {"error", "timeout"} : Replace(g, [g EXCEPT !.at = "leaving", !.out = Failed(r)])
    BY <1>3 DEF FnFails
  <2>2. Moves(g, "leaving", Failed(r))
    BY <1>3, <2>1 DEF FnFails, Replace, Moves, Moved, report
  <2>3. Failed(r) \in Outcome /\ Failed(r).status # "ok"
    BY OutcomeFacts
  <2> QED BY <1>3, <2>2, <2>3 DEF FnFails, report
<1>4. CASE FnPanics(g)
  <2>1. Moves(g, "leaving", g.out)
    BY <1>1, <1>4, StaysAsItWas DEF FnPanics, Replace, Moves, Places, report
  <2>2. g.out.status # "ok"
    <3>1. \A x \in gs : x.at = "fn" => x.out.status # "ok"
      BY DEF ScanInv, RunsInv
    <3> QED BY <1>4, <3>1 DEF FnPanics
  <2> QED BY <1>1, <1>4, <2>1, <2>2 DEF FnPanics, report
<1>5. CASE Classified(g)
  <2>1. Moves(g, "leaving", Classify(g))
    BY <1>5 DEF Classified, Replace, Moves, Moved, report
  <2>2. Classify(g) \in Outcome /\ (Classify(g).status = "ok" => ~Over(g))
    BY OutcomeFacts DEF Classify
  <2> QED BY <1>5, <2>1, <2>2 DEF Classified, report
<1> QED BY <1>2, <1>3, <1>4, <1>5


LEMMA GoTyped ==
    ASSUME ScanInv, NEW g \in gs, NEW a \in Places, NEW o \in Outcome, Moves(g, a, o),
           FnCommits(g) \/ UNCHANGED <<data, found>>
    PROVE  ScanTypeOK'
<1>1. g \in Goroutine
  BY DEF ScanInv, ScanTypeOK
<1>2. Moved(g, a, o) \in Goroutine /\ g.name \in Names
  BY <1>1, MovedFacts
<1>3. gs' \subseteq Goroutine
  BY <1>2 DEF ScanInv, ScanTypeOK, Moves
<1>4. data' \in [Names -> Result] /\ found' \in [Names -> Result]
  <2>1. CASE FnCommits(g)
    <3>1. PICK r \in Result :
              /\ data' = IF Open(g) THEN [data EXCEPT ![g.name] = r] ELSE data
              /\ found' = IF g.cycle = cycle THEN [found EXCEPT ![g.name] = r] ELSE found
      BY <2>1 DEF FnCommits
    <3> QED BY <3>1 DEF ScanInv, ScanTypeOK
  <2> QED BY <2>1 DEF ScanInv, ScanTypeOK
<1> QED BY <1>3, <1>4 DEF ScanInv, ScanTypeOK, Moves, loop

LEMMA GoRuns ==
    ASSUME ScanInv, NEW g \in gs, NEW a \in {"returned", "leaving"}, NEW o \in Outcome,
           g.at \in {"fn", "returned"}, Moves(g, a, o)
    PROVE  OneRunPerScanner' /\ RunsInv'
<1>1. PICK h : h = Moved(g, a, o)
  OBVIOUS
<1>2. /\ h.name = g.name /\ h.cycle = g.cycle /\ h.at = a /\ h.out = o
      /\ g.name \in Names
  <2>1. g \in Goroutine /\ a \in Places
    BY DEF ScanInv, ScanTypeOK, Places
  <2> QED BY <1>1, <2>1, MovedFacts
<1>3. gs' = (gs \ {g}) \cup {h}
  BY <1>1 DEF Moves
<1>4. /\ UNCHANGED <<cycle, stage, next, expired, closed, pending, results, running, status>>
      /\ Begun' = Begun
  BY DEF Moves, loop, Begun
<1>5. OneRunPerScanner'
  BY <1>2, <1>3 DEF ScanInv, OneRunPerScanner
<1>6. \A x \in gs' : /\ x.cycle <= cycle
                     /\ x.at = "sending" => x.cycle = cycle
                     /\ x.at # "sending" => x.name \in running
                     /\ x.at = "fn" => x.out.status # "ok"
  BY <1>2, <1>3 DEF ScanInv, RunsInv
<1>7. \A x, y \in gs' : x.cycle = cycle /\ y.cycle = cycle /\ x.name = y.name => x = y
  BY <1>2, <1>3 DEF ScanInv, RunsInv, OfScan
<1>8. ASSUME NEW x \in gs', x.cycle = cycle
      PROVE  /\ x.name \in Begun /\ status[x.name] # "ok"
             /\ \A d \in results : d.name # x.name
             /\ ~expired => x.name \in pending
  BY <1>2, <1>3, <1>8 DEF ScanInv, RunsInv, OfScan
<1>9. RunsInv'
  BY <1>4, <1>6, <1>7, <1>8 DEF ScanInv, RunsInv, OfScan
<1> QED BY <1>5, <1>9

LEMMA GoWhole ==
    ASSUME ScanInv, NEW g \in gs, NEW a \in {"returned", "leaving"}, NEW o \in Outcome,
           g.at \in {"fn", "returned"}, Moves(g, a, o),
           \/ FnCommits(g) /\ a = "returned"
           \/ /\ UNCHANGED <<data, found>> /\ a = "leaving"
              /\ o.status = "ok" => g.at = "returned" /\ ~Over(g)
    PROVE  WholeInv'
<1>1. PICK h : h = Moved(g, a, o)
  OBVIOUS
<1>2. /\ h.name = g.name /\ h.cycle = g.cycle /\ h.at = a /\ h.out = o
      /\ g.name \in Names
  <2>1. g \in Goroutine /\ a \in Places
    BY DEF ScanInv, ScanTypeOK, Places
  <2> QED BY <1>1, <2>1, MovedFacts
<1>3. gs' = (gs \ {g}) \cup {h}
  BY <1>1 DEF Moves
<1>4. UNCHANGED <<cycle, stage, next, expired, closed, pending, results, running, status>>
  BY DEF Moves, loop
<1>5. ASSUME NEW s \in Names, s # g.name \/ g.cycle # cycle, Whole(s) PROVE Whole(s)'
  <2>1. CASE FnCommits(g)
    <3>1. PICK r \in Result :
              /\ data' = IF Open(g) THEN [data EXCEPT ![g.name] = r] ELSE data
              /\ found' = IF g.cycle = cycle THEN [found EXCEPT ![g.name] = r] ELSE found
      BY <2>1 DEF FnCommits
    <3>2. data'[s] = data[s] /\ found'[s] = found[s]
      BY <1>2, <1>5, <3>1 DEF Open, ScanInv, ScanTypeOK
    <3> QED BY <1>5, <3>2 DEF Whole
  <2> QED BY <1>5, <2>1 DEF Whole
<1>6. ASSUME ~closed, g.cycle = cycle, a = "returned", ~expired PROVE Whole(g.name)'
  <2>1. PICK r \in Result :
            /\ r.complete \/ Over(g)
            /\ data' = IF Open(g) THEN [data EXCEPT ![g.name] = r] ELSE data
            /\ found' = IF g.cycle = cycle THEN [found EXCEPT ![g.name] = r] ELSE found
    BY <1>6 DEF FnCommits
  <2>2. Open(g) /\ ~Over(g)
    BY <1>6 DEF Open, Over, ScanInv, ScanTypeOK
  <2>3. data'[g.name] = r /\ found'[g.name] = r
    BY <1>2, <1>6, <2>1, <2>2 DEF ScanInv, ScanTypeOK
  <2> QED BY <2>1, <2>2, <2>3 DEF Whole
<1>7. ASSUME ~closed, g.cycle = cycle, a = "leaving", o.status = "ok" PROVE Whole(g.name)'
  <2>1. g.at = "returned" /\ ~Over(g) /\ UNCHANGED <<data, found>>
    BY <1>7
  <2>2. Whole(g.name)
    BY <1>7, <2>1 DEF ScanInv, WholeInv, OfScan, Over
  <2> QED BY <2>1, <2>2 DEF Whole
<1>8. ASSUME ~closed, NEW x \in gs', x.cycle = cycle
      PROVE  /\ x.at = "returned" /\ ~expired => Whole(x.name)'
             /\ x.at \in {"leaving", "sending"} /\ x.out.status = "ok" => Whole(x.name)'
  <2>1. CASE x = h
    BY <1>2, <1>6, <1>7, <1>8, <2>1
  <2>2. CASE x # h
    <3>1. x \in gs /\ x # g
      BY <1>3, <2>2
    <3>2. x.name \in Names /\ (x.name # g.name \/ g.cycle # cycle)
      BY <1>8, <3>1 DEF ScanInv, RunsInv, OfScan, ScanTypeOK, Goroutine
    <3>3. /\ x.at = "returned" /\ ~expired => Whole(x.name)
          /\ x.at \in {"leaving", "sending"} /\ x.out.status = "ok" => Whole(x.name)
      BY <1>8, <3>1 DEF ScanInv, WholeInv, OfScan
    <3> QED BY <1>5, <3>2, <3>3
  <2> QED BY <2>1, <2>2
<1>9. ASSUME ~closed, NEW d \in results, d.out.status = "ok" PROVE Whole(d.name)'
  <2>1. d.name \in Names /\ (d.name # g.name \/ g.cycle # cycle)
    BY DEF ScanInv, RunsInv, OfScan, ScanTypeOK
  <2>2. Whole(d.name)
    BY <1>9 DEF ScanInv, WholeInv
  <2> QED BY <1>5, <2>1, <2>2
<1>10. ASSUME NEW s \in Names, status[s] = "ok" PROVE Whole(s)'
  <2>1. s # g.name \/ g.cycle # cycle
    BY <1>10 DEF ScanInv, RunsInv, OfScan
  <2>2. Whole(s)
    BY <1>10 DEF ScanInv, WholeInv
  <2> QED BY <1>5, <2>1, <2>2
<1> QED BY <1>4, <1>8, <1>9, <1>10 DEF WholeInv, OfScan


\* A name leaves inFlight with the one goroutine that has it there.
LEMMA LeaveStep ==
    ASSUME ScanInv, NEW g \in gs, Leave(g) PROVE ScanInv'
<1>0. g \in Goroutine /\ g.at = "leaving" /\ g.out \in Outcome /\ g.name \in Names
  BY DEF ScanInv, ScanTypeOK, Leave, Goroutine
<1>1. PICK h : h = Moved(g, "sending", g.out)
  OBVIOUS
<1>2. /\ h \in Goroutine
      /\ h.name = g.name /\ h.cycle = g.cycle /\ h.at = "sending" /\ h.out = g.out
  <2>1. "sending" \in Places
    BY DEF Places
  <2> QED BY <1>0, <1>1, <2>1, MovedFacts
<1>3. gs' = IF g.cycle = cycle THEN (gs \ {g}) \cup {h} ELSE gs \ {g}
  BY <1>0, <1>1, StaysAsItWas DEF Leave, Replace, Places
<1>4. /\ UNCHANGED <<loop, pending, results, report, found>> /\ running' = running \ {g.name}
      /\ UNCHANGED <<cycle, stage, enabled, next, expired, closed, data, status, reasons>>
  BY DEF Leave, loop, report
<1>5. \A x \in gs' : (x = h /\ g.cycle = cycle) \/ (x \in gs /\ x # g)
  BY <1>3
<1>6. ScanTypeOK'
  BY <1>2, <1>3, <1>4 DEF ScanInv, ScanTypeOK
<1>7. OneRunPerScanner'
  BY <1>2, <1>5 DEF ScanInv, OneRunPerScanner
<1>8. \A x \in gs' : /\ x.cycle <= cycle /\ (x.at = "sending" => x.cycle = cycle)
                     /\ x.at = "fn" => x.out.status # "ok"
  BY <1>2, <1>5 DEF ScanInv, RunsInv
<1>9. \A x \in gs' : x.at # "sending" => x.name \in running'
  <2>1. ASSUME NEW x \in gs, x # g, x.at # "sending" PROVE x.name # g.name
    BY <1>0, <2>1 DEF ScanInv, OneRunPerScanner
  <2> QED BY <1>2, <1>4, <1>5, <2>1 DEF ScanInv, RunsInv
<1>10. \A x, y \in gs' : x.cycle = cycle /\ y.cycle = cycle /\ x.name = y.name => x = y
  BY <1>2, <1>5 DEF ScanInv, RunsInv, OfScan
<1>11. ASSUME NEW x \in gs', x.cycle = cycle
      PROVE  /\ x.name \in Begun /\ status[x.name] # "ok"
             /\ \A d \in results : d.name # x.name
             /\ ~expired => x.name \in pending
  BY <1>2, <1>5, <1>11 DEF ScanInv, RunsInv, OfScan
<1>12. RunsInv'
  BY <1>4, <1>8, <1>9, <1>10, <1>11 DEF ScanInv, RunsInv, OfScan, Begun
<1>13. \A s \in Names : Whole(s)' <=> Whole(s)
  BY <1>4 DEF Whole
<1>14. ASSUME ~closed, NEW x \in gs', x.cycle = cycle
       PROVE  /\ x.at = "returned" /\ ~expired => Whole(x.name)
              /\ x.at \in {"leaving", "sending"} /\ x.out.status = "ok" => Whole(x.name)
  BY <1>0, <1>2, <1>5, <1>14 DEF ScanInv, WholeInv, OfScan
<1>15. \A x \in gs' : x.name \in Names
  BY <1>6 DEF ScanTypeOK, Goroutine
<1>16. \A d \in results : d.name \in Names
  BY DEF ScanInv, ScanTypeOK
<1>17. WholeInv'
  BY <1>4, <1>13, <1>14, <1>15, <1>16 DEF ScanInv, WholeInv, OfScan
<1> QED BY <1>6, <1>7, <1>12, <1>17 DEF ScanInv

\* The outcome goes into the channel with the goroutine gone.
LEMMA SendStep ==
    ASSUME ScanInv, NEW g \in gs, Send(g) PROVE ScanInv'
<1>0. g \in Goroutine /\ g.at = "sending" /\ g.out \in Outcome /\ g.name \in Names /\ g.cycle = cycle
  BY DEF ScanInv, ScanTypeOK, RunsInv, Send, Goroutine
<1>1. PICK e : e = [name |-> g.name, out |-> g.out]
  OBVIOUS
<1>2. e \in [name : Names, out : Outcome] /\ e.name = g.name /\ e.out = g.out
  BY <1>0, <1>1
<1>3. gs' = gs \ {g} /\ results' = results \cup {e}
  BY <1>1 DEF Send
<1>4. UNCHANGED <<cycle, stage, enabled, next, expired, closed, data, status, reasons, pending, running, found>>
  BY DEF Send, loop, report
<1>6. ScanTypeOK'
  BY <1>2, <1>3, <1>4 DEF ScanInv, ScanTypeOK
<1>7. OneRunPerScanner'
  BY <1>3 DEF ScanInv, OneRunPerScanner
<1>8. ASSUME NEW x \in gs', x.cycle = cycle PROVE \A d \in results' : d.name # x.name
  <2>1. x \in gs /\ x # g
    BY <1>3
  <2>2. x.name # g.name /\ \A d \in results : d.name # x.name
    BY <1>0, <1>8, <2>1 DEF ScanInv, RunsInv, OfScan
  <2> QED BY <1>2, <1>3, <2>2
<1>9. e.name \in Begun
  BY <1>0, <1>2 DEF ScanInv, RunsInv, OfScan
<1>10. RunsInv'
  BY <1>3, <1>4, <1>8, <1>9 DEF ScanInv, RunsInv, OfScan, Begun
<1>11. \A s \in Names : Whole(s)' <=> Whole(s)
  BY <1>4 DEF Whole
<1>12. ~closed /\ e.out.status = "ok" => Whole(e.name)
  BY <1>0, <1>2 DEF ScanInv, WholeInv, OfScan
<1>13. /\ \A x \in gs : x.name \in Names
       /\ \A d \in results : d.name \in Names
  BY DEF ScanInv, ScanTypeOK, Goroutine
<1>14. WholeInv'
  BY <1>2, <1>3, <1>4, <1>11, <1>12, <1>13 DEF ScanInv, WholeInv, OfScan
<1> QED BY <1>6, <1>7, <1>10, <1>14 DEF ScanInv


\* An outcome is taken from the channel, or the rest is given up.
LEMMA GatherStep ==
    ASSUME ScanInv, Receive \/ Drain PROVE ScanInv'
<1>1. /\ UNCHANGED <<cycle, stage, enabled, next, expired, closed, data, gs, running, found>>
      /\ stage = "gather"
  BY DEF Receive, Drain, loop
<1>2. ~closed
  BY <1>1 DEF ScanInv, RunsInv
<1>3. /\ results' \subseteq results /\ pending' \subseteq pending
      /\ status' \in [Names -> Statuses \cup {"none"}] /\ reasons' \in [Names -> Reasons \cup {"none"}]
      /\ \A s \in Names : status'[s] = "ok" =>
            status[s] = "ok" \/ \E d \in results : d.name = s /\ d.out.status = "ok"
      /\ expired \/ \A s \in pending \ pending' : \E d \in results : d.name = s
  <2>1. CASE Receive
    <3>1. PICK d \in results :
              /\ results' = results \ {d} /\ pending' = pending \ {d.name}
              /\ status' = [status EXCEPT ![d.name] = d.out.status]
              /\ reasons' = [reasons EXCEPT ![d.name] = d.out.reason]
      BY <2>1 DEF Receive
    <3>2. d.name \in Names /\ d.out \in Outcome
      BY DEF ScanInv, ScanTypeOK
    <3>3. d.out.status \in Statuses /\ d.out.reason \in Reasons \cup {"none"}
      BY <3>2, OutcomeFacts
    <3> QED BY <3>1, <3>2, <3>3 DEF ScanInv, ScanTypeOK
  <2>2. CASE Drain
    <3> DEFINE waiting(s) == {d \in results : d.name = s}
               out(s) == IF waiting(s) # {} THEN (CHOOSE d \in waiting(s) : TRUE).out ELSE Failed("timeout")
    <3>1. /\ status' = [s \in Names |-> IF s \in pending THEN out(s).status ELSE status[s]]
          /\ reasons' = [s \in Names |-> IF s \in pending THEN out(s).reason ELSE reasons[s]]
          /\ pending' = {} /\ results' = {} /\ expired
      BY <2>2 DEF Drain, GiveUp
    <3>2. ASSUME NEW s \in Names
          PROVE  /\ out(s) \in Outcome
                 /\ out(s).status = "ok" => \E d \in results : d.name = s /\ d.out.status = "ok"
      <4>1. CASE waiting(s) # {}
        <5>1. PICK d : d = CHOOSE x \in waiting(s) : TRUE
          OBVIOUS
        <5>2. d \in waiting(s) /\ out(s) = d.out
          BY <4>1, <5>1
        <5>3. d \in results /\ d.name = s /\ d.out \in Outcome
          BY <5>2 DEF ScanInv, ScanTypeOK
        <5> QED BY <5>2, <5>3
      <4>2. CASE waiting(s) = {}
        BY <4>2, OutcomeFacts
      <4> QED BY <4>1, <4>2
    <3> HIDE DEF out
    <3>3. \A s \in Names : out(s).status \in Statuses /\ out(s).reason \in Reasons \cup {"none"}
      BY <3>2, OutcomeFacts
    <3> QED BY <3>1, <3>2, <3>3 DEF ScanInv, ScanTypeOK
  <2> QED BY <2>1, <2>2
<1>4. ScanTypeOK'
  BY <1>1, <1>3 DEF ScanInv, ScanTypeOK
<1>5. OneRunPerScanner'
  BY <1>1 DEF ScanInv, OneRunPerScanner
<1>6. /\ \A x \in gs : x.name \in Names
      /\ \A d \in results : d.name \in Names
  BY DEF ScanInv, ScanTypeOK, Goroutine
<1>7. ASSUME NEW x \in gs, x.cycle = cycle
      PROVE  /\ x.name \in Begun /\ status'[x.name] # "ok"
             /\ \A d \in results' : d.name # x.name
             /\ ~expired => x.name \in pending'
  <2>1. /\ x.name \in Begun /\ status[x.name] # "ok"
        /\ \A d \in results : d.name # x.name
        /\ ~expired => x.name \in pending
    BY <1>7 DEF ScanInv, RunsInv, OfScan
  <2> QED BY <1>3, <1>6, <2>1
<1>8. \A s \in Names : status'[s] = "ok" => s \in Begun
  BY <1>3 DEF ScanInv, RunsInv
<1>9. RunsInv'
  BY <1>1, <1>2, <1>3, <1>7, <1>8 DEF ScanInv, RunsInv, OfScan, Begun
<1>10. \A s \in Names : Whole(s)' <=> Whole(s)
  BY <1>1 DEF Whole
<1>11. \A s \in Names : status'[s] = "ok" => Whole(s)
  BY <1>2, <1>3 DEF ScanInv, WholeInv
<1>12. WholeInv'
  BY <1>1, <1>2, <1>3, <1>6, <1>10, <1>11 DEF ScanInv, WholeInv, OfScan
<1> QED BY <1>4, <1>5, <1>9, <1>12 DEF ScanInv

\* What neither starts nor ends a run nor tells of one.
LEMMA LoopStep ==
    ASSUME ScanInv, Launched \/ Deadline \/ Return \/ UNCHANGED scanVars PROVE ScanInv'
<1>1. UNCHANGED <<cycle, enabled, next, pending, results, gs, running, data, status, reasons, found>>
  BY DEF Launched, Deadline, Return, scanVars, loop, report
<1>2. /\ closed' <=> stage' \notin {"launch", "gather"}
      /\ pending # {} => ~closed'
      /\ closed => closed'
      /\ expired => expired'
      /\ stage' \in {"idle", "launch", "gather", "enforce", "sent"}
      /\ closed' \in BOOLEAN /\ expired' \in BOOLEAN
      /\ stage' # "idle" => stage # "idle"
  <2>1. CASE Launched
    BY <2>1 DEF Launched, ScanInv, ScanTypeOK, RunsInv
  <2>2. CASE Deadline
    BY <2>2 DEF Deadline, ScanInv, ScanTypeOK, RunsInv
  <2>3. CASE Return
    BY <2>3 DEF Return, ScanInv, ScanTypeOK, RunsInv
  <2>4. CASE UNCHANGED scanVars
    BY <2>4 DEF scanVars, loop, ScanInv, ScanTypeOK, RunsInv
  <2> QED BY <2>1, <2>2, <2>3, <2>4
<1>3. ScanTypeOK' /\ OneRunPerScanner'
  BY <1>1, <1>2 DEF ScanInv, ScanTypeOK, OneRunPerScanner
<1>4. RunsInv'
  BY <1>1, <1>2 DEF ScanInv, RunsInv, OfScan, Begun
<1>5. WholeInv'
  BY <1>1, <1>2 DEF ScanInv, WholeInv, OfScan, Whole
<1> QED BY <1>3, <1>4, <1>5 DEF ScanInv

\* A result that is dropped is not called ok.
LEMMA EnforceStep ==
    ASSUME ScanInv, EnforceAndSend PROVE ScanInv'
<1>1. /\ UNCHANGED <<cycle, enabled, next, expired, closed, pending, results, gs, running, found>>
      /\ stage = "enforce" /\ stage' = "sent" /\ EnforceMaxSize
  BY DEF EnforceAndSend
<1>2. closed
  BY <1>1 DEF ScanInv, RunsInv
<1>3. /\ data' \in [Names -> Result]
      /\ status' \in [Names -> Statuses \cup {"none"}] /\ reasons' \in [Names -> Reasons \cup {"none"}]
      /\ \A s \in Names : status'[s] = "ok" => status[s] = "ok" /\ data'[s] = data[s]
  BY <1>1, NothingIsResult DEF EnforceMaxSize, ScanInv, ScanTypeOK, Statuses, Reasons
<1>4. ScanTypeOK' /\ OneRunPerScanner'
  BY <1>1, <1>3 DEF ScanInv, ScanTypeOK, OneRunPerScanner
<1>5. \A x \in gs : x.name \in Names
  BY DEF ScanInv, ScanTypeOK, Goroutine
<1>6. RunsInv'
  BY <1>1, <1>2, <1>3, <1>5 DEF ScanInv, RunsInv, OfScan, Begun
<1>7. WholeInv'
  BY <1>1, <1>2, <1>3 DEF ScanInv, WholeInv, Whole
<1> QED BY <1>4, <1>6, <1>7 DEF ScanInv

\* A new scan: whatever still runs is of an earlier one.
LEMMA BuildStep ==
    ASSUME ScanInv, BuildWith PROVE ScanInv'
<1>1. /\ cycle' = cycle + 1 /\ stage' = "launch" /\ next' = 1 /\ ~expired' /\ ~closed'
      /\ pending' = {} /\ results' = {} /\ running' = running
      /\ gs' = {g \in gs : g.at # "sending"}
      /\ \A s \in Names : status'[s] = "none"
  BY DEF BuildWith
<1>2. ScanTypeOK'
  <2>1. /\ data' \in [Names -> Result] /\ found' \in [Names -> Result]
        /\ status' \in [Names -> Statuses \cup {"none"}] /\ reasons' \in [Names -> Reasons \cup {"none"}]
    BY NothingIsResult DEF BuildWith
  <2>2. expired' \in BOOLEAN /\ closed' \in BOOLEAN
    BY DEF BuildWith
  <2>3. enabled' \subseteq Names /\ cycle < MaxCycles /\ cycle \in 0..MaxCycles /\ running \subseteq Names
        /\ gs \subseteq Goroutine
    BY DEF BuildWith, ScanInv, ScanTypeOK
  <2>4. cycle' \in 0..MaxCycles /\ next' \in 1..(Len(Specs) + 1)
    BY <1>1, <2>3, SpecsFacts, ScanAssumption
  <2> QED BY <1>1, <2>1, <2>2, <2>3, <2>4 DEF ScanTypeOK
<1>3. OneRunPerScanner'
  BY <1>1 DEF ScanInv, OneRunPerScanner
<1>4. \A g \in gs' : g \in gs /\ g.cycle < cycle' /\ g.at # "sending"
  BY <1>1 DEF ScanInv, ScanTypeOK, RunsInv, Goroutine
<1>5. \A g \in gs' : g.cycle <= cycle' /\ g.cycle # cycle'
  <2>1. \A g \in gs : g.cycle \in Int /\ cycle \in Int
    BY DEF ScanInv, ScanTypeOK, Goroutine
  <2> QED BY <1>1, <1>4, <2>1
<1>6. RunsInv'
  <2>1. \A g \in gs : (g.at # "sending" => g.name \in running) /\ (g.at = "fn" => g.out.status # "ok")
    BY DEF ScanInv, RunsInv
  <2>2. cycle' > 0
    BY <1>1 DEF ScanInv, ScanTypeOK
  <2> QED BY <1>1, <1>4, <1>5, <2>1, <2>2 DEF RunsInv, OfScan
<1>7. WholeInv'
  BY <1>1, <1>5 DEF WholeInv, OfScan
<1> QED BY <1>2, <1>3, <1>6, <1>7 DEF ScanInv


\* The next scanner of the list, which has not been started in this scan.
LEMMA LaunchStep ==
    ASSUME ScanInv, Launch PROVE ScanInv'
<1> DEFINE s == Specs[next]
<1>1. /\ UNCHANGED <<cycle, stage, enabled, expired, closed, results, data, found>>
      /\ stage = "launch" /\ next' = next + 1 /\ next \in 1..Len(Specs) /\ s \in Names
  BY SpecsFacts DEF Launch, ScanInv, ScanTypeOK
<1>2. ~closed
  BY <1>1 DEF ScanInv, RunsInv
<1>3. s \notin Begun /\ Begun' = Begun \cup {s}
  <2>1. 1..(next' - 1) = (1..(next - 1)) \cup {next} /\ 1..(next - 1) \subseteq 1..Len(Specs)
    BY <1>1
  <2>2. Begun' = {Specs[i] : i \in (1..(next - 1)) \cup {next}}
    BY <2>1 DEF Begun
  <2>3. \A i \in 1..(next - 1) : Specs[i] # Specs[next]
    <3>1. \A i \in 1..(next - 1) : i \in 1..Len(Specs) /\ i # next
      BY <1>1
    <3> QED BY <1>1, <3>1, SpecsFacts
  <2> QED BY <2>2, <2>3 DEF Begun
<1> HIDE DEF s
<1>4. \A d \in results : d.name \in Names /\ d.name # s
  BY <1>3 DEF ScanInv, ScanTypeOK, RunsInv
<1>5. \A g \in gs : g.cycle = cycle => g.name # s
  BY <1>3 DEF ScanInv, RunsInv, OfScan
<1>6. \A x \in Names : Whole(x)' <=> Whole(x)
  BY <1>1 DEF Whole
<1>7. \A x \in gs : x.name \in Names
  BY DEF ScanInv, ScanTypeOK, Goroutine
<1>8. next' \in 1..(Len(Specs) + 1)
  BY <1>1, SpecsFacts
<1>9. ASSUME UNCHANGED <<pending, gs, running>>, NEW w \in {"disabled", "error"},
             status' = [status EXCEPT ![s] = w],
             reasons' \in [Names -> Reasons \cup {"none"}]
      PROVE  ScanInv'
  <2>1. /\ status' \in [Names -> Statuses \cup {"none"}]
        /\ \A x \in Names : status'[x] = "ok" => status[x] = "ok"
    BY <1>1, <1>9 DEF ScanInv, ScanTypeOK, Statuses
  <2>2. ScanTypeOK' /\ OneRunPerScanner'
    BY <1>1, <1>8, <1>9, <2>1 DEF ScanInv, ScanTypeOK, OneRunPerScanner
  <2>3. RunsInv'
    BY <1>1, <1>2, <1>3, <1>7, <1>9, <2>1 DEF ScanInv, RunsInv, OfScan
  <2>4. WholeInv'
    BY <1>1, <1>2, <1>4, <1>6, <1>7, <1>9, <2>1 DEF ScanInv, WholeInv, OfScan
  <2> QED BY <2>2, <2>3, <2>4 DEF ScanInv
<1>10. CASE s \notin enabled
  BY <1>9, <1>10 DEF Launch, s, ScanInv, ScanTypeOK
<1>11. CASE s \in enabled /\ ~Startable(s)
  <2>1. status' = [status EXCEPT ![s] = "error"] /\ reasons' = [reasons EXCEPT ![s] = "still_running"]
        /\ UNCHANGED <<pending, gs, running>>
    BY <1>11 DEF Launch, s
  <2>2. reasons' \in [Names -> Reasons \cup {"none"}]
    BY <1>1, <2>1 DEF ScanInv, ScanTypeOK, Reasons
  <2> QED BY <1>9, <2>1, <2>2
<1>12. CASE s \in enabled /\ Startable(s)
  <2>1. PICK h : h = [name |-> s, cycle |-> cycle, at |-> "fn", out |-> Failed("panic")]
    OBVIOUS
  <2>2. /\ running' = running \cup {s} /\ pending' = pending \cup {s} /\ s \notin running
        /\ gs' = gs \cup {h} /\ UNCHANGED <<status, reasons>>
    BY <1>12, <2>1 DEF Launch, s, Startable
  <2>3. cycle \in 1..MaxCycles
    BY <1>1 DEF ScanInv, ScanTypeOK, RunsInv
  <2>4. /\ h \in Goroutine /\ h.name = s /\ h.cycle = cycle /\ h.at = "fn" /\ h.out.status # "ok"
    BY <1>1, <2>1, <2>3, OutcomeFacts DEF Goroutine
  <2>5. ScanTypeOK'
    BY <1>1, <1>8, <2>2, <2>4 DEF ScanInv, ScanTypeOK
  <2>6. \A x \in gs : x.at # "sending" => x.name # s
    BY <2>2 DEF ScanInv, RunsInv
  <2>7. OneRunPerScanner'
    BY <2>2, <2>4, <2>6 DEF ScanInv, OneRunPerScanner
  <2>8. \A x \in gs' : /\ x.cycle <= cycle /\ (x.at = "sending" => x.cycle = cycle)
                       /\ x.at # "sending" => x.name \in running'
                       /\ x.at = "fn" => x.out.status # "ok"
    BY <2>2, <2>3, <2>4 DEF ScanInv, RunsInv
  <2>9. \A x, y \in gs' : x.cycle = cycle /\ y.cycle = cycle /\ x.name = y.name => x = y
    BY <1>5, <2>2, <2>4 DEF ScanInv, RunsInv, OfScan
  <2>10. ASSUME NEW x \in gs', x.cycle = cycle
         PROVE  /\ x.name \in Begun \cup {s} /\ status[x.name] # "ok"
                /\ \A d \in results : d.name # x.name
                /\ ~expired => x.name \in pending'
    <3>1. CASE x = h
      <4>1. status[s] # "ok"
        BY <1>1, <1>3 DEF ScanInv, RunsInv
      <4> QED BY <1>4, <2>2, <2>4, <3>1, <4>1
    <3>2. CASE x \in gs
      BY <2>2, <2>10, <3>2 DEF ScanInv, RunsInv, OfScan
    <3> QED BY <2>2, <3>1, <3>2
  <2>11. RunsInv'
    BY <1>1, <1>2, <1>3, <2>2, <2>8, <2>9, <2>10 DEF ScanInv, RunsInv, OfScan
  <2>12. WholeInv'
    BY <1>1, <1>4, <1>6, <1>7, <2>2, <2>4 DEF ScanInv, WholeInv, OfScan
  <2> QED BY <2>5, <2>7, <2>11, <2>12 DEF ScanInv
<1> QED BY <1>10, <1>11, <1>12

LEMMA ScanStart == ScanInit => ScanInv
<1> SUFFICES ASSUME ScanInit PROVE ScanInv
  OBVIOUS
<1>1. expired \in BOOLEAN /\ closed \in BOOLEAN
  BY DEF ScanInit
<1>2. ScanTypeOK
  BY <1>1, NothingIsResult, SpecsFacts, ScanAssumption DEF ScanInit, ScanTypeOK
<1> QED BY <1>2 DEF ScanInit, ScanInv, OneRunPerScanner, RunsInv, WholeInv

LEMMA ScanStep == ScanInv /\ [ScanNext]_scanVars => ScanInv'
<1> SUFFICES ASSUME ScanInv, [ScanNext]_scanVars PROVE ScanInv'
  OBVIOUS
<1>1. ASSUME NEW g \in gs, FnCommits(g) \/ FnFails(g) \/ FnPanics(g) \/ Classified(g)
      PROVE  ScanInv'
  <2>1. PICK a \in {"returned", "leaving"}, o \in Outcome :
            /\ g.at \in {"fn", "returned"} /\ Moves(g, a, o)
            /\ \/ FnCommits(g) /\ a = "returned"
               \/ /\ UNCHANGED <<data, found>> /\ a = "leaving"
                  /\ o.status = "ok" => g.at = "returned" /\ ~Over(g)
    BY <1>1, GoStep
  <2>2. ScanTypeOK'
    <3>1. a \in Places
      BY DEF Places
    <3> QED BY <2>1, <3>1, GoTyped
  <2>3. OneRunPerScanner' /\ RunsInv'
    BY <2>1, GoRuns
  <2>4. WholeInv'
    BY <2>1, GoWhole
  <2> QED BY <2>2, <2>3, <2>4 DEF ScanInv
<1>2. CASE Scanner
  BY <1>1, <1>2, LeaveStep, SendStep DEF Scanner
<1>3. CASE Collect
  BY <1>3, BuildStep, LaunchStep, LoopStep, GatherStep, EnforceStep DEF Collect
<1>4. CASE Deadline \/ Finished \/ UNCHANGED scanVars
  BY <1>4, LoopStep DEF Finished
<1> QED BY <1>2, <1>3, <1>4 DEF ScanNext

\* The inductive invariant holds in every behaviour, for any list of scanners
\* and any number of scans.
THEOREM ScansSound == ScanSpec => []ScanInv
  BY ScanStart, ScanStep, PTL DEF ScanSpec

\* What a report calls ok is the whole result of the scanner's run of this
\* scan: one that came late, stopped early, was dropped for the size of the
\* report or is of an earlier scan never passes for it (collect, commit).
THEOREM ReportsAreWhole == ScanSpec => []OkIsTheWholeResult
<1>1. ScanInv => OkIsTheWholeResult
  BY DEF ScanInv, WholeInv, OkIsTheWholeResult, Whole
<1> QED BY <1>1, ScansSound, PTL

\* A scanner that blocks keeps its name in inFlight for as long as it does,
\* and is not started beside itself.
THEOREM ScannersRunOnce == ScanSpec => []OneRunPerScanner
<1>1. ScanInv => OneRunPerScanner
  BY DEF ScanInv
<1> QED BY <1>1, ScansSound, PTL

\* A report that was sent is not written to any more, whoever is still at work.
THEOREM ReportsAreFinal == ScanSpec => SentReportIsFinal
<1>1. ScanInv /\ [ScanNext]_scanVars => [stage = "sent" /\ stage' = "sent" => UNCHANGED report]_scanVars
  <2> SUFFICES ASSUME ScanInv, ScanNext, stage = "sent", stage' = "sent" PROVE UNCHANGED report
    OBVIOUS
  <2>1. closed
    BY DEF ScanInv, RunsInv
  <2>2. CASE Scanner
    BY <2>1, <2>2 DEF Scanner, FnCommits, FnFails, FnPanics, Classified, Leave, Send, Open, report
  <2>3. CASE Finished
    BY <2>3 DEF Finished, scanVars, report
  <2> QED BY <2>2, <2>3 DEF ScanNext, Collect, Deadline, BuildWith, Launch, Launched, Receive, Drain,
                            Return, EnforceAndSend
<1> QED BY <1>1, ScansSound, PTL DEF ScanSpec, SentReportIsFinal

-----------------------------------------------------------------------------
(* The way of a report from the agent to the API.                          *)

\* Every report that was accepted speaks for the agent of its key.
KeyedReports ==
    \A i \in ReportIds : reports[i].key \in Keys => AgentOfKey[reports[i].key] = reports[i].agent

\* A request is about reports that were accepted, and about a scan where it
\* works on the tables of scans.
RequestsSound ==
    \A h \in handlers :
        /\ h.items \subseteq ReportIds
        /\ h.at \notin {"start", "item"} => h.items # {}
        /\ h.at \in {"delete", "report", "normalise"} => ~IsRelay(Current(h))

FiledSound ==
    /\ \A i \in DOMAIN stored : stored[i] \in ReportIds /\ ~IsRelay(stored[i])
    /\ \A i \in DOMAIN pastes : pastes[i] \in ReportIds

\* What a batch was sent for and the API has not tried yet is still ahead of
\* the request; once it is answered 202 there is nothing of the kind.
BatchTried ==
    /\ fwd.at # "sending" => fwd.req = 0
    /\ fwd.at = "answered" /\ fwd.status = "202" => RowIds(fwd.rows) \subseteq tried
    /\ \A h \in handlers : h.no = fwd.req => RowIds(fwd.rows) \subseteq h.items \cup tried

\* Older rows have been tried at least as often, and a batch is the oldest
\* rows of the buffer.
BufferSound ==
    /\ \A r \in buffer : r.id \in ReportIds
    /\ \A r, q \in buffer : r.id <= q.id => q.attempts <= r.attempts
    /\ fwd.rows \subseteq Oldest(BatchSize)
    /\ \A r \in buffer : \A q \in fwd.rows : r.id <= q.id => r \in fwd.rows

\* The API has stored it, or a request has it ahead.
Seen(x) == (\E i \in DOMAIN stored : stored[i] = x) \/ (\E h \in handlers : x \in h.items)

\* A report the API has seen while an older one is in the buffer will be sent
\* again with that one.
SeenInBatch ==
    \A x \in ReportIds : \A y \in buffer :
        Seen(x) /\ y.id < x => /\ fwd.at = "idle" => x \in RowIds(Oldest(BatchSize))
                               /\ fwd.at # "idle" => x \in RowIds(fwd.rows)

\* The rows of endpoint_reports that are the last of an agent.
AgentAt(i) == reports[stored[i]].agent
LastOf(a) == {j \in DOMAIN stored : AgentAt(j) = a /\ \A k \in DOMAIN stored : AgentAt(k) = a => k <= j}

\* As long as requests come one by one and none is cut off amid its batch: a
\* request stores again whatever is newer than what it stores, the last row of
\* an agent is its newest report but for those, and the normalised tables are
\* of the last row but while they are written.
OneRequest ==
    /\ \A g, h \in handlers : g = h
    /\ \A h \in handlers : \A i \in DOMAIN stored : \A y \in h.items :
          y < stored[i] => stored[i] \in h.items
    /\ \A i, j \in DOMAIN stored :
          j \in LastOf(AgentAt(i)) =>
              \/ stored[i] <= stored[j]
              \/ \E h \in handlers : h.at # "start" /\ stored[i] \in h.items
    /\ \A a \in Agents :
          \/ normalised[a] = LastOf(a)
          \/ \E h \in handlers : h.at \in {"report", "normalise"} /\ AgentOf(h) = a
    /\ \A h \in handlers :
          /\ h.at \in {"report", "normalise"} => normalised[AgentOf(h)] = {}
          /\ h.at = "normalise" => h.row = Len(stored) /\ h.row > 0 /\ stored[h.row] = Current(h)

PipelineInv ==
    /\ PipelineTypeOK /\ KeyedReports /\ RequestsSound /\ FiledSound
    /\ NothingVanishes /\ BatchTried /\ BufferSound /\ SeenInBatch
    /\ ~disturbed => OneRequest

\* Every set of naturals that is not empty has a least element.
LEMMA LeastNumber ==
    ASSUME NEW T, T \subseteq Nat, T # {}
    PROVE  \E x \in T : \A y \in T : x <= y
<1>1. PICK x \in T : \A y \in T : ~ <<y, x>> \in OpToRel(<, Nat)
  BY NatLessThanWellFounded, WFMin
<1>2. \A y \in T : ~(y < x)
  BY <1>1 DEF OpToRel
<1> QED BY <1>2

\* The report a request works on is the first of those it has left.
LEMMA CurrentIsFirst ==
    ASSUME NEW h, h.items \subseteq Nat, h.items # {}
    PROVE  Current(h) \in h.items /\ \A j \in h.items : Current(h) <= j
BY LeastNumber, Zenon DEF Current

LEMMA SameCurrent ==
    ASSUME NEW h, NEW g, g.items = h.items
    PROVE  Current(g) = Current(h)
BY DEF Current

\* What the steps of a request make of its record.
LEMMA HandlerStages ==
    ASSUME NEW h \in Handler, NEW at \in Stages, NEW n \in Nat
    PROVE  /\ LET g == [h EXCEPT !.at = at]
              IN  g \in Handler /\ g.no = h.no /\ g.items = h.items /\ g.at = at
           /\ LET g == [h EXCEPT !.at = at, !.row = n]
              IN  g \in Handler /\ g.no = h.no /\ g.items = h.items /\ g.at = at /\ g.row = n
           /\ Rest(h) \in Handler
           /\ Rest(h).no = h.no /\ Rest(h).items = h.items \ {Current(h)} /\ Rest(h).at = "item"
BY DEF Handler, Rest, Stages

\* What the answers make of the forwarder's tick.
LEMMA SendingStages ==
    /\ Idle \in Sending
    /\ fwd \in Sending =>
          \A s \in {"202", "4xx", "error"} :
              Answered(s) => /\ fwd' \in Sending /\ fwd'.rows = fwd.rows /\ fwd'.at = "answered"
                             /\ fwd'.status = s /\ fwd'.req = 0
<1>1. Idle \in Sending
  BY PipelineAssumption DEF Idle, Sending
<1>2. ASSUME fwd \in Sending, NEW s \in {"202", "4xx", "error"}, Answered(s)
      PROVE  /\ fwd' \in Sending /\ fwd'.rows = fwd.rows /\ fwd'.at = "answered"
             /\ fwd'.status = s /\ fwd'.req = 0
  <2>1. \A f \in Sending :
           LET g == [f EXCEPT !.at = "answered", !.status = s, !.req = 0]
           IN  g \in Sending /\ g.rows = f.rows /\ g.at = "answered" /\ g.status = s /\ g.req = 0
    <3>1. 0 \in 0..MaxOverlap /\ s \in {"none", "202", "4xx", "error"}
      BY PipelineAssumption
    <3> TAKE f \in Sending
    <3> QED BY ONLY <3>1, f \in Sending DEF Sending
  <2> QED BY <1>2, <2>1 DEF Answered
<1> QED BY <1>1, <1>2

LEMMA RowAgain ==
    ASSUME NEW n \in Nat, NEW r \in Row(n)
    PROVE  Again(r) \in Row(n + 1) /\ Again(r).id = r.id /\ Again(r).attempts = r.attempts + 1
BY DEF Row, Again

\* Rows are told apart by their reports, and no report is twice in the buffer.
LEMMA UniqueRows ==
    ASSUME PipelineTypeOK, BufferSound
    PROVE  \A r, q \in buffer : r.id = q.id => r = q
<1> SUFFICES ASSUME NEW r \in buffer, NEW q \in buffer, r.id = q.id PROVE r = q
  OBVIOUS
<1>1. r \in Row(MaxAttempts) /\ q \in Row(MaxAttempts)
  BY DEF PipelineTypeOK
<1>2. r.id \in Nat /\ q.id \in Nat /\ r.attempts \in Nat /\ q.attempts \in Nat
  BY <1>1, PipelineAssumption DEF Row
<1>3. r.attempts = q.attempts
  BY <1>2 DEF BufferSound
<1> QED BY <1>1, <1>3 DEF Row

LEMMA BatchInBuffer ==
    ASSUME BufferSound PROVE fwd.rows \subseteq buffer
BY DEF BufferSound, Oldest

-----------------------------------------------------------------------------
LEMMA PipelineStart == PipelineInit => PipelineInv
<1> SUFFICES ASSUME PipelineInit PROVE PipelineInv
  OBVIOUS
<1> USE DEF PipelineInit
<1>1. PipelineTypeOK
  <2>1. keys \in [Keys -> {"none", "active", "revoked"}] /\ fwd \in Sending
    BY SendingStages
  <2>2. endpoints \in [Agents -> {"absent", "bare", "known"}] /\ normalised \in [Agents -> SUBSET Nat]
    OBVIOUS
  <2>3. disturbed \in BOOLEAN
    BY Zenon
  <2>4. failures \in 0..MaxFailures /\ Len(reports) <= MaxReports
    BY PipelineAssumption
  <2>5. /\ reports \in Seq([agent : Agents, kind : Kinds, key : Keys \cup {StaticKey}])
        /\ stored \in Seq(1..MaxReports) /\ pastes \in Seq(1..MaxReports)
    OBVIOUS
  <2> QED BY <2>1, <2>2, <2>3, <2>4, <2>5 DEF PipelineTypeOK
<1>2. KeyedReports /\ RequestsSound /\ FiledSound
  BY DEF KeyedReports, RequestsSound, FiledSound, ReportIds
<1>3. NothingVanishes /\ BatchTried
  BY DEF NothingVanishes, BatchTried, ReportIds, Idle, RowIds
<1>4. BufferSound /\ SeenInBatch
  BY DEF BufferSound, SeenInBatch, Idle, ReportIds
<1>5. OneRequest
  BY DEF OneRequest, LastOf
<1> QED BY <1>1, <1>2, <1>3, <1>4, <1>5 DEF PipelineInv

-----------------------------------------------------------------------------
(* What does not change is kept.                                           *)

LEMMA KeyedFrame == KeyedReports /\ reports' = reports => KeyedReports'
BY DEF KeyedReports, ReportIds

LEMMA VanishFrame ==
    ASSUME NothingVanishes, reports' = reports, buffer' = buffer, dead' = dead, tried \subseteq tried'
    PROVE  NothingVanishes'
BY DEF NothingVanishes, InBuffer, InDeadLetter, ReportIds, RowIds

LEMMA FiledFrame ==
    FiledSound /\ reports' = reports /\ stored' = stored /\ pastes' = pastes => FiledSound'
BY DEF FiledSound, ReportIds, IsRelay

LEMMA OldestFrame == \A n : buffer' = buffer => Oldest(n)' = Oldest(n)
BY DEF Oldest, RowIds

LEMMA BufferFrame ==
    ASSUME BufferSound, buffer' = buffer, reports' = reports, fwd'.rows = fwd.rows \/ fwd'.rows = {}
    PROVE  BufferSound'
<1>1. Oldest(BatchSize)' = Oldest(BatchSize)
  BY OldestFrame
<1> QED BY <1>1 DEF BufferSound, ReportIds

\* Every request that is left or changed has no more ahead than before.
LEMMA SeenLess ==
    ASSUME stored' = stored, \A g \in handlers' : \E h \in handlers : g.items \subseteq h.items
    PROVE  \A x : Seen(x)' => Seen(x)
BY DEF Seen

LEMMA SeenFrame ==
    ASSUME SeenInBatch, reports' = reports, buffer' = buffer, fwd'.rows = fwd.rows,
           fwd'.at = "idle" <=> fwd.at = "idle", \A x : Seen(x)' => Seen(x)
    PROVE  SeenInBatch'
<1>1. Oldest(BatchSize)' = Oldest(BatchSize)
  BY OldestFrame
<1> QED BY <1>1 DEF SeenInBatch, ReportIds, RowIds

LEMMA LastFrame ==
    ASSUME stored' = stored, reports' = reports
    PROVE  (\A i : AgentAt(i)' = AgentAt(i)) /\ (\A a : LastOf(a)' = LastOf(a))
BY DEF AgentAt, LastOf

LEMMA CurrentFrame == \A h : Current(h)' = Current(h) /\ (reports' = reports => AgentOf(h)' = AgentOf(h))
BY DEF Current, AgentOf

\* A request that ends without having begun, or after its last report, leaves
\* the others, and the view of the endpoints, as they are.
LEMMA FewerRequests ==
    ASSUME OneRequest, RequestsSound, handlers' \subseteq handlers,
           \A h \in handlers \ handlers' : ~Midway(h),
           stored' = stored, reports' = reports, normalised' = normalised
    PROVE  OneRequest'
<1>1. (\A i : AgentAt(i)' = AgentAt(i)) /\ (\A a : LastOf(a)' = LastOf(a))
  BY LastFrame
<1>2. \A h : AgentOf(h)' = AgentOf(h) /\ Current(h)' = Current(h)
  BY CurrentFrame
<1>3. \A g, h \in handlers' : g = h
  BY DEF OneRequest
<1>4. \A h \in handlers' : \A i \in DOMAIN stored' : \A y \in h.items :
          y < stored'[i] => stored'[i] \in h.items
  BY DEF OneRequest
<1>5. \A i, j \in DOMAIN stored' :
          j \in LastOf(AgentAt(i))' =>
              \/ stored'[i] <= stored'[j]
              \/ \E h \in handlers' : h.at # "start" /\ stored'[i] \in h.items
  BY <1>1 DEF OneRequest, Midway
<1>6. \A a \in Agents :
          \/ normalised'[a] = LastOf(a)'
          \/ \E h \in handlers' : h.at \in {"report", "normalise"} /\ AgentOf(h)' = a
  BY <1>1, <1>2 DEF OneRequest, Midway, RequestsSound
<1>7. \A h \in handlers' :
          /\ h.at \in {"report", "normalise"} => normalised'[AgentOf(h)'] = {}
          /\ h.at = "normalise" => h.row = Len(stored') /\ h.row > 0 /\ stored'[h.row] = Current(h)'
  BY <1>2 DEF OneRequest
<1> QED BY <1>1, <1>2, <1>3, <1>4, <1>5, <1>6, <1>7 DEF OneRequest

LEMMA RequestsFewer ==
    ASSUME RequestsSound, handlers' \subseteq handlers, reports' = reports
    PROVE  RequestsSound'
BY CurrentFrame DEF RequestsSound, ReportIds, IsRelay

\* An answer reaches the forwarder, or it stops waiting.
LEMMA AnswerStep ==
    ASSUME PipelineInv, NEW s \in {"202", "4xx", "error"}, Answered(s), fwd.at = "sending",
           handlers' \subseteq handlers, UNCHANGED <<collector, api>>,
           s = "202" => RowIds(fwd.rows) \subseteq tried,
           disturbed' \in BOOLEAN, failures' \in 0..MaxFailures,
           ~disturbed' => ~disturbed /\ \A h \in handlers \ handlers' : ~Midway(h)
    PROVE  PipelineInv'
<1>0. UNCHANGED <<keys, reports, buffer, dead, endpoints, stored, normalised, pastes, tried>>
  BY DEF collector, api
<1>1. /\ fwd' \in Sending /\ fwd'.rows = fwd.rows /\ fwd'.at = "answered"
      /\ fwd'.status = s /\ fwd'.req = 0
  BY SendingStages DEF PipelineInv, PipelineTypeOK
<1>2. PipelineTypeOK'
  BY <1>0, <1>1 DEF PipelineInv, PipelineTypeOK
<1>3. KeyedReports' /\ FiledSound' /\ RequestsSound' /\ NothingVanishes'
  BY <1>0, KeyedFrame, FiledFrame, RequestsFewer, VanishFrame DEF PipelineInv
<1>4. BatchTried'
  <2>1. \A h \in handlers' : h.no # 0
    BY <1>2 DEF PipelineTypeOK, Handler
  <2> QED BY <1>0, <1>1, <2>1 DEF BatchTried, RowIds
<1>5. BufferSound' /\ SeenInBatch'
  BY <1>0, <1>1, BufferFrame, SeenLess, SeenFrame DEF PipelineInv
<1>6. ASSUME ~disturbed' PROVE OneRequest'
  BY <1>0, <1>6, FewerRequests DEF PipelineInv
<1> QED BY <1>2, <1>3, <1>4, <1>5, <1>6, Zenon DEF PipelineInv

\* A request ends and nobody waits for it.
LEMMA DropStep ==
    ASSUME PipelineInv, handlers' \subseteq handlers, UNCHANGED <<collector, api, fwd>>,
           disturbed' \in BOOLEAN, failures' \in 0..MaxFailures,
           ~disturbed' => ~disturbed /\ \A h \in handlers \ handlers' : ~Midway(h)
    PROVE  PipelineInv'
<1>0. UNCHANGED <<keys, reports, buffer, dead, endpoints, stored, normalised, pastes, tried, fwd>>
  BY DEF collector, api
<1>2. PipelineTypeOK'
  BY <1>0 DEF PipelineInv, PipelineTypeOK
<1>3. KeyedReports' /\ FiledSound' /\ RequestsSound' /\ NothingVanishes'
  BY <1>0, KeyedFrame, FiledFrame, RequestsFewer, VanishFrame DEF PipelineInv
<1>4. BatchTried'
  BY <1>0 DEF PipelineInv, BatchTried, RowIds
<1>5. BufferSound' /\ SeenInBatch'
  BY <1>0, BufferFrame, SeenLess, SeenFrame DEF PipelineInv
<1>6. ASSUME ~disturbed' PROVE OneRequest'
  BY <1>0, <1>6, FewerRequests DEF PipelineInv
<1> QED BY <1>2, <1>3, <1>4, <1>5, <1>6, Zenon DEF PipelineInv

\* A request goes on: h becomes g.
Proceeds(h, g) ==
    /\ handlers' = (handlers \ {h}) \cup {g}
    /\ g.no = h.no /\ g.items \subseteq h.items /\ h.items \subseteq g.items \cup tried'
    /\ tried \subseteq tried' /\ UNCHANGED <<collector, fwd>>
    /\ g.at \notin {"start", "item"} => g.items # {}
    /\ g.at \in {"delete", "report", "normalise"} => ~IsRelay(Current(g))

LEMMA ItemStep ==
    ASSUME PipelineInv, PipelineTypeOK', NEW h \in handlers, NEW g, Proceeds(h, g),
           FiledSound', \A x : Seen(x)' => Seen(x), ~disturbed' => OneRequest'
    PROVE  PipelineInv'
<1>0. UNCHANGED <<keys, reports, buffer, dead, fwd>>
  BY DEF collector, Proceeds
<1>3. KeyedReports' /\ NothingVanishes'
  BY <1>0, KeyedFrame, VanishFrame DEF PipelineInv, Proceeds
<1>4. RequestsSound'
  <2>1. \A f : Current(f)' = Current(f)
    BY CurrentFrame
  <2>2. ReportIds' = ReportIds /\ \A x : IsRelay(x)' = IsRelay(x)
    BY <1>0 DEF ReportIds, IsRelay
  <2>3. \A f \in handlers' :
          /\ f.items \subseteq ReportIds
          /\ f.at \notin {"start", "item"} => f.items # {}
          /\ f.at \in {"delete", "report", "normalise"} => ~IsRelay(Current(f))
    BY DEF PipelineInv, RequestsSound, Proceeds
  <2> QED BY <2>1, <2>2, <2>3 DEF RequestsSound
<1>5. BatchTried'
  <2>1. \A f \in handlers' : f.no = fwd.req => RowIds(fwd.rows) \subseteq f.items \cup tried'
    <3> SUFFICES ASSUME NEW f \in handlers', f.no = fwd.req
                 PROVE  RowIds(fwd.rows) \subseteq f.items \cup tried'
      OBVIOUS
    <3>1. CASE f = g
      BY <3>1 DEF PipelineInv, BatchTried, Proceeds
    <3>2. CASE f \in handlers
      BY <3>2 DEF PipelineInv, BatchTried, Proceeds
    <3> QED BY <3>1, <3>2 DEF Proceeds
  <2> QED BY <1>0, <2>1 DEF PipelineInv, BatchTried, RowIds, Proceeds
<1>6. BufferSound' /\ SeenInBatch'
  BY <1>0, BufferFrame, SeenFrame DEF PipelineInv
<1> QED BY <1>3, <1>4, <1>5, <1>6, Zenon DEF PipelineInv

\* What NextItem does to its request.
LEMMA NextItemProceeds ==
    ASSUME PipelineInv, NEW h \in handlers, h.items # {}, NextItem(h), UNCHANGED <<collector, fwd>>
    PROVE  /\ Proceeds(h, Rest(h)) /\ Rest(h) \in Handler /\ handlers' \subseteq Handler
           /\ tried' \subseteq 1..MaxReports
<1>0. h \in Handler /\ h.items \subseteq 1..MaxReports /\ tried \subseteq 1..MaxReports
      /\ handlers \subseteq Handler
  BY DEF PipelineInv, PipelineTypeOK, Handler
<1>1. Current(h) \in h.items
  BY <1>0, CurrentIsFirst
<1>2. Rest(h) \in Handler /\ Rest(h).no = h.no /\ Rest(h).items = h.items \ {Current(h)}
      /\ Rest(h).at = "item"
  BY <1>0, HandlerStages DEF Stages
<1>3. handlers' = (handlers \ {h}) \cup {Rest(h)} /\ tried' = tried \cup {Current(h)}
  BY DEF NextItem
<1> QED BY <1>0, <1>1, <1>2, <1>3 DEF Proceeds

\* What the other steps do: the reports ahead stay.
LEMMA StageProceeds ==
    ASSUME PipelineInv, NEW h \in handlers, h.items # {}, NEW g \in Handler,
           g.no = h.no, g.items = h.items,
           g.at \in {"delete", "report", "normalise"} => ~IsRelay(Current(h)),
           handlers' = (handlers \ {h}) \cup {g}, tried' = tried, UNCHANGED <<collector, fwd>>
    PROVE  Proceeds(h, g) /\ handlers' \subseteq Handler
<1>1. Current(g) = Current(h)
  BY SameCurrent
<1>2. handlers \subseteq Handler
  BY DEF PipelineInv, PipelineTypeOK
<1> QED BY <1>1, <1>2 DEF Proceeds

LEMMA SeenProceeds ==
    ASSUME NEW h \in handlers, NEW g, Proceeds(h, g), stored' = stored
    PROVE  \A x : Seen(x)' => Seen(x)
BY SeenLess DEF Proceeds

\* While the requests come one by one, the one at work is the only one, and
\* what is true of them is true of it.
LEMMA OneRequestIs ==
    ASSUME OneRequest, NEW h \in handlers
    PROVE  /\ handlers = {h}
           /\ \A i \in DOMAIN stored : \A y \in h.items : y < stored[i] => stored[i] \in h.items
           /\ \A i, j \in DOMAIN stored :
                 j \in LastOf(AgentAt(i)) =>
                     stored[i] <= stored[j] \/ (h.at # "start" /\ stored[i] \in h.items)
           /\ \A a \in Agents :
                 normalised[a] = LastOf(a) \/ (h.at \in {"report", "normalise"} /\ AgentOf(h) = a)
           /\ h.at \in {"report", "normalise"} => normalised[AgentOf(h)] = {}
           /\ h.at = "normalise" => h.row = Len(stored) /\ h.row > 0 /\ stored[h.row] = Current(h)
<1>1. handlers = {h}
  BY DEF OneRequest
<1> QED BY <1>1 DEF OneRequest

LEMMA OneRequestBecomes ==
    ASSUME NEW g, handlers' = {g},
           \A i \in DOMAIN stored' : \A y \in g.items : y < stored'[i] => stored'[i] \in g.items,
           \A i, j \in DOMAIN stored' :
                 j \in LastOf(AgentAt(i))' =>
                     stored'[i] <= stored'[j] \/ (g.at # "start" /\ stored'[i] \in g.items),
           \A a \in Agents :
                 normalised'[a] = LastOf(a)' \/ (g.at \in {"report", "normalise"} /\ AgentOf(g)' = a),
           g.at \in {"report", "normalise"} => normalised'[AgentOf(g)'] = {},
           g.at = "normalise" => g.row = Len(stored') /\ g.row > 0 /\ stored'[g.row] = Current(g)'
    PROVE  OneRequest'
BY DEF OneRequest

-----------------------------------------------------------------------------
(* The steps of IngestBatch.                                               *)

LEMMA FailureCounts ==
    ASSUME PipelineTypeOK, Failure PROVE failures' \in 0..MaxFailures
BY PipelineAssumption DEF PipelineTypeOK, Failure

\* The report at hand was accepted, and is of an agent.
LEMMA CurrentAccepted ==
    ASSUME PipelineInv, NEW h \in handlers, h.items # {}
    PROVE  /\ h \in Handler /\ Current(h) \in h.items /\ Current(h) \in ReportIds
           /\ Current(h) \in 1..MaxReports /\ Current(h) \in Nat
           /\ \A j \in h.items : j \in Nat /\ Current(h) <= j
           /\ AgentOf(h) \in Agents
<1>1. h \in Handler /\ h.items \subseteq 1..MaxReports /\ h.items \subseteq Nat
  BY DEF PipelineInv, PipelineTypeOK, Handler
<1>2. Current(h) \in h.items /\ \A j \in h.items : Current(h) <= j
  BY <1>1, CurrentIsFirst
<1>3. Current(h) \in ReportIds
  BY <1>2 DEF PipelineInv, RequestsSound
<1>4. reports[Current(h)].agent \in Agents
  <2>1. reports \in Seq([agent : Agents, kind : Kinds, key : Keys \cup {StaticKey}])
    BY DEF PipelineInv, PipelineTypeOK
  <2>2. reports[Current(h)] \in [agent : Agents, kind : Kinds, key : Keys \cup {StaticKey}]
    <3> DEFINE R == [agent : Agents, kind : Kinds, key : Keys \cup {StaticKey}]
    <3>1. reports \in Seq(R) /\ Current(h) \in 1..Len(reports)
      BY <1>3, <2>1 DEF ReportIds
    <3> HIDE DEF R
    <3>2. reports[Current(h)] \in R
      BY <3>1
    <3> QED BY <3>2 DEF R
  <2> QED BY <2>2
<1> QED BY <1>1, <1>2, <1>3, <1>4 DEF AgentOf

LEMMA ItemFailsStep ==
    ASSUME PipelineInv, NEW h \in handlers, ItemFails(h) PROVE PipelineInv'
<1>0. /\ h.items # {} /\ disturbed' = TRUE /\ Failure /\ NextItem(h)
      /\ UNCHANGED <<collector, fwd, endpoints, stored, normalised, pastes>>
  BY DEF ItemFails, AtItem
<1>1. UNCHANGED <<keys, reports, buffer, dead, fwd, endpoints, stored, normalised, pastes>>
  BY <1>0 DEF collector
<1>2. Proceeds(h, Rest(h)) /\ handlers' \subseteq Handler /\ tried' \subseteq 1..MaxReports
  BY <1>0, NextItemProceeds
<1>3. disturbed' \in BOOLEAN
  BY <1>0, Zenon
<1>4. PipelineTypeOK'
  BY <1>0, <1>1, <1>2, <1>3, FailureCounts DEF PipelineInv, PipelineTypeOK
<1>5. FiledSound'
  BY <1>1, FiledFrame DEF PipelineInv
<1>6. \A x : Seen(x)' => Seen(x)
  BY <1>1, <1>2, SeenProceeds
<1> QED BY <1>0, <1>2, <1>4, <1>5, <1>6, ItemStep

\* The first statement of a report: nothing is written that the view of the
\* endpoint is made of.
LEMMA FirstStatement ==
    ASSUME PipelineInv, NEW h \in handlers, AtItem(h, "item"), NEW at \in {"delete", "paste"},
           at = "delete" => ~IsRelay(Current(h)), Become(h, at),
           endpoints' \in [Agents -> {"absent", "bare", "known"}],
           UNCHANGED <<collector, fwd, stored, normalised, pastes, tried, disturbed, failures>>
    PROVE  PipelineInv'
<1> DEFINE g == [h EXCEPT !.at = at]
<1>0. UNCHANGED <<keys, reports, buffer, dead, fwd, stored, normalised, pastes, tried, disturbed, failures>>
  BY DEF collector
<1>1. h.items # {} /\ h.at \in {"start", "item"}
  BY DEF AtItem
<1>2. g \in Handler /\ g.no = h.no /\ g.items = h.items /\ g.at = at
  <2>1. h \in Handler /\ at \in Stages
    BY DEF PipelineInv, PipelineTypeOK, Stages
  <2> QED BY <2>1, HandlerStages DEF Handler
<1>3. handlers' = (handlers \ {h}) \cup {g}
  BY DEF Become
<1> HIDE DEF g
<1>4. Proceeds(h, g) /\ handlers' \subseteq Handler
  BY <1>0, <1>1, <1>2, <1>3, StageProceeds
<1>5. PipelineTypeOK'
  BY <1>0, <1>4 DEF PipelineInv, PipelineTypeOK
<1>6. FiledSound' /\ \A x : Seen(x)' => Seen(x)
  BY <1>0, <1>4, FiledFrame, SeenProceeds DEF PipelineInv
<1>7. ASSUME ~disturbed' PROVE OneRequest'
  <2>1. OneRequest
    BY <1>0, <1>7 DEF PipelineInv
  <2>2. (\A i : AgentAt(i)' = AgentAt(i)) /\ (\A a : LastOf(a)' = LastOf(a))
    BY <1>0, LastFrame
  <2>3. /\ handlers = {h}
        /\ \A i \in DOMAIN stored : \A y \in h.items : y < stored[i] => stored[i] \in h.items
        /\ \A i, j \in DOMAIN stored :
              j \in LastOf(AgentAt(i)) =>
                  stored[i] <= stored[j] \/ (h.at # "start" /\ stored[i] \in h.items)
        /\ \A a \in Agents : normalised[a] = LastOf(a)
    BY <1>1, <2>1, OneRequestIs
  <2>4. handlers' = {g}
    BY <1>3, <2>3
  <2> QED BY <1>0, <1>2, <2>2, <2>3, <2>4, OneRequestBecomes
<1> QED BY <1>4, <1>5, <1>6, <1>7, ItemStep

LEMMA UpsertStep ==
    ASSUME PipelineInv, NEW h \in handlers, UpsertAgentEndpoint(h) PROVE PipelineInv'
<1>1. endpoints' \in [Agents -> {"absent", "bare", "known"}]
  BY DEF PipelineInv, PipelineTypeOK, UpsertAgentEndpoint
<1> QED BY <1>1, FirstStatement DEF UpsertAgentEndpoint, Relayed

LEMMA ResolveStep ==
    ASSUME PipelineInv, NEW h \in handlers, ResolvePasteSourceEndpoint(h) PROVE PipelineInv'
<1>1. endpoints' \in [Agents -> {"absent", "bare", "known"}]
  BY DEF PipelineInv, PipelineTypeOK, ResolvePasteSourceEndpoint
<1> QED BY <1>1, FirstStatement DEF ResolvePasteSourceEndpoint

\* A paste event is done with, stored or not: the tables of scans are as they
\* were, and no scan is left behind.
LEMMA PasteStep ==
    ASSUME PipelineInv, NEW h \in handlers, AtItem(h, "paste"), IsRelay(Current(h)), NextItem(h),
           pastes' = pastes \/ pastes' = Append(pastes, Current(h)),
           UNCHANGED <<collector, fwd, endpoints, stored, normalised, disturbed, failures>>
    PROVE  PipelineInv'
<1>0. UNCHANGED <<keys, reports, buffer, dead, fwd, endpoints, stored, normalised, disturbed, failures>>
  BY DEF collector
<1>1. h.items # {} /\ h.at = "paste"
  BY DEF AtItem
<1>2. Proceeds(h, Rest(h)) /\ handlers' \subseteq Handler /\ tried' \subseteq 1..MaxReports
  BY <1>1, NextItemProceeds
<1>3. Current(h) \in ReportIds /\ Current(h) \in 1..MaxReports /\ Current(h) \in h.items /\ h \in Handler
  BY <1>1, CurrentAccepted
<1>4. /\ pastes' \in Seq(1..MaxReports)
      /\ \A i \in DOMAIN pastes' : pastes'[i] \in ReportIds
  <2>1. pastes \in Seq(1..MaxReports) /\ \A i \in DOMAIN pastes : pastes[i] \in ReportIds
    BY DEF PipelineInv, PipelineTypeOK, FiledSound
  <2>2. CASE pastes' = pastes
    BY <2>1, <2>2
  <2>3. CASE pastes' = Append(pastes, Current(h))
    <3>1. pastes' \in Seq(1..MaxReports) /\ Len(pastes') = Len(pastes) + 1
      BY <1>3, <2>1, <2>3
    <3>2. \A i \in 1..Len(pastes') : i \in 1..Len(pastes) \/ i = Len(pastes) + 1
      BY <2>1, <3>1
    <3>3. \A i \in 1..Len(pastes') : pastes'[i] \in ReportIds
      BY <1>3, <2>1, <2>3, <3>2
    <3> QED BY <3>1, <3>3
  <2> QED BY <2>2, <2>3
<1>5. PipelineTypeOK'
  BY <1>0, <1>2, <1>4 DEF PipelineInv, PipelineTypeOK
<1>6. FiledSound'
  BY <1>0, <1>4 DEF PipelineInv, FiledSound, ReportIds, IsRelay
<1>7. \A x : Seen(x)' => Seen(x)
  BY <1>0, <1>2, SeenProceeds
<1>8. ASSUME ~disturbed' PROVE OneRequest'
  <2>1. OneRequest
    BY <1>0, <1>8 DEF PipelineInv
  <2>2. (\A i : AgentAt(i)' = AgentAt(i)) /\ (\A a : LastOf(a)' = LastOf(a))
    BY <1>0, LastFrame
  <2>3. /\ handlers = {h}
        /\ \A i \in DOMAIN stored : \A y \in h.items : y < stored[i] => stored[i] \in h.items
        /\ \A i, j \in DOMAIN stored :
              j \in LastOf(AgentAt(i)) =>
                  stored[i] <= stored[j] \/ (h.at # "start" /\ stored[i] \in h.items)
        /\ \A a \in Agents : normalised[a] = LastOf(a)
    BY <1>1, <2>1, OneRequestIs
  <2>4. handlers' = {Rest(h)}
    BY <2>3 DEF NextItem
  <2>5. Rest(h).items = h.items \ {Current(h)} /\ Rest(h).at = "item"
    BY <1>3, HandlerStages DEF Stages
  <2>6. \A i \in DOMAIN stored : stored[i] # Current(h)
    BY DEF PipelineInv, FiledSound
  <2> QED BY <1>0, <2>2, <2>3, <2>4, <2>5, <2>6, OneRequestBecomes
<1> QED BY <1>2, <1>5, <1>6, <1>7, <1>8, ItemStep

LEMMA DeleteStep ==
    ASSUME PipelineInv, NEW h \in handlers, DeleteStale(h) PROVE PipelineInv'
<1> DEFINE g == [h EXCEPT !.at = "report"]
<1>b. PICK b : b = AgentOf(h)
  OBVIOUS
<1>0. UNCHANGED <<keys, reports, buffer, dead, fwd, endpoints, stored, pastes, tried>>
  BY DEF DeleteStale, collector
<1>1. h.items # {} /\ h.at = "delete" /\ ~IsRelay(Current(h))
  BY DEF DeleteStale, AtItem, PipelineInv, RequestsSound
<1>2. h \in Handler /\ b \in Agents
  BY <1>1, <1>b, CurrentAccepted
<1>3. g \in Handler /\ g.no = h.no /\ g.items = h.items /\ g.at = "report"
  <2>1. "report" \in Stages
    BY DEF Stages
  <2> QED BY <1>2, <2>1, HandlerStages
<1>4. handlers' = (handlers \ {h}) \cup {g}
  BY DEF Become, DeleteStale
<1>5. \/ normalised' = [normalised EXCEPT ![b] = {}] /\ disturbed' = disturbed /\ failures' = failures
      \/ Failure /\ disturbed' = TRUE /\ normalised' = normalised
  BY <1>b DEF DeleteStale, Stale
<1> HIDE DEF g
<1>6. Proceeds(h, g) /\ handlers' \subseteq Handler
  BY <1>0, <1>1, <1>3, <1>4, StageProceeds DEF collector
<1>7. PipelineTypeOK'
  <2>1. normalised' \in [Agents -> SUBSET Nat] /\ failures' \in 0..MaxFailures
    BY <1>5, FailureCounts DEF PipelineInv, PipelineTypeOK
  <2>2. disturbed' \in BOOLEAN
    BY <1>5, Zenon DEF PipelineInv, PipelineTypeOK
  <2> QED BY <1>0, <1>6, <2>1, <2>2 DEF PipelineInv, PipelineTypeOK
<1>8. FiledSound' /\ \A x : Seen(x)' => Seen(x)
  BY <1>0, <1>6, FiledFrame, SeenProceeds DEF PipelineInv
<1>9. ASSUME ~disturbed' PROVE OneRequest'
  <2>0. normalised' = [normalised EXCEPT ![b] = {}] /\ ~disturbed
    <3>1. CASE normalised' = [normalised EXCEPT ![b] = {}] /\ disturbed' = disturbed
      BY <1>9, <3>1, Zenon
    <3>2. CASE disturbed' = TRUE
      BY <1>9, <3>2, Zenon
    <3> QED BY <1>5, <3>1, <3>2, Zenon
  <2>1. OneRequest
    BY <2>0 DEF PipelineInv
  <2>2. (\A i : AgentAt(i)' = AgentAt(i)) /\ (\A a : LastOf(a)' = LastOf(a))
    BY <1>0, LastFrame
  <2>3. /\ handlers = {h}
        /\ \A i \in DOMAIN stored : \A y \in h.items : y < stored[i] => stored[i] \in h.items
        /\ \A i, j \in DOMAIN stored :
              j \in LastOf(AgentAt(i)) =>
                  stored[i] <= stored[j] \/ (h.at # "start" /\ stored[i] \in h.items)
        /\ \A a \in Agents : normalised[a] = LastOf(a)
    BY <1>1, <2>1, OneRequestIs
  <2>4. handlers' = {g}
    BY <1>4, <2>3
  <2>5. AgentOf(g)' = b
    <3>1. AgentOf(g) = b
      BY <1>3, <1>b, SameCurrent DEF AgentOf
    <3> QED BY <1>0, <3>1, CurrentFrame
  <2>6. normalised'[b] = {} /\ \A a \in Agents : a # b => normalised'[a] = normalised[a]
    BY <1>2, <2>0 DEF PipelineInv, PipelineTypeOK
  <2> QED BY <1>0, <1>3, <2>2, <2>3, <2>4, <2>5, <2>6, OneRequestBecomes
<1> QED BY <1>6, <1>7, <1>8, <1>9, ItemStep

\* The last rows of the agents when a report of one of them is stored.
LEMMA LastStored ==
    ASSUME reports' = reports, stored \in Seq(1..MaxReports), NEW c \in 1..MaxReports,
           stored' = Append(stored, c),
           NEW n, n = Len(stored) + 1, NEW b, b = reports[c].agent
    PROVE  /\ Len(stored') = n /\ n \in Nat /\ n > 0
           /\ DOMAIN stored' = 1..n /\ n \in 1..n
           /\ \A i \in 1..n : i \in DOMAIN stored \/ i = n
           /\ \A i \in DOMAIN stored : i \in 1..n /\ i # n
           /\ stored'[n] = c /\ AgentAt(n)' = b
           /\ \A i \in DOMAIN stored : stored'[i] = stored[i] /\ AgentAt(i)' = AgentAt(i)
           /\ LastOf(b)' = {n}
           /\ \A a : a # b => LastOf(a)' = LastOf(a)
<1>1. /\ Len(stored') = n /\ n \in Nat /\ n > 0
      /\ DOMAIN stored = 1..Len(stored) /\ DOMAIN stored' = 1..n
      /\ stored'[n] = c /\ \A i \in 1..Len(stored) : stored'[i] = stored[i]
  BY AppendProperties
<1>2. AgentAt(n)' = b /\ \A i \in DOMAIN stored : AgentAt(i)' = AgentAt(i)
  BY <1>1 DEF AgentAt
<1>3. \A i \in 1..n : i \in DOMAIN stored \/ i = n
  BY <1>1
<1>4. n \in 1..n /\ \A i \in DOMAIN stored : i \in 1..n /\ i # n
  BY <1>1
<1>5. \A a : LastOf(a)' = {j \in 1..n : AgentAt(j)' = a /\ \A k \in 1..n : AgentAt(k)' = a => k <= j}
  BY <1>1 DEF LastOf
<1>7. LastOf(b)' = {n}
  <2>1. \A j \in 1..n : n <= j => j = n
    BY <1>1
  <2>2. \A k \in 1..n : k <= n
    BY <1>1
  <2> QED BY <1>2, <1>4, <1>5, <2>1, <2>2
<1>8. ASSUME NEW a, a # b PROVE LastOf(a)' = LastOf(a)
  <2>1. \A j : j \in LastOf(a)' <=> j \in LastOf(a)
    BY <1>2, <1>3, <1>4, <1>5, <1>8 DEF LastOf
  <2> QED BY <2>1, Zenon DEF LastOf
<1> QED BY <1>1, <1>2, <1>3, <1>4, <1>7, <1>8

LEMMA InsertReportStep ==
    ASSUME PipelineInv, NEW h \in handlers, InsertEndpointReport(h) PROVE PipelineInv'
<1>n. PICK n : n = Len(stored) + 1
  OBVIOUS
<1>c. PICK c : c = Current(h)
  OBVIOUS
<1>b. PICK b : b = AgentOf(h)
  OBVIOUS
<1> DEFINE g == [h EXCEPT !.at = "normalise", !.row = n]
<1>0. /\ UNCHANGED <<keys, reports, buffer, dead, fwd, endpoints, normalised, pastes, tried>>
      /\ UNCHANGED <<disturbed, failures>>
  BY DEF InsertEndpointReport, collector
<1>1. h.items # {} /\ h.at = "report" /\ ~IsRelay(c)
  BY <1>c DEF InsertEndpointReport, AtItem, PipelineInv, RequestsSound
<1>2. /\ h \in Handler /\ b \in Agents /\ c \in h.items /\ c \in ReportIds /\ c \in 1..MaxReports
      /\ c \in Nat /\ \A j \in h.items : j \in Nat /\ c <= j
  BY <1>1, <1>b, <1>c, CurrentAccepted
<1>3. stored \in Seq(1..MaxReports) /\ stored' = Append(stored, c)
  BY <1>c DEF PipelineInv, PipelineTypeOK, InsertEndpointReport
<1>4. /\ Len(stored') = n /\ n \in Nat /\ n > 0
      /\ DOMAIN stored' = 1..n /\ n \in 1..n
      /\ \A i \in 1..n : i \in DOMAIN stored \/ i = n
      /\ \A i \in DOMAIN stored : i \in 1..n /\ i # n
      /\ stored'[n] = c /\ AgentAt(n)' = b
      /\ \A i \in DOMAIN stored : stored'[i] = stored[i] /\ AgentAt(i)' = AgentAt(i)
      /\ LastOf(b)' = {n}
      /\ \A a : a # b => LastOf(a)' = LastOf(a)
  <2>1. b = reports[c].agent
    BY <1>b, <1>c DEF AgentOf
  <2>2. reports' = reports /\ c \in 1..MaxReports
    BY <1>0, <1>2
  <2>3. n = Len(stored) + 1 /\ stored \in Seq(1..MaxReports) /\ stored' = Append(stored, c)
    BY <1>3, <1>n
  <2>4. Len(stored') = n
    BY <2>1, <2>2, <2>3, LastStored
  <2> QED BY ONLY <2>3, <2>1, <2>2, LastStored
<1>5. g \in Handler /\ g.no = h.no /\ g.items = h.items /\ g.at = "normalise" /\ g.row = n
  <2>1. "normalise" \in Stages
    BY DEF Stages
  <2>2. h \in Handler /\ n \in Nat
    BY <1>2, <1>4
  <2> QED BY ONLY <2>1, <2>2 DEF Handler, Stages
<1>6. handlers' = (handlers \ {h}) \cup {g}
  BY <1>n DEF InsertEndpointReport
<1>7. \A i \in DOMAIN stored' : i \in DOMAIN stored \/ i = n
  BY <1>4
<1> HIDE DEF g
<1>8. Proceeds(h, g) /\ handlers' \subseteq Handler
  BY <1>0, <1>1, <1>5, <1>6, <1>c, StageProceeds DEF collector
<1>9. PipelineTypeOK'
  <2>1. stored' \in Seq(1..MaxReports)
    BY <1>2, <1>3, AppendProperties
  <2> QED BY <1>0, <1>8, <2>1 DEF PipelineInv, PipelineTypeOK
<1>10. FiledSound'
  <2>1. \A i \in DOMAIN stored' : stored'[i] \in ReportIds /\ ~IsRelay(stored'[i])
    BY <1>1, <1>2, <1>4, <1>7 DEF PipelineInv, FiledSound
  <2> QED BY <1>0, <2>1 DEF PipelineInv, FiledSound, ReportIds, IsRelay
<1>11. \A x : Seen(x)' => Seen(x)
  <2>1. \A f \in handlers' : \E e \in handlers : f.items \subseteq e.items
    BY <1>5, <1>6
  <2> QED BY <1>2, <1>4, <1>7, <2>1 DEF Seen
<1>12. ASSUME ~disturbed' PROVE OneRequest'
  <2>1. OneRequest
    BY <1>0, <1>12 DEF PipelineInv
  <2>2. /\ handlers = {h}
        /\ \A i \in DOMAIN stored : \A y \in h.items : y < stored[i] => stored[i] \in h.items
        /\ \A i, j \in DOMAIN stored :
              j \in LastOf(AgentAt(i)) => stored[i] <= stored[j] \/ stored[i] \in h.items
        /\ \A a \in Agents : normalised[a] = LastOf(a) \/ b = a
        /\ normalised[b] = {}
    BY <1>1, <1>b, <2>1, OneRequestIs
  <2>3. handlers' = {g}
    BY <1>6, <2>2
  <2>4. AgentOf(g)' = b /\ Current(g)' = c
    <3>1. AgentOf(g) = b /\ Current(g) = c
      BY <1>5, <1>b, <1>c, SameCurrent DEF AgentOf
    <3> QED BY <1>0, <3>1, CurrentFrame
  <2>5. \A i \in DOMAIN stored' : \A y \in g.items : y < stored'[i] => stored'[i] \in g.items
    BY <1>2, <1>4, <1>5, <1>7, <2>2
  <2>6. ASSUME NEW i \in DOMAIN stored', NEW j \in DOMAIN stored', j \in LastOf(AgentAt(i))'
        PROVE  stored'[i] <= stored'[j] \/ (g.at # "start" /\ stored'[i] \in g.items)
    <3>0. AgentAt(j)' = AgentAt(i)' /\ \A k \in DOMAIN stored' : AgentAt(k)' = AgentAt(i)' => k <= j
      BY <2>6 DEF LastOf
    <3>1. CASE AgentAt(i)' = b
      <4>1. j = n /\ stored'[j] = c
        <5>1. n \in DOMAIN stored' /\ n <= j
          BY <1>4, <3>0, <3>1
        <5> QED BY <1>4, <5>1
      <4>2. CASE i = n
        BY <1>2, <1>5, <4>1, <4>2
      <4>3. CASE i \in DOMAIN stored
        <5>1. stored'[i] = stored[i] /\ stored[i] \in Nat
          BY <1>4, <4>3 DEF PipelineInv, FiledSound, ReportIds
        <5>2. stored[i] <= c \/ c < stored[i]
          BY <1>2, <5>1
        <5> QED BY <1>2, <1>5, <2>2, <4>1, <4>3, <5>1, <5>2
      <4> QED BY <1>7, <4>2, <4>3
    <3>2. CASE AgentAt(i)' # b
      <4>1. i \in DOMAIN stored /\ AgentAt(i)' = AgentAt(i) /\ stored'[i] = stored[i]
        BY <1>4, <1>7, <3>2
      <4>2. j \in DOMAIN stored /\ AgentAt(j)' = AgentAt(j) /\ stored'[j] = stored[j]
        BY <1>4, <1>7, <3>0, <3>2
      <4>3. \A k \in DOMAIN stored : AgentAt(k) = AgentAt(i) => k <= j
        BY <1>4, <3>0, <4>1
      <4>4. j \in LastOf(AgentAt(i))
        BY <3>0, <4>1, <4>2, <4>3 DEF LastOf
      <4> QED BY <1>5, <2>2, <4>1, <4>2, <4>4
    <3> QED BY <3>1, <3>2
  <2>7. \A a \in Agents : normalised'[a] = LastOf(a)' \/ (g.at \in {"report", "normalise"} /\ AgentOf(g)' = a)
    BY <1>0, <1>4, <1>5, <2>2, <2>4
  <2> QED BY <1>0, <1>4, <1>5, <2>2, <2>3, <2>4, <2>5, <2>6, <2>7, OneRequestBecomes
<1> QED BY <1>8, <1>9, <1>10, <1>11, <1>12, ItemStep

LEMMA NormaliseStep ==
    ASSUME PipelineInv, NEW h \in handlers, InsertNormalised(h) PROVE PipelineInv'
<1>n. PICK n : n = h.row
  OBVIOUS
<1>c. PICK c : c = Current(h)
  OBVIOUS
<1>b. PICK b : b = AgentOf(h)
  OBVIOUS
<1>0. UNCHANGED <<keys, reports, buffer, dead, fwd, endpoints, stored, pastes>>
  BY DEF InsertNormalised, collector
<1>1. h.items # {} /\ h.at = "normalise"
  BY DEF InsertNormalised, AtItem
<1>2. /\ h \in Handler /\ b \in Agents /\ c \in h.items /\ c \in Nat
      /\ \A j \in h.items : j \in Nat /\ c <= j
  BY <1>1, <1>b, <1>c, CurrentAccepted
<1>3. \/ /\ normalised' = [normalised EXCEPT ![b] = @ \cup {n}]
         /\ disturbed' = disturbed /\ failures' = failures
      \/ Failure /\ disturbed' = TRUE /\ normalised' = normalised
  BY <1>b, <1>n DEF InsertNormalised
<1>4. Proceeds(h, Rest(h)) /\ handlers' \subseteq Handler /\ tried' \subseteq 1..MaxReports
  BY <1>1, NextItemProceeds DEF InsertNormalised
<1>5. PipelineTypeOK'
  <2>0. n \in Nat /\ normalised \in [Agents -> SUBSET Nat]
    BY <1>2, <1>n DEF Handler, PipelineInv, PipelineTypeOK
  <2>1. normalised' \in [Agents -> SUBSET Nat] /\ failures' \in 0..MaxFailures
    BY <1>2, <1>3, <2>0, FailureCounts DEF PipelineInv, PipelineTypeOK
  <2>2. disturbed' \in BOOLEAN
    BY <1>3, Zenon DEF PipelineInv, PipelineTypeOK
  <2> QED BY <1>0, <1>4, <2>1, <2>2 DEF PipelineInv, PipelineTypeOK
<1>6. FiledSound' /\ \A x : Seen(x)' => Seen(x)
  BY <1>0, <1>4, FiledFrame, SeenProceeds DEF PipelineInv
<1>7. ASSUME ~disturbed' PROVE OneRequest'
  <2>0. normalised' = [normalised EXCEPT ![b] = @ \cup {n}] /\ ~disturbed
    <3>1. CASE normalised' = [normalised EXCEPT ![b] = @ \cup {n}] /\ disturbed' = disturbed
      BY <1>7, <3>1, Zenon
    <3>2. CASE disturbed' = TRUE
      BY <1>7, <3>2, Zenon
    <3> QED BY <1>3, <3>1, <3>2, Zenon
  <2>1. OneRequest
    BY <2>0 DEF PipelineInv
  <2>2. (\A i : AgentAt(i)' = AgentAt(i)) /\ (\A a : LastOf(a)' = LastOf(a))
    BY <1>0, LastFrame
  <2>3. /\ handlers = {h}
        /\ \A i \in DOMAIN stored : \A y \in h.items : y < stored[i] => stored[i] \in h.items
        /\ \A i, j \in DOMAIN stored :
              j \in LastOf(AgentAt(i)) =>
                  stored[i] <= stored[j] \/ (h.at # "start" /\ stored[i] \in h.items)
        /\ \A a \in Agents : normalised[a] = LastOf(a) \/ b = a
        /\ normalised[b] = {}
        /\ n = Len(stored) /\ n > 0 /\ stored[n] = c
    BY <1>1, <1>b, <1>c, <1>n, <2>1, OneRequestIs
  <2>4. handlers' = {Rest(h)}
    BY <2>3 DEF NextItem, InsertNormalised
  <2>5. Rest(h).items = h.items \ {c} /\ Rest(h).at = "item"
    BY <1>2, <1>c, HandlerStages DEF Stages
  <2>6. DOMAIN stored = 1..n /\ n \in Nat /\ n \in DOMAIN stored
    <3>1. DOMAIN stored = 1..Len(stored) /\ Len(stored) \in Nat
      BY DEF PipelineInv, PipelineTypeOK
    <3> QED BY <2>3, <3>1
  <2>7. AgentAt(n) = b
    BY <1>b, <1>c, <2>3 DEF AgentAt, AgentOf
  <2>8. \A j \in LastOf(b) : j = n
    <3>1. \A j \in LastOf(b) : j \in DOMAIN stored /\ n <= j
      BY <2>6, <2>7 DEF LastOf
    <3> QED BY <2>6, <3>1
  <2>9. LastOf(b) = {n}
    <3>1. \A k \in DOMAIN stored : k <= n
      BY <2>6
    <3>2. n \in LastOf(b)
      BY <2>6, <2>7, <3>1 DEF LastOf
    <3> QED BY <2>8, <3>2
  <2>10. \A i \in DOMAIN stored : \A y \in Rest(h).items :
            y < stored[i] => stored[i] \in Rest(h).items
    <3> SUFFICES ASSUME NEW i \in DOMAIN stored, NEW y \in Rest(h).items, y < stored[i]
                 PROVE  stored[i] \in Rest(h).items
      OBVIOUS
    <3>1. y \in h.items /\ y \in Nat /\ c <= y /\ stored[i] \in h.items
      BY <1>2, <2>3, <2>5
    <3>2. stored[i] # c
      BY <1>2, <3>1
    <3> QED BY <2>5, <3>1, <3>2
  <2>11. ASSUME NEW i \in DOMAIN stored, NEW j \in DOMAIN stored, j \in LastOf(AgentAt(i))
         PROVE  stored[i] <= stored[j] \/ (Rest(h).at # "start" /\ stored[i] \in Rest(h).items)
    <3>1. CASE stored[i] = c
      <4>1. AgentAt(i) = b
        BY <1>b, <1>c, <3>1 DEF AgentAt, AgentOf
      <4>2. j = n
        BY <2>8, <2>11, <4>1
      <4> QED BY <1>2, <2>3, <3>1, <4>2
    <3>2. CASE stored[i] # c
      BY <2>3, <2>5, <2>11, <3>2
    <3> QED BY <3>1, <3>2
  <2>12. \A a \in Agents : normalised'[a] = LastOf(a)
    <3>1. normalised'[b] = {n}
      BY <1>2, <2>0, <2>3 DEF PipelineInv, PipelineTypeOK
    <3>2. \A a \in Agents : a # b => normalised'[a] = normalised[a]
      BY <1>2, <2>0 DEF PipelineInv, PipelineTypeOK
    <3> QED BY <2>3, <2>9, <3>1, <3>2
  <2> QED BY <1>0, <2>2, <2>4, <2>5, <2>10, <2>11, <2>12, OneRequestBecomes
<1> QED BY <1>4, <1>5, <1>6, <1>7, ItemStep

LEMMA ReplyStep ==
    ASSUME PipelineInv, NEW h \in handlers, Reply(h) PROVE PipelineInv'
<1>0. h.items = {} /\ handlers' = handlers \ {h} /\ UNCHANGED <<collector, api, disturbed, failures>>
  BY DEF Reply
<1>1. disturbed' \in BOOLEAN /\ failures' \in 0..MaxFailures
  BY <1>0 DEF PipelineInv, PipelineTypeOK
<1>2. ~disturbed' => ~disturbed /\ \A g \in handlers \ handlers' : ~Midway(g)
  BY <1>0 DEF Midway
<1>3. CASE Waited(h)
  <2>1. Answered("202")
    BY <1>3 DEF Reply
  <2>2. fwd.at = "sending" /\ RowIds(fwd.rows) \subseteq tried
    BY <1>0, <1>3 DEF Waited, PipelineInv, BatchTried, PipelineTypeOK, Handler
  <2> QED BY <1>0, <1>1, <1>2, <2>1, <2>2, AnswerStep
<1>4. CASE ~Waited(h)
  BY <1>0, <1>1, <1>2, <1>4, DropStep DEF Reply
<1> QED BY <1>3, <1>4

\* A request that is refused, or that does not arrive.
LEMMA NotServedStep ==
    ASSUME PipelineInv, NEW h \in handlers, Refuse(h) \/ Unreachable(h) PROVE PipelineInv'
<1>0. /\ h.at = "start" /\ handlers' = handlers \ {h} /\ Waited(h)
      /\ UNCHANGED <<collector, api, disturbed, failures>>
  BY DEF Refuse, Unreachable
<1>1. PICK s \in {"4xx", "error"} : Answered(s)
  BY DEF Refuse, Unreachable
<1>2. disturbed' \in BOOLEAN /\ failures' \in 0..MaxFailures
  BY <1>0 DEF PipelineInv, PipelineTypeOK
<1>3. ~disturbed' => ~disturbed /\ \A g \in handlers \ handlers' : ~Midway(g)
  BY <1>0 DEF Midway
<1>4. fwd.at = "sending"
  BY <1>0 DEF Waited, PipelineInv, BatchTried, PipelineTypeOK, Handler
<1> QED BY <1>0, <1>1, <1>2, <1>3, <1>4, AnswerStep

LEMMA TimeoutStep ==
    ASSUME PipelineInv, NEW h \in handlers, Timeout(h) PROVE PipelineInv'
<1>0. /\ Waited(h) /\ Answered("error")
      /\ UNCHANGED <<collector, handlers, api, disturbed, failures>>
  BY DEF Timeout
<1>1. disturbed' \in BOOLEAN /\ failures' \in 0..MaxFailures
  BY <1>0 DEF PipelineInv, PipelineTypeOK
<1>2. ~disturbed' => ~disturbed /\ \A g \in handlers \ handlers' : ~Midway(g)
  BY <1>0
<1>3. fwd.at = "sending"
  BY <1>0 DEF Waited, PipelineInv, BatchTried, PipelineTypeOK, Handler
<1> QED BY <1>0, <1>1, <1>2, <1>3, AnswerStep

LEMMA CancelledStep ==
    ASSUME PipelineInv, NEW h \in handlers, Cancelled(h) PROVE PipelineInv'
<1>0. handlers' = handlers \ {h} /\ UNCHANGED <<collector, fwd, api, failures>>
  BY DEF Cancelled
<1>1. failures' \in 0..MaxFailures
  BY <1>0 DEF PipelineInv, PipelineTypeOK
<1>2. disturbed' \in BOOLEAN
  BY Zenon DEF Cancelled
<1>3. ~disturbed' => ~disturbed /\ ~Midway(h)
  BY Zenon DEF Cancelled
<1> QED BY <1>0, <1>1, <1>2, <1>3, DropStep

LEMMA APIRestartStep ==
    ASSUME PipelineInv, APIRestart PROVE PipelineInv'
<1>0. handlers' = {} /\ UNCHANGED <<collector, api>> /\ Failure
  BY DEF APIRestart
<1>1. failures' \in 0..MaxFailures
  BY <1>0, FailureCounts DEF PipelineInv
<1>2. disturbed' \in BOOLEAN
  BY Zenon DEF APIRestart
<1>3. ~disturbed' => ~disturbed /\ \A h \in handlers : ~Midway(h)
  BY Zenon DEF APIRestart
<1>4. CASE fwd.at = "sending"
  <2>1. Answered("error")
    BY <1>4 DEF APIRestart
  <2> QED BY <1>0, <1>1, <1>2, <1>3, <1>4, <2>1, AnswerStep
<1>5. CASE fwd.at # "sending"
  <2>1. UNCHANGED fwd
    BY <1>5 DEF APIRestart
  <2> QED BY <1>0, <1>1, <1>2, <1>3, <2>1, DropStep
<1> QED BY <1>4, <1>5

-----------------------------------------------------------------------------
(* The steps of the collector.                                             *)

LEMMA KeysStep ==
    ASSUME PipelineInv, keys' \in [Keys -> {"none", "active", "revoked"}],
           UNCHANGED <<reports, buffer, dead, fwd, handlers, api, disturbed, failures>>
    PROVE  PipelineInv'
<1>0. UNCHANGED <<reports, buffer, dead, fwd, handlers, endpoints, stored, normalised, pastes, tried,
                  disturbed, failures>>
  BY DEF api
<1>2. PipelineTypeOK'
  BY <1>0 DEF PipelineInv, PipelineTypeOK
<1>3. KeyedReports' /\ FiledSound' /\ RequestsSound' /\ NothingVanishes'
  BY <1>0, KeyedFrame, FiledFrame, RequestsFewer, VanishFrame DEF PipelineInv
<1>4. BatchTried'
  BY <1>0 DEF PipelineInv, BatchTried, RowIds
<1>5. BufferSound' /\ SeenInBatch'
  BY <1>0, BufferFrame, SeenLess, SeenFrame DEF PipelineInv
<1>6. ASSUME ~disturbed' PROVE OneRequest'
  BY <1>0, <1>6, FewerRequests DEF PipelineInv
<1> QED BY <1>2, <1>3, <1>4, <1>5, <1>6, Zenon DEF PipelineInv

LEMMA FewerNumbers ==
    ASSUME NEW A, NEW B, A \subseteq B, B \subseteq 1..MaxReports
    PROVE  Cardinality(A) <= Cardinality(B) /\ Cardinality(A) \in Nat /\ Cardinality(B) \in Nat
<1>1. IsFiniteSet(1..MaxReports)
  BY PipelineAssumption, FS_Interval
<1>2. IsFiniteSet(B)
  BY <1>1, FS_Subset
<1>3. IsFiniteSet(A) /\ Cardinality(A) <= Cardinality(B)
  BY <1>2, FS_Subset
<1> QED BY <1>2, <1>3, FS_CardinalityType

\* The numbers of the rows of the buffer before x.
Before(x) == {i \in RowIds(buffer) : i < x}

LEMMA OldestIs ==
    ASSUME PipelineTypeOK
    PROVE  /\ \A r \in buffer : r.id \in RowIds(buffer) /\ r.id \in Nat /\ r.id \in 1..MaxReports
           /\ RowIds(buffer) \subseteq 1..MaxReports
           /\ \A r : r \in Oldest(BatchSize) <=> r \in buffer /\ Cardinality(Before(r.id)) < BatchSize
<1>1. \A r \in buffer : r.id \in 1..MaxReports
  BY DEF PipelineTypeOK, Row
<1> QED BY <1>1 DEF RowIds, Oldest, Before

\* A row before one of the oldest rows is one of them.
LEMMA OldestDown ==
    ASSUME PipelineTypeOK, NEW q \in Oldest(BatchSize), NEW r \in buffer, r.id <= q.id
    PROVE  r \in Oldest(BatchSize)
<1>1. /\ q \in buffer /\ Cardinality(Before(q.id)) < BatchSize
      /\ r.id \in Nat /\ q.id \in Nat /\ RowIds(buffer) \subseteq 1..MaxReports
  BY OldestIs
<1>2. Before(r.id) \subseteq Before(q.id) /\ Before(q.id) \subseteq 1..MaxReports
  BY <1>1 DEF Before
<1>3. Cardinality(Before(r.id)) <= Cardinality(Before(q.id))
      /\ Cardinality(Before(r.id)) \in Nat /\ Cardinality(Before(q.id)) \in Nat
  BY <1>2, FewerNumbers
<1>4. Cardinality(Before(r.id)) < BatchSize
  BY <1>1, <1>3, PipelineAssumption
<1> QED BY <1>4, OldestIs

LEMMA IngestStep ==
    ASSUME PipelineInv, NEW k \in Keys \cup {StaticKey}, NEW a \in Agents, NEW kind \in Kinds,
           IngestHandler(k, a, kind)
    PROVE  PipelineInv'
<1>n. PICK n : n = Len(reports) + 1
  OBVIOUS
<1>w. PICK w : w = [id |-> n, attempts |-> 0]
  OBVIOUS
<1>e. PICK e : e = [agent |-> a, kind |-> kind, key |-> k]
  OBVIOUS
<1>0. /\ UNCHANGED <<keys, dead, fwd, handlers, endpoints, stored, normalised, pastes, tried>>
      /\ UNCHANGED <<disturbed, failures>>
  BY DEF IngestHandler, api
<1>1. reports' = Append(reports, e) /\ buffer' = buffer \cup {w} /\ Len(reports) < MaxReports
  BY <1>n, <1>w, <1>e DEF IngestHandler, MoreReports
<1>2. e \in [agent : Agents, kind : Kinds, key : Keys \cup {StaticKey}]
  BY <1>e
<1>3. /\ reports' \in Seq([agent : Agents, kind : Kinds, key : Keys \cup {StaticKey}])
      /\ Len(reports) \in Nat /\ n \in Nat /\ Len(reports') = n /\ n \in 1..MaxReports /\ n <= MaxReports
      /\ reports'[n] = e /\ \A i \in 1..Len(reports) : reports'[i] = reports[i]
  <2> DEFINE R == [agent : Agents, kind : Kinds, key : Keys \cup {StaticKey}]
  <2>1. reports \in Seq(R) /\ e \in R
    BY <1>2 DEF PipelineInv, PipelineTypeOK
  <2> HIDE DEF R
  <2>2. /\ reports' \in Seq(R) /\ Len(reports) \in Nat /\ Len(reports') = Len(reports) + 1
        /\ reports'[Len(reports) + 1] = e /\ \A i \in 1..Len(reports) : reports'[i] = reports[i]
    BY <1>1, <2>1, AppendProperties
  <2>3. n \in Nat /\ n \in 1..MaxReports /\ n <= MaxReports
    BY <1>1, <1>n, <2>2, PipelineAssumption
  <2> QED BY <1>n, <2>2, <2>3 DEF R
<1>4. /\ \A i \in ReportIds : i \in ReportIds' /\ i \in Nat /\ i < n /\ reports'[i] = reports[i]
      /\ \A i \in ReportIds' : i \in ReportIds \/ i = n
      /\ n \in ReportIds'
  BY <1>3, <1>n DEF ReportIds
<1>5. w \in Row(MaxAttempts) /\ w.id = n /\ w.attempts = 0
  BY <1>3, <1>w, PipelineAssumption DEF Row
<1>6. PipelineTypeOK'
  <2>1. buffer' \subseteq Row(MaxAttempts)
    BY <1>1, <1>5 DEF PipelineInv, PipelineTypeOK
  <2> QED BY <1>0, <1>3, <2>1 DEF PipelineInv, PipelineTypeOK
<1>7. KeyedReports'
  <2>1. e.key \in Keys => AgentOfKey[e.key] = e.agent
    BY <1>e DEF IngestHandler, Claimable
  <2> QED BY <1>3, <1>4, <2>1 DEF PipelineInv, KeyedReports
<1>8. \A h \in handlers : h.items # {} => /\ Current(h) \in ReportIds /\ AgentOf(h)' = AgentOf(h)
                                          /\ IsRelay(Current(h))' = IsRelay(Current(h))
  <2> SUFFICES ASSUME NEW h \in handlers, h.items # {}
               PROVE  /\ Current(h) \in ReportIds /\ AgentOf(h)' = AgentOf(h)
                      /\ IsRelay(Current(h))' = IsRelay(Current(h))
    OBVIOUS
  <2>1. Current(h) \in ReportIds
    BY CurrentAccepted
  <2>2. Current(h)' = Current(h)
    BY CurrentFrame
  <2> QED BY <1>4, <2>1, <2>2 DEF AgentOf, IsRelay
<1>9. RequestsSound'
  BY <1>0, <1>4, <1>8 DEF PipelineInv, RequestsSound
<1>10. FiledSound'
  BY <1>0, <1>4 DEF PipelineInv, FiledSound, IsRelay
<1>11. NothingVanishes'
  <2>1. RowIds(buffer)' = RowIds(buffer) \cup {n}
    BY <1>1, <1>5 DEF RowIds
  <2> QED BY <1>0, <1>4, <2>1 DEF PipelineInv, NothingVanishes, InBuffer, InDeadLetter
<1>12. BatchTried'
  BY <1>0 DEF PipelineInv, BatchTried, RowIds
<1>13. \A r \in buffer : r.id \in ReportIds
  BY DEF PipelineInv, BufferSound
<1>14. \A r \in Oldest(BatchSize) : r \in Oldest(BatchSize)'
  <2> SUFFICES ASSUME NEW r \in Oldest(BatchSize) PROVE r \in Oldest(BatchSize)'
    OBVIOUS
  <2>1. r \in buffer /\ r.id \in ReportIds
    BY <1>13 DEF Oldest
  <2>2. {i \in RowIds(buffer') : i < r.id} = {i \in RowIds(buffer) : i < r.id}
    <3>1. RowIds(buffer') = RowIds(buffer) \cup {n}
      BY <1>1, <1>5 DEF RowIds
    <3>2. ~(n < r.id)
      BY <1>3, <1>4, <2>1
    <3> QED BY <3>1, <3>2
  <2> QED BY <1>1, <2>1, <2>2 DEF Oldest, RowIds
<1>15. BufferSound'
  <2>1. \A r \in buffer' : r.id \in ReportIds'
    BY <1>1, <1>4, <1>5, <1>13
  <2>2. \A r, q \in buffer' : r.id <= q.id => q.attempts <= r.attempts
    <3> SUFFICES ASSUME NEW r \in buffer', NEW q \in buffer', r.id <= q.id PROVE q.attempts <= r.attempts
      OBVIOUS
    <3>1. r.attempts \in Nat
      BY <1>6, PipelineAssumption DEF PipelineTypeOK, Row
    <3>2. CASE q = w
      BY <1>5, <3>1, <3>2
    <3>3. CASE q \in buffer /\ r = w
      BY <1>3, <1>4, <1>5, <1>13, <3>3
    <3>4. CASE q \in buffer /\ r \in buffer
      BY <3>4 DEF PipelineInv, BufferSound
    <3> QED BY <1>1, <3>2, <3>3, <3>4
  <2>3. fwd'.rows \subseteq Oldest(BatchSize)'
    BY <1>0, <1>14 DEF PipelineInv, BufferSound
  <2>4. \A r \in buffer' : \A q \in fwd'.rows : r.id <= q.id => r \in fwd'.rows
    <3> SUFFICES ASSUME NEW r \in buffer', NEW q \in fwd.rows, r.id <= q.id PROVE r \in fwd.rows
      BY <1>0
    <3>1. q \in buffer
      BY BatchInBuffer DEF PipelineInv
    <3>2. r # w
      BY <1>3, <1>4, <1>5, <1>13, <3>1
    <3> QED BY <1>1, <3>2 DEF PipelineInv, BufferSound
  <2> QED BY <2>1, <2>2, <2>3, <2>4 DEF BufferSound
<1>16. SeenInBatch'
  <2>1. \A x : Seen(x)' => Seen(x) /\ x \in ReportIds
    BY <1>0 DEF Seen, PipelineInv, FiledSound, RequestsSound
  <2>2. \A x \in RowIds(Oldest(BatchSize)) : x \in RowIds(Oldest(BatchSize))'
    BY <1>14 DEF RowIds
  <2> SUFFICES ASSUME NEW x \in ReportIds', NEW y \in buffer', Seen(x)', y.id < x
               PROVE  /\ fwd'.at = "idle" => x \in RowIds(Oldest(BatchSize))'
                      /\ fwd'.at # "idle" => x \in RowIds(fwd.rows)'
    BY DEF SeenInBatch
  <2>3. y \in buffer
    BY <1>1, <1>3, <1>4, <1>5, <2>1
  <2> QED BY <1>0, <2>1, <2>2, <2>3 DEF PipelineInv, SeenInBatch, RowIds
<1>17. ASSUME ~disturbed' PROVE OneRequest'
  <2>1. OneRequest
    BY <1>0, <1>17 DEF PipelineInv
  <2>2. \A i \in DOMAIN stored : AgentAt(i)' = AgentAt(i)
    BY <1>0, <1>4 DEF AgentAt, PipelineInv, FiledSound
  <2>3. \A b : LastOf(b)' = LastOf(b)
    BY <1>0, <2>2 DEF LastOf
  <2>4. \A h : Current(h)' = Current(h)
    BY CurrentFrame
  <2>5. \A h \in handlers : h.at \in {"report", "normalise"} => AgentOf(h)' = AgentOf(h)
    BY <1>8 DEF PipelineInv, RequestsSound
  <2>6. \A i, j \in DOMAIN stored : j \in LastOf(AgentAt(i))' => j \in LastOf(AgentAt(i))
    BY <1>0, <2>2 DEF LastOf
  <2>7. \A i, j \in DOMAIN stored' :
            j \in LastOf(AgentAt(i))' =>
                \/ stored'[i] <= stored'[j]
                \/ \E h \in handlers' : h.at # "start" /\ stored'[i] \in h.items
    BY <1>0, <2>1, <2>6 DEF OneRequest
  <2>8. \A b \in Agents :
            \/ normalised'[b] = LastOf(b)'
            \/ \E h \in handlers' : h.at \in {"report", "normalise"} /\ AgentOf(h)' = b
    BY <1>0, <2>1, <2>3, <2>5 DEF OneRequest
  <2>9. \A h \in handlers' :
          /\ h.at \in {"report", "normalise"} => normalised'[AgentOf(h)'] = {}
          /\ h.at = "normalise" => h.row = Len(stored') /\ h.row > 0 /\ stored'[h.row] = Current(h)'
    BY <1>0, <2>1, <2>4, <2>5 DEF OneRequest
  <2>10. /\ \A g, h \in handlers' : g = h
         /\ \A h \in handlers' : \A i \in DOMAIN stored' : \A y \in h.items :
               y < stored'[i] => stored'[i] \in h.items
    BY <1>0, <2>1 DEF OneRequest
  <2> QED BY <2>7, <2>8, <2>9, <2>10 DEF OneRequest
<1> QED BY <1>6, <1>7, <1>9, <1>10, <1>11, <1>12, <1>15, <1>16, <1>17, Zenon DEF PipelineInv

LEMMA TickStep ==
    ASSUME PipelineInv, Tick PROVE PipelineInv'
<1>r. PICK rows : rows = Oldest(BatchSize)
  OBVIOUS
<1>n. PICK n \in 1..MaxOverlap :
        /\ FirstFree(n)
        /\ fwd' = [at |-> "sending", rows |-> rows, status |-> "none", req |-> n]
        /\ handlers' = handlers \cup {[no |-> n, items |-> RowIds(rows), at |-> "start", row |-> 0]}
  BY <1>r DEF Tick
<1>g. PICK g : g = [no |-> n, items |-> RowIds(rows), at |-> "start", row |-> 0]
  OBVIOUS
<1>0. /\ UNCHANGED <<keys, reports, buffer, dead, endpoints, stored, normalised, pastes, tried, failures>>
      /\ fwd.at = "idle"
  BY DEF Tick, collector, api
<1>1. rows \subseteq buffer /\ rows \subseteq Row(MaxAttempts) /\ RowIds(rows) \subseteq 1..MaxReports
      /\ RowIds(rows) \subseteq ReportIds
  <2>1. rows \subseteq buffer /\ rows \subseteq Row(MaxAttempts)
    BY <1>r DEF Oldest, PipelineInv, PipelineTypeOK
  <2>2. RowIds(rows) \subseteq 1..MaxReports
    BY <2>1 DEF RowIds, Row
  <2>3. RowIds(rows) \subseteq ReportIds
    BY <2>1 DEF RowIds, PipelineInv, BufferSound
  <2> QED BY <2>1, <2>2, <2>3
<1>2. /\ fwd' \in Sending /\ fwd'.at = "sending" /\ fwd'.rows = rows /\ fwd'.req = n
      /\ fwd'.status = "none"
  <2>1. n \in 0..MaxOverlap
    BY PipelineAssumption
  <2> QED BY <1>1, <1>n, <2>1 DEF Sending
<1>3. /\ g \in Handler /\ handlers' = handlers \cup {g} /\ g.items = RowIds(rows) /\ g.no = n
      /\ g.at = "start"
  BY <1>1, <1>g, <1>n DEF Handler, Stages
<1>4. disturbed' \in BOOLEAN
  BY Zenon DEF Tick
<1>5. PipelineTypeOK'
  BY <1>0, <1>2, <1>3, <1>4 DEF PipelineInv, PipelineTypeOK
<1>6. KeyedReports' /\ FiledSound' /\ NothingVanishes'
  BY <1>0, KeyedFrame, FiledFrame, VanishFrame DEF PipelineInv
<1>7. RequestsSound'
  <2>1. \A f : Current(f)' = Current(f)
    BY CurrentFrame
  <2>2. ReportIds' = ReportIds /\ \A x : IsRelay(x)' = IsRelay(x)
    BY <1>0 DEF ReportIds, IsRelay
  <2>3. \A f \in handlers' :
          /\ f.items \subseteq ReportIds
          /\ f.at \notin {"start", "item"} => f.items # {}
          /\ f.at \in {"delete", "report", "normalise"} => ~IsRelay(Current(f))
    BY <1>1, <1>3 DEF PipelineInv, RequestsSound
  <2> QED BY <2>1, <2>2, <2>3 DEF RequestsSound
<1>8. BatchTried'
  <2>1. \A h \in handlers' : h.no = n => h = g
    BY <1>3, <1>n DEF FirstFree
  <2> QED BY <1>0, <1>2, <1>3, <2>1 DEF BatchTried, RowIds
<1>9. BufferSound'
  <2>1. Oldest(BatchSize)' = Oldest(BatchSize)
    BY <1>0, OldestFrame
  <2>2. \A r \in buffer : \A q \in rows : r.id <= q.id => r \in rows
    BY <1>r, OldestDown DEF PipelineInv
  <2> QED BY <1>0, <1>2, <1>r, <2>1, <2>2 DEF PipelineInv, BufferSound, ReportIds
<1>10. \A x \in ReportIds : \A y \in buffer : Seen(x) /\ y.id < x => x \in RowIds(rows)
  BY <1>0, <1>r DEF PipelineInv, SeenInBatch
<1>11. SeenInBatch'
  <2>1. \A x : Seen(x)' => Seen(x) \/ x \in RowIds(rows)
    BY <1>0, <1>3 DEF Seen
  <2>2. \A x \in ReportIds' : \A y \in buffer' : Seen(x)' /\ y.id < x => x \in RowIds(rows)
    BY <1>0, <1>10, <2>1 DEF ReportIds
  <2>3. RowIds(fwd.rows)' = RowIds(rows)
    BY <1>2 DEF RowIds
  <2> QED BY <1>2, <2>2, <2>3 DEF SeenInBatch
<1>12. ASSUME ~disturbed' PROVE OneRequest'
  <2>0. ~disturbed /\ handlers = {}
    BY <1>12, Zenon DEF Tick
  <2>1. OneRequest
    BY <2>0 DEF PipelineInv
  <2>2. (\A i : AgentAt(i)' = AgentAt(i)) /\ (\A a : LastOf(a)' = LastOf(a))
    BY <1>0, LastFrame
  <2>3. /\ \A i, j \in DOMAIN stored : j \in LastOf(AgentAt(i)) => stored[i] <= stored[j]
        /\ \A a \in Agents : normalised[a] = LastOf(a)
    BY <2>0, <2>1 DEF OneRequest
  <2>4. handlers' = {g}
    BY <1>3, <2>0
  <2>5. \A i \in DOMAIN stored : \A y \in g.items : y < stored[i] => stored[i] \in g.items
    <3> SUFFICES ASSUME NEW i \in DOMAIN stored, NEW y \in g.items, y < stored[i]
                 PROVE  stored[i] \in g.items
      OBVIOUS
    <3>1. PICK r \in buffer : r.id = y
      BY <1>1, <1>3 DEF RowIds
    <3>2. stored[i] \in ReportIds /\ Seen(stored[i])
      BY DEF Seen, PipelineInv, FiledSound
    <3> QED BY <1>3, <1>10, <3>1, <3>2
  <2> QED BY <1>0, <1>3, <2>2, <2>3, <2>4, <2>5, OneRequestBecomes
<1> QED BY <1>5, <1>6, <1>7, <1>8, <1>9, <1>11, <1>12, Zenon DEF PipelineInv

\* The tick ends.  The rows that leave the buffer are tried or in dead_letter,
\* older ones leave before newer ones, and the order of the attempts stays.
LEMMA SettleStep ==
    ASSUME PipelineInv, fwd.at # "idle", fwd' = Idle,
           UNCHANGED <<keys, reports, handlers, api, disturbed>>,
           failures' \in 0..MaxFailures,
           buffer' \subseteq Row(MaxAttempts), dead \subseteq dead', dead' \subseteq Row(MaxAttempts + 1),
           \A p \in buffer' : \E r \in buffer : r.id = p.id,
           \A r, q \in buffer' : r.id <= q.id => q.attempts <= r.attempts,
           \A q \in fwd.rows : \A y \in buffer' : y.id < q.id => \E p \in buffer' : p.id = q.id,
           \A r \in buffer : \/ \E p \in buffer' : p.id = r.id
                             \/ \E d \in dead' : d.id = r.id
                             \/ r.id \in tried
    PROVE  PipelineInv'
<1>0. UNCHANGED <<keys, reports, handlers, endpoints, stored, normalised, pastes, tried, disturbed>>
  BY DEF api
<1>1. fwd' \in Sending /\ fwd'.rows = {} /\ fwd'.at = "idle" /\ fwd'.req = 0
  BY SendingStages DEF Idle
<1>2. PipelineTypeOK'
  BY <1>0, <1>1 DEF PipelineInv, PipelineTypeOK
<1>3. KeyedReports' /\ FiledSound' /\ RequestsSound'
  BY <1>0, KeyedFrame, FiledFrame, RequestsFewer DEF PipelineInv
<1>4. NothingVanishes'
  <2>1. \A x \in ReportIds : x \in RowIds(buffer) \/ InDeadLetter(x) \/ x \in tried
    BY DEF PipelineInv, NothingVanishes, InBuffer
  <2>2. \A x \in RowIds(buffer) : x \in RowIds(buffer') \/ InDeadLetter(x)' \/ x \in tried
    BY DEF RowIds, InDeadLetter
  <2>3. \A x : InDeadLetter(x) => InDeadLetter(x)'
    BY DEF InDeadLetter
  <2>4. \A x : InBuffer(x)' <=> x \in RowIds(buffer')
    BY DEF InBuffer, RowIds
  <2> QED BY <1>0, <2>1, <2>2, <2>3, <2>4 DEF NothingVanishes, ReportIds
<1>5. BatchTried'
  <2>1. \A h \in handlers' : h.no # 0
    BY <1>2 DEF PipelineTypeOK, Handler
  <2> QED BY <1>1, <2>1 DEF BatchTried
<1>6. BufferSound'
  <2>1. \A p \in buffer' : p.id \in ReportIds'
    BY <1>0 DEF PipelineInv, BufferSound, ReportIds
  <2> QED BY <1>1, <2>1 DEF BufferSound
<1>7. SeenInBatch'
  <2>1. \A x : Seen(x)' => Seen(x)
    BY <1>0 DEF Seen
  <2> SUFFICES ASSUME NEW x \in ReportIds', NEW y \in buffer', Seen(x)', y.id < x
               PROVE  x \in RowIds(Oldest(BatchSize))'
    BY <1>1 DEF SeenInBatch
  <2>2. PICK r \in buffer : r.id = y.id
    OBVIOUS
  <2>3. x \in RowIds(fwd.rows)
    BY <1>0, <2>1, <2>2 DEF PipelineInv, SeenInBatch, ReportIds
  <2>4. PICK q \in fwd.rows : q.id = x
    BY <2>3 DEF RowIds
  <2>5. PICK p \in buffer' : p.id = x
    BY <2>4
  <2>6. Cardinality(Before(x)) < BatchSize /\ RowIds(buffer) \subseteq 1..MaxReports
    BY <2>4, OldestIs DEF PipelineInv, BufferSound
  <2>7. Before(x)' \subseteq Before(x) /\ Before(x) \subseteq 1..MaxReports
    BY <2>6 DEF Before, RowIds
  <2>8. Cardinality(Before(x)') < BatchSize
    <3> DEFINE A == Before(x)'
    <3> DEFINE B == Before(x)
    <3>1. A \subseteq B /\ B \subseteq 1..MaxReports /\ Cardinality(B) < BatchSize
      BY <2>6, <2>7
    <3> HIDE DEF A, B
    <3>2. Cardinality(A) <= Cardinality(B) /\ Cardinality(A) \in Nat /\ Cardinality(B) \in Nat
      BY <3>1, FewerNumbers
    <3>3. Cardinality(A) < BatchSize
      BY <3>1, <3>2, PipelineAssumption
    <3> QED BY <3>3 DEF A
  <2>9. p \in Oldest(BatchSize)'
    BY <2>5, <2>8 DEF Oldest, Before
  <2> QED BY <2>5, <2>9 DEF RowIds
<1>8. ASSUME ~disturbed' PROVE OneRequest'
  BY <1>0, <1>8, FewerRequests DEF PipelineInv
<1> QED BY <1>2, <1>3, <1>4, <1>5, <1>6, <1>7, <1>8, Zenon DEF PipelineInv

\* The buffer as it was.
LEMMA KeptStep ==
    ASSUME PipelineInv, fwd.at # "idle", fwd' = Idle, Failure,
           UNCHANGED <<keys, reports, buffer, dead, handlers, api, disturbed>>
    PROVE  PipelineInv'
<1>1. failures' \in 0..MaxFailures
  BY FailureCounts DEF PipelineInv
<1>2. buffer \subseteq Row(MaxAttempts) /\ dead \subseteq Row(MaxAttempts + 1)
  BY DEF PipelineInv, PipelineTypeOK
<1>3. \A r, q \in buffer' : r.id <= q.id => q.attempts <= r.attempts
  BY DEF PipelineInv, BufferSound
<1>4. \A q \in fwd.rows : q \in buffer'
  BY BatchInBuffer DEF PipelineInv
<1> QED BY <1>1, <1>2, <1>3, <1>4, SettleStep

\* All the rows of the batch leave.
LEMMA GoneStep ==
    ASSUME PipelineInv, fwd.at # "idle", fwd' = Idle,
           UNCHANGED <<keys, reports, handlers, api, disturbed, failures>>,
           buffer' = Without(buffer, RowIds(fwd.rows)),
           dead \subseteq dead', dead' \subseteq Row(MaxAttempts + 1),
           \A r \in fwd.rows : r.id \in tried \/ \E d \in dead' : d.id = r.id
    PROVE  PipelineInv'
<1>0. failures' \in 0..MaxFailures /\ buffer \subseteq Row(MaxAttempts)
  BY DEF PipelineInv, PipelineTypeOK
<1>1. \A r : r \in buffer' <=> r \in buffer /\ r.id \notin RowIds(fwd.rows)
  BY DEF Without
<1>2. buffer' \subseteq buffer
  BY <1>1
<1>3. buffer' \subseteq Row(MaxAttempts) /\ \A p \in buffer' : \E r \in buffer : r.id = p.id
  BY <1>0, <1>2
<1>4. \A r, q \in buffer' : r.id <= q.id => q.attempts <= r.attempts
  BY <1>2 DEF PipelineInv, BufferSound
<1>5. \A q \in fwd.rows : \A y \in buffer' : ~(y.id < q.id)
  <2> SUFFICES ASSUME NEW q \in fwd.rows, NEW y \in buffer', y.id < q.id PROVE FALSE
    OBVIOUS
  <2>1. q \in buffer /\ y \in buffer
    BY <1>2, BatchInBuffer DEF PipelineInv
  <2>2. y.id \in Nat /\ q.id \in Nat
    BY <2>1, OldestIs DEF PipelineInv
  <2>3. y \in fwd.rows
    BY <2>1, <2>2 DEF PipelineInv, BufferSound
  <2> QED BY <1>1, <2>3 DEF RowIds
<1>6. \A r \in buffer : r \in buffer' \/ (\E d \in dead' : d.id = r.id) \/ r.id \in tried
  BY <1>1 DEF RowIds
<1> QED BY <1>0, <1>3, <1>4, <1>5, <1>6, SettleStep

LEMMA DeadRows ==
    ASSUME PipelineTypeOK, NEW rows, rows \subseteq Row(MaxAttempts),
           dead' = dead \cup {Again(r) : r \in rows}
    PROVE  /\ dead \subseteq dead' /\ dead' \subseteq Row(MaxAttempts + 1)
           /\ \A r \in rows : \E d \in dead' : d.id = r.id
<1>1. \A r \in rows : Again(r) \in Row(MaxAttempts + 1) /\ Again(r).id = r.id
  BY RowAgain, PipelineAssumption
<1> QED BY <1>1 DEF PipelineTypeOK

LEMMA DeliveredStep ==
    ASSUME PipelineInv, MarkDelivered PROVE PipelineInv'
<1>0. /\ fwd.at = "answered" /\ fwd.status = "202" /\ fwd' = Idle
      /\ UNCHANGED <<keys, reports, dead, handlers, api, disturbed>>
  BY DEF MarkDelivered
<1>1. CASE buffer' = Without(buffer, RowIds(fwd.rows)) /\ UNCHANGED failures
  <2>1. \A r \in fwd.rows : r.id \in tried
    BY <1>0 DEF PipelineInv, BatchTried, RowIds
  <2>2. dead' \subseteq Row(MaxAttempts + 1)
    BY <1>0 DEF PipelineInv, PipelineTypeOK
  <2> QED BY <1>0, <1>1, <2>1, <2>2, GoneStep
<1>2. CASE Failure /\ UNCHANGED buffer
  BY <1>0, <1>2, KeptStep
<1> QED BY <1>1, <1>2 DEF MarkDelivered

LEMMA BatchTyped ==
    ASSUME PipelineInv
    PROVE  fwd.rows \subseteq buffer /\ fwd.rows \subseteq Row(MaxAttempts)
BY BatchInBuffer DEF PipelineInv, PipelineTypeOK

LEMMA RejectedStep ==
    ASSUME PipelineInv, Rejected PROVE PipelineInv'
<1>0. /\ fwd.at = "answered" /\ fwd' = Idle /\ UNCHANGED <<keys, reports, handlers, api, disturbed>>
      /\ MoveToDeadLetter(fwd.rows, buffer)
  BY DEF Rejected
<1>1. CASE /\ dead' = dead \cup {Again(r) : r \in fwd.rows}
           /\ buffer' = Without(buffer, RowIds(fwd.rows)) /\ UNCHANGED failures
  <2>1. /\ dead \subseteq dead' /\ dead' \subseteq Row(MaxAttempts + 1)
        /\ \A r \in fwd.rows : \E d \in dead' : d.id = r.id
    <3>1. PICK rows : rows = fwd.rows
      OBVIOUS
    <3>2. rows \subseteq Row(MaxAttempts) /\ dead' = dead \cup {Again(r) : r \in rows} /\ PipelineTypeOK
      BY <1>1, <3>1, BatchTyped DEF PipelineInv
    <3>3. /\ dead \subseteq dead' /\ dead' \subseteq Row(MaxAttempts + 1)
          /\ \A r \in rows : \E d \in dead' : d.id = r.id
      BY <3>2, DeadRows
    <3> QED BY <3>1, <3>3
  <2> QED BY <1>0, <1>1, <2>1, GoneStep
<1>2. CASE Failure /\ buffer' = buffer /\ UNCHANGED dead
  BY <1>0, <1>2, KeptStep
<1> QED BY <1>0, <1>1, <1>2 DEF MoveToDeadLetter

\* The rows of a batch that may be tried again, and the buffer when their
\* attempts are counted.
MayRetry(r) == r \in fwd.rows /\ r.attempts + 1 <= MaxAttempts
UsedUp == {r \in fwd.rows : r.attempts + 1 > MaxAttempts}

LEMMA AttemptedIs ==
    ASSUME PipelineInv, NEW dl, dl = UsedUp,
           NEW retry, retry = RowIds(fwd.rows) \ RowIds(dl),
           NEW A, A = Attempted(retry)
    PROVE  /\ \A r \in buffer : r.id \in retry <=> MayRetry(r)
           /\ \A r \in buffer : r.id \in RowIds(dl) <=> r \in dl
           /\ \A p \in A : \E r \in buffer :
                 /\ p.id = r.id
                 /\ \/ p = r /\ ~MayRetry(r)
                    \/ p = Again(r) /\ p.attempts = r.attempts + 1 /\ MayRetry(r)
           /\ \A r \in buffer : \E p \in A : p.id = r.id
           /\ A \subseteq Row(MaxAttempts)
<1>0. PipelineTypeOK /\ BufferSound /\ MaxAttempts \in Nat
  BY PipelineAssumption DEF PipelineInv
<1>1. \A r, q \in buffer : r.id = q.id => r = q
  BY <1>0, UniqueRows
<1>2. fwd.rows \subseteq buffer /\ \A r \in buffer : r \in Row(MaxAttempts) /\ r.attempts \in Nat
  BY <1>0, BatchInBuffer DEF PipelineTypeOK, Row
<1>3. \A r \in buffer : r.id \in RowIds(dl) <=> r \in dl
  BY <1>1, <1>2 DEF RowIds, UsedUp
<1>4. \A r \in buffer : r.id \in RowIds(fwd.rows) <=> r \in fwd.rows
  BY <1>1, <1>2 DEF RowIds
<1>5. \A r \in buffer : r.attempts + 1 > MaxAttempts <=> ~(r.attempts + 1 <= MaxAttempts)
  BY <1>0, <1>2
<1>6. \A r \in buffer : r.id \in retry <=> MayRetry(r)
  BY <1>3, <1>4, <1>5 DEF MayRetry, UsedUp
<1>7. \A r \in buffer : Again(r).id = r.id /\ Again(r).attempts = r.attempts + 1
  BY <1>0, <1>2, RowAgain
<1>8. A = {r \in buffer : r.id \notin retry} \cup {Again(r) : r \in {q \in buffer : q.id \in retry}}
  BY DEF Attempted, Without
<1>9. \A p \in A : \E r \in buffer :
         /\ p.id = r.id
         /\ \/ p = r /\ ~MayRetry(r)
            \/ p = Again(r) /\ p.attempts = r.attempts + 1 /\ MayRetry(r)
  BY <1>6, <1>7, <1>8
<1>10. \A r \in buffer : \E p \in A : p.id = r.id
  BY <1>7, <1>8
<1>11. \A r \in buffer : MayRetry(r) => Again(r) \in Row(MaxAttempts)
  <2> SUFFICES ASSUME NEW r \in buffer, MayRetry(r) PROVE Again(r) \in Row(MaxAttempts)
    OBVIOUS
  <2>1. r \in Row(MaxAttempts) /\ r.attempts + 1 \in 0..MaxAttempts
    BY <1>0, <1>2 DEF MayRetry
  <2> QED BY <2>1 DEF Row, Again
<1>12. A \subseteq Row(MaxAttempts)
  BY <1>2, <1>9, <1>11
<1> QED BY <1>3, <1>6, <1>9, <1>10, <1>12

LEMMA AttemptedOrder ==
    ASSUME PipelineInv, NEW r \in buffer, NEW q \in buffer, r.id <= q.id, NEW p, NEW o,
           \/ p = r /\ ~MayRetry(r)
           \/ p.attempts = r.attempts + 1 /\ MayRetry(r),
           \/ o = q /\ ~MayRetry(q)
           \/ o.attempts = q.attempts + 1 /\ MayRetry(q)
    PROVE  o.attempts <= p.attempts
<1>1. q.attempts <= r.attempts /\ (q \in fwd.rows => r \in fwd.rows)
  BY DEF PipelineInv, BufferSound
<1>2. r.attempts \in Nat /\ q.attempts \in Nat /\ MaxAttempts \in Nat
  BY PipelineAssumption DEF PipelineInv, PipelineTypeOK, Row
<1> QED BY <1>1, <1>2 DEF MayRetry

LEMMA FailedStep ==
    ASSUME PipelineInv, MarkFailed PROVE PipelineInv'
<1>d. PICK dl : dl = UsedUp
  OBVIOUS
<1>r. PICK retry : retry = RowIds(fwd.rows) \ RowIds(dl)
  OBVIOUS
<1>a. PICK A : A = Attempted(retry)
  OBVIOUS
<1>0. /\ fwd.at = "answered" /\ fwd' = Idle /\ UNCHANGED <<keys, reports, handlers, api, disturbed>>
      /\ MoveToDeadLetter(dl, A) \/ (Failure /\ UNCHANGED <<buffer, dead>>)
  BY <1>d, <1>r, <1>a DEF MarkFailed, UsedUp
<1>1. /\ \A r \in buffer : r.id \in retry <=> MayRetry(r)
      /\ \A r \in buffer : r.id \in RowIds(dl) <=> r \in dl
      /\ \A p \in A : \E r \in buffer :
            /\ p.id = r.id
            /\ \/ p = r /\ ~MayRetry(r)
               \/ p = Again(r) /\ p.attempts = r.attempts + 1 /\ MayRetry(r)
      /\ \A r \in buffer : \E p \in A : p.id = r.id
      /\ A \subseteq Row(MaxAttempts)
  <2>1. PipelineInv
    OBVIOUS
  <2> QED BY ONLY <1>d, <1>r, <1>a, <2>1, AttemptedIs
<1>2. \A p, o \in A : p.id <= o.id => o.attempts <= p.attempts
  <2> SUFFICES ASSUME NEW p \in A, NEW o \in A, p.id <= o.id PROVE o.attempts <= p.attempts
    OBVIOUS
  <2>1. PICK r \in buffer :
            /\ p.id = r.id
            /\ \/ p = r /\ ~MayRetry(r)
               \/ p = Again(r) /\ p.attempts = r.attempts + 1 /\ MayRetry(r)
    BY <1>1
  <2>2. PICK q \in buffer :
            /\ o.id = q.id
            /\ \/ o = q /\ ~MayRetry(q)
               \/ o = Again(q) /\ o.attempts = q.attempts + 1 /\ MayRetry(q)
    BY <1>1
  <2>3. r.id <= q.id
    BY <2>1, <2>2
  <2> QED BY <2>1, <2>2, <2>3, AttemptedOrder
<1>3. dl \subseteq Row(MaxAttempts) /\ dl \subseteq buffer /\ fwd.rows \subseteq buffer
  BY <1>d, BatchTyped DEF UsedUp
<1>4. CASE Failure /\ UNCHANGED <<buffer, dead>>
  BY <1>0, <1>4, KeptStep
<1>5. CASE Failure /\ buffer' = A /\ UNCHANGED dead
  <2>1. failures' \in 0..MaxFailures
    BY <1>5, FailureCounts DEF PipelineInv
  <2>2. dead' \subseteq Row(MaxAttempts + 1) /\ dead \subseteq dead'
    BY <1>5 DEF PipelineInv, PipelineTypeOK
  <2>3. \A p \in buffer' : \E r \in buffer : r.id = p.id
    BY <1>1, <1>5
  <2>4. \A q \in fwd.rows : \E p \in buffer' : p.id = q.id
    BY <1>1, <1>3, <1>5
  <2> QED BY <1>0, <1>1, <1>2, <1>5, <2>1, <2>2, <2>3, <2>4, SettleStep
<1>6. CASE /\ dead' = dead \cup {Again(r) : r \in dl} /\ buffer' = Without(A, RowIds(dl))
           /\ UNCHANGED failures
  <2>1. /\ dead \subseteq dead' /\ dead' \subseteq Row(MaxAttempts + 1)
        /\ \A r \in dl : \E d \in dead' : d.id = r.id
    BY <1>3, <1>6, DeadRows DEF PipelineInv
  <2>2. failures' \in 0..MaxFailures
    BY <1>6 DEF PipelineInv, PipelineTypeOK
  <2>3. \A p : p \in buffer' <=> p \in A /\ p.id \notin RowIds(dl)
    BY <1>6 DEF Without
  <2>4. buffer' \subseteq Row(MaxAttempts) /\ \A p \in buffer' : \E r \in buffer : r.id = p.id
    BY <1>1, <2>3
  <2>5. \A p, o \in buffer' : p.id <= o.id => o.attempts <= p.attempts
    BY <1>2, <2>3
  <2>6. \A r \in buffer : r \notin dl => \E p \in buffer' : p.id = r.id
    BY <1>1, <2>3
  <2>7. \A q \in fwd.rows : \A y \in buffer' : y.id < q.id => \E p \in buffer' : p.id = q.id
    <3> SUFFICES ASSUME NEW q \in fwd.rows, NEW y \in buffer', y.id < q.id PROVE q \notin dl
      BY <1>3, <2>6
    <3>1. PICK r \in buffer : r.id = y.id
      BY <2>4
    <3>2. r \notin dl
      BY <1>1, <2>3, <3>1
    <3>3. q \in buffer /\ r.id \in Nat /\ q.id \in Nat
      BY <1>3, <3>1, OldestIs DEF PipelineInv
    <3>4. r \in fwd.rows /\ q.attempts <= r.attempts
      BY <3>1, <3>3 DEF PipelineInv, BufferSound
    <3>5. r.attempts \in Nat /\ q.attempts \in Nat /\ MaxAttempts \in Nat
      BY <3>3, PipelineAssumption DEF PipelineInv, PipelineTypeOK, Row
    <3> QED BY <1>d, <3>2, <3>4, <3>5 DEF UsedUp
  <2>8. \A r \in buffer : (\E p \in buffer' : p.id = r.id) \/ (\E d \in dead' : d.id = r.id)
    BY <2>1, <2>6
  <2> QED BY <1>0, <2>1, <2>2, <2>4, <2>5, <2>7, <2>8, SettleStep
<1> QED BY <1>0, <1>4, <1>5, <1>6 DEF MoveToDeadLetter

-----------------------------------------------------------------------------
LEMMA PipelineStep == PipelineInv /\ [PipelineNext]_pipelineVars => PipelineInv'
<1> SUFFICES ASSUME PipelineInv, [PipelineNext]_pipelineVars PROVE PipelineInv'
  BY Zenon
<1>1. ASSUME NEW a \in Agents, RevokeKey(a) PROVE PipelineInv'
  <2>1. keys' \in [Keys -> {"none", "active", "revoked"}]
    BY <1>1 DEF RevokeKey, PipelineInv, PipelineTypeOK
  <2> QED BY <1>1, <2>1, KeysStep DEF RevokeKey
<1>2. ASSUME NEW k \in Keys, RegisterKey(k) PROVE PipelineInv'
  <2>1. keys' \in [Keys -> {"none", "active", "revoked"}]
    BY <1>2 DEF RegisterKey, PipelineInv, PipelineTypeOK
  <2> QED BY <1>2, <2>1, KeysStep DEF RegisterKey
<1>3. CASE Agent
  BY <1>3, IngestStep DEF Agent
<1>4. CASE Forward
  BY <1>4, TickStep, DeliveredStep, RejectedStep, FailedStep DEF Forward
<1>5. CASE Network
  BY <1>5, NotServedStep, TimeoutStep DEF Network
<1>6. CASE IngestBatch
  <2>1. PICK h \in handlers :
        \/ Refuse(h) \/ ItemFails(h) \/ UpsertAgentEndpoint(h)
        \/ ResolvePasteSourceEndpoint(h) \/ ValidatePasteEvent(h) \/ BatchInsertPasteEvents(h) \/ DeleteStale(h)
        \/ InsertEndpointReport(h) \/ InsertNormalised(h) \/ Reply(h) \/ Cancelled(h)
    BY <1>6 DEF IngestBatch
  <2>2. CASE ValidatePasteEvent(h)
    <3>1. AtItem(h, "paste") /\ IsRelay(Current(h)) /\ NextItem(h) /\ pastes' = pastes
      BY <2>2 DEF ValidatePasteEvent, IsRelay
    <3> QED BY <2>2, <3>1, PasteStep DEF ValidatePasteEvent
  <2>3. CASE BatchInsertPasteEvents(h)
    <3>1. AtItem(h, "paste") /\ IsRelay(Current(h)) /\ NextItem(h)
      BY <2>3 DEF BatchInsertPasteEvents, IsRelay
    <3> QED BY <2>3, <3>1, PasteStep DEF BatchInsertPasteEvents
  <2>4. CASE Refuse(h)
    BY <2>4, NotServedStep
  <2>5. CASE ItemFails(h) \/ UpsertAgentEndpoint(h) \/ ResolvePasteSourceEndpoint(h)
    BY <2>5, ItemFailsStep, UpsertStep, ResolveStep
  <2>6. CASE DeleteStale(h) \/ InsertEndpointReport(h) \/ InsertNormalised(h)
    BY <2>6, DeleteStep, InsertReportStep, NormaliseStep
  <2>7. CASE Reply(h) \/ Cancelled(h)
    BY <2>7, ReplyStep, CancelledStep
  <2> QED BY <2>1, <2>2, <2>3, <2>4, <2>5, <2>6, <2>7
<1>7. CASE CollectorRestart
  BY <1>7, KeptStep DEF CollectorRestart, collector
<1>8. CASE APIRestart
  BY <1>8, APIRestartStep
<1>9. CASE UNCHANGED pipelineVars
  <2>1. keys' \in [Keys -> {"none", "active", "revoked"}]
    BY <1>9 DEF pipelineVars, collector, PipelineInv, PipelineTypeOK
  <2> QED BY <1>9, <2>1, KeysStep DEF pipelineVars, collector
<1>10. CASE TickEmpty
  BY <1>9, <1>10 DEF TickEmpty
<1> QED
  BY <1>1, <1>2, <1>3, <1>4, <1>5, <1>6, <1>7, <1>8, <1>9, <1>10 DEF PipelineNext, Admin

\* The types of the buffer, the requests and the tables, and what the pipeline
\* rests on: the order of the attempts, the batch at the head of the buffer and
\* the one request at a time.
THEOREM PipelineSound == PipelineSpec => []PipelineInv
BY PipelineStart, PipelineStep, PTL DEF PipelineSpec

\* No report that was accepted vanishes: it is in the buffer or in dead_letter,
\* or the API has worked on it, for any number of agents, reports, requests and
\* failures, any size of a batch and any limit of attempts (tick, IngestBatch).
THEOREM NoReportVanishes == PipelineSpec => []NothingVanishes
<1>1. PipelineInv => NothingVanishes
  BY DEF PipelineInv
<1> QED BY <1>1, PipelineSound, PTL

\* Of the rows of an agent the last one is LastOf, and Latest finds it.
LEMMA LatestIs ==
    ASSUME PipelineTypeOK, NEW a \in Agents
    PROVE  \/ Latest(a) = 0 /\ LastOf(a) = {} /\ \A i \in DOMAIN stored : AgentAt(i) # a
           \/ Latest(a) # 0 /\ LastOf(a) = {Latest(a)}
<1> DEFINE rows == {i \in DOMAIN stored : AgentAt(i) = a}
<1>0. PICK n \in Nat : n = Len(stored)
  BY DEF PipelineTypeOK
<1>1. \A i \in rows : i \in Nat /\ i > 0 /\ n - i \in Nat
  <2>1. \A i \in DOMAIN stored : i \in 1..n
    BY <1>0 DEF PipelineTypeOK
  <2> QED BY <2>1
<1>2. Latest(a) = IF rows = {} THEN 0 ELSE CHOOSE i \in rows : \A j \in rows : j <= i
  BY DEF Latest, AgentAt
<1>3. LastOf(a) = {j \in rows : \A k \in rows : k <= j}
  BY DEF LastOf
<1> HIDE DEF rows
<1>4. CASE rows = {}
  <2>1. \A i \in DOMAIN stored : AgentAt(i) # a
    BY <1>4 DEF rows
  <2> QED BY <1>2, <1>3, <1>4, <2>1
<1>5. CASE rows # {}
  <2> DEFINE T == {n - i : i \in rows}
  <2>1. T \subseteq Nat /\ T # {}
    BY <1>1, <1>5
  <2>2. PICK x \in T : \A y \in T : x <= y
    BY <2>1, LeastNumber
  <2>3. PICK i \in rows : x = n - i
    BY <2>2
  <2>4. \A j \in rows : j <= i
    <3> TAKE j \in rows
    <3>1. n - j \in T
      OBVIOUS
    <3> QED BY <1>1, <2>2, <2>3, <3>1
  <2> HIDE DEF T
  <2>5. Latest(a) \in rows /\ \A j \in rows : j <= Latest(a)
    BY <1>2, <1>5, <2>4
  <2>6. \A j \in rows : (\A k \in rows : k <= j) => j = Latest(a)
    BY <1>1, <2>5
  <2> QED BY <1>1, <1>3, <2>5, <2>6
<1> QED BY <1>4, <1>5

LEMMA ViewFromInv == PipelineInv => OneViewOfAnEndpoint
<1> SUFFICES ASSUME PipelineInv, ~disturbed, handlers = {}, NEW a \in Agents
             PROVE  /\ normalised[a] = IF Latest(a) = 0 THEN {} ELSE {Latest(a)}
                    /\ \A i \in DOMAIN stored : reports[stored[i]].agent = a => stored[i] <= stored[Latest(a)]
  BY DEF OneViewOfAnEndpoint
<1>1. /\ normalised[a] = LastOf(a)
      /\ \A i, j \in DOMAIN stored : j \in LastOf(AgentAt(i)) => stored[i] <= stored[j]
  BY DEF PipelineInv, OneRequest
<1>2. \/ Latest(a) = 0 /\ LastOf(a) = {} /\ \A i \in DOMAIN stored : AgentAt(i) # a
      \/ Latest(a) # 0 /\ LastOf(a) = {Latest(a)}
  BY LatestIs DEF PipelineInv
<1>3. normalised[a] = IF Latest(a) = 0 THEN {} ELSE {Latest(a)}
  BY <1>1, <1>2
<1>4. ASSUME NEW i \in DOMAIN stored, AgentAt(i) = a PROVE stored[i] <= stored[Latest(a)]
  <2>1. Latest(a) \in LastOf(a)
    BY <1>2, <1>4
  <2>2. Latest(a) \in DOMAIN stored
    BY <2>1 DEF LastOf
  <2> QED BY <1>1, <1>4, <2>1, <2>2
<1> QED BY <1>3, <1>4 DEF AgentAt

LEMMA FiledFromInv == PipelineInv => FiledUnderItsKey
<1> SUFFICES ASSUME PipelineInv PROVE FiledUnderItsKey
  OBVIOUS
<1>1. /\ \A i \in DOMAIN stored : stored[i] \in ReportIds
      /\ \A i \in DOMAIN pastes : pastes[i] \in ReportIds
  BY DEF PipelineInv, FiledSound
<1>2. \A x \in ReportIds : reports[x].key \in Keys => AgentOfKey[reports[x].key] = reports[x].agent
  BY DEF PipelineInv, KeyedReports
<1> QED BY <1>1, <1>2 DEF FiledUnderItsKey

\* A report that came with the key of an agent is filed under that agent, and as
\* long as no two requests overlap and none is cut off amid its batch the
\* normalised tables show one report for each endpoint, the newest, however
\* often its batch was delivered (IngestHandler, processIngestItem).
THEOREM StoredReportsTrue == PipelineSpec => []StoredTruthfully
<1>1. PipelineInv => StoredTruthfully
  BY ViewFromInv, FiledFromInv DEF StoredTruthfully
<1> QED BY <1>1, PipelineSound, PTL

LEMMA KnownStays ==
    ASSUME PipelineTypeOK, [PipelineNext]_pipelineVars, NEW a \in Agents, endpoints[a] = "known"
    PROVE  endpoints'[a] = "known"
<1>1. CASE endpoints' = endpoints
  BY <1>1
<1>2. ASSUME NEW h \in handlers, UpsertAgentEndpoint(h) PROVE endpoints'[a] = "known"
  <2>1. endpoints' = [endpoints EXCEPT ![AgentOf(h)] = "known"]
    BY <1>2 DEF UpsertAgentEndpoint, Relayed
  <2> QED BY <2>1 DEF PipelineTypeOK
<1>3. ASSUME NEW h \in handlers, ResolvePasteSourceEndpoint(h) PROVE endpoints'[a] = "known"
  <2>1. endpoints' = [endpoints EXCEPT ![AgentOf(h)] = IF @ = "absent" THEN "bare" ELSE @]
    BY <1>3 DEF ResolvePasteSourceEndpoint
  <2> QED BY <2>1 DEF PipelineTypeOK
<1>4. CASE Admin \/ Agent \/ Forward \/ Network \/ CollectorRestart \/ APIRestart \/ TickEmpty
  <2>1. endpoints' = endpoints
    BY <1>4 DEF Admin, RevokeKey, RegisterKey, Agent, IngestHandler, Forward, Tick, MarkDelivered,
                Rejected, MarkFailed, Network, Unreachable, Timeout, CollectorRestart, APIRestart,
                TickEmpty, pipelineVars, api
  <2> QED BY <1>1, <2>1
<1>5. CASE IngestBatch
  <2>1. PICK h \in handlers :
        \/ Refuse(h) \/ ItemFails(h) \/ UpsertAgentEndpoint(h)
        \/ ResolvePasteSourceEndpoint(h) \/ ValidatePasteEvent(h) \/ BatchInsertPasteEvents(h) \/ DeleteStale(h)
        \/ InsertEndpointReport(h) \/ InsertNormalised(h) \/ Reply(h) \/ Cancelled(h)
    BY <1>5 DEF IngestBatch
  <2>2. CASE \/ Refuse(h) \/ ItemFails(h) \/ ValidatePasteEvent(h) \/ BatchInsertPasteEvents(h)
             \/ DeleteStale(h) \/ InsertEndpointReport(h) \/ InsertNormalised(h) \/ Reply(h) \/ Cancelled(h)
    <3>1. endpoints' = endpoints
      BY <2>2 DEF Refuse, ItemFails, ValidatePasteEvent, BatchInsertPasteEvents, DeleteStale,
                  InsertEndpointReport, InsertNormalised, Reply, Cancelled, api
    <3> QED BY <1>1, <3>1
  <2> QED BY <1>2, <1>3, <2>1, <2>2
<1>6. CASE UNCHANGED pipelineVars
  BY <1>1, <1>6 DEF pipelineVars, api
<1> QED BY <1>4, <1>5, <1>6 DEF PipelineNext

\* No step blanks what a scan has told of an endpoint: a paste event makes a row
\* only where there is none (ResolvePasteSourceEndpoint, UpsertAgentEndpoint).
THEOREM MetadataNeverBlanked == PipelineSpec => MetadataKept
<1>1. PipelineInv /\ [PipelineNext]_pipelineVars =>
          [\A a \in Agents : endpoints[a] = "known" => endpoints'[a] = "known"]_pipelineVars
  BY KnownStays DEF PipelineInv
<1> QED BY <1>1, PipelineSound, PTL DEF PipelineSpec, MetadataKept

=============================================================================
