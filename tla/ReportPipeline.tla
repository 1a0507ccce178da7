--------------------------- MODULE ReportPipeline ---------------------------
(***************************************************************************)
(* The way of a report: an endpoint agent posts it to the collector, which  *)
(* checks the sender's key and buffers it in SQLite; the forwarder sends    *)
(* the oldest rows in batches to eami-api; the API stores each report of a  *)
(* batch in a row of statements without a transaction.  A batch is sent     *)
(* again until it is answered, and its rows go to dead_letter when the API  *)
(* refuses them or the attempts are used up.                                *)
(*                                                                          *)
(* Abstractions: a report is a number, in the order in which the collector  *)
(* buffers them (received_at).  Requests the collector refuses or fails to  *)
(* buffer change nothing and are left out; the agent does not repeat them.  *)
(* The normalised tables of an endpoint hold the numbers of the             *)
(* endpoint_reports rows their rows point to.  A stored row that cannot be  *)
(* unzipped is left out: only damage to the file makes one.                 *)
(***************************************************************************)
EXTENDS Integers, Sequences, FiniteSets

CONSTANTS
    Agents, Keys, NoKey,
    AgentOfKey,   \* the agent each key is minted for
    StaticKey,    \* the key of the whole fleet, or NoKey when it is not configured
    BatchSize, MaxAttempts,
    MaxReports,   \* bound on reports; no key changes once they are used up
    MaxOverlap,   \* bound on requests at the API at one time
    MaxFailures     \* bound on crashes and failed statements

ASSUME PipelineAssumption ==
    /\ BatchSize \in Nat \ {0} /\ MaxAttempts \in Nat
    /\ AgentOfKey \in [Keys -> Agents]
    /\ MaxOverlap \in Nat \ {0} /\ MaxReports \in Nat /\ MaxFailures \in Nat
    /\ NoKey \notin Agents \cup Keys /\ StaticKey \notin Keys

VARIABLES
    keys,       \* the collector's api_keys: the state of each
    reports,    \* the reports accepted: claimed agent, kind and key
    buffer,     \* report_buffer, oldest first
    dead,       \* dead_letter
    fwd,        \* the forwarder's tick
    handlers,   \* IngestBatch requests being served
    endpoints,  \* endpoints: what each row knows of its machine
    stored,     \* endpoint_reports, in the order of received_at
    normalised, \* endpoint_ai_apps, endpoint_model_files, endpoint_mcp_servers
    pastes,     \* paste_events: the reports they came in
    tried,      \* history: reports the API has stored, or failed on, in this batch or that
    disturbed,  \* history: two requests overlapped, or one failed or ended amid a batch
    failures

collector == <<keys, reports, buffer, dead>>
api == <<endpoints, stored, normalised, pastes, tried>>
pipelineVars == <<collector, fwd, handlers, api, disturbed, failures>>

ReportIds == 1..Len(reports)
Row(n) == [id : 1..MaxReports, attempts : 0..n]
Sending == [at : {"idle", "sending", "answered"}, rows : SUBSET Row(MaxAttempts),
          status : {"none", "202", "4xx", "error"}, req : 0..MaxOverlap]
Idle == [at |-> "idle", rows |-> {}, status |-> "none", req |-> 0]
Stages == {"start", "item", "paste", "delete", "report", "normalise"}
\* A request: its number, the reports left of its batch, the statement that is next
\* and the endpoint_reports row it has inserted (0 when none).
Handler == [no : 1..MaxOverlap, items : SUBSET (1..MaxReports), at : Stages, row : Nat]
Kinds == {"scan", "paste", "invalid"}   \* invalid: a paste event the API will not take
IsRelay(id) == reports[id].kind # "scan"

Failure == failures < MaxFailures /\ failures' = failures + 1
RowIds(rows) == {r.id : r \in rows}
\* The first n rows by received_at.
Oldest(n) == {r \in buffer : Cardinality({i \in RowIds(buffer) : i < r.id}) < n}

PipelineTypeOK ==
    /\ keys \in [Keys -> {"none", "active", "revoked"}]
    /\ reports \in Seq([agent : Agents, kind : Kinds, key : Keys \cup {StaticKey}])
    /\ Len(reports) <= MaxReports
    /\ buffer \subseteq Row(MaxAttempts) /\ dead \subseteq Row(MaxAttempts + 1)
    /\ fwd \in Sending /\ handlers \subseteq Handler
    /\ endpoints \in [Agents -> {"absent", "bare", "known"}]
    /\ stored \in Seq(1..MaxReports) /\ pastes \in Seq(1..MaxReports)
    /\ normalised \in [Agents -> SUBSET Nat]
    /\ tried \subseteq 1..MaxReports /\ disturbed \in BOOLEAN /\ failures \in 0..MaxFailures

PipelineInit ==
    /\ keys = [k \in Keys |-> "none"]
    /\ reports = <<>> /\ buffer = {} /\ dead = {}
    /\ fwd = Idle /\ handlers = {}
    /\ endpoints = [a \in Agents |-> "absent"] /\ normalised = [a \in Agents |-> {}]
    /\ stored = <<>> /\ pastes = <<>> /\ tried = {} /\ disturbed = FALSE
    /\ failures = 0
-----------------------------------------------------------------------------
MoreReports == Len(reports) < MaxReports

(* The collector's command line: mint-key and revoke-key. *)
ActiveKeys(a) == {k \in Keys : keys[k] = "active" /\ AgentOfKey[k] = a}

RegisterKey(k) ==
    /\ MoreReports
    /\ keys[k] = "none" /\ ActiveKeys(AgentOfKey[k]) = {}
    /\ keys' = [keys EXCEPT ![k] = "active"]
    /\ UNCHANGED <<reports, buffer, dead, fwd, handlers, api, disturbed, failures>>

RevokeKey(a) ==
    /\ MoreReports
    /\ ActiveKeys(a) # {}
    /\ keys' = [k \in Keys |-> IF k \in ActiveKeys(a) THEN "revoked" ELSE keys[k]]
    /\ UNCHANGED <<reports, buffer, dead, fwd, handlers, api, disturbed, failures>>

\* A request passes with the static key, or with an active key of an agent.
Authenticated(k) == k = StaticKey \/ (k \in Keys /\ keys[k] = "active")

\* A key bound to an agent speaks for that agent alone.
Claimable(k, a) == k \in Keys => AgentOfKey[k] = a

(* POST /v1/ingest: Send of a scan report, or of a paste event by the native-messaging host. *)
IngestHandler(k, a, kind) ==
    /\ MoreReports
    /\ k # NoKey /\ Authenticated(k) /\ Claimable(k, a)
    /\ reports' = Append(reports, [agent |-> a, kind |-> kind, key |-> k])
    /\ buffer' = buffer \cup {[id |-> Len(reports) + 1, attempts |-> 0]}
    /\ UNCHANGED <<keys, dead, fwd, handlers, api, disturbed, failures>>
-----------------------------------------------------------------------------
(* The forwarder's tick: fetchBatch and sendBatch, then what the answer calls for. *)
FirstFree(n) ==
    (\A h \in handlers : h.no # n) /\ \A m \in 1..(n-1) : \E h \in handlers : h.no = m

Tick ==
    /\ fwd.at = "idle" /\ buffer # {}
    /\ \E n \in 1..MaxOverlap :
          /\ FirstFree(n)
          /\ fwd' = [at |-> "sending", rows |-> Oldest(BatchSize), status |-> "none", req |-> n]
          /\ handlers' = handlers \cup {[no |-> n, items |-> RowIds(Oldest(BatchSize)),
                                         at |-> "start", row |-> 0]}
    /\ disturbed' = (disturbed \/ handlers # {})
    /\ UNCHANGED <<collector, api, failures>>

TickEmpty == fwd.at = "idle" /\ buffer = {} /\ UNCHANGED pipelineVars

Answered(s) == fwd' = [fwd EXCEPT !.at = "answered", !.status = s, !.req = 0]
Waited(h) == fwd.req = h.no

\* The request does not arrive.
Unreachable(h) ==
    /\ Waited(h) /\ h.at = "start"
    /\ handlers' = handlers \ {h} /\ Answered("error")
    /\ UNCHANGED <<collector, api, disturbed, failures>>

\* The client gives up, or the answer is lost, while the API is at work or has done all.
Timeout(h) ==
    /\ Waited(h) /\ h.at # "start"
    /\ Answered("error")
    /\ UNCHANGED <<collector, handlers, api, disturbed, failures>>

Without(rows, gone) == {r \in rows : r.id \notin gone}

\* markDelivered deletes the rows; when that fails they stay.
MarkDelivered ==
    /\ fwd.at = "answered" /\ fwd.status = "202"
    /\ \/ buffer' = Without(buffer, RowIds(fwd.rows)) /\ UNCHANGED failures
       \/ Failure /\ UNCHANGED buffer
    /\ fwd' = Idle
    /\ UNCHANGED <<keys, reports, dead, handlers, api, disturbed>>

Again(r) == [r EXCEPT !.attempts = @ + 1]

\* One transaction: into dead_letter with one attempt more, and out of the buffer.
MoveToDeadLetter(rows, buf) ==
    \/ /\ dead' = dead \cup {Again(r) : r \in rows}
       /\ buffer' = Without(buf, RowIds(rows))
       /\ UNCHANGED failures
    \/ rows # {} /\ Failure /\ buffer' = buf /\ UNCHANGED dead

Rejected ==
    /\ fwd.at = "answered" /\ fwd.status = "4xx"
    /\ MoveToDeadLetter(fwd.rows, buffer)
    /\ fwd' = Idle
    /\ UNCHANGED <<keys, reports, handlers, api, disturbed>>

Attempted_Once(retry) == buffer
\* attempts=attempts+1 for the rows that may be tried again.
Attempted(retry) ==
    Without(buffer, retry) \cup {Again(r) : r \in {q \in buffer : q.id \in retry}}

MarkFailed ==
    /\ fwd.at = "answered" /\ fwd.status = "error"
    /\ LET dl == {r \in fwd.rows : r.attempts + 1 > MaxAttempts}
           retry == RowIds(fwd.rows) \ RowIds(dl)
       IN  \/ MoveToDeadLetter(dl, Attempted(retry))
           \/ retry # {} /\ Failure /\ UNCHANGED <<buffer, dead>>
    /\ fwd' = Idle
    /\ UNCHANGED <<keys, reports, handlers, api, disturbed>>

\* The collector stops and starts again: its file stays.
CollectorRestart ==
    /\ fwd.at # "idle" /\ Failure
    /\ fwd' = Idle
    /\ UNCHANGED <<collector, handlers, api, disturbed>>
-----------------------------------------------------------------------------
(* eami-api: POST /v1/ingest/batch. *)
Become(h, at) == handlers' = (handlers \ {h}) \cup {[h EXCEPT !.at = at]}
Current(h) == CHOOSE i \in h.items : \A j \in h.items : i <= j
AgentOf(h) == reports[Current(h)].agent
Midway(h) == h.at # "start" /\ h.items # {}
AtItem(h, at) == h.items # {} /\ (h.at = at \/ (at = "item" /\ h.at = "start"))

\* A wrong service key or no organisation: a 4xx, or a 503.
Refuse(h) ==
    /\ Waited(h) /\ h.at = "start"
    /\ handlers' = handlers \ {h}
    /\ \E s \in {"4xx", "error"} : Answered(s)
    /\ UNCHANGED <<collector, api, disturbed, failures>>

Rest(h) == [h EXCEPT !.items = @ \ {Current(h)}, !.at = "item", !.row = 0]

NextItem_Break(h) ==
    /\ handlers' = (handlers \ {h}) \cup {[h EXCEPT !.items = {}, !.at = "item", !.row = 0]}
    /\ tried' = tried \cup {Current(h)}
\* The loop of IngestBatch goes on, whether the item was stored or not.
NextItem(h) ==
    /\ handlers' = (handlers \ {h}) \cup {Rest(h)}
    /\ tried' = tried \cup {Current(h)}

\* A statement of processIngestItem fails, and with it the item.
ItemFails(h) ==
    /\ AtItem(h, "item") \/ AtItem(h, "report") \/ AtItem(h, "paste")
    /\ Failure /\ disturbed' = TRUE
    /\ NextItem(h)
    /\ UNCHANGED <<collector, fwd, endpoints, stored, normalised, pastes>>

Relayed_Never(id) == FALSE
\* A report with paste_events goes to processPasteEventRelayItem.
Relayed(id) == IsRelay(id)

UpsertAgentEndpoint(h) ==
    /\ AtItem(h, "item") /\ ~Relayed(Current(h))
    /\ endpoints' = [endpoints EXCEPT ![AgentOf(h)] = IF IsRelay(Current(h)) THEN "bare" ELSE "known"]
    /\ Become(h, "delete")
    /\ UNCHANGED <<collector, fwd, stored, normalised, pastes, tried, disturbed, failures>>

ResolvePasteSourceEndpoint(h) ==
    /\ AtItem(h, "item") /\ Relayed(Current(h))
    /\ endpoints' = [endpoints EXCEPT ![AgentOf(h)] = IF @ = "absent" THEN "bare" ELSE @]
    /\ Become(h, "paste")
    /\ UNCHANGED <<collector, fwd, stored, normalised, pastes, tried, disturbed, failures>>

\* None of the events is valid: an error of the item.
ValidatePasteEvent(h) ==
    /\ AtItem(h, "paste") /\ reports[Current(h)].kind = "invalid"
    /\ NextItem(h)
    /\ UNCHANGED <<collector, fwd, endpoints, stored, normalised, pastes, disturbed, failures>>

BatchInsertPasteEvents(h) ==
    /\ AtItem(h, "paste") /\ reports[Current(h)].kind = "paste"
    /\ pastes' = Append(pastes, Current(h))
    /\ NextItem(h)
    /\ UNCHANGED <<collector, fwd, endpoints, stored, normalised, disturbed, failures>>

Stale_Kept(a) == normalised
Stale(a) == [normalised EXCEPT ![a] = {}]

\* DeleteEndpointNormalizedData; a failure is logged and the item goes on.
DeleteStale(h) ==
    /\ AtItem(h, "delete")
    /\ \/ normalised' = Stale(AgentOf(h)) /\ UNCHANGED <<disturbed, failures>>
       \/ Failure /\ disturbed' = TRUE /\ UNCHANGED normalised
    /\ Become(h, "report")
    /\ UNCHANGED <<collector, fwd, endpoints, stored, pastes, tried>>

InsertEndpointReport(h) ==
    /\ AtItem(h, "report")
    /\ stored' = Append(stored, Current(h))
    /\ handlers' = (handlers \ {h}) \cup {[h EXCEPT !.at = "normalise", !.row = Len(stored) + 1]}
    /\ UNCHANGED <<collector, fwd, endpoints, normalised, pastes, tried, disturbed, failures>>

\* The rows of the normalised tables; a row that fails is logged and left out.
InsertNormalised(h) ==
    /\ AtItem(h, "normalise")
    /\ \/ normalised' = [normalised EXCEPT ![AgentOf(h)] = @ \cup {h.row}] /\ UNCHANGED <<disturbed, failures>>
       \/ Failure /\ disturbed' = TRUE /\ UNCHANGED normalised
    /\ NextItem(h)
    /\ UNCHANGED <<collector, fwd, endpoints, stored, pastes>>

\* 202, whatever became of the items.
Reply(h) ==
    /\ h.at = "item" /\ h.items = {}
    /\ handlers' = handlers \ {h}
    /\ IF Waited(h) THEN Answered("202") ELSE UNCHANGED fwd
    /\ UNCHANGED <<collector, api, disturbed, failures>>

\* The request's context ends with its client: no further statement of it succeeds.
Cancelled(h) ==
    /\ ~Waited(h)
    /\ handlers' = handlers \ {h}
    /\ disturbed' = (disturbed \/ Midway(h))
    /\ UNCHANGED <<collector, fwd, api, failures>>

\* The API stops: its requests end and the client sees the connection break.
APIRestart ==
    /\ handlers # {} /\ Failure
    /\ handlers' = {} /\ disturbed' = (disturbed \/ \E h \in handlers : Midway(h))
    /\ IF fwd.at = "sending" THEN Answered("error") ELSE UNCHANGED fwd
    /\ UNCHANGED <<collector, api>>
-----------------------------------------------------------------------------
Admin == (\E a \in Agents : RevokeKey(a)) \/ (\E k \in Keys : RegisterKey(k))
Agent == \E k \in Keys \cup {StaticKey}, a \in Agents, kind \in Kinds : IngestHandler(k, a, kind)
Forward == Tick \/ MarkDelivered \/ Rejected \/ MarkFailed
Network == \E h \in handlers : Unreachable(h) \/ Timeout(h)
IngestBatch ==
    \E h \in handlers :
        \/ Refuse(h) \/ ItemFails(h) \/ UpsertAgentEndpoint(h)
        \/ ResolvePasteSourceEndpoint(h) \/ ValidatePasteEvent(h) \/ BatchInsertPasteEvents(h) \/ DeleteStale(h)
        \/ InsertEndpointReport(h) \/ InsertNormalised(h) \/ Reply(h) \/ Cancelled(h)

PipelineNext == Admin \/ Agent \/ Forward \/ Network \/ IngestBatch \/ CollectorRestart \/ APIRestart \/ TickEmpty

PipelineSpec == PipelineInit /\ [][PipelineNext]_pipelineVars
\* The ticker fires and the client's timeout ends every request.
PipelineFairSpec == PipelineSpec /\ WF_pipelineVars(Forward) /\ WF_pipelineVars(Network \/ IngestBatch)
-----------------------------------------------------------------------------
InBuffer(id) == id \in RowIds(buffer)
InDeadLetter(id) == \E r \in dead : r.id = id

\* A report the collector has accepted is in the buffer or in dead_letter, or the API has
\* stored it or tried to and failed on this very report: no crash, lost answer or failure of
\* another report of its batch makes it vanish (tick, IngestBatch).
NothingVanishes == \A id \in ReportIds : InBuffer(id) \/ InDeadLetter(id) \/ id \in tried

\* However the API and the network fare, no row stays in the buffer (markFailed, maxAttempts).
EveryRowLeaves == \A id \in 1..MaxReports : InBuffer(id) ~> ~InBuffer(id)

\* What a scan has told of an endpoint is never blanked by a paste event, in whatever order
\* and however often they are delivered (processIngestItem, ResolvePasteSourceEndpoint).
MetadataKept == [][\A a \in Agents : endpoints[a] = "known" => endpoints'[a] = "known"]_pipelineVars

\* The last report of an agent among the stored ones, by the server's time of receipt.
Latest(a) == LET rows == {i \in DOMAIN stored : reports[stored[i]].agent = a}
             IN  IF rows = {} THEN 0 ELSE CHOOSE i \in rows : \A j \in rows : j <= i

\* As long as requests do not overlap and none fails or is cut off amid its batch, reports that
\* are delivered again leave one view of the endpoint: between requests its normalised rows are those of its
\* latest report, and no older report was stored as the latest (latestReportJoinSQL).
OneViewOfAnEndpoint ==
    ~disturbed /\ handlers = {} =>
        \A a \in Agents :
            /\ normalised[a] = IF Latest(a) = 0 THEN {} ELSE {Latest(a)}
            /\ \A i \in DOMAIN stored : reports[stored[i]].agent = a => stored[i] <= stored[Latest(a)]

\* A stored report, scan or paste event, that came with the key of an agent is filed under
\* that agent, whatever agent it claims to be from (APIKeyMiddleware, IngestHandler).
FiledUnderItsKey ==
    \A i \in DOMAIN stored \cup DOMAIN pastes :
        LET r(s) == reports[s[i]]
            Right(s) == i \in DOMAIN s /\ r(s).key \in Keys => AgentOfKey[r(s).key] = r(s).agent
        IN  Right(stored) /\ Right(pastes)

\* What the API stores is of the agent that sent it, and of one report for each endpoint.
StoredTruthfully == OneViewOfAnEndpoint /\ FiledUnderItsKey
=============================================================================
