# A TLA+ model of EAMI's governance core

EAMI puts a gateway between AI agents and the tools they call. The gateway
decides every call (allow, deny, escalate to a person), keeps a tamper-evident
record of it and meters its use; an API serves the administrators; agents on
endpoints report what they find through a collector. This directory models the
parts of it whose correctness depends on the order in which processes,
goroutines, database statements and notifications happen, checks them with TLC
on small instances and proves the central facts with TLAPS for all instances.

Paths below are relative to the repository root.

## 1. Inventory

| Component | State it keeps | Operations | Interacts with | What is hard |
|---|---|---|---|---|
| Gateway dispatcher (`eami-gateway/cmd/gateway`) | none between calls | `Dispatch`: liveness, licence, usage limit, reservation, connector, policy, then deny / hold / forward, audit, hooks | all of the gateway, the database | order of gates, one step of several failing |
| Approval router (`eami-gateway/internal/approval`) | `pending` entries, a channel and a `sync.Once` each; `approval_requests` rows | `Submit`, `Hold`, `resolve`, `resolveHoldTimeout`, `dispatchApproved` | API over LISTEN/NOTIFY, connectors | decision, notification, timeout and crash in any order |
| Approval decisions (`eami-api/internal/api/approvals.go`) | the same rows | `DecideApproval` | gateway over NOTIFY | decision races expiry; notification is lost |
| Licence and usage reservation (`eami-gateway/internal/license`) | `usage_dispatch_inflight`, an advisory lock, token sums | `WithinUsageLimit`, `ReserveIfNearLimit`, release | dispatcher, asynchronous usage writer | check-then-act near the limit, crashed holders |
| Audit writer (`eami-gateway/internal/audit`) | last hash, mutex; `audit_log` | `Write`, lazy `GetLastHash` | several gateways, verifier | failed and ambiguous inserts, restarts |
| Audit verifier (`eami-api/internal/store/verify.go`) | none | `VerifyAuditChain` | the writers, through the table | two queries, rows of several organisations |
| Policy administration (`eami-api/internal/api/policies.go`, `workspace_policies.go`) | `policies`, `policy_conditions` | create, update, delete, reorder | gateways over NOTIFY | several statements without a transaction |
| Policy loader and evaluator (`eami-gateway/internal/policyloader`, `eami-policy`) | the current rule set | `Load`, `Listen`, `Evaluate` | dispatcher | stale rules, ties, floor against workspace rules |
| Agents, keys, tokens, revocation (`internal/registry`, `internal/identity`, `eami-api/.../agents.go`, `agent_liveness.go`) | `gateway_agents`, `api_keys`, `revoked_ai_tokens`, `ai_token_events`; the revoked set of each node | create, PATCH, delete, issue, validate, revoke | every gate, sessions | a revocation a node has not heard of, a name used again |
| MCP sessions and liveness listener (`internal/mcp`) | open sessions | `ServeSSE`, calls, end on notification, catch-up | registry, tokens | missed or stale notification, reconnection |
| Workflow executor (`internal/workflow`, `eami-api/.../workflows.go`) | the run in progress, `workflow_runs`, `workflow_run_steps`, limiter windows | `HandleRun`, `Run`, `runStep` | dispatcher, connectors, operators | definitions and connectors that change under a run, a step that fails after others have acted |
| Connector and provider routing, redaction, episodes | connector rows | resolve, mask, record | dispatcher | a failed lookup that falls through to the next route |
| Alerting (`eami-api/internal/alerting`, `alerts.go`) | `alert_rules`, `alerts` | tick, evaluate, create, notify, acknowledge, resolve | metrics tables, Slack | check-then-create, a rule that fails at every tick |
| Endpoint scan (`eami-agent/internal/payload`) | the report being built, goroutines in flight | `BuildWith`, `collect`, `EnforceMaxSize` | scanners | scanners that outlive their scan |
| Remote agent configuration (`eami-agent/internal/remoteconfig`) | configuration in force, state file | `LoadPersisted`, `Apply` | API through the collector | restart, failed delete, stray 404 |
| Report pipeline (`eami-agent/internal/collector`, `eami-collector`, `eami-api/.../ingest.go`) | buffer, dead letters, endpoint tables | ingest, forward, store | three processes | lost answer, duplicate, partial batch |
| Accounts: bootstrap, provisioning, login (`eami-api/internal/api`) | `orgs`, `users`, setup tokens, links, refresh tokens | wizard, invite, reset, login, refresh, delete | administrators, users | two requests on one account, check then write |
| Admin audit (`eami-api/internal/store/admin_audit.go`) | one chain per organisation | append with the change, verify | key revocation | a change without its event, races for the head |
| Workspaces (`eami-api/internal/api/workspaces.go`) | workspaces, memberships | create, delete, add, change, remove | policies | rows without an organisation of their own |
| Agent configuration (`agents.go`, `agent_config_limits.go`) | `agent_configs` | PUT | remote configuration | read, merge, write |
| Rate limiting (`ratelimit.go`, `ratelimit_login.go`) | windows by key | `Allow` | login, runs, token issue | the edges of the window |
| Settings, reporting, UI, browser extension, schema | rows | one statement each, or none | API | little beyond the database's guarantees |

The hazards that follow from the last column are listed one by one, each at
its line, in `PROJECT.json`.

What makes the modelled components correct:

* approval: an approved call is carried out at most once, never without an
  approval, only towards the connector the approver saw, and what the caller,
  the row and the audit trail say about it is true; every hold ends;
* usage gate: one reservation at a time, one near-limit call at a time, no
  wedged slot, an exhausted organisation is refused;
* audit chain: untouched history verifies, touched history does not, each
  process writes one chain;
* policies: one outcome per call, never more lenient than the floor, and the
  rules in force are the rules in the database;
* access: nothing runs for a token, key or agent that was withdrawn; sessions
  end when that happens, and for no other reason;
* workflows: a run's status, its step rows and its audit trail are what
  happened, values come from the step a mapping names, a masking provider gets
  masked text, and a run ends;
* scans and reports: a report is what its scanners found in time, no accepted
  report vanishes, what is stored of an endpoint is of its agent and of one
  report;
* alerting: one open alert per rule, posted at most once, and every rule that
  goes on firing gets one;
* remote configuration: what an agent reports about its configuration is what
  its scan ran with, it survives a restart, and it is given up exactly when the
  server withdraws it;
* accounts and administration: one setup, one good link, deletions that stand, a
  revocation and its event together or not at all, memberships within the
  organisation, no configuration nobody sent, fair limiters.

## 2. Modules

| Module | Models | Extends / uses |
|---|---|---|
| `Approval` | hold, listener, decision, timeout, resumption, crash, panic | instantiates `ApprovalContract` |
| `ApprovalContract` | what the protocol promises: one final decision per request, at most one execution, after approval | |
| `UsageGate` | `WithinUsageLimit`, `ReserveIfNearLimit`, release, holds and resumption seen from the licence, the usage that lands later | |
| `AuditChain` | `Writer.Write` in several processes, `VerifyAuditChain`, a person who changes rows | |
| `PolicyReload` | API handlers statement by statement, NOTIFY, loader, evaluator | |
| `AgentAccess` | agents, keys, tokens, sessions and calls on several nodes, notifications, catch-up | |
| `WorkflowRun` | the executor, one whole `Dispatch` per step, the operators of workflows and connectors | |
| `ScanReport` | the concurrent scanners of a scan, the deadline, the size limit | |
| `RemoteConfig` | the agent's `Manager` and state file, the answers it polls, restarts | |
| `ReportPipeline` | agents, collector, forwarder, `IngestBatch` | |
| `Alerting` | the engine's ticks, Slack, the operators of rules and alerts | |
| `Accounts` | wizard, users, links, sign-in | |
| `AdminAudit`, `Workspaces`, `AgentConfig`, `RateLimit` | the administrative parts named so | composed by `MCAdministration` |
| `ApprovalProofs`, `AuditChainProofs`, `PolicyReloadProofs`, `AccountsProofs`, `WorkflowRunProofs` | theorems on the module they name | that module, TLAPS |
| `GateProofs` | theorems on the gates of a call, `UsageGate` and `AgentAccess` | these, TLAPS |
| `EndpointProofs` | theorems on the agent of an endpoint and its reports, `RemoteConfig`, `ScanReport` and `ReportPipeline` | these, TLAPS |
| `AdministrationProofs` | theorems on `AdminAudit`, `Workspaces`, `AgentConfig`, `RateLimit` and `Alerting` | these, TLAPS |
| `MC...` | small instances for TLC | the module they name |

A definition `X_Something` placed before a definition `X` is a plausible
wrong version of it, used to see that a property would notice.

### Approval

Each call is a goroutine with a program counter `pc[c]`; each node has one
listener goroutine (`lpc`, `job`). They meet in the `pendingEntry` of the call:
`pending` (the map), `ch` (the one-slot channel), `exec` (the `sync.Once`
and where its body is), `result`. The database is `status`, `approvedBy`,
`resume`, `tools`, `escalated`, `resolution`. `sends` and `sentTo` record what
went out.

`Escalate` is the part of `Dispatch` that pins the connector and writes the
"escalated" entry; `Submit`, `Register`, `Receive`, `TimerFires` follow
`Hold`; `NothingArrived`, `ExpireRow`, `AlreadyDecided`, `Reread` follow
`resolveHoldTimeout`; `TakeNotification`, `FetchDecision`, `ListenerOnce`,
`Send` follow `resolve`; `CheckLive` to `RecordDispatched` are the body of
the once, `dispatchApproved`; `Finish` is the rest of `Dispatch` with its
resolution entry. `Decide`, `Notify`, `NotifyLost` are the API's handler. A
statement of the gateway fails under `DbFaults`, `dispatchApproved` panics
under `Panics`.

Left out: cancellation of the caller's context (the dispatcher holds under
`context.WithoutCancel`), graceful shutdown, the order of notifications in one
connection's buffer (a set: any may be next, which includes the real order).
The connector's fingerprint is one value; that `ComputeConfigHash` does not
cover the authentication type is therefore not visible here.

### UsageGate

One organisation, whose counted usage is `used`. The advisory lock (`lock`)
is held from the sum to the commit. `resv` are unexpired rows of
`usage_dispatch_inflight`, `slot` the calls that believe they have one.
`posts` is usage on its way to the API: it lands, or is lost, after the call
returned. `TtlCovers` states that the TTL (120 s by default) outlasts a
dispatch; without it only `OneReservation` is claimed. With a limit below 20
tokens the default margin of 5 % rounds to zero and the guard never engages:
`Threshold` computes with the same integer division.

### AuditChain

`log` is the table, a hash is the tuple of the fields it covers (a perfect
hash). The timestamp of a row is the arrival of its request, and
`GetLastHash` takes the row with the latest one: with equal or out-of-order
timestamps that need not be the row written last, so a restarted process may
chain on a row that already has a successor. The code's verifier accepts such
forks, and `Linear` (a part of `TamperEvident`) is therefore claimed of a
process until it is restarted. `ReadHashes` and `CheckRows` are the verifier's two
queries; the properties are about one consistent reading of the table (section 4).

### PolicyReload

`rows` and `conds` are the two tables; `pc` and `req` the API request between
its statements; `gw` the start-up and listening of a gateway; `notes` the
notifications waiting on its connection; `snap` a rule set that was queried and
not stored yet; `loaded` the rules it decides with. `missed` is a history
variable: a change this node was never told of since its last query. What a
rule's fields say about calls is the set of calls they match (`Satisfies`);
priorities and workspaces are kept, because the ranking depends on them. A
YAML rule has no organisation and matches every tenant. Once every policy in
the database is deleted a live gateway has no rules, while one that restarts
seeds the YAML file: `InForce` allows both.

### RemoteConfig

The variables from `cur` to `consecutive404` are the fields of `Manager`, `file`
is `remote-config.json`, `id` the identity (agent id and collector URL) the
process was started with, `serves` what `AgentRemoteConfig` answers for each.
`Start` is `NewManager` with `LoadPersisted`; `Poll` is one fetch with the whole
of `Apply` (only the scan loop calls the Manager, so this is one step); a
`FaultyPoll` brings something else than the server's answer, or a disk that
refuses the write; `Scan` is the rest of the loop. A version is a hash of the
configuration and is modelled by the configuration it was computed from, so
that a stored pair can disagree. Scan interval and paths follow the same rules
and are one field; so are the two sizes. The answer of an older server carries
neither version nor size and is merged field by field. `seen404` and `undeleted`
are history variables. A removal of the state file that fails is not tried
again and the configuration returns with the next restart:
`WithdrawnStaysAway` excludes that case by `undeleted`.

### AgentAccess

`status`, `key`, `revokedDB` and `issued` are the tables; a row is one life of an
agent, and `Named` gives two rows the same name, so that an agent can be deleted
and created again. `claims` are the tokens, with the row and the key they were
minted for. Each node has the set of tokens it knows to be revoked, a listener
that may be down, an inbox, sessions that are being opened (between the last
check of `ServeSSE` and the creation), sessions, and calls between their check
and their run. Token issue is three steps (checks, minting, the event that the
key's cascade will look for), a PATCH by an operator two (read, write). What a
call is let by is decided by `CheckLive` in one query at its start. `acked` is
history: revocations that were answered.

### WorkflowRun

A run goes through `Executes`: resolve, per step the lookup of the connector by
its id, the step's row, then `Dispatch` with its gates, the lookups by name
(`resolveDynamicTool`, the AI provider, the static proxy), policy, the wait for
an approval, the call, the audit row, the hooks (usage, episode), the step's
final row, and at last the status of the run. Operators rename, reconfigure,
delete and create connectors, replace the steps (read, then one transaction)
and set parameters. One failure, disconnect or crash can come anywhere.
`calls` and `lost` are history: what reached a service and which record could
not be written. The details of a hold are in `Approval`; here it ends allowed,
denied or expired.

### ScanReport

Each scanner of a scan is a goroutine that cannot be stopped: it returns
whole, with part of a result, with an error, panics, or blocks for ever. `collect`
takes outcomes until the deadline and then what is already in the channel;
`commit` writes under a flag that `collect` closes; `inFlight` keeps a scanner
that is still running from being started again. `found` is history: what the run of
a scanner came to, by which a report is measured. `Specs` is the list of
scanners in the order they are launched.

### ReportPipeline

A report is a number in the order of arrival, and the buffer a set of rows that
these numbers order; `Oldest` is what `fetchBatch` selects, and `Current` the
report a request is at. `fwd` is the forwarder's tick: it
reads a batch, posts it, and deletes its rows, marks them failed, or moves them
to the dead letters, by the answer. A client that has timed out leaves its
request running in `handlers`, where `IngestBatch` stores item by item and
statement by statement. `endpoints`, `stored`, `normalised` and `pastes` are the
API's tables. History: `tried`, and `disturbed` once requests overlapped or one
was cut off.

### Alerting

One engine, whose tick lists the rules and then evaluates them one at a time:
duplicate check, insert, webhook, mark. Rules, alerts and the Slack settings change
between any two statements. A rule is its threshold, its metric and whether it
parses. `posted` is history: the messages about each alert.

### Accounts

Requests run in slots; a handler is split where another request can come
between, that is between statements outside a transaction and between what a
transaction reads under its locks and its commit. The locks follow from the
stage of the request. The wizard counts organisations under an advisory lock;
a mint of a link locks the account; `ChangeMyPassword` checks and writes in two
statements. An access token is kept only as the claim of the role admin.

### Administration

`AdminAudit` has the key revocation and its event in one transaction, the lock
of the chain with its timeout, and a person who edits the table. `Workspaces`
separates the check of a call from its write. `AgentConfig` is read, merge, write
of the row. `RateLimit` keeps ages instead of times, oldest first, so that what
`Allow` prunes is a beginning of the sequence; the code keeps its attempts in
the same order. A window is longer than zero: the API refuses to start with
another (`validate`). `MCAdministration` lets the
four take steps one at a time from a common specification, each by itself;
they share no variable.

## 3. What TLC checks

| Run | Instance | Shows |
|---|---|---|
| `approval` | 1 call, 1 node, 1 connector name, 2 configurations, database faults, panics, a crash | `DestinationIsPinned`; `RecordsTruthful`; `ImplementsContract`; `HoldsProgress`: holds end, approvals are honoured, the listener comes back, a suspended agent's call never runs |
| `usage_gate` | 3 dispatches, limit 4, threshold 2, costs 0 and 2, database faults | `OneNearCap`; `GateOverTime`: the slot comes free, admissions end, an exhausted licence stays refused |
| `audit_chain` | 2 processes, 3 entries, 2 organisations, restarts, ambiguous inserts, one row touched | `HonestVerifies`; `TamperEvident` |
| `policy_changes` | 1 gateway, 2 concurrent requests, 2 floor policies, 1 workspace policy, 2 priorities, one fault, one deleted workspace | `FloorHolds`, `UpToDate` |
| `remote_config` | 2 identities, 3 configurations (one with a scanner the build lacks, one out of bounds), 2 answers of an older server, 3 changes, 4 faults | `WithdrawnStaysAway`, `Converges` |
| `agent_access` | 2 nodes, 2 rows of one name, 1 key, 1 token, 1 connection or call under way, 2 changes, 1 fault | `RefusedOnceWithdrawn`, `EndedForCause`, `OnlyAdminsReactivate`, `DeadSessionsEnd` |
| `scan_report` | 2 scanners, 2 scans, room for one result | `OkIsTheWholeResult`, `OneRunPerScanner`, `SentReportIsFinal`, `EveryScanReports` |
| `report_pipeline` | 2 agents, 1 key, 2 reports in a batch, 1 retry, 2 overlapping requests, 1 fault | `NothingVanishes`, `StoredTruthfully`, `MetadataKept`, `EveryRowLeaves` |
| `alert_engine` | 2 rules, 2 requests of operators, 2 faults or restarts | `OneOpenAlertPerRule`, `NotifiedTruthfully`, `FiringRuleAlerts` |
| `workflow_run` | 1 run of 2 steps, 2 connectors, 3 names, 2 changes by operators, 1 fault | `RunStatusTruthful`, `ExtractedFromNamedStep`, `AuditMatchesCalls`, `ProviderGoverned`, `RunEnds` |
| `accounts` | 2 accounts, 2 setup tokens, 2 links, 2 refresh tokens, 2 requests at a time | `SetupOnce`, `OnlyTheLastLinkWorks`, `DeletionsStand` |
| `administration` | 2 revocations, 2 changes by hand; 3 users, 2 workspaces, 2 calls; 2 PUTs; 3 limiters | `AuditedOrUndone`, `VerifyTruthful`, `MembershipsWithinOrg`, `ConfigKept`, `LimiterFair` |

Why these bounds. A hold meets the listener, the API and the other
goroutine of its own entry; calls meet only in the listener, which
`HoldsProgress` requires to come back, and the theorems hold for any number of
calls and nodes. One connector name with two configurations shows everything
that can happen to a pin (edit, delete, re-create). Near the limit two
dispatches race and a third finds what they left behind; costs of zero and of
two take the sum below, to and over the limit. A fork or a dangling link of the
audit chain needs three rows; all timestamps equal (`MaxClock = 0`) lets
`GetLastHash` return any row, which covers every order of arrival. An inversion
needs one floor and one workspace policy with freely chosen priorities. Two
changes with two requests give every overlap of a handler with another and with
a reload; longer histories of the rule set are covered by the theorems. Two
404s, a failed write or removal and a restart under another identity fit in
four faults, and three changes let a server go from one configuration to an
older server's answer and to none. One node must be the one that was told and
another the one that was not; deletion and re-creation of a name take two
changes; a change falls between any two steps of the one connection or call
under way. A scanner that outlives its scan needs a second scan. A report that
overtakes, or is repeated beside, another needs two reports, a retry and two
requests at once; a key that changes after the last report has nothing left to
refuse. An extraction needs an earlier step, and a reordering two. Two
requests at a time show every race between check and write.

Bounds named `Max...` cap counters and histories in the guards of the actions
(`MaxChanges`, `MaxAdmin`, `MaxEdits`, `MaxFaults`, `MaxFailures`, `MaxTampering`, `MaxReports`, `MaxAttempts`,
`MaxOverlap`, `MaxUnderway`, `MaxCycles`, `MaxLinks`, `MaxPasswords`, `MaxEvents`, `MaxSteps`).

`CHECK_DEADLOCK` is off where histories are finite: entries, changes, dispatches
and runs run out, every account may be deleted, an agent too.

Fairness. Goroutines that can run do run, the timer of a hold fires, the
downstream client has a timeout, a transaction that waits for an advisory lock
gets it, rows expire, a wait for a person ends (the hold's deadline sees to
it), an agent is restarted by its service manager and goes on polling (each
fetch has a timeout), tickers go on firing (the sessions' catch-up, the
forwarder, the alert engine), the deadline of a scan passes, a handler that has
begun ends, and a run goes on. Nothing is assumed of users, of notifications, of
scanners, or of a lost connection coming back.

## 4. Observations

What else the code does, met while modelling it and mostly seen in
traces; where it is the reason for a restriction of a property, that is said.

Approval and usage.
* A panic recovered in the listener (`safego.Guard`, `router.go:699`) leaves the once
  done and its result zero, which the backstop returns with a nil error:
  `Dispatch` then reports a call as executed that was never made, against the
  comment at `dispatcher.go:907`.
* A failing statement in the timeout backstop reports an unconfirmed timeout for a
  call the listener may be executing; `DecisionHonoured` therefore admits an
  outcome that is not confirmed.
* A row whose gateway restarted during the hold stays pending (`BACKLOG.md`, B-244).
* The reservation is released when `Dispatch` returns, while the usage it covered
  is still on its way (`license/store.go:319`, against the comment at 204), and a
  dispatch that passed `WithinUsageLimit` is not compared with the limit again
  under the lock.

Audit and policies.
* Rows written between the verifier's two queries (`verify.go:126`) make it report
  an untouched chain as broken, against the comment at `verify.go:55`.
* A change between the first `Load` and `LISTEN` (`main.go:128`) is not loaded until
  another is notified; the loader's `Listen` returns at the first error; and
  `DeleteWorkspace` sends no notification. `UpToDate` counts these as missed.
* A reload between the two inserts of a create request (`policies.go:169`) loads the
  policy without its conditions, and it matches every call.

Workflows.
* A step finds its connector by id and the dispatch by name: after a rename or a
  re-creation in between the call goes to another connector, or, if the name is
  gone, to the static proxy without masking. `ProviderGoverned` is about a
  connector nobody changes during the dispatch. A failed lookup of a REST
  connector falls through too.
* A step or connector removed during a run makes the insert of the step's row fail
  on its foreign key. A crash, or a failed last UPDATE, leaves a run
  'running'; `RunEnds` excepts both.
* Saving a workflow writes back the parameters it read before its transaction
  (`workflows.go:505`, 548), and undoes a change of them made meanwhile, against
  the comment at 463.

Scans and reports.
* At the drain after the deadline a scanner whose data is in the report can be
  called "timeout", against the comment at `builder.go:218`.
* Overlapping requests and retried batches can leave an older report as the
  latest (`disturbed` in `OneViewOfAnEndpoint`); a lost 202 duplicates reports; an
  item that failed is answered 202 and deleted by the collector
  (`tried` in `NothingVanishes`); a wrong service key sends whole batches to
  the dead letters; rows that do not unzip are skipped and deleted; `max_rows` of
  the buffer is not used.

Alerting.
* With two API replicas two alerts can be opened for one rule: the table has no
  constraint against it, and the run has the one engine of a deployment.
* A lost Slack message is not tried again while its alert is open; a resolved
  alert can be acknowledged; PATCH of a rule is read, merge, write.

Accounts and administration.
* Two refreshes with one token can both succeed; a reset or change of password
  leaves refresh tokens good; the role in an access token, and the token of a
  deleted user, last until it expires; two administrators can delete each other;
  a change of password that was under way can land after a reset.
* Two PUTs of a configuration can lose one's field, and one that echoes legacy
  paths can restore them. A workspace administrator who was removed can finish
  a call that was authorised; the last one can be removed. Rows deleted at the end
  of the admin audit are not noticed (the file says so). A refusal by
  the account limiter has used a place of the address limiter.

## 5. What is proved

All theorems are for every value of the constants under the named assumptions
of the modules: special values are distinct, switches Boolean and bounds numbers
(`NoneAssumption`, `SwitchAssumption`, `ChainAssumption`, `UsageAssumption`,
`ConstantsAssumption`, `ConfigAssumption`, `FileAssumption`,
`AccountsAssumption`, `NamesAssumption`, `AccessAssumption`, `AlertingAssumption`,
`PipelineAssumption`); a batch takes at least one row (`PipelineAssumption` too);
a limiter's window is not empty and a route asks no limiter twice (`LimitAssumption`); the YAML file gives no two rules of a
workspace the same priority (`YamlAssumption`); the connectors there are at the
start differ in id and in name, as the table's constraints have it, only an AI
provider among them masks, and a workflow has at least one step
(`WorkflowRunAssumption`); no scanner is listed twice, and all are in the order of dropping
(`ScanAssumption`). The inductive invariants are kept beside the
properties in the modules of the components, and TLC was used to find them.

* `ApprovalProofs`: `TypeCorrect`, `Invariance`, `DispatchedAtMostOnce`,
  `DispatchedOnlyIfApproved`, `DispatchedToPinned`, `Refinement`,
  `RecordsAreTruthful`, `SuspendedAgentNeverRuns`. At most one request is not inductive: it needs to know
  where the once is (`ExecInv`: no request before the body's last stage, none
  once it is done and fresh never again), that the body runs only for an approved
  row, that whatever the listener or the backstop read is what was committed
  (`ReadInv`), and that a decided row never changes (`RowInv` with the guards of
  `Decide` and `ExpireRow`). The refinement maps the row to the contract's
  decision and `sends` to its executions; each action is a contract step or a
  stutter. For the records, `OutcomeInv` follows an outcome on each of its
  ways to the caller (the result of the once, the channel, the listener's hand)
  and says that it agrees with the row wherever it is; `ResumeInv` ties
  `resume_outcome` to the stage of the once. That a suspended agent's call never
  runs is a nested temporal formula without liveness: `NotPast` (the body is not
  past `CheckLive`, or is over, with nothing sent) holds while the row is pending
  and is kept by every step as long as the agent is not live.
* `GateProofs`, usage: `UsageInvariance`, `ReservationExclusive`,
  `NearCapExclusive`, `ExhaustedIsRefused`. `LockInv` says that whoever is between counting and
  inserting holds the lock and that nobody has a row once the count was zero;
  exclusiveness of the row, and with `TtlCovers` of the execution, follow. Once
  the limit is reached a call that waits for its check or for a person stays
  among those (`KeptOut`) until it is refused or over.
* `GateProofs`, access: `AccessSound`, `WithdrawalsBind`, `SessionsEndForCause`,
  `ReactivationIsReserved` (the last three action properties). The check of a
  call looks at the row of the session, a withdrawal at the row the token was
  issued for: `BoundInv` says that these are the same in every session, from its
  opening to its calls, because a token's claims are written once. A revocation
  that was answered can leave the table again, with the agent it is filed under;
  `AckedInv` says that it does so only then, and a deleted row stays deleted. The
  key's cascade writes the agents of recorded tokens, which were minted
  (`MintedInv`).
* `AuditChainProofs`: `ChainInvariance`, `HonestHistoryVerifies`,
  `TamperingIsEvident`. `ChainInv` says that whatever an initialised Writer will
  chain on is genesis or in the table; `MutexInv` that the mutex is held exactly
  between `Lock` and return. Evidence needs other facts, because a row may be
  changed or removed: every hash anything hangs on is of an entry that was
  written once (`RowInv`), and no row of a process that was not restarted hangs
  on its present head (`HeadInv`), from which each process writes one line.
* `PolicyReloadProofs`: `PolicyInvariance`, `DecisionsDeterministic`,
  `FloorNeverLoosened`, `NoChangeIsLost`. The unique constraint is carried from
  the table through the query into each gateway (`Untied`); with it the first
  matching rule is unique, and a matching floor rule precedes every workspace
  rule. `UpToDate` speaks of quiet moments only; `Fresh` extends it to all: unless
  a request still owes its notification (`Owes`) or one is waiting, the rules in
  force, or those a reload has in hand, are the ones in the database. The
  delicate requests are those that end without a notification because another
  request has deleted their row.
* `EndpointProofs`, configuration: `TypeCorrect`, `ReportsAreTruthful`, `RestartIsSafe`,
  `WithdrawnConfigStaysAway`, `StrayNotFoundIsHarmless`, `OtherFilesAreKept`.
  `OnDisk` says that the version the Manager takes to be saved is in the file
  under its own identity (or the file was spoilt) and, the other way round, that
  it knows of every file it could load but one it failed to remove; `Count404`
  that its count of 404s is the true one while a remote configuration is in force.
* `EndpointProofs`, scans: `ScansSound`, `ReportsAreWhole`, `ScannersRunOnce`,
  `ReportsAreFinal` (an action property), for any list of scanners without a name
  twice. A goroutine and its report meet only in the flag `closed`, the channel and
  `inFlight`, so the invariant says what each of them implies: `RunsInv`, that a
  goroutine that has not left keeps its name in `inFlight`, that one of this scan
  is the only one of its name, was launched by it, and has neither an outcome in
  the channel nor a status "ok" yet; `WholeInv`, that wherever an outcome "ok" is
  on its way into the report (a goroutine, the channel, the statuses) the whole
  result is in the report's data, as `found` has it.
* `EndpointProofs`, reports: `PipelineSound`, `NoReportVanishes`, `StoredReportsTrue`,
  `MetadataNeverBlanked` (an action property). That a report does not vanish needs
  `BatchTried`: what a tick waits for is either tried or still ahead of the one
  request it waits for, so that a 202 is an answer about every row. That
  redelivery leaves one view needs more. A request stores its batch in the order
  of the reports, and a second delivery stores old reports after new ones; the
  newest must come again at the end. `OneRequest` says so of the request under
  way (whatever is stored and newer than something it has ahead, it has ahead
  too), and `SeenInBatch` of the next one: a report the API has seen while an
  older one is still in the buffer is in the batch, or among the oldest rows that will
  be. This in turn rests on `BufferSound`: older rows were tried at least as
  often, therefore the rows that go to the dead letters are the oldest of a batch
  and leave no older row behind that could be sent without its successors. The
  induction has one lemma per action; those that answer a request, end it, or
  take it to its next statement share a lemma each.
* `WorkflowRunProofs`: `RunsSound`, `StatusIsTruthful`, `ExtractionIsByIdentity`,
  `RecordsMatchCalls`, `ProvidersAreGoverned`. What the tables say of a run can
  only be kept true by what the gateway has in memory of it, so the invariant is
  stated of a run and its memory: `LoopInv`, where the run stands in its
  definition (everything before the current step was allowed); `CallsInv`, which
  calls that position implies, and that no later step has one; `ExtractInv`, the
  value a step carries is of an earlier step that was answered; `RecordInv`, what
  the audit trail, the usage and the episode say at every stage between the
  answer and the step's row. Masking needs `GovernInv`: a connector still in the
  table exactly as the dispatch first found it is the one that will be called,
  which holds because every write of a connector is told from every other
  (`rev`) and names are unique (`ToolsInv`). There is one frame lemma for the
  steps of other runs, one for the operators, and one case per action of `Next`.
* `AccountsProofs`: `AccountsSound`, `ApplianceIsSetUpOnce`, `ResetLinksAreSingle`,
  `DeletedAccountsStay` (an action property). The locks of the transactions
  are not variables but follow from the requests under way, so the invariant
  says who may be under way with whom: one wizard, and before the setup nobody
  else (`SetupInv`); one use of a link per account (`LinkInUse`); a mint has in
  hand every good link of its account, and no link being used (`MintInv`); a
  link is used once, when it is consumed (`UseInv`); a sign-in knows a role the
  account has had since it began (`SignInInv`).
* `AdministrationProofs`: `MembersAreOfTheOrganisation`, `ConfigurationKept`,
  `RevocationsAreAudited`, `VerificationIsTruthful`. The last says that a
  verification without complaint is of the rows last recorded, whatever was done
  to the table by hand. That the table was right before and is right now says
  nothing of the time between: rows may be deleted, others recorded in their
  place, and copies of the old ones put back. `AncestryInv` therefore speaks of
  all chains that could be put together from the hashes in the table: a hash
  commits to its whole past, so n hashes that chain need n places
  (`FS_` cardinality facts), and a row recorded again at number n means that
  there were fewer than n. Positions are compared by the least one that differs.
* `AdministrationProofs`, alerts: `AlertsAreNotRepeated`, `NotificationsAreTruthful`.
  `EngineInv` says that what the engine has looked up is still so when it acts on
  it: before the insert its rule has no open alert, before the send its alert was
  not posted, before the mark it was. Operators can end alerts meanwhile but never
  open one, and a restart forgets the alert at hand rather than repeating it.
* `AdministrationProofs`, limiters: `LimitersAreFair`. A limiter keeps its
  attempts in the order of their ages (`Aging`), so those outside the window are a
  beginning of the sequence. `Sound` says that what it has let by within the
  window is exactly what it still keeps, no more than the limit, and that a
  caller it has refused was told to wait at least until the oldest of them
  expires, unless there is room already.

Both checked on an instance and proved: `DestinationIsPinned`, `RecordsTruthful`,
`ImplementsContract`, `OneNearCap`, `HonestVerifies`, `TamperEvident`, `FloorHolds`,
`UpToDate`, `WithdrawnStaysAway`, `RunStatusTruthful`, `ExtractedFromNamedStep`,
`AuditMatchesCalls`, `ProviderGoverned`, `SetupOnce`, `OnlyTheLastLinkWorks`,
`DeletionsStand`, `AuditedOrUndone`, `VerifyTruthful`, `MembershipsWithinOrg`,
`ConfigKept`, `RefusedOnceWithdrawn`, `EndedForCause`, `OnlyAdminsReactivate`,
`OkIsTheWholeResult`, `OneRunPerScanner`, `SentReportIsFinal`, `OneOpenAlertPerRule`,
`NotifiedTruthfully`, `NothingVanishes`, `StoredTruthfully`, `MetadataKept` and `LimiterFair`. The other proved properties (`AtMostOneDispatch`,
`DispatchNeedsApproval`, `OneReservation`, `OneOutcome`, `ReportNamesConfig`, `RestartSafe`,
`StrayNotFoundHarmless`, `OtherFileKept`) need no run of their own.

Only model-checked: the properties that need fairness (`HoldsProgress`,
`GateOverTime`, `Converges`, `DeadSessionsEnd`, `EveryScanReports`, `EveryRowLeaves`,
`FiringRuleAlerts`, `RunEnds`), because liveness is outside the prover's reach;
of the first two the parts without liveness, `SuspendedNeverRuns` and
`ExhaustedStaysRefused`, are proved.
Every invariant, and every action property, that a run checks is also a
theorem.

## 6. Plan and limits

Open: a wider model of the parts that are partly modelled (routing, redaction,
the episode recorder, the connectors' own pages), and the two replicas of the
API that section 4 mentions under alerting.

Not modelled, and not planned: the regular expressions of redaction, signatures
of tokens and licences, the construction of downstream HTTP requests, what the
scanners look for on a host, the framing of native messages, reporting and list
queries, settings, the web interface, the browser extension and the appliance
scripts. They are either without state of their own or one statement on a row
that nothing modelled here reads.
