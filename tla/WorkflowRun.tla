---------------------------- MODULE WorkflowRun ----------------------------
(***************************************************************************)
(* Workflows: the executor of eami-gateway runs the steps of a workflow one *)
(* after another, each through the Dispatch that any tool call takes        *)
(* (gates, connector, policy, approval, downstream call, audit, hooks),      *)
(* while operators rename, reconfigure, delete and re-create connectors,    *)
(* replace the steps and set their parameters.  Lookups, writes and calls    *)
(* fail, clients disconnect, and the gateway crashes.                       *)
(*                                                                          *)
(* Abstractions: one organisation, one workflow.  A connector is its name,   *)
(* its type, whether its redaction rules mask, and the version of the rest   *)
(* of its configuration (rev, which no code reads, is its latest write).  A  *)
(* run carries the one value a step extracts from another step's result,     *)
(* not its static parameters, which nothing in a run tells apart; a          *)
(* result is the run and the step that produced it.  What the gates, the     *)
(* policy, the approvers and the downstream answer is any of their outcomes  *)
(* (AgentAccess, UsageGate, PolicyReload and Approval model how they come     *)
(* about).                                                                  *)
(***************************************************************************)
EXTENDS Integers, FiniteSets, Sequences

CONSTANTS
    Tools,       \* identities of connectors
    Names,       \* names of connectors
    InitTools,   \* the connectors at the start
    Definitions, \* the lists of steps that operators save
    Runs,        \* identities of runs
    MaxSteps,    \* bound on identities of steps
    MaxEdits,    \* bound on requests of operators
    MaxFaults    \* bound on failures, lost clients and crashes

Kinds == {"rest_api", "ai_provider", "mcp"}
Row == [id : Tools, name : Names, kind : Kinds, masks : BOOLEAN, ver : {0, 1}, rev : 0..MaxEdits]
\* No connector; the type of the static proxy's calls.
NoRow == [id |-> "none", name |-> "none", kind |-> "static", masks |-> FALSE, ver |-> 0, rev |-> 0]
Step == [id : 1..MaxSteps, tool : Tools \cup {"none"}, from : 0..MaxSteps]

ASSUME WorkflowRunAssumption ==
    /\ InitTools \subseteq Row /\ \A a, b \in InitTools : a.id = b.id \/ a.name = b.name => a = b
    /\ \A t \in InitTools : t.rev = 0 /\ (t.masks => t.kind = "ai_provider")
    /\ Definitions \subseteq Seq(Step) /\ <<>> \notin Definitions
    /\ {"none"} \cap (Tools \cup Names) = {}
    /\ MaxSteps \in Nat /\ MaxEdits \in Nat /\ MaxFaults \in Nat

VARIABLES
    tools,    \* gateway_tools: the rows, with their identities
    steps,    \* workflow_steps in order; none when the workflow does not exist
    params,   \* workflow_step_params: whether a step has a row
    updates,  \* UpdateWorkflow requests that have read and not written
    run,      \* the runs in the gateway's memory
    status,   \* workflow_runs
    rows,     \* workflow_run_steps: outcome by run and position
    audit,    \* audit_log: the decisions written, by run and position
    usage,    \* token usage records, by run and position
    episodes, \* episodes: outcome by run and position (failed and blocked are "failure")
    calls,    \* history: what reached a downstream service; governed, when the name dispatched was that of
              \* one and the same connector with masking rules from the first lookup to this moment
    lost,     \* history: <<run, position>> whose audit or usage write failed
    edits, faults

admin == <<tools, steps, params, updates, edits>>
records == <<status, rows, audit, usage, episodes, calls, lost>>
vars == <<admin, run, records, faults>>

Idle == [at |-> "idle", def |-> <<>>, done |-> <<>>, name |-> "none", began |-> NoRow,
         tool |-> NoRow, value |-> <<>>, out |-> "none", ep |-> "none"]
\* The positions of the steps that any of the workflows has.
Positions == UNION {DOMAIN d : d \in Definitions}

Init ==
    /\ tools = InitTools
    /\ steps \in Definitions
    /\ params = [s \in 1..MaxSteps |-> 0]
    /\ updates = {}
    /\ run = [r \in Runs |-> Idle] /\ status = [r \in Runs |-> "none"]
    /\ rows = [r \in Runs |-> <<>>]
    /\ audit = [r \in Runs |-> [k \in Positions |-> <<>>]]
    /\ usage = [r \in Runs |-> [k \in Positions |-> 0]]
    /\ episodes = [r \in Runs |-> [k \in Positions |-> "none"]]
    /\ calls = {} /\ lost = {} /\ edits = 0 /\ faults = 0

IdsOf(s) == {s[k].id : k \in DOMAIN s}
Named(n) == IF \E t \in tools : t.name = n THEN CHOOSE t \in tools : t.name = n ELSE NoRow
\* The configuration that ComputeConfigHash covers: everything but the name and when the row was written.
configHash(t) == <<t.id, t.kind, t.masks, t.ver>>
-----------------------------------------------------------------------------
(* The requests of operators. *)
Edit == edits < MaxEdits /\ edits' = edits + 1
Kept == UNCHANGED <<run, records, faults>>

\* CreateTool; a name is unique in its organisation, and redaction is for AI providers.
CreateTool(i) ==
    /\ Edit /\ \A t \in tools : t.id # i
    /\ \E n \in Names, k \in Kinds, masks \in BOOLEAN :
         /\ Named(n) = NoRow /\ (masks => k = "ai_provider")
         /\ tools' = tools \cup {[id |-> i, name |-> n, kind |-> k, masks |-> masks, ver |-> 0, rev |-> edits']}
    /\ UNCHANGED <<steps, params, updates>> /\ Kept

\* UpdateTool: a name that is free, other redaction rules, or anything else; never another type.
Put(t, new) == tools' = (tools \ {t}) \cup {[new EXCEPT !.rev = edits']}
UpdateTool(t) ==
    /\ Edit
    /\ \/ \E n \in Names : Named(n) = NoRow /\ Put(t, [t EXCEPT !.name = n])
       \/ t.kind = "ai_provider" /\ Put(t, [t EXCEPT !.masks = ~@])
       \/ Put(t, [t EXCEPT !.ver = 1 - @])
    /\ UNCHANGED <<steps, params, updates>> /\ Kept

\* DeleteTool: the steps that used it stay, without a connector.
DeleteTool(t) ==
    /\ Edit /\ tools' = tools \ {t}
    /\ steps' = [k \in DOMAIN steps |-> IF steps[k].tool = t.id THEN [steps[k] EXCEPT !.tool = "none"] ELSE steps[k]]
    /\ UNCHANGED <<params, updates>> /\ Kept

\* validateWorkflowSteps: every step names a connector that exists; what it extracts from is not looked at.
validateWorkflowSteps(d) == \A k \in DOMAIN d : \E t \in tools : t.id = d[k].tool

\* resolveStepIDs: a step that echoes an identity of this workflow keeps it, any other gets a new one.
resolveStepIDs(d, used) ==
    [k \in DOMAIN d |-> IF d[k].id \in IdsOf(steps) THEN d[k]
                        ELSE [d[k] EXCEPT !.id = used + Cardinality({j \in 1..k : d[j].id \notin IdsOf(steps)})]]

\* Identities given out so far: the highest that is known anywhere.
Used ==
    LET ids == IdsOf(steps) \cup (UNION {IdsOf(run[r].def) : r \in Runs}) \cup (UNION {IdsOf(u.steps) : u \in updates})
    IN CHOOSE n \in 0..MaxSteps : (\A s \in ids : s <= n) /\ (n = 0 \/ n \in ids)

\* The workflow is deleted with its steps and their parameters ...
DeleteWorkflow ==
    /\ Edit /\ steps # <<>>
    /\ steps' = <<>> /\ params' = [s \in 1..MaxSteps |-> 0]
    /\ UNCHANGED <<tools, updates>> /\ Kept

\* ... and may be created again, all of its steps new.
CreateWorkflow(d) ==
    /\ Edit /\ steps = <<>> /\ validateWorkflowSteps(d) /\ Used + Len(d) <= MaxSteps
    /\ steps' = resolveStepIDs(d, Used)
    /\ UNCHANGED <<tools, params, updates>> /\ Kept

\* UpdateWorkflow reads the steps and the parameters of those it keeps ...
UpdateWorkflow(d) ==
    /\ Edit /\ steps # <<>> /\ validateWorkflowSteps(d) /\ Used + Len(d) <= MaxSteps
    /\ updates' = updates \cup {[steps |-> resolveStepIDs(d, Used), params |-> params]}
    /\ UNCHANGED <<tools, steps, params>> /\ Kept

\* ... and replaces them in a transaction that a missing workflow or connector undoes.
WriteWorkflow(u) ==
    /\ updates' = updates \ {u}
    /\ \/ /\ steps # <<>> /\ validateWorkflowSteps(u.steps)
          /\ steps' = u.steps
          /\ params' = [s \in 1..MaxSteps |-> IF s \in IdsOf(u.steps) THEN u.params[s] ELSE 0]
       \/ ~(steps # <<>> /\ validateWorkflowSteps(u.steps)) /\ UNCHANGED <<steps, params>>
    /\ UNCHANGED <<tools, edits>> /\ Kept

PutWorkflowStepParams(s) ==
    /\ Edit /\ s \in IdsOf(steps) /\ params' = [params EXCEPT ![s] = 1]
    /\ UNCHANGED <<tools, steps, updates>> /\ Kept

Operator ==
    \/ \E i \in Tools : CreateTool(i)
    \/ \E t \in tools : UpdateTool(t) \/ DeleteTool(t)
    \/ \E d \in Definitions : CreateWorkflow(d) \/ UpdateWorkflow(d)
    \/ DeleteWorkflow
    \/ \E s \in 1..MaxSteps : PutWorkflowStepParams(s)
Handler == \E u \in updates : WriteWorkflow(u)
-----------------------------------------------------------------------------
(* The executor.  Fault is a step of it that fails. *)
Fault == faults < MaxFaults /\ faults' = faults + 1
Sound == UNCHANGED faults
K(r) == Len(run[r].done) + 1
Current(r) == run[r].def[K(r)]
To(r, place) == run' = [run EXCEPT ![r].at = place]

\* Resolve: a workflow that is gone, or with a step that has lost its connector, does not run.
\* The status of the workflow is not looked at.
Resolve == steps # <<>> /\ \A k \in DOMAIN steps : steps[k].tool # "none"

\* HandleRun: a run starts once its row is written.
HandleRun(r) ==
    /\ run[r].at = "idle"
    /\ \/ /\ Resolve /\ Sound
          /\ run' = [run EXCEPT ![r].at = "step", ![r].def = steps]
          /\ status' = [status EXCEPT ![r] = "running"]
       \/ ((~Resolve /\ Sound) \/ Fault) /\ To(r, "refused") /\ UNCHANGED status
    /\ UNCHANGED <<admin, rows, audit, usage, episodes, calls, lost>>

\* resolveConnectorByID: the name by which the step will be dispatched.  A step whose connector is
\* not found, or not read, is recorded and is not dispatched.
resolveConnectorByID(r) ==
    /\ run[r].at = "step"
    /\ \/ \E t \in tools :
            /\ t.id = Current(r).tool
            /\ run' = [run EXCEPT ![r].at = "params", ![r].name = t.name]
            /\ Sound /\ UNCHANGED rows
       \/ /\ \/ (\A t \in tools : t.id # Current(r).tool) /\ Sound
             \/ Fault
          /\ run' = [run EXCEPT ![r].at = "record", ![r].out = "blocked"]
          /\ rows' = [rows EXCEPT ![r] = Append(@, IF Current(r).id \in IdsOf(steps) THEN "none" ELSE "missing")]
    /\ UNCHANGED <<admin, status, audit, usage, episodes, calls, lost>>

\* The results of this run that resolveParams may extract from: one with no use has an empty body.
priorResults(r) == {run[r].def[k].id : k \in {j \in 1..(K(r) - 1) : run[r].done[j] = "allowed"}}
extracted_ByPosition(r) == run[r].def[Current(r).from].id
\* The step, of this run, whose result the extraction takes.
extracted(r) == Current(r).from

\* insertRunStep: the foreign keys refuse a step or a connector that is gone, which is only logged.
insertRunStep(r) ==
    LET refused == Current(r).id \notin IdsOf(steps) \/ \A t \in tools : t.id # Current(r).tool IN
    \/ rows' = [rows EXCEPT ![r] = Append(@, IF refused THEN "missing" ELSE "none")] /\ Sound
    \/ Fault /\ rows' = [rows EXCEPT ![r] = Append(@, "missing")]

\* resolveParams: an extraction that does not resolve, or whose path is missing, blocks the step.
resolveParams(r) ==
    /\ run[r].at = "params"
    /\ insertRunStep(r)
    /\ \/ Current(r).from = 0 /\ To(r, "gates")
       \/ /\ Current(r).from \in priorResults(r)
          /\ run' = [run EXCEPT ![r].at = "gates", ![r].value = <<r, extracted(r)>>]
       \/ Current(r).from # 0 /\ run' = [run EXCEPT ![r].at = "record", ![r].out = "blocked"]
    /\ UNCHANGED <<admin, status, audit, usage, episodes, calls, lost>>
-----------------------------------------------------------------------------
(* Dispatch. *)
\* An audit_log write, or one that fails and is only logged.
Write(r, decision) ==
    \/ audit' = [audit EXCEPT ![r][K(r)] = Append(@, decision)] /\ Sound /\ UNCHANGED lost
    \/ Fault /\ lost' = lost \cup {<<r, K(r)>>} /\ UNCHANGED audit

\* The end of a dispatch that got no answer: its audit row, and then the hooks.
Reject(r, out) ==
    /\ Write(r, "denied")
    /\ run' = [run EXCEPT ![r].at = "hooks", ![r].out = out, ![r].ep = "failure"]

\* The liveness, licence, usage and reservation gates, each of which rejects with an audit row.
RejectAtGate(r) ==
    run[r].at = "gates" /\ Reject(r, "blocked") /\ UNCHANGED <<admin, status, rows, usage, episodes, calls>>

\* Past them, resolveDynamicTool: a failed lookup is taken for a connector that is not a REST API.
resolveDynamicTool(r) ==
    /\ run[r].at = "gates"
    /\ LET row == Named(run[r].name) IN
       \/ /\ row.kind = "rest_api" /\ Sound
          /\ run' = [run EXCEPT ![r].at = "policy", ![r].tool = row, ![r].began = row]
       \/ /\ (row.kind # "rest_api" /\ Sound) \/ Fault
          /\ run' = [run EXCEPT ![r].at = "provider", ![r].began = row]
    /\ UNCHANGED <<admin, records>>

\* A failed lookup of an AI provider rejects the call: rejectOnProviderResolveError.
ResolveError_NotFound(r) ==
    run' = [run EXCEPT ![r].at = "policy", ![r].tool = NoRow] /\ UNCHANGED <<audit, lost>>
ResolveError(r) ==
    /\ \/ audit' = [audit EXCEPT ![r][K(r)] = Append(@, "denied")] /\ UNCHANGED lost
       \/ lost' = lost \cup {<<r, K(r)>>} /\ UNCHANGED audit
    /\ run' = [run EXCEPT ![r].at = "hooks", ![r].out = "blocked", ![r].ep = "failure"]

resolveAIProviderTool(r) ==
    /\ run[r].at = "provider"
    /\ LET row == Named(run[r].name) IN
       \/ /\ Sound /\ UNCHANGED <<audit, lost>>
          /\ run' = [run EXCEPT ![r].at = "policy", ![r].tool = IF row.kind = "ai_provider" THEN row ELSE NoRow]
       \/ Fault /\ ResolveError(r)
    /\ UNCHANGED <<admin, status, rows, usage, episodes, calls>>

\* The policy's decision; an evaluation that fails allows.  An escalation is on record before it
\* waits, and is pinned to the connector as resolved.
Policy(r) ==
    /\ run[r].at = "policy"
    /\ \/ To(r, "call") /\ Sound /\ UNCHANGED <<audit, lost>>
       \/ Reject(r, "denied")
       \/ /\ Write(r, "escalated")
          /\ \/ To(r, "hold")
             \/ run' = [run EXCEPT ![r].at = "hooks", ![r].out = "blocked"]  \* Submit fails
    /\ UNCHANGED <<admin, status, rows, usage, episodes, calls>>

\* Hold: the request is approved, or it is denied or expires.
Hold(r) ==
    /\ run[r].at = "hold"
    /\ \/ To(r, "resume") /\ Sound /\ UNCHANGED <<audit, lost>>
       \/ Reject(r, "blocked")
    /\ UNCHANGED <<admin, status, rows, usage, episodes, calls>>

\* dispatchApproved: the gates again, and the pinned connector as it was.
dispatchApproved(r) ==
    /\ run[r].at = "resume"
    /\ \/ /\ run[r].tool = NoRow \/ \E t \in tools : configHash(t) = configHash(run[r].tool)
          /\ To(r, "call") /\ Sound /\ UNCHANGED <<audit, lost>>
       \/ Reject(r, "blocked")
    /\ UNCHANGED <<admin, status, rows, usage, episodes, calls>>

AfterSend_Allowed(r) == Write(r, "allowed")
\* Until the answer nothing is on record.
AfterSend(r) == Sound /\ UNCHANGED <<audit, lost>>

\* The request leaves, with its parameters masked or as they are.
Send(r, masked) ==
    /\ calls' = calls \cup {[run |-> r, step |-> K(r), id |-> Current(r).id, from |-> Current(r).from,
                             value |-> run[r].value, masked |-> masked, answered |-> FALSE,
                             governed |-> run[r].began.masks /\ run[r].began = Named(run[r].name)]}
    /\ To(r, "answer") /\ AfterSend(r)
\* It fails before it does: no key, no address, no mapping of the action, no connection.
NotSent(r) == UNCHANGED calls /\ Reject(r, "blocked")

\* Whether the rules of a connector mask; without rules they do.
ParseConfig(row) == row.masks
\* What Redact hands on is masked wherever a pattern matches.
Redact(row) == ParseConfig(row)
ClaudeDispatch(r, masked) == Send(r, masked) \/ NotSent(r)
\* The router of AI providers redacts what it hands to the adapter.
ProviderDispatch(r) == run[r].tool.kind = "ai_provider" /\ ClaudeDispatch(r, Redact(run[r].tool))
\* The router of REST APIs and the static proxy send the parameters as they are.
ToolForward(r) == run[r].tool.kind = "rest_api" /\ (Send(r, FALSE) \/ NotSent(r))
ProxyForward(r) == run[r].tool = NoRow /\ (Send(r, FALSE) \/ NotSent(r))
Call(r) ==
    /\ run[r].at = "call"
    /\ ProviderDispatch(r) \/ ToolForward(r) \/ ProxyForward(r)
    /\ UNCHANGED <<admin, status, rows, usage, episodes>>

\* The answer, with the audit row it leads to: of the call, or of the resolution of its approval.
Answer(r) ==
    /\ run[r].at = "answer"
    /\ \/ /\ calls' = {IF c.run = r /\ c.step = K(r) THEN [c EXCEPT !.answered = TRUE] ELSE c : c \in calls}
          /\ Write(r, "allowed")
          /\ run' = [run EXCEPT ![r].at = "hooks", ![r].out = "allowed", ![r].ep = "success"]
       \/ UNCHANGED calls /\ Reject(r, "blocked")
    /\ UNCHANGED <<admin, status, rows, usage, episodes>>

\* Usage is recorded of what was dispatched, and an episode of all but a failed Submit, each in a
\* goroutine that may fail.
recordTokenUsage(r) ==
    usage' = IF run[r].out = "allowed" THEN [usage EXCEPT ![r][K(r)] = @ + 1] ELSE usage
recordEpisode(r) == episodes' = [episodes EXCEPT ![r][K(r)] = run[r].ep]
Hooks(r) ==
    /\ run[r].at = "hooks" /\ To(r, "record")
    /\ \/ recordTokenUsage(r) /\ recordEpisode(r) /\ Sound /\ UNCHANGED lost
       \/ /\ Fault /\ lost' = lost \cup {<<r, K(r)>>}
          /\ (recordTokenUsage(r) /\ UNCHANGED episodes) \/ (recordEpisode(r) /\ UNCHANGED usage)
    /\ UNCHANGED <<admin, status, rows, audit, calls>>
-----------------------------------------------------------------------------
Goes_PastBlocked(r) == run[r].out # "denied"
\* The run goes on only after a step that was allowed.
Goes(r) == run[r].out = "allowed"

\* updateRunStep, and the loop of Run.
updateRunStep(r) ==
    /\ run[r].at = "record"
    /\ \/ rows' = [rows EXCEPT ![r][K(r)] = IF @ = "none" THEN run[r].out ELSE @] /\ Sound
       \/ Fault /\ UNCHANGED rows
    /\ LET next == IF Goes(r) /\ K(r) < Len(run[r].def) THEN "step" ELSE "finish"
       IN run' = [run EXCEPT ![r] = [Idle EXCEPT !.at = next, !.def = run[r].def,
                                                 !.done = Append(run[r].done, run[r].out)]]
    /\ UNCHANGED <<admin, status, audit, usage, episodes, calls, lost>>

finalStatus(r) ==
    LET last == run[r].done[Len(run[r].done)]
    IN IF last = "allowed" THEN "completed" ELSE IF last = "denied" THEN "denied" ELSE "failed"

\* The last UPDATE is made for a client that is gone too: its context is WithoutCancel.
Cancelled_Request(r) == <<r, 0>> \in lost
Cancelled(r) == FALSE

Finish(r) ==
    /\ run[r].at = "finish"
    /\ \/ status' = [status EXCEPT ![r] = IF Cancelled(r) THEN @ ELSE finalStatus(r)] /\ To(r, "ended") /\ Sound
       \/ Fault /\ To(r, "unrecorded") /\ UNCHANGED status
    /\ UNCHANGED <<admin, rows, audit, usage, episodes, calls, lost>>

InFlight(r) == run[r].at \notin {"idle", "refused", "ended", "unrecorded", "dead"}

\* The client of a run goes away; <<r, 0>> records it.
Disconnect(r) ==
    /\ Fault /\ InFlight(r) /\ lost' = lost \cup {<<r, 0>>}
    /\ UNCHANGED <<admin, run, status, rows, audit, usage, episodes, calls>>

\* The gateway crashes: nothing takes up its runs again.
Crash ==
    /\ Fault /\ \E r \in Runs : InFlight(r)
    /\ run' = [r \in Runs |-> IF InFlight(r) THEN [Idle EXCEPT !.at = "dead"] ELSE run[r]]
    /\ UNCHANGED <<admin, records>>

runStep(r) ==
    \/ resolveConnectorByID(r) \/ resolveParams(r) \/ RejectAtGate(r)
    \/ resolveDynamicTool(r) \/ resolveAIProviderTool(r) \/ Policy(r) \/ Hold(r)
    \/ dispatchApproved(r) \/ Call(r) \/ Answer(r) \/ Hooks(r) \/ updateRunStep(r)
Executes(r) == runStep(r) \/ Finish(r)

Next ==
    \/ Operator \/ Handler \/ Crash
    \/ \E r \in Runs : HandleRun(r) \/ Executes(r) \/ Disconnect(r)

\* A run is a goroutine that the code never parks for good: approvals expire and clients time out.
Spec == Init /\ [][Next]_vars /\ \A r \in Runs : WF_vars(Executes(r))
-----------------------------------------------------------------------------
(* Properties. *)
Answered(r, k) == \E c \in calls : c.run = r /\ c.step = k /\ c.answered

\* The status of a run is what happened: it is "completed" only when the downstream services answered
\* every step of the definition it started from, and nothing is called after a step that was not
\* allowed (executor.go: "the first non-allowed step stops the run").
RunStatusTruthful ==
    \A r \in Runs :
      /\ status[r] = "completed" => \A k \in DOMAIN run[r].def : Answered(r, k)
      /\ status[r] \in {"denied", "failed"} => \E k \in DOMAIN run[r].def : ~Answered(r, k)
      /\ \A c \in calls : c.run = r => \A k \in 1..(c.step - 1) : Answered(r, k)

\* A value that a step extracts is the result, in the same run, of the step its mapping names,
\* wherever operators have moved either, and that step was answered before.
ExtractedFromNamedStep ==
    \A c \in calls : c.from # 0 =>
      /\ c.value = <<c.run, c.from>>
      /\ \E d \in calls : d.run = c.run /\ d.id = c.from /\ d.step < c.step /\ d.answered

\* The audit log, the usage records, the episodes and the outcome of a step tell of the call that was
\* made: none claims one without an answer, and, once the step is over and no write failed, all do of
\* one with an answer, whether it was allowed at once or after an approval.
AuditMatchesCalls ==
    \A r \in Runs, k \in Positions :
      LET written == {audit[r][k][j] : j \in DOMAIN audit[r][k]} IN
      /\ "allowed" \in written \/ usage[r][k] > 0 \/ episodes[r][k] = "success" => Answered(r, k)
      /\ k <= Len(run[r].done) => (Answered(r, k) <=> run[r].done[k] = "allowed")
      /\ k <= Len(run[r].done) /\ Answered(r, k) /\ <<r, k>> \notin lost =>
           "allowed" \in written /\ "denied" \notin written /\ usage[r][k] = 1 /\ episodes[r][k] = "success"

\* What is sent for the name of an AI provider whose rules mask, and which nobody changes during the
\* dispatch, is masked, even when a lookup fails on the way (B-168).
ProviderGoverned ==
    \A c \in calls : c.governed => c.masked

\* Again and again no run is under way: one that has started gets its final status, whether or not
\* its client waits for it, unless the gateway crashes or the one UPDATE that writes it fails.
RunEnds ==
    \A r \in Runs : []<>(status[r] # "running" \/ run[r].at \in {"dead", "unrecorded"})
-----------------------------------------------------------------------------
(* Why the invariants hold. *)
Waiting == {"idle", "refused", "dead"}
Dispatching == {"gates", "provider", "policy", "hold", "resume", "call"}
Working == {"step", "params", "answer", "hooks", "record"} \cup Dispatching
Over == {"finish", "ended", "unrecorded"}
Outcomes == {"allowed", "denied", "blocked"}
Decisions == {"allowed", "denied", "escalated"}

InMemory == [at : Waiting \cup Working \cup Over, def : Seq(Step), done : Seq(Outcomes),
             name : Names \cup {"none"}, began : Row \cup {NoRow}, tool : Row \cup {NoRow},
             value : {<<>>} \cup (Runs \X (0..MaxSteps)), out : Outcomes \cup {"none"},
             ep : {"none", "success", "failure"}]
Sent == [run : Runs, step : Positions, id : 1..MaxSteps, from : 0..MaxSteps,
         value : {<<>>} \cup (Runs \X (0..MaxSteps)), masked : BOOLEAN, answered : BOOLEAN, governed : BOOLEAN]

TypeOK ==
    /\ tools \subseteq Row /\ steps \in Seq(Step) /\ DOMAIN steps \subseteq Positions
    /\ params \in [1..MaxSteps -> {0, 1}]
    /\ updates \subseteq [steps : Seq(Step), params : [1..MaxSteps -> {0, 1}]]
    /\ \A u \in updates : DOMAIN u.steps \subseteq Positions
    /\ run \in [Runs -> InMemory] /\ \A r \in Runs : DOMAIN run[r].def \subseteq Positions
    /\ status \in [Runs -> {"none", "running", "completed", "denied", "failed"}]
    /\ rows \in [Runs -> Seq(Outcomes \cup {"none", "missing"})]
    /\ audit \in [Runs -> [Positions -> Seq(Decisions)]]
    /\ usage \in [Runs -> [Positions -> Nat]]
    /\ episodes \in [Runs -> [Positions -> {"none", "success", "failure"}]]
    /\ calls \subseteq Sent /\ lost \subseteq Runs \X Nat
    /\ edits \in 0..MaxEdits /\ faults \in 0..MaxFaults

\* Connectors have an identity and a name of their own, every write of one is told from all the others,
\* and only AI providers mask.
ToolsInv ==
    /\ \A a, b \in tools : a.id = b.id \/ a.name = b.name => a = b
    /\ \A t \in tools : t.rev <= edits /\ (t.masks => t.kind = "ai_provider")

\* m is what the gateway has in memory of run r: the position and the step it is at.
At(m) == Len(m.done) + 1
Now(m) == m.def[At(m)]

\* Where the run stands in its definition: every step before the current one was allowed.
LoopInv(r, m) ==
    /\ m.at \in Waiting => m.def = <<>> /\ m.done = <<>>
    /\ m.at \in Working =>
         Len(m.done) < Len(m.def) /\ \A k \in DOMAIN m.done : m.done[k] = "allowed"
    /\ m.at \in {"hooks", "record"} => m.out # "none"
    /\ m.at \in Over =>
         /\ Len(m.done) \in 1..Len(m.def)
         /\ \A k \in 1..(Len(m.done) - 1) : m.done[k] = "allowed"
         /\ m.done[Len(m.done)] = "allowed" => Len(m.done) = Len(m.def)
    /\ status[r] = "completed" => m.at = "ended" /\ m.done[Len(m.done)] = "allowed"
    /\ status[r] \in {"denied", "failed"} => m.at = "ended" /\ m.done[Len(m.done)] # "allowed"

\* A call of the step with identity i.
AnsweredAs(r, k, i) == \E c \in calls : c.run = r /\ c.step = k /\ c.id = i /\ c.answered

\* What the memory of a run says of the calls it has made.
CallsInv(r, m) ==
    /\ m.at # "dead" => \A c \in calls : c.run = r =>
         c.step <= Len(m.done) \/ (c.step = At(m) /\ m.at \in {"answer", "hooks", "record"})
    /\ \A k \in DOMAIN m.done :
         /\ m.done[k] = "allowed" => AnsweredAs(r, k, m.def[k].id)
         /\ Answered(r, k) => m.done[k] = "allowed"
    /\ m.at = "answer" =>
         /\ \E c \in calls : c.run = r /\ c.step = At(m) /\ c.id = Now(m).id
         /\ ~Answered(r, At(m))
    /\ m.at \in {"hooks", "record"} =>
         /\ m.out = "allowed" => AnsweredAs(r, At(m), Now(m).id)
         /\ Answered(r, At(m)) => m.out = "allowed"
    /\ \A c \in calls : c.run = r => \A k \in 1..(c.step - 1) : Answered(r, k)

\* The value of a step being dispatched is of an earlier step that was answered.
ExtractInv(r, m) ==
    m.at \in Dispatching /\ Now(m).from # 0 =>
      /\ m.value = <<r, Now(m).from>>
      /\ \E k \in DOMAIN m.done : AnsweredAs(r, k, Now(m).from)

Written(r, k) == {audit[r][k][j] : j \in DOMAIN audit[r][k]}
AllTell(r, k) ==
    <<r, k>> \notin lost =>
      "allowed" \in Written(r, k) /\ "denied" \notin Written(r, k) /\ usage[r][k] = 1 /\ episodes[r][k] = "success"

\* What is on record of each step while its run is in memory, and of any step for good.
RecordInv(r, m) ==
    /\ \A k \in Positions :
         /\ "allowed" \in Written(r, k) \/ usage[r][k] > 0 \/ episodes[r][k] = "success" => Answered(r, k)
         /\ k \in DOMAIN m.done /\ m.done[k] = "allowed" => AllTell(r, k)
         /\ m.at # "dead" /\ k > Len(m.done) /\ (k = At(m) => m.at \notin {"hooks", "record"}) =>
              "denied" \notin Written(r, k) /\ usage[r][k] = 0
    /\ m.at = "hooks" =>
         /\ m.out = "allowed" =>
              /\ m.ep = "success" /\ usage[r][At(m)] = 0
              /\ <<r, At(m)>> \notin lost => "allowed" \in Written(r, At(m)) /\ "denied" \notin Written(r, At(m))
         /\ m.ep = "success" => m.out = "allowed"
    /\ m.at = "record" /\ m.out = "allowed" => AllTell(r, At(m))
    /\ m.at \notin {"hooks", "record"} => m.ep = "none"

\* From the first lookup on: a connector that is still as it was found is the one that will be called.
GovernInv(m) ==
    m.at \in Dispatching \ {"gates"} /\ m.began # NoRow =>
      /\ m.began.rev <= edits /\ m.began.name = m.name
      /\ m.began.masks => m.began.kind = "ai_provider"
      /\ m.at # "provider" /\ m.began.masks /\ m.began \in tools => m.tool = m.began

\* All that is known of a run.
RunInv(r, m) == LoopInv(r, m) /\ CallsInv(r, m) /\ ExtractInv(r, m) /\ RecordInv(r, m)

WorkflowInv ==
    /\ TypeOK /\ ToolsInv /\ ExtractedFromNamedStep /\ ProviderGoverned
    /\ \A r \in Runs : RunInv(r, run[r]) /\ GovernInv(run[r])
=============================================================================
