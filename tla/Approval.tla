------------------------------ MODULE Approval ------------------------------
(***************************************************************************)
(* The human-approval protocol of the gateway: an escalated tool call      *)
(* (Dispatcher.Dispatch, Escalate branch) inserts an approval_requests     *)
(* row (Router.Submit) and blocks (Router.Hold) until a decision made      *)
(* through eami-api (Server.DecideApproval) reaches this gateway over      *)
(* LISTEN/NOTIFY (Router.resolve), or until the hold times out             *)
(* (Router.resolveHoldTimeout).  An approved call is resumed by            *)
(* Router.dispatchApproved, under the sync.Once of its pendingEntry.       *)
(*                                                                         *)
(* Each call is one goroutine (its program counter is pc[c]), each gateway *)
(* node has one listener goroutine (lpc[n], job[n]).  The two meet at the  *)
(* pendingEntry of the call: pending, ch, exec (the sync.Once and the body *)
(* it runs) and result.                                                    *)
(***************************************************************************)
EXTENDS Naturals

CONSTANTS
    Calls,      \* escalated tool calls; a call is also the id of its approval row
    Nodes,      \* gateway processes
    Users,      \* people who may decide
    Tools,      \* gateway_tools.id values that may ever exist under one tool name
    Configs,    \* fingerprints of a connector (ComputeConfigHash)
    None,       \* SQL NULL / Go zero value
    Gone,       \* a gateway_tools row that was deleted
    DbFaults,   \* may database statements of the gateway fail?
    Panics      \* may dispatchApproved panic?

ASSUME NoneAssumption ==
    /\ None \notin Calls /\ None \notin Users /\ None \notin Tools
    /\ None \notin Configs /\ Gone \notin Configs /\ None # Gone
ASSUME SwitchAssumption == DbFaults \in BOOLEAN /\ Panics \in BOOLEAN

VARIABLES
    status, approvedBy, resume,  \* approval_requests: status, approved_by, resume_outcome
    toNotify,  \* decisions committed whose NOTIFY is not sent yet (eami-api)
    tools,     \* gateway_tools, the rows of the one name the calls use
    live,      \* the governed agent and its token pass registry.CheckLive
    licensed,  \* the org's license covers the gateway module
    escalated, \* calls whose "escalated" audit_log row was written
    resolution,\* the resolution audit_log row of each call
    sends, sentTo, \* requests each call put on the wire, and their destination
    conn,      \* the node's LISTEN connection is up
    notes,     \* notifications buffered on that connection
    lpc, job, lread, lout,           \* listener goroutine of each node
    home, pin, pc, hread, out,       \* the goroutine of each call
    pending, ch, exec, runner, execBy, fetched, result  \* the call's pendingEntry

db     == <<status, approvedBy, resume, tools, live, licensed, escalated, resolution>>
lvars  == <<conn, notes, lpc, job, lread, lout>>
hvars  == <<home, pin, pc, hread, out>>
entry  == <<pending, ch, exec, runner, execBy, fetched, result>>
wire   == <<sends, sentTo>>
rowvars == <<status, approvedBy, resume>>
vars   == <<status, approvedBy, resume, toNotify, tools, live, licensed, escalated, resolution,
            sends, sentTo, conn, notes, lpc, job, lread, lout,
            home, pin, pc, hread, out,
            pending, ch, exec, runner, execBy, fetched, result>>

-----------------------------------------------------------------------------
(* HoldOutcome values.                                                     *)

Statuses == {"none", "pending", "approved", "denied", "expired"}
Decided == {"approved", "denied"}
Terminal == {"approved", "denied", "expired"}

ResumeOutcomes == {"none", "agent_not_active", "license_revoked",
    "usage_limit_exceeded", "usage_limit_contention", "static_fallback",
    "connector_deleted", "config_changed", "dispatched"}

Outcomes == [err: BOOLEAN, resolved: BOOLEAN, status: Statuses, by: Users \cup {None}]
Reads    == [status: Statuses, by: Users \cup {None}]
Pins     == [tool: Tools, cfg: Configs] \cup {None}

\* The zero HoldOutcome{}: what entry.result holds until the once body stores one.
ZeroOutcome == [err |-> FALSE, resolved |-> FALSE, status |-> "none", by |-> None]

\* HoldOutcome{Err: ...}: an outcome that could not be confirmed.
Unconfirmed == [err |-> TRUE, resolved |-> FALSE, status |-> "none", by |-> None]

\* outcomeFromStatus for every status but "approved".
NotApproved(read) ==
    IF read.status = "pending"
    THEN Unconfirmed
    ELSE [err |-> TRUE, resolved |-> read.status \in {"denied", "expired"},
          status |-> read.status, by |-> read.by]

\* outcomeFromStatus for "approved", once dispatchApproved returned.
Resumed(c, ok) ==
    [err |-> ~ok, resolved |-> TRUE, status |-> "approved", by |-> execBy[c]]

NoRead == [status |-> "none", by |-> None]

HoldPc == {"new", "submit", "hold", "waiting", "timeout", "update", "reread",
           "once", "finish", "returned", "crashed", "panicked"}
Ended == {"returned", "crashed", "panicked"}
ListenerPc == {"wait", "fetch", "once", "send"}
Body == {"live", "license", "usage", "connector", "send", "sent"}
ExecPc == {"fresh", "done"} \cup Body

\* The stages of the once body that come before the downstream request.
BeforeSend == {"fresh", "live", "license", "usage", "connector", "send"}

TypeOK ==
    /\ status \in [Calls -> Statuses]
    /\ approvedBy \in [Calls -> Users \cup {None}]
    /\ resume \in [Calls -> ResumeOutcomes]
    /\ toNotify \subseteq Calls
    /\ tools \in [Tools -> Configs \cup {None, Gone}]
    /\ live \in BOOLEAN /\ licensed \in BOOLEAN
    /\ escalated \subseteq Calls
    /\ resolution \in [Calls -> [decision: {"none", "allowed", "denied"},
                                 by: Users \cup {None}]]
    /\ sends \in [Calls -> Nat]
    /\ sentTo \in [Calls -> Pins]
    /\ conn \in [Nodes -> BOOLEAN]
    /\ notes \in [Nodes -> SUBSET Calls]
    /\ lpc \in [Nodes -> ListenerPc]
    /\ job \in [Nodes -> Calls \cup {None}]
    /\ \A n \in Nodes : lpc[n] = "wait" \/ job[n] \in Calls
    /\ lread \in [Nodes -> Reads]
    /\ lout \in [Nodes -> Outcomes]
    /\ home \in [Calls -> Nodes \cup {None}]
    /\ pin \in [Calls -> Pins]
    /\ pc \in [Calls -> HoldPc]
    /\ hread \in [Calls -> Reads]
    /\ out \in [Calls -> Outcomes]
    /\ pending \subseteq Calls
    /\ ch \in [Calls -> Outcomes \cup {None}]
    /\ exec \in [Calls -> ExecPc]
    /\ runner \in [Calls -> {"none", "listener", "hold"}]
    /\ execBy \in [Calls -> Users \cup {None}]
    /\ fetched \in [Calls -> Pins]
    /\ result \in [Calls -> Outcomes]

Init ==
    /\ status = [c \in Calls |-> "none"]
    /\ approvedBy = [c \in Calls |-> None]
    /\ resume = [c \in Calls |-> "none"]
    /\ toNotify = {}
    /\ tools \in {f \in [Tools -> Configs \cup {None}] :
                     \A s, t \in Tools : f[s] # None /\ f[t] # None => s = t}
    /\ live = TRUE /\ licensed = TRUE
    /\ escalated = {}
    /\ resolution = [c \in Calls |-> [decision |-> "none", by |-> None]]
    /\ sends = [c \in Calls |-> 0]
    /\ sentTo = [c \in Calls |-> None]
    /\ conn = [n \in Nodes |-> TRUE]
    /\ notes = [n \in Nodes |-> {}]
    /\ lpc = [n \in Nodes |-> "wait"]
    /\ job = [n \in Nodes |-> None]
    /\ lread = [n \in Nodes |-> NoRead]
    /\ lout = [n \in Nodes |-> ZeroOutcome]
    /\ home = [c \in Calls |-> None]
    /\ pin = [c \in Calls |-> None]
    /\ pc = [c \in Calls |-> "new"]
    /\ hread = [c \in Calls |-> NoRead]
    /\ out = [c \in Calls |-> ZeroOutcome]
    /\ pending = {}
    /\ ch = [c \in Calls |-> None]
    /\ exec = [c \in Calls |-> "fresh"]
    /\ runner = [c \in Calls |-> "none"]
    /\ execBy = [c \in Calls |-> None]
    /\ fetched = [c \in Calls |-> None]
    /\ result = [c \in Calls |-> ZeroOutcome]

-----------------------------------------------------------------------------
(* The call's goroutine: Dispatch (Escalate branch), Submit, Hold.         *)

Exists(t) == tools[t] \notin {None, Gone}

\* The connector the tool name resolves to now; (org_id, name) is UNIQUE.
Resolve == { [tool |-> t, cfg |-> tools[t]] : t \in {u \in Tools : Exists(u)} }

\* The gates passed and the policy said escalate: the connector is pinned and
\* the "escalated" audit row written (best effort) before the request exists.
Escalate(c, n) ==
    /\ pc[c] = "new"
    /\ live /\ licensed
    /\ home' = [home EXCEPT ![c] = n]
    /\ pin' = [pin EXCEPT ![c] = IF Resolve = {} THEN None ELSE CHOOSE p \in Resolve : TRUE]
    /\ \/ escalated' = escalated \cup {c}
       \/ DbFaults /\ UNCHANGED escalated
    /\ pc' = [pc EXCEPT ![c] = "submit"]
    /\ UNCHANGED <<rowvars, toNotify, tools, live, licensed, resolution, wire,
                   lvars, hread, out, entry>>

Submit(c) ==
    /\ pc[c] = "submit"
    /\ status' = [status EXCEPT ![c] = "pending"] /\ UNCHANGED <<approvedBy, resume>>
    /\ pc' = [pc EXCEPT ![c] = "hold"]
    /\ UNCHANGED <<toNotify, tools, live, licensed, escalated, resolution, wire,
                   lvars, home, pin, hread, out, entry>>

\* The INSERT failed: Dispatch returns the error, with no resolution row.
SubmitFails(c) ==
    /\ DbFaults
    /\ pc[c] = "submit"
    /\ out' = [out EXCEPT ![c] = Unconfirmed]
    /\ pc' = [pc EXCEPT ![c] = "returned"]
    /\ UNCHANGED <<db, toNotify, wire, lvars, home, pin, hread, entry>>

\* r.pending.Store(approvalID, entry).
Register(c) ==
    /\ pc[c] = "hold"
    /\ pending' = pending \cup {c}
    /\ pc' = [pc EXCEPT ![c] = "waiting"]
    /\ UNCHANGED <<db, toNotify, wire, lvars, home, pin, hread, out,
                   ch, exec, runner, execBy, fetched, result>>

\* Hold returns o; the deferred r.pending.Delete runs.
HoldReturns(c, o) ==
    /\ out' = [out EXCEPT ![c] = o]
    /\ pending' = pending \ {c}
    /\ pc' = [pc EXCEPT ![c] = "finish"]

\* case res := <-entry.ch, in Hold's select and again after the deadline.
Receive(c) ==
    /\ pc[c] \in {"waiting", "timeout"}
    /\ ch[c] # None
    /\ HoldReturns(c, ch[c])
    /\ ch' = [ch EXCEPT ![c] = None]
    /\ UNCHANGED <<db, toNotify, wire, lvars, home, pin, hread,
                   exec, runner, execBy, fetched, result>>

\* Mutant: the hold context has no deadline.
TimerFires_Never(c) == FALSE

TimerFires(c) ==
    /\ pc[c] = "waiting"
    /\ pc' = [pc EXCEPT ![c] = "timeout"]
    /\ UNCHANGED <<db, toNotify, wire, lvars, home, pin, hread, out, entry>>

\* The non-blocking check of resolveHoldTimeout found the channel empty.
NothingArrived(c) ==
    /\ pc[c] = "timeout"
    /\ ch[c] = None
    /\ pc' = [pc EXCEPT ![c] = "update"]
    /\ UNCHANGED <<db, toNotify, wire, lvars, home, pin, hread, out, entry>>

\* UPDATE ... SET status = 'expired' WHERE id = $1 AND status = 'pending'.
ExpireRow(c) ==
    /\ pc[c] = "update"
    /\ status[c] = "pending"
    /\ status' = [status EXCEPT ![c] = "expired"] /\ UNCHANGED <<approvedBy, resume>>
    /\ HoldReturns(c, NotApproved([status |-> "expired", by |-> None]))
    /\ UNCHANGED <<toNotify, tools, live, licensed, escalated, resolution, wire,
                   lvars, home, pin, hread, ch, exec, runner, execBy, fetched, result>>

\* ErrNoRows: a decision was committed first.
AlreadyDecided(c) ==
    /\ pc[c] = "update"
    /\ status[c] # "pending"
    /\ pc' = [pc EXCEPT ![c] = "reread"]
    /\ UNCHANGED <<db, toNotify, wire, lvars, home, pin, hread, out, entry>>

\* The UPDATE or the fallback SELECT failed; the UPDATE may have been applied.
TimeoutDbFails(c) ==
    /\ DbFaults
    /\ pc[c] \in {"update", "reread"}
    /\ \/ UNCHANGED rowvars
       \/ /\ pc[c] = "update" /\ status[c] = "pending"
          /\ status' = [status EXCEPT ![c] = "expired"] /\ UNCHANGED <<approvedBy, resume>>
    /\ HoldReturns(c, Unconfirmed)
    /\ UNCHANGED <<toNotify, tools, live, licensed, escalated, resolution, wire,
                   lvars, home, pin, hread, ch, exec, runner, execBy, fetched, result>>

Reread(c) ==
    /\ pc[c] = "reread"
    /\ hread' = [hread EXCEPT ![c] = [status |-> status[c], by |-> approvedBy[c]]]
    /\ pc' = [pc EXCEPT ![c] = "once"]
    /\ UNCHANGED <<db, toNotify, wire, lvars, home, pin, out, entry>>

\* Mutant: the body is not guarded by the once (the race of B-100).
StartOnce_Unguarded(c, who, read) ==
    /\ runner' = [runner EXCEPT ![c] = who]
    /\ read.status = "approved"
    /\ exec' = [exec EXCEPT ![c] = "live"]
    /\ execBy' = [execBy EXCEPT ![c] = read.by]
    /\ UNCHANGED result

\* Do(): the first caller runs outcomeFromStatus on what it read.
StartOnce(c, who, read) ==
    /\ exec[c] = "fresh"
    /\ runner' = [runner EXCEPT ![c] = who]
    /\ IF read.status = "approved"
       THEN /\ exec' = [exec EXCEPT ![c] = "live"]
            /\ execBy' = [execBy EXCEPT ![c] = read.by]
            /\ UNCHANGED result
       ELSE /\ exec' = [exec EXCEPT ![c] = "done"]
            /\ result' = [result EXCEPT ![c] = NotApproved(read)]
            /\ UNCHANGED execBy

HoldOnce(c) ==
    /\ pc[c] = "once"
    /\ StartOnce(c, "hold", hread[c])
    /\ UNCHANGED <<db, toNotify, wire, lvars, hvars, pending, ch, fetched>>

\* Do() returned: whoever ran the body, entry.result is its outcome.
HoldOnceDone(c) ==
    /\ pc[c] = "once"
    /\ exec[c] = "done"
    /\ HoldReturns(c, result[c])
    /\ UNCHANGED <<db, toNotify, wire, lvars, home, pin, hread,
                   ch, exec, runner, execBy, fetched, result>>

\* Mutant: the approver is named whatever became of the call.
ResolutionEntry_AlwaysNames(o) ==
    [decision |-> IF o.status = "approved" /\ ~o.err THEN "allowed" ELSE "denied",
     by |-> o.by]

\* The resolution audit_log row Dispatch derives from a HoldOutcome.
ResolutionEntry(o) ==
    LET decision == IF o.status = "approved" /\ ~o.err THEN "allowed" ELSE "denied"
    IN  [decision |-> decision,
         by |-> IF decision = "allowed" \/ o.status # "approved" THEN o.by ELSE None]

\* recordEscalationResolutionAuditHook (a failed write is only logged), then
\* Dispatch returns; outcome.Dispatched is ~out[c].err.
Finish(c) ==
    /\ pc[c] = "finish"
    /\ \/ /\ out[c].resolved
          /\ resolution' = [resolution EXCEPT ![c] = ResolutionEntry(out[c])]
       \/ ~out[c].resolved /\ UNCHANGED resolution
       \/ DbFaults /\ UNCHANGED resolution
    /\ pc' = [pc EXCEPT ![c] = "returned"]
    /\ UNCHANGED <<rowvars, toNotify, tools, live, licensed, escalated, wire,
                   lvars, home, pin, hread, out, entry>>

-----------------------------------------------------------------------------
(* dispatchApproved, run inside the once by the listener or by Hold.       *)

BodyReturns(c, ok) ==
    /\ exec' = [exec EXCEPT ![c] = "done"]
    /\ result' = [result EXCEPT ![c] = Resumed(c, ok)]

Proceed(c, stage) ==
    /\ exec' = [exec EXCEPT ![c] = stage]
    /\ UNCHANGED result

\* recordResumeOutcome: best effort.
RecordResume(c, outcome) ==
    \/ resume' = [resume EXCEPT ![c] = outcome] /\ UNCHANGED <<status, approvedBy>>
    \/ DbFaults /\ UNCHANGED rowvars

Refuse(c, outcome) == RecordResume(c, outcome) /\ BodyReturns(c, FALSE)

\* An error of CheckLive refuses like an agent that is not live.
CheckLive(c) ==
    /\ exec[c] = "live"
    /\ \/ live /\ Proceed(c, "license") /\ UNCHANGED rowvars
       \/ (~live \/ DbFaults) /\ Refuse(c, "agent_not_active")
    /\ UNCHANGED <<toNotify, tools, live, licensed, escalated, resolution, wire,
                   lvars, hvars, pending, ch, runner, execBy, fetched>>

CheckLicense(c) ==
    /\ exec[c] = "license"
    /\ \/ licensed /\ Proceed(c, "usage") /\ UNCHANGED rowvars
       \/ (~licensed \/ DbFaults) /\ Refuse(c, "license_revoked")
    /\ UNCHANGED <<toNotify, tools, live, licensed, escalated, resolution, wire,
                   lvars, hvars, pending, ch, runner, execBy, fetched>>

\* WithinUsageLimit and ReserveIfNearLimit; module UsageGate says when they refuse.
CheckUsage(c) ==
    /\ exec[c] = "usage"
    /\ \/ Proceed(c, "connector") /\ UNCHANGED rowvars
       \/ \E o \in {"usage_limit_exceeded", "usage_limit_contention"} : Refuse(c, o)
    /\ UNCHANGED <<toNotify, tools, live, licensed, escalated, resolution, wire,
                   lvars, hvars, pending, ch, runner, execBy, fetched>>

\* Without a pinned connector the static proxy is used; otherwise the pinned
\* row is fetched by id, and its fingerprint compared with the pinned one.
CheckConnector(c) ==
    /\ exec[c] = "connector"
    /\ \/ /\ pin[c] = None
          /\ RecordResume(c, "static_fallback") /\ Proceed(c, "send")
          /\ UNCHANGED fetched
       \/ /\ pin[c] # None /\ ~Exists(pin[c].tool)
          /\ Refuse(c, "connector_deleted")
          /\ UNCHANGED fetched
       \/ /\ pin[c] # None /\ Exists(pin[c].tool)
          /\ fetched' = [fetched EXCEPT ![c] = [tool |-> pin[c].tool, cfg |-> tools[pin[c].tool]]]
          /\ \/ tools[pin[c].tool] # pin[c].cfg /\ Refuse(c, "config_changed")
             \/ tools[pin[c].tool] = pin[c].cfg /\ Proceed(c, "send") /\ UNCHANGED rowvars
       \/ /\ DbFaults /\ pin[c] # None
          /\ BodyReturns(c, FALSE) /\ UNCHANGED <<rowvars, fetched>>
    /\ UNCHANGED <<toNotify, tools, live, licensed, escalated, resolution, wire,
                   lvars, hvars, pending, ch, runner, execBy>>

\* Mutant: the tool is resolved by name again when the request is made.
Destination_ByName(c) == IF Resolve = {} THEN None ELSE CHOOSE p \in Resolve : TRUE

\* The row handed to the router is the one fetched, not a second lookup.
Destination(c) == fetched[c]

\* The request goes out (or fails before it does); the client times out on a
\* downstream that does not answer.  result keeps the answer until Do returns.
SendDownstream(c) ==
    /\ exec[c] = "send"
    /\ \/ /\ sends' = [sends EXCEPT ![c] = @ + 1]
          /\ sentTo' = [sentTo EXCEPT ![c] = Destination(c)]
          /\ \E ok \in BOOLEAN : result' = [result EXCEPT ![c] = Resumed(c, ok)]
       \/ /\ UNCHANGED <<sends, sentTo>>
          /\ result' = [result EXCEPT ![c] = Resumed(c, FALSE)]
    /\ exec' = [exec EXCEPT ![c] = "sent"]
    /\ UNCHANGED <<db, toNotify, lvars, hvars, pending, ch, runner, execBy, fetched>>

\* resume_outcome 'dispatched' is recorded after the request was made.
RecordDispatched(c) ==
    /\ exec[c] = "sent"
    /\ IF pin[c] # None THEN RecordResume(c, "dispatched") ELSE UNCHANGED rowvars
    /\ exec' = [exec EXCEPT ![c] = "done"]
    /\ UNCHANGED <<toNotify, tools, live, licensed, escalated, resolution, wire,
                   lvars, hvars, pending, ch, runner, execBy, fetched, result>>

\* A panic inside Do() marks the once done with the result never assigned.  In
\* the listener safego.Guard recovers it and nothing is sent to entry.ch; in
\* Hold it unwinds the whole Dispatch.
BodyPanics(c) ==
    /\ Panics
    /\ exec[c] \in Body
    /\ exec' = [exec EXCEPT ![c] = "done"]
    /\ result' = [result EXCEPT ![c] = ZeroOutcome]
    /\ \/ /\ runner[c] = "listener"
          /\ lpc' = [n \in Nodes |-> IF job[n] = c THEN "wait" ELSE lpc[n]]
          /\ job' = [n \in Nodes |-> IF job[n] = c THEN None ELSE job[n]]
          /\ UNCHANGED <<pc, pending>>
       \/ /\ runner[c] = "hold"
          /\ pc' = [pc EXCEPT ![c] = "panicked"]
          /\ pending' = pending \ {c}
          /\ UNCHANGED <<lpc, job>>
    /\ UNCHANGED <<db, toNotify, wire, conn, notes, lread, lout,
                   home, pin, hread, out, ch, runner, execBy, fetched>>

-----------------------------------------------------------------------------
(* The listener goroutine of a node: Run, listenLoop, handleNotification,  *)
(* resolve.                                                                *)

ListenerIdle(n) ==
    /\ lpc' = [lpc EXCEPT ![n] = "wait"]
    /\ job' = [job EXCEPT ![n] = None]
    /\ lread' = [lread EXCEPT ![n] = NoRead]
    /\ lout' = [lout EXCEPT ![n] = ZeroOutcome]

\* A notification is taken; without a pending Hold on this node it is dropped.
TakeNotification(n, c) ==
    /\ lpc[n] = "wait" /\ conn[n]
    /\ c \in notes[n]
    /\ notes' = [notes EXCEPT ![n] = @ \ {c}]
    /\ IF c \in pending /\ home[c] = n
       THEN /\ lpc' = [lpc EXCEPT ![n] = "fetch"]
            /\ job' = [job EXCEPT ![n] = c]
       ELSE UNCHANGED <<lpc, job>>
    /\ UNCHANGED <<db, toNotify, wire, conn, lread, lout, hvars, entry>>

FetchDecision(n) ==
    /\ lpc[n] = "fetch"
    /\ lread' = [lread EXCEPT ![n] = [status |-> status[job[n]], by |-> approvedBy[job[n]]]]
    /\ lpc' = [lpc EXCEPT ![n] = "once"]
    /\ UNCHANGED <<db, toNotify, wire, conn, notes, job, lout, hvars, entry>>

\* The SELECT failed: the error goes to the waiter, past the once.
FetchFails(n) ==
    /\ DbFaults
    /\ lpc[n] = "fetch"
    /\ lout' = [lout EXCEPT ![n] = Unconfirmed]
    /\ lpc' = [lpc EXCEPT ![n] = "send"]
    /\ UNCHANGED <<db, toNotify, wire, conn, notes, job, lread, hvars, entry>>

ListenerOnce(n) ==
    /\ lpc[n] = "once"
    /\ StartOnce(job[n], "listener", lread[n])
    /\ UNCHANGED <<db, toNotify, wire, lvars, hvars, pending, ch, fetched>>

ListenerOnceDone(n) ==
    /\ lpc[n] = "once"
    /\ exec[job[n]] = "done"
    /\ lout' = [lout EXCEPT ![n] = result[job[n]]]
    /\ lpc' = [lpc EXCEPT ![n] = "send"]
    /\ UNCHANGED <<db, toNotify, wire, conn, notes, job, lread, hvars, entry>>

\* entry.ch <- ...; the channel has one slot, so a second send would block.
Send(n) ==
    /\ lpc[n] = "send"
    /\ ch[job[n]] = None
    /\ ch' = [ch EXCEPT ![job[n]] = lout[n]]
    /\ ListenerIdle(n)
    /\ UNCHANGED <<db, toNotify, wire, conn, notes, hvars,
                   pending, exec, runner, execBy, fetched, result>>

\* WaitForNotification fails: what was buffered or sent meanwhile is lost.
Disconnect(n) ==
    /\ lpc[n] = "wait" /\ conn[n]
    /\ conn' = [conn EXCEPT ![n] = FALSE]
    /\ notes' = [notes EXCEPT ![n] = {}]
    /\ UNCHANGED <<db, toNotify, wire, lpc, job, lread, lout, hvars, entry>>

Reconnect(n) ==
    /\ ~conn[n]
    /\ conn' = [conn EXCEPT ![n] = TRUE]
    /\ UNCHANGED <<db, toNotify, wire, notes, lpc, job, lread, lout, hvars, entry>>

\* The process dies and is restarted: its goroutines and entries are gone, a
\* request already on the wire is not.
Crash(n) ==
    LET lost == {c \in Calls : home[c] = n /\ pc[c] \notin Ended}
    IN  /\ pc' = [c \in Calls |-> IF c \in lost THEN "crashed" ELSE pc[c]]
        /\ pending' = pending \ lost
        /\ exec' = [c \in Calls |-> IF home[c] = n /\ exec[c] \in Body THEN "done" ELSE exec[c]]
        /\ conn' = [conn EXCEPT ![n] = FALSE]
        /\ notes' = [notes EXCEPT ![n] = {}]
        /\ ListenerIdle(n)
        /\ UNCHANGED <<db, toNotify, wire, home, pin, hread, out,
                       ch, runner, execBy, fetched, result>>

-----------------------------------------------------------------------------
(* eami-api: DecideApproval, and the changes other handlers make.          *)

\* UPDATE ... WHERE id = $1 AND org_id = $2 AND status = 'pending'.
Decide(c, u, d) ==
    /\ status[c] = "pending"
    /\ status' = [status EXCEPT ![c] = d]
    /\ approvedBy' = [approvedBy EXCEPT ![c] = u]
    /\ UNCHANGED resume
    /\ toNotify' = toNotify \cup {c}
    /\ UNCHANGED <<tools, live, licensed, escalated, resolution, wire,
                   lvars, hvars, entry>>

\* pg_notify after the UPDATE, in a statement of its own; its error is dropped,
\* and it reaches the connections that are listening at that moment.
Notify(c) ==
    /\ c \in toNotify
    /\ toNotify' = toNotify \ {c}
    /\ notes' = [n \in Nodes |-> IF conn[n] THEN notes[n] \cup {c} ELSE notes[n]]
    /\ UNCHANGED <<db, wire, conn, lpc, job, lread, lout, hvars, entry>>

NotifyLost(c) ==
    /\ c \in toNotify
    /\ toNotify' = toNotify \ {c}
    /\ UNCHANGED <<db, wire, lvars, hvars, entry>>

EditTool(t, g) ==
    /\ Exists(t)
    /\ tools' = [tools EXCEPT ![t] = g]
    /\ UNCHANGED <<rowvars, toNotify, live, licensed, escalated, resolution, wire,
                   lvars, hvars, entry>>

DeleteTool(t) ==
    /\ Exists(t)
    /\ tools' = [tools EXCEPT ![t] = Gone]
    /\ UNCHANGED <<rowvars, toNotify, live, licensed, escalated, resolution, wire,
                   lvars, hvars, entry>>

\* A new row under the same name has a new id.
CreateTool(t, g) ==
    /\ tools[t] = None
    /\ \A s \in Tools : ~Exists(s)
    /\ tools' = [tools EXCEPT ![t] = g]
    /\ UNCHANGED <<rowvars, toNotify, live, licensed, escalated, resolution, wire,
                   lvars, hvars, entry>>

\* The agent is suspended or reactivated, its token or key revoked.
SetLive(b) ==
    /\ live # b
    /\ live' = b
    /\ UNCHANGED <<rowvars, toNotify, tools, licensed, escalated, resolution, wire,
                   lvars, hvars, entry>>

SetLicensed(b) ==
    /\ licensed # b
    /\ licensed' = b
    /\ UNCHANGED <<rowvars, toNotify, tools, live, escalated, resolution, wire,
                   lvars, hvars, entry>>

-----------------------------------------------------------------------------
CallStep(c) ==
    \/ Submit(c) \/ SubmitFails(c) \/ Register(c) \/ Receive(c) \/ TimerFires(c)
    \/ NothingArrived(c) \/ ExpireRow(c) \/ AlreadyDecided(c) \/ TimeoutDbFails(c)
    \/ Reread(c) \/ HoldOnce(c) \/ HoldOnceDone(c) \/ Finish(c)

BodyStep(c) ==
    \/ CheckLive(c) \/ CheckLicense(c) \/ CheckUsage(c) \/ CheckConnector(c)
    \/ SendDownstream(c) \/ RecordDispatched(c)

ResolveStep(n) ==
    \/ FetchDecision(n) \/ FetchFails(n) \/ ListenerOnce(n) \/ ListenerOnceDone(n)
    \/ Send(n)

ApiStep ==
    \/ \E c \in Calls : \/ \E u \in Users, d \in Decided : Decide(c, u, d)
                        \/ Notify(c) \/ NotifyLost(c)
    \/ \E t \in Tools : DeleteTool(t) \/ \E g \in Configs : EditTool(t, g) \/ CreateTool(t, g)
    \/ \E b \in BOOLEAN : SetLive(b) \/ SetLicensed(b)

Next ==
    \/ \E c \in Calls : \/ \E n \in Nodes : Escalate(c, n)
                        \/ CallStep(c) \/ BodyStep(c) \/ BodyPanics(c)
    \/ \E n \in Nodes : \/ \E c \in Calls : TakeNotification(n, c)
                        \/ ResolveStep(n)
                        \/ Disconnect(n) \/ Reconnect(n) \/ Crash(n)
    \/ ApiStep

Spec == Init /\ [][Next]_vars

\* Goroutines that can run do run, the hold timer fires, the downstream client
\* has a timeout.  Nothing is assumed of users, notifications or reconnection.
Fairness ==
    /\ \A c \in Calls : WF_vars(CallStep(c)) /\ WF_vars(BodyStep(c))
    /\ \A n \in Nodes : WF_vars(ResolveStep(n))

FairSpec == Spec /\ Fairness

-----------------------------------------------------------------------------
(* The inductive invariant behind the safety properties.                   *)

\* The approval row against the progress of its call.
RowInv ==
    \A c \in Calls :
        /\ pc[c] \in {"new", "submit"} => status[c] = "none"
        /\ pc[c] \in {"hold", "waiting", "timeout", "update", "reread", "once"}
              => status[c] # "none"
        /\ status[c] \in {"none", "pending", "expired"} => approvedBy[c] = None

\* A decision somebody read, or was notified of, is the committed one.
ReadInv ==
    /\ \A c \in Calls :
          /\ pc[c] \in {"reread", "once"} => status[c] \in Terminal
          /\ pc[c] = "once" => hread[c] = [status |-> status[c], by |-> approvedBy[c]]
    /\ \A c \in toNotify : status[c] \in Decided
    /\ \A n \in Nodes :
          /\ \A c \in notes[n] : status[c] \in Decided
          /\ lpc[n] # "wait" => status[job[n]] \in Decided
          /\ lpc[n] = "once" =>
                lread[n] = [status |-> status[job[n]], by |-> approvedBy[job[n]]]

\* The once body against the row and the wire.
ExecInv ==
    \A c \in Calls :
        /\ exec[c] # "fresh" => status[c] \in Terminal
        /\ exec[c] \in Body => status[c] = "approved" /\ execBy[c] = approvedBy[c]
        /\ exec[c] \in BeforeSend => sends[c] = 0
        /\ sends[c] <= 1
        /\ sends[c] > 0 => status[c] = "approved" /\ sentTo[c] = pin[c]
        /\ exec[c] \in BeforeSend \ {"send"} => fetched[c] = None
        /\ exec[c] = "send" => fetched[c] = pin[c]

\* What was read is what was committed, and what was sent is what was read:
\* together with the types, an inductive invariant of the protocol.
Inv == TypeOK /\ RowInv /\ ReadInv /\ ExecInv

\* A HoldOutcome that claims to be resolved is of the final row, and one that
\* claims the call was carried out is of a call whose request went out.
Confirmed(c, o) ==
    o.resolved =>
        /\ status[c] \in Terminal
        /\ o.status = status[c] /\ o.by = approvedBy[c]
        /\ o.status = "approved" /\ ~o.err => sends[c] = 1

\* The outcomes under way between the once body, the channel and the caller.
OutcomeInv ==
    /\ \A c \in Calls :
          /\ Confirmed(c, result[c])
          /\ ch[c] # None => Confirmed(c, ch[c])
          /\ Confirmed(c, out[c])
    /\ \A n \in Nodes : lpc[n] = "send" => Confirmed(job[n], lout[n])

\* resume_outcome against the stage of the once body.
ResumeInv ==
    \A c \in Calls :
        /\ exec[c] \in BeforeSend \ {"send"} => resume[c] = "none"
        /\ exec[c] \in {"send", "sent"} => resume[c] \in {"none", "static_fallback"}
        /\ resume[c] = "static_fallback" => pin[c] = None
        /\ resume[c] = "dispatched" => pin[c] # None
        /\ resume[c] \notin {"none", "static_fallback", "dispatched"} => sends[c] = 0

-----------------------------------------------------------------------------
(* Properties.                                                             *)

\* resolve() and Hold's timeout backstop may both find the approval: the
\* downstream connector still sees at most one request per approval.
AtMostOneDispatch == \A c \in Calls : sends[c] <= 1

\* A request reaches the downstream only while its approval row says approved:
\* never for a denied or an expired one, whichever of decision, notification
\* and timeout came first.
DispatchNeedsApproval ==
    \A c \in Calls : sends[c] > 0 => status[c] = "approved"

\* The request went to the connector and configuration resolved when the call
\* was escalated, whatever was edited, deleted or re-created during the hold.
DestinationIsPinned ==
    \A c \in Calls : sends[c] > 0 => sentTo[c] = pin[c]

\* A refusal recorded in resume_outcome is true: nothing was sent, and the
\* two outcomes of a dispatch name the route that was taken.
ResumeOutcomeTruthful ==
    \A c \in Calls :
        /\ resume[c] = "static_fallback" => pin[c] = None
        /\ resume[c] = "dispatched" => pin[c] # None
        /\ resume[c] \notin {"none", "static_fallback", "dispatched"}
              => sends[c] = 0

\* The audit row of a resolution says what happened: "allowed" is a call that
\* reached the downstream and was approved by the person named; "denied" names
\* a person only if that person denied it.
ResolutionTruthful ==
    \A c \in Calls :
        /\ resolution[c].decision = "allowed" =>
              /\ sends[c] = 1
              /\ status[c] = "approved"
              /\ resolution[c].by = approvedBy[c]
        /\ resolution[c].decision = "denied" /\ resolution[c].by # None =>
              /\ status[c] = "denied"
              /\ resolution[c].by = approvedBy[c]

\* A confirmed HoldOutcome agrees with the committed approval row, even when
\* expiry, decision and notification crossed each other.
OutcomeMatchesRow ==
    \A c \in Calls :
        pc[c] \in {"finish", "returned"} /\ out[c].resolved =>
            /\ out[c].status = status[c]
            /\ out[c].by = approvedBy[c]

\* What the gateway records of a held call, in the approval row, in the audit
\* trail and in what it answers, tells what happened to it.
RecordsTruthful == ResumeOutcomeTruthful /\ ResolutionTruthful /\ OutcomeMatchesRow

\* The inductive invariant behind it.
RecordsInv == Inv /\ OutcomeInv /\ ResumeInv /\ ResolutionTruthful

\* Every Hold ends: by decision, by timeout, or with its process.
HoldEnds == \A c \in Calls : pc[c] = "waiting" ~> pc[c] \in Ended

\* An approval granted while the call is held is acted upon, even if its
\* notification is lost or came before the waiter registered: the once body has
\* run (and dispatched or refused) when Dispatch returns, unless the process
\* dies, the body panics, or the caller hears that the outcome is unconfirmed.
DecisionHonoured ==
    \A c \in Calls :
        status[c] = "approved" /\ pc[c] \in {"hold", "waiting", "timeout", "update"}
            ~> \/ pc[c] \in {"crashed", "panicked"}
               \/ pc[c] = "returned" /\ (out[c].resolved => exec[c] = "done")

\* The listener comes back to its connection after every notification.
ListenerReturns == \A n \in Nodes : lpc[n] # "wait" ~> lpc[n] = "wait"

\* An agent that stopped being live before the decision, and stayed so, never
\* has the approved call carried out.
SuspendedNeverRuns ==
    \A c \in Calls :
        [](status[c] = "pending" /\ [](~live) => [](sends[c] = 0))

\* What a Hold owes its caller and the other calls of the node, over time.
HoldsProgress == HoldEnds /\ DecisionHonoured /\ ListenerReturns /\ SuspendedNeverRuns

Contract == INSTANCE ApprovalContract WITH
    decision <- [c \in Calls |-> [status |-> status[c], by |-> approvedBy[c]]],
    runs <- [c \in Calls |-> sends[c]]

\* The protocol implements its contract: decided once, the decision final, the
\* action carried out at most once and after the approval.
ImplementsContract == Contract!CSpec

=============================================================================
