----------------------------- MODULE ScanReport -----------------------------
(***************************************************************************)
(* One scan cycle after another of eami-agent: BuildWith starts a goroutine *)
(* per enabled scanner, collect gathers their outcomes until the deadline,  *)
(* EnforceMaxSize drops results from a report that is too large, and the    *)
(* report is sent.  A scanner cannot be stopped: one that blocks outlives   *)
(* the cycle that started it.                                               *)
(*                                                                          *)
(* Abstractions: a result is complete (it was gathered before the deadline) *)
(* or partial, and empty or of size one; the report's own fields have size  *)
(* zero.  A goroutine that has signed off from inFlight and was started by  *)
(* an earlier cycle writes to a channel nobody reads, and is left out.      *)
(***************************************************************************)
EXTENDS Integers, FiniteSets, Sequences

CONSTANTS
    Specs,      \* names of the scanners, in the order of specs
    DropOrder,  \* the same names, in the order EnforceMaxSize drops them
    MaxReportSize,
    MaxCycles   \* bound on scan cycles

Names == {Specs[i] : i \in DOMAIN Specs}

ASSUME ScanAssumption ==
    /\ Specs \in Seq(Names) /\ \A i, j \in DOMAIN Specs : Specs[i] = Specs[j] => i = j
    /\ Len(DropOrder) = Len(Specs)
    /\ Names = {DropOrder[i] : i \in DOMAIN DropOrder}
    /\ MaxReportSize \in Nat /\ MaxCycles \in Nat

VARIABLES
    cycle,      \* number of the scan
    stage,      \* of the loop: "idle", "launch", "gather", "enforce" or "sent"
    enabled,    \* the scanners this scan's configuration enables
    next,       \* position in Specs of the next one to start
    expired,    \* this scan's context is past its deadline
    closed,     \* collect has returned: commit writes no more
    pending,    \* scanners collect still waits for
    results,    \* outcomes in the channel
    gs,         \* goroutines that have not signed off, and this scan's that have not sent
    running,    \* inFlight.running
    data,       \* the report: each scanner's result
    status,     \* the report: scanner_status
    reasons,    \* the report: scanner_errors
    found       \* history: what each scanner's run of this scan handed to commit

loop == <<cycle, stage, enabled, next, expired, closed>>
report == <<data, status, reasons>>
scanVars == <<loop, pending, results, gs, running, report, found>>

Nothing == [size |-> 0, complete |-> FALSE]
Result == [size : {0, 1}, complete : BOOLEAN]
Statuses == {"ok", "disabled", "error"}
Reasons == {"timeout", "still_running", "panic", "error", "too_large"}
Outcome == [status : {"ok"}, reason : {"none"}] \cup
           [status : {"error"}, reason : {"timeout", "panic", "error"}]
OK == [status |-> "ok", reason |-> "none"]
Failed(r) == [status |-> "error", reason |-> r]

\* A goroutine: in fn, back from it with a nil error, about to leave inFlight, about to send.
Goroutine == [name : Names, cycle : 1..MaxCycles, at : {"fn", "returned", "leaving", "sending"}, out : Outcome]

\* The context a goroutine was given: that of an earlier scan is over.
Over(g) == g.cycle < cycle \/ expired
Open_Always(g) == g.cycle = cycle
\* commit writes while collect has not returned; an earlier scan's has.
Open(g) == g.cycle = cycle /\ ~closed

Replace(g, h) == gs' = (gs \ {g}) \cup {h}

ScanTypeOK ==
    /\ cycle \in 0..MaxCycles /\ next \in 1..(Len(Specs) + 1)
    /\ stage \in {"idle", "launch", "gather", "enforce", "sent"}
    /\ enabled \subseteq Names /\ pending \subseteq Names /\ running \subseteq Names
    /\ expired \in BOOLEAN /\ closed \in BOOLEAN
    /\ results \subseteq [name : Names, out : Outcome]
    /\ gs \subseteq Goroutine
    /\ data \in [Names -> Result] /\ found \in [Names -> Result]
    /\ status \in [Names -> Statuses \cup {"none"}] /\ reasons \in [Names -> Reasons \cup {"none"}]

ScanInit ==
    /\ cycle = 0 /\ stage = "idle" /\ enabled = {} /\ next = 1 /\ expired = FALSE /\ closed = TRUE
    /\ pending = {} /\ results = {} /\ gs = {} /\ running = {}
    /\ data = [s \in Names |-> Nothing] /\ found = [s \in Names |-> Nothing]
    /\ status = [s \in Names |-> "none"] /\ reasons = [s \in Names |-> "none"]
-----------------------------------------------------------------------------
(* BuildWith: a new report, a new context, the scanners the snapshot enables. *)
BuildWith ==
    /\ stage \in {"idle", "sent"} /\ cycle < MaxCycles
    /\ cycle' = cycle + 1 /\ stage' = "launch" /\ next' = 1 /\ expired' = FALSE /\ closed' = FALSE
    /\ enabled' \in SUBSET Names
    /\ pending' = {} /\ results' = {}
    /\ gs' = {g \in gs : g.at # "sending"}
    /\ data' = [s \in Names |-> Nothing] /\ found' = [s \in Names |-> Nothing]
    /\ status' = [s \in Names |-> "none"] /\ reasons' = [s \in Names |-> "none"]
    /\ UNCHANGED running

Startable_Again(s) == TRUE
\* A scanner is started unless its run of an earlier scan has not returned.
Startable(s) == s \notin running

(* The body of collect's first loop, for the next scanner. *)
Launch ==
    /\ stage = "launch" /\ next <= Len(Specs)
    /\ next' = next + 1
    /\ LET s == Specs[next] IN
         \/ /\ s \notin enabled
            /\ status' = [status EXCEPT ![s] = "disabled"]
            /\ UNCHANGED <<reasons, pending, gs, running>>
         \/ /\ s \in enabled /\ ~Startable(s)
            /\ status' = [status EXCEPT ![s] = "error"]
            /\ reasons' = [reasons EXCEPT ![s] = "still_running"]
            /\ UNCHANGED <<pending, gs, running>>
         \/ /\ s \in enabled /\ Startable(s)
            /\ running' = running \cup {s} /\ pending' = pending \cup {s}
            /\ gs' = gs \cup {[name |-> s, cycle |-> cycle, at |-> "fn", out |-> Failed("panic")]}
            /\ UNCHANGED <<status, reasons>>
    /\ UNCHANGED <<cycle, stage, enabled, expired, closed, results, data, found>>

Launched ==
    /\ stage = "launch" /\ next > Len(Specs)
    /\ stage' = "gather"
    /\ UNCHANGED <<cycle, enabled, next, expired, closed, pending, results, gs, running, report, found>>

\* The 30 seconds of the context are over.
Deadline ==
    /\ stage \in {"launch", "gather"} /\ ~expired
    /\ expired' = TRUE
    /\ UNCHANGED <<cycle, stage, enabled, next, closed, pending, results, gs, running, report, found>>
-----------------------------------------------------------------------------
(* The goroutine of a scanner. *)
\* fn has a result and no error: it goes into the report through commit.  Once
\* the context is over a scanner may have stopped early, with part of the result.
FnCommits(g) ==
    /\ g.at = "fn"
    /\ \E r \in Result :
         /\ r.complete \/ Over(g)
         /\ data' = IF Open(g) THEN [data EXCEPT ![g.name] = r] ELSE data
         /\ found' = IF g.cycle = cycle THEN [found EXCEPT ![g.name] = r] ELSE found
    /\ Replace(g, [g EXCEPT !.at = "returned"])
    /\ UNCHANGED <<loop, pending, results, running, status, reasons>>

\* fn returns an error: the context's own once that is over, or another.
FnFails(g) ==
    /\ g.at = "fn"
    /\ \E r \in {"error"} \cup (IF Over(g) THEN {"timeout"} ELSE {}) :
         Replace(g, [g EXCEPT !.at = "leaving", !.out = Failed(r)])
    /\ UNCHANGED <<loop, pending, results, running, report, found>>

FnPanics(g) ==
    /\ g.at = "fn"
    /\ Replace(g, [g EXCEPT !.at = "leaving"])
    /\ UNCHANGED <<loop, pending, results, running, report, found>>

\* A nil error once the context is over is not trusted.
Classify(g) == IF Over(g) THEN Failed("timeout") ELSE OK

Classified(g) ==
    /\ g.at = "returned"
    /\ Replace(g, [g EXCEPT !.at = "leaving", !.out = Classify(g)])
    /\ UNCHANGED <<loop, pending, results, running, report, found>>

\* The deferred function: the name leaves inFlight, then the outcome is sent.
Leave(g) ==
    /\ g.at = "leaving"
    /\ running' = running \ {g.name}
    /\ IF g.cycle = cycle THEN Replace(g, [g EXCEPT !.at = "sending"]) ELSE gs' = gs \ {g}
    /\ UNCHANGED <<loop, pending, results, report, found>>

Send(g) ==
    /\ g.at = "sending"
    /\ gs' = gs \ {g}
    /\ results' = results \cup {[name |-> g.name, out |-> g.out]}
    /\ UNCHANGED <<loop, pending, running, report, found>>
-----------------------------------------------------------------------------
(* collect's second loop. *)
Receive ==
    /\ stage = "gather" /\ pending # {}
    /\ \E d \in results :
         /\ results' = results \ {d} /\ pending' = pending \ {d.name}
         /\ status' = [status EXCEPT ![d.name] = d.out.status]
         /\ reasons' = [reasons EXCEPT ![d.name] = d.out.reason]
    /\ UNCHANGED <<loop, gs, running, data, found>>

GiveUp_Never == FALSE
GiveUp == expired

\* ctx.Done(): what already waits in the channel is taken, the rest has timed out.
Drain ==
    /\ stage = "gather" /\ pending # {} /\ GiveUp
    /\ LET waiting(s) == {d \in results : d.name = s}
           out(s) == IF waiting(s) # {} THEN (CHOOSE d \in waiting(s) : TRUE).out ELSE Failed("timeout")
       IN  /\ status' = [s \in Names |-> IF s \in pending THEN out(s).status ELSE status[s]]
           /\ reasons' = [s \in Names |-> IF s \in pending THEN out(s).reason ELSE reasons[s]]
    /\ pending' = {} /\ results' = {}
    /\ UNCHANGED <<loop, gs, running, data, found>>

Return ==
    /\ stage = "gather" /\ pending = {}
    /\ closed' = TRUE /\ stage' = "enforce"
    /\ UNCHANGED <<cycle, enabled, next, expired, pending, results, gs, running, report, found>>
-----------------------------------------------------------------------------
(* EnforceMaxSize: whole results go, in DropOrder, until the report fits. *)
Droppable == SelectSeq(DropOrder, LAMBDA s : status[s] = "ok" /\ data[s].size > 0)
Size == Cardinality({s \in Names : data[s].size > 0})
\* How many of them go: each is of size one, and a maximum of zero is none.
Excess == IF MaxReportSize = 0 \/ Size <= MaxReportSize THEN 0
          ELSE IF Size - MaxReportSize > Len(Droppable) THEN Len(Droppable) ELSE Size - MaxReportSize
Dropped == {Droppable[i] : i \in 1..Excess}

EnforceMaxSize_Silent ==
    /\ data' = [s \in Names |-> IF s \in Dropped THEN Nothing ELSE data[s]]
    /\ UNCHANGED <<status, reasons>>
EnforceMaxSize ==
    /\ data' = [s \in Names |-> IF s \in Dropped THEN Nothing ELSE data[s]]
    /\ status' = [s \in Names |-> IF s \in Dropped THEN "error" ELSE status[s]]
    /\ reasons' = [s \in Names |-> IF s \in Dropped THEN "too_large" ELSE reasons[s]]

(* The loop sends the report and waits for the next scan. *)
EnforceAndSend ==
    /\ stage = "enforce"
    /\ stage' = "sent"
    /\ EnforceMaxSize
    /\ UNCHANGED <<cycle, enabled, next, expired, closed, pending, results, gs, running, found>>

\* All the scans there are: the bound on cycles, not the agent, ends here.
Finished ==
    /\ stage = "sent" /\ cycle = MaxCycles /\ {g \in gs : g.at # "fn"} = {}
    /\ UNCHANGED scanVars

Collect == BuildWith \/ Launch \/ Launched \/ Receive \/ Drain \/ Return \/ EnforceAndSend
Scanner == \E g \in gs : FnCommits(g) \/ FnFails(g) \/ FnPanics(g) \/ Classified(g) \/ Leave(g) \/ Send(g)
ScanNext == Collect \/ Deadline \/ Scanner \/ Finished

ScanSpec == ScanInit /\ [][ScanNext]_scanVars
\* The loop runs and time passes; a scanner may block for ever.
ScanFairSpec == ScanSpec /\ WF_scanVars(Collect) /\ WF_scanVars(Deadline)
-----------------------------------------------------------------------------
\* A report that says "ok" of a scanner carries the whole result of that scanner's run of
\* this scan, gathered before the deadline, and nothing when the run found nothing; a result
\* that is left out shows in scanner_status (collect, EnforceMaxSize).
OkIsTheWholeResult ==
    stage = "sent" =>
        \A s \in Names : status[s] = "ok" => found[s].complete /\ data[s] = found[s]

\* A scanner that is still at work when its report has gone out changes nothing in it
\* (commit, closed).
SentReportIsFinal == [][stage = "sent" /\ stage' = "sent" => UNCHANGED report]_scanVars

\* However many scans go by, one scanner has at most one run that has not returned (inFlight).
OneRunPerScanner ==
    \A g, h \in gs : g.name = h.name /\ "sending" \notin {g.at, h.at} => g = h

\* Whatever its scanners do, a scan ends in a report (the deadline of collect).
EveryScanReports == \A c \in 1..MaxCycles : cycle = c ~> (cycle = c /\ stage = "sent")
-----------------------------------------------------------------------------
(* Why it is so. *)
Begun == {Specs[i] : i \in 1..(next - 1)}
\* A goroutine of the scan under way.
OfScan(g) == g \in gs /\ g.cycle = cycle
Whole(s) == found[s].complete /\ data[s] = found[s]

\* One run of a scanner in a scan: at its position, until its outcome is in the channel.
RunsInv ==
    /\ closed <=> stage \notin {"launch", "gather"}
    /\ \A g \in gs :
          /\ g.cycle <= cycle /\ (g.at = "sending" => g.cycle = cycle)
          /\ g.at # "sending" => g.name \in running
          /\ g.at = "fn" => g.out.status # "ok"
    /\ \A g, h \in gs : OfScan(g) /\ OfScan(h) /\ g.name = h.name => g = h
    /\ \A g \in gs : OfScan(g) =>
          /\ g.name \in Begun /\ status[g.name] # "ok"
          /\ \A d \in results : d.name # g.name
          /\ ~expired => g.name \in pending
    /\ \A d \in results : d.name \in Begun
    /\ \A s \in Names : status[s] = "ok" => s \in Begun
    /\ (pending # {} => ~closed) /\ (stage # "idle" => cycle > 0)

\* Wherever an outcome "ok" is on its way into the report, the whole result is there.
WholeInv ==
    /\ ~closed =>
          /\ \A g \in gs : OfScan(g) =>
                /\ g.at = "returned" /\ ~expired => Whole(g.name)
                /\ g.at \in {"leaving", "sending"} /\ g.out.status = "ok" => Whole(g.name)
          /\ \A d \in results : d.out.status = "ok" => Whole(d.name)
    /\ \A s \in Names : status[s] = "ok" => Whole(s)

ScanInv == ScanTypeOK /\ OneRunPerScanner /\ RunsInv /\ WholeInv
=============================================================================
