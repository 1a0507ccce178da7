------------------------------ MODULE UsageGate ------------------------------
(***************************************************************************)
(* The licensed monthly token limit of one organisation.  Every dispatch   *)
(* passes WithinUsageLimit and then ReserveIfNearLimit, which near the     *)
(* limit admits one dispatch at a time by a row of                         *)
(* usage_dispatch_inflight, taken under an advisory lock and freed by the  *)
(* release function or by its TTL.  An escalated dispatch releases before  *)
(* it waits for a person and passes both checks again when it is resumed   *)
(* (dispatchApproved).  The tokens a call used are counted later, by a     *)
(* goroutine that posts them to eami-api (recordTokenUsage).               *)
(***************************************************************************)
EXTENDS Naturals

CONSTANTS
    Calls,      \* dispatches of the organisation, on any node
    Limit,      \* MaxTokensPerMonth of its license
    MarginPct,  \* usage_limit_safety_margin_pct
    Costs,      \* tokens a call may turn out to use
    None,       \* no holder of the advisory lock
    DbFaults,   \* may database statements fail?
    TtlCovers   \* does the TTL exceed the longest dispatch (default: 120s)?

ASSUME UsageAssumption ==
    /\ Limit \in Nat /\ MarginPct \in 0..100 /\ Costs \subseteq Nat
    /\ None \notin Calls
    /\ DbFaults \in BOOLEAN /\ TtlCovers \in BOOLEAN

VARIABLES
    used,    \* SUM over token_usage since the first of the month
    lock,    \* holder of pg_advisory_xact_lock("usage_inflight:" + org)
    resv,    \* calls whose usage_dispatch_inflight row exists and is not expired
    pc,      \* where each dispatch is
    slot,    \* dispatches admitted by a reservation (their release is not a no-op)
    resumed, \* dispatches resumed after an approval
    cost,    \* tokens the call used
    posts    \* usage records on their way to eami-api

vars == <<used, lock, resv, pc, slot, resumed, cost, posts>>

Reserving == {"count", "insert"}
Executing == {"run", "answered", "failed", "return"}
Over == {"done", "refused", "contended", "crashed"}
Pcs == {"check", "reserve", "held", "released"} \cup Reserving \cup Executing \cup Over

TypeOK ==
    /\ used \in Nat
    /\ lock \in Calls \cup {None}
    /\ resv \subseteq Calls
    /\ pc \in [Calls -> Pcs]
    /\ slot \subseteq Calls
    /\ resumed \subseteq Calls
    /\ cost \in [Calls -> Costs \cup {0}]
    /\ posts \subseteq Calls

Init ==
    /\ used = 0
    /\ lock = None
    /\ resv = {}
    /\ pc = [c \in Calls |-> "check"]
    /\ slot = {}
    /\ resumed = {}
    /\ cost = [c \in Calls |-> 0]
    /\ posts = {}

\* limit - limit * pct / 100, in integers; the margin is at most the limit.
Threshold == Limit - (Limit * MarginPct) \div 100

Goto(c, p) == pc' = [pc EXCEPT ![c] = p]

-----------------------------------------------------------------------------
(* Admission.                                                              *)

\* used < limit; an error refuses like an exceeded limit.
WithinUsageLimit(c) ==
    /\ pc[c] = "check"
    /\ \/ used < Limit /\ Goto(c, "reserve")
       \/ used >= Limit /\ Goto(c, "refused")
       \/ DbFaults /\ Goto(c, "refused")
    /\ UNCHANGED <<used, lock, resv, slot, resumed, cost, posts>>

\* The transaction waits for the lock and sums the usage.  Below the threshold
\* it commits at once, which gives the lock back: no reservation.
LockAndSum(c) ==
    /\ pc[c] = "reserve"
    /\ lock = None
    /\ \/ used < Threshold /\ Goto(c, "run") /\ UNCHANGED lock
       \/ used >= Threshold /\ Goto(c, "count") /\ lock' = c
    /\ UNCHANGED <<used, resv, slot, resumed, cost, posts>>

\* SELECT count(*) ... expires_at > now(): another dispatch refuses this one.
CountInflight(c) ==
    /\ pc[c] = "count"
    /\ \/ resv # {} /\ Goto(c, "contended") /\ lock' = None
       \/ resv = {} /\ Goto(c, "insert") /\ UNCHANGED lock
    /\ UNCHANGED <<used, resv, slot, resumed, cost, posts>>

InsertReservation(c) ==
    /\ pc[c] = "insert"
    /\ resv' = resv \cup {c}
    /\ slot' = slot \cup {c}
    /\ lock' = None
    /\ Goto(c, "run")
    /\ UNCHANGED <<used, resumed, cost, posts>>

\* A statement fails and the transaction rolls back; a COMMIT that reports an
\* error may have inserted the row, which nobody then releases.
ReserveFails(c) ==
    /\ DbFaults
    /\ \/ pc[c] = "reserve" /\ UNCHANGED <<lock, resv>>
       \/ pc[c] \in Reserving /\ lock' = None /\ UNCHANGED resv
       \/ pc[c] = "insert" /\ lock' = None /\ resv' = resv \cup {c}
    /\ Goto(c, "contended")
    /\ UNCHANGED <<used, slot, resumed, cost, posts>>

-----------------------------------------------------------------------------
(* Execution, release and the wait for a person.                           *)

\* Mutant: DELETE ... WHERE org_id = $1.
Release_ByOrg(c) == resv' = {}

\* DELETE ... WHERE id = $1, best effort; a no-op without a reservation.
Release(c) ==
    \/ resv' = IF c \in slot THEN resv \ {c} ELSE resv
    \/ DbFaults /\ UNCHANGED resv

\* The policy escalated: release, then block in Router.Hold.
Hold(c) ==
    /\ pc[c] = "run" /\ c \notin resumed
    /\ Release(c)
    /\ slot' = slot \ {c}
    /\ Goto(c, "held")
    /\ UNCHANGED <<used, lock, resumed, cost, posts>>

HoldDenied(c) ==
    /\ pc[c] = "held"
    /\ Goto(c, "done")
    /\ UNCHANGED <<used, lock, resv, slot, resumed, cost, posts>>

\* Mutant: the usage is not checked again (before B-172).
Resume_Unchecked(c) ==
    /\ pc[c] = "held"
    /\ resumed' = resumed \cup {c}
    /\ Goto(c, "run")
    /\ UNCHANGED <<used, lock, resv, slot, cost, posts>>

Resume(c) ==
    /\ pc[c] = "held"
    /\ resumed' = resumed \cup {c}
    /\ Goto(c, "check")
    /\ UNCHANGED <<used, lock, resv, slot, cost, posts>>

\* The downstream answered; only now is it known what the call cost.
Answer(c, k) ==
    /\ pc[c] = "run"
    /\ cost' = [cost EXCEPT ![c] = k]
    /\ Goto(c, "answered")
    /\ UNCHANGED <<used, lock, resv, slot, resumed, posts>>

\* Refused by policy, by the connector checks, or failed downstream: no usage.
CallFails(c) ==
    /\ pc[c] = "run"
    /\ Goto(c, "failed")
    /\ UNCHANGED <<used, lock, resv, slot, resumed, cost, posts>>

\* recordTokenUsageHook: go safeWriteTokenUsage.  A resumed call has left
\* dispatchApproved, and released, before the hooks of Dispatch run.
PostUsage(c) ==
    /\ \/ pc[c] = "answered" /\ c \notin resumed /\ Goto(c, "return")
       \/ pc[c] = "released" /\ Goto(c, "done")
    /\ posts' = posts \cup {c}
    /\ UNCHANGED <<used, lock, resv, slot, resumed, cost>>

\* The deferred release of Dispatch, or of dispatchApproved.
ReturnReleases(c) ==
    /\ \/ pc[c] \in {"return", "failed"} /\ Goto(c, "done")
       \/ pc[c] = "answered" /\ c \in resumed /\ Goto(c, "released")
    /\ Release(c)
    /\ UNCHANGED <<used, lock, slot, resumed, cost, posts>>

\* The process of this dispatch stops; its open transaction is rolled back.
Die(c) ==
    /\ pc[c] \notin Over
    /\ Goto(c, "crashed")
    /\ lock' = IF lock = c THEN None ELSE lock
    /\ UNCHANGED <<used, resv, slot, resumed, cost, posts>>

-----------------------------------------------------------------------------
(* The database and eami-api.                                              *)

UsageLands(c) ==
    /\ c \in posts
    /\ used' = used + cost[c]
    /\ posts' = posts \ {c}
    /\ UNCHANGED <<lock, resv, pc, slot, resumed, cost>>

\* Fire and forget: a POST that fails is logged and not retried.
UsageLost(c) ==
    /\ c \in posts
    /\ posts' = posts \ {c}
    /\ UNCHANGED <<used, lock, resv, pc, slot, resumed, cost>>

Expire(c) ==
    /\ c \in resv
    /\ TtlCovers /\ c \in slot => pc[c] \notin Executing
    /\ resv' = resv \ {c}
    /\ UNCHANGED <<used, lock, pc, slot, resumed, cost, posts>>

\* date_trunc('month', now()) moves on.
NewMonth ==
    /\ used > 0
    /\ used' = 0
    /\ UNCHANGED <<lock, resv, pc, slot, resumed, cost, posts>>

-----------------------------------------------------------------------------
Admit(c) ==
    \/ WithinUsageLimit(c) \/ LockAndSum(c) \/ CountInflight(c) \/ InsertReservation(c)

Execute(c) ==
    \/ Hold(c) \/ CallFails(c) \/ PostUsage(c) \/ ReturnReleases(c)
    \/ \E k \in Costs : Answer(c, k)

Next ==
    \/ \E c \in Calls :
          \/ Admit(c) \/ ReserveFails(c) \/ Execute(c) \/ HoldDenied(c) \/ Resume(c) \/ Die(c)
          \/ UsageLands(c) \/ UsageLost(c) \/ Expire(c)
    \/ NewMonth

Spec == Init /\ [][Next]_vars

\* Dispatches run, every wait for a person ends, and rows expire.  No statement
\* has to fail.
Fairness ==
    \A c \in Calls :
        /\ WF_vars(Admit(c)) /\ WF_vars(Execute(c)) /\ WF_vars(Expire(c))
        /\ WF_vars(HoldDenied(c) \/ Resume(c))

FairSpec == Spec /\ Fairness

-----------------------------------------------------------------------------
(* Properties.                                                             *)

\* The lock and the row together: who holds the lock between counting and
\* inserting, and why nobody else can be there.
LockInv ==
    \A c \in Calls :
        /\ pc[c] \in Reserving <=> lock = c
        /\ pc[c] = "insert" => resv = {}
        /\ pc[c] \in {"check", "reserve", "held"} \cup Reserving => c \notin slot
        /\ TtlCovers /\ c \in slot /\ pc[c] \in Executing => c \in resv

\* ReserveIfNearLimit never leaves two unexpired reservations: counting and
\* inserting by two transactions cannot interleave.
OneReservation == \A b, c \in resv : b = c

\* The types, the lock and the single row: an inductive invariant.
Inv == TypeOK /\ LockInv /\ OneReservation

\* With a TTL longer than a dispatch, at most one call admitted near the limit
\* is executing downstream at any time, whatever fails, crashes or escalates.
OneNearCap ==
    TtlCovers =>
        \A b, c \in slot : pc[b] \in Executing /\ pc[c] \in Executing => b = c

\* "one lost reservation can never permanently wedge an org's near-cap
\* dispatches": the slot is free again and again, crashes included.
SlotFreedAgain == []<>(resv = {})

\* Every dispatch that reached the gate is admitted or refused (or dies): nobody
\* waits for the advisory lock for ever.
AdmissionEnds ==
    \A c \in Calls : pc[c] = "reserve" ~> pc[c] \in {"run", "contended", "crashed"}

\* Once the counted usage has reached the limit and while it stays there, no
\* call still to be checked is executed, one approved in the meantime included.
ExhaustedStaysRefused ==
    \A c \in Calls :
        [](pc[c] \in {"check", "held"} /\ [](used >= Limit) => [](pc[c] # "run"))

\* What the gate owes the dispatches of an organisation over time: the slot
\* comes free, admissions end, and an exhausted licence stays refused.
GateOverTime == SlotFreedAgain /\ AdmissionEnds /\ ExhaustedStaysRefused

=============================================================================
