-------------------------- MODULE ApprovalContract --------------------------
(***************************************************************************)
(* What the approval protocol promises, with no gateway, no listener and   *)
(* no timer: a request is decided at most once, by a person or by expiry,  *)
(* the decision and its author never change, and the approved action is    *)
(* carried out at most once and only after the approval.                   *)
(***************************************************************************)
EXTENDS Naturals

CONSTANTS Calls, Users, None

VARIABLES
    decision,   \* [status, by] of each request
    runs        \* how often the action of each request was carried out

cvars == <<decision, runs>>

CInit ==
    /\ decision = [c \in Calls |-> [status |-> "none", by |-> None]]
    /\ runs = [c \in Calls |-> 0]

Request(c) ==
    /\ decision[c].status = "none"
    /\ decision' = [decision EXCEPT ![c] = [status |-> "pending", by |-> None]]
    /\ UNCHANGED runs

Settle(c, s, u) ==
    /\ decision[c].status = "pending"
    /\ decision' = [decision EXCEPT ![c] = [status |-> s, by |-> u]]
    /\ UNCHANGED runs

Carry(c) ==
    /\ decision[c].status = "approved"
    /\ runs[c] = 0
    /\ runs' = [runs EXCEPT ![c] = 1]
    /\ UNCHANGED decision

CNext == \E c \in Calls :
    \/ Request(c)
    \/ \E s \in {"approved", "denied"}, u \in Users : Settle(c, s, u)
    \/ Settle(c, "expired", None)
    \/ Carry(c)

CSpec == CInit /\ [][CNext]_cvars
=============================================================================
