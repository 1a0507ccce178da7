--------------------------- MODULE ApprovalProofs ---------------------------
(***************************************************************************)
(* Proofs about Approval for any set of calls, nodes, users, connectors    *)
(* and configurations, with or without database faults and panics.         *)
(***************************************************************************)
EXTENDS Approval, TLAPS

-----------------------------------------------------------------------------
(* The helpers return values of their types.                               *)

LEMMA ConstantTypes == ZeroOutcome \in Outcomes /\ Unconfirmed \in Outcomes /\ NoRead \in Reads
  BY DEF ZeroOutcome, Unconfirmed, NoRead, Outcomes, Reads, Statuses

LEMMA NotApprovedType == ASSUME NEW read \in Reads PROVE NotApproved(read) \in Outcomes
  BY DEF NotApproved, Unconfirmed, Outcomes, Reads, Statuses

LEMMA ResumedType ==
  ASSUME TypeOK, NEW c \in Calls, NEW ok \in BOOLEAN PROVE Resumed(c, ok) \in Outcomes
  BY DEF Resumed, Outcomes, Statuses, TypeOK

LEMMA ResolutionEntryType ==
  ASSUME NEW o \in Outcomes
  PROVE  ResolutionEntry(o) \in [decision: {"none", "allowed", "denied"}, by: Users \cup {None}]
  BY DEF ResolutionEntry, Outcomes

LEMMA RowReadType ==
  ASSUME TypeOK, NEW c \in Calls
  PROVE  [status |-> status[c], by |-> approvedBy[c]] \in Reads
  BY DEF TypeOK, Reads

LEMMA ExpiredReadType == [status |-> "expired", by |-> None] \in Reads
  BY DEF Reads, Statuses

LEMMA StartOnceType ==
  ASSUME TypeOK, NEW c \in Calls, NEW who \in {"listener", "hold"}, NEW read \in Reads,
         StartOnce(c, who, read)
  PROVE  /\ exec' \in [Calls -> ExecPc]
         /\ runner' \in [Calls -> {"none", "listener", "hold"}]
         /\ execBy' \in [Calls -> Users \cup {None}]
         /\ result' \in [Calls -> Outcomes]
<1>1. CASE read.status = "approved"
  BY <1>1 DEF StartOnce, TypeOK, ExecPc, Body, Reads
<1>2. CASE read.status # "approved"
  <2>1. NotApproved(read) \in Outcomes
    BY NotApprovedType
  <2>2. /\ exec' = [exec EXCEPT ![c] = "done"]
        /\ result' = [result EXCEPT ![c] = NotApproved(read)]
        /\ runner' = [runner EXCEPT ![c] = who]
        /\ UNCHANGED execBy
    BY <1>2 DEF StartOnce
  <2> QED BY <2>1, <2>2 DEF TypeOK, ExecPc
<1> QED BY <1>1, <1>2

LEMMA HoldReturnsType ==
  ASSUME TypeOK, NEW c \in Calls, NEW o \in Outcomes, HoldReturns(c, o)
  PROVE  /\ out' \in [Calls -> Outcomes]
         /\ pending' \subseteq Calls
         /\ pc' \in [Calls -> HoldPc]
  BY DEF HoldReturns, TypeOK, HoldPc

LEMMA BodyReturnsType ==
  ASSUME TypeOK, NEW c \in Calls, NEW ok \in BOOLEAN, BodyReturns(c, ok)
  PROVE  exec' \in [Calls -> ExecPc] /\ result' \in [Calls -> Outcomes]
  BY ResumedType DEF BodyReturns, TypeOK, ExecPc, Body

LEMMA ProceedType ==
  ASSUME TypeOK, NEW c \in Calls, NEW stage \in Body, Proceed(c, stage)
  PROVE  exec' \in [Calls -> ExecPc] /\ result' \in [Calls -> Outcomes]
  BY DEF Proceed, TypeOK, ExecPc, Body

LEMMA RecordResumeType ==
  ASSUME TypeOK, NEW c \in Calls, NEW o \in ResumeOutcomes, RecordResume(c, o)
  PROVE  /\ status' \in [Calls -> Statuses]
         /\ approvedBy' \in [Calls -> Users \cup {None}]
         /\ resume' \in [Calls -> ResumeOutcomes]
<1>1. CASE UNCHANGED rowvars
  BY <1>1 DEF TypeOK, rowvars
<1>2. CASE ~UNCHANGED rowvars
  <2>1. resume' = [resume EXCEPT ![c] = o] /\ UNCHANGED <<status, approvedBy>>
    BY <1>2 DEF RecordResume
  <2> QED BY <2>1 DEF TypeOK
<1> QED BY <1>1, <1>2

LEMMA ListenerIdleType ==
  ASSUME TypeOK, NEW n \in Nodes, ListenerIdle(n)
  PROVE  /\ lpc' \in [Nodes -> ListenerPc]
         /\ job' \in [Nodes -> Calls \cup {None}]
         /\ lread' \in [Nodes -> Reads]
         /\ lout' \in [Nodes -> Outcomes]
         /\ \A m \in Nodes : lpc'[m] = "wait" \/ job'[m] \in Calls
  BY ConstantTypes DEF ListenerIdle, TypeOK, ListenerPc
-----------------------------------------------------------------------------
\* Every step of Dispatch, Hold, the once body, the listener and eami-api keeps
\* every variable in its type.
LEMMA TypeStep == TypeOK /\ [Next]_vars => TypeOK'
<1> SUFFICES ASSUME TypeOK, [Next]_vars PROVE TypeOK'
  OBVIOUS
<1>1. ASSUME NEW c \in Calls, NEW n \in Nodes, Escalate(c, n) PROVE TypeOK'
  <2>1. pin' \in [Calls -> Pins]
    <3>1. Resolve \subseteq Pins
      BY DEF Resolve, Exists, Pins, TypeOK
    <3>2. (IF Resolve = {} THEN None ELSE CHOOSE p \in Resolve : TRUE) \in Pins
      BY <3>1 DEF Pins
    <3> QED BY <1>1, <3>2 DEF Escalate, TypeOK
  <2>2. escalated' \subseteq Calls
    BY <1>1 DEF Escalate, TypeOK
  <2> QED BY <1>1, <2>1, <2>2 DEF Escalate, TypeOK, HoldPc, rowvars, wire, lvars, entry
<1>2. ASSUME NEW c \in Calls, CallStep(c) PROVE TypeOK'
  <2>1. CASE Submit(c)
    BY <2>1 DEF Submit, TypeOK, Statuses, HoldPc, wire, lvars, entry
  <2>2. CASE SubmitFails(c)
    BY <2>2, ConstantTypes DEF SubmitFails, TypeOK, HoldPc, db, wire, lvars, entry
  <2>3. CASE Register(c)
    BY <2>3 DEF Register, TypeOK, HoldPc, db, wire, lvars
  <2>4. CASE Receive(c)
    <3>1. ch[c] \in Outcomes /\ HoldReturns(c, ch[c])
      BY <2>4 DEF Receive, TypeOK
    <3>2. ch' \in [Calls -> Outcomes \cup {None}]
      BY <2>4 DEF Receive, TypeOK
    <3> QED BY <2>4, <3>1, <3>2, HoldReturnsType DEF Receive, TypeOK, db, wire, lvars
  <2>5. CASE TimerFires(c)
    BY <2>5 DEF TimerFires, TypeOK, HoldPc, db, wire, lvars, entry
  <2>6. CASE NothingArrived(c)
    BY <2>6 DEF NothingArrived, TypeOK, HoldPc, db, wire, lvars, entry
  <2>7. CASE ExpireRow(c)
    <3>1. NotApproved([status |-> "expired", by |-> None]) \in Outcomes
      BY ExpiredReadType, NotApprovedType
    <3>2. /\ out' \in [Calls -> Outcomes]
          /\ pending' \subseteq Calls
          /\ pc' \in [Calls -> HoldPc]
      BY <2>7, <3>1, HoldReturnsType DEF ExpireRow
    <3> QED BY <2>7, <3>2 DEF ExpireRow, TypeOK, Statuses, wire, lvars
  <2>8. CASE AlreadyDecided(c)
    BY <2>8 DEF AlreadyDecided, TypeOK, HoldPc, db, wire, lvars, entry
  <2>9. CASE TimeoutDbFails(c)
    <3>1. /\ out' \in [Calls -> Outcomes]
          /\ pending' \subseteq Calls
          /\ pc' \in [Calls -> HoldPc]
      BY <2>9, ConstantTypes, HoldReturnsType DEF TimeoutDbFails
    <3>2. /\ status' \in [Calls -> Statuses]
          /\ UNCHANGED <<approvedBy, resume>>
      BY <2>9 DEF TimeoutDbFails, TypeOK, Statuses, rowvars
    <3> QED BY <2>9, <3>1, <3>2 DEF TimeoutDbFails, TypeOK, wire, lvars
  <2>10. CASE Reread(c)
    BY <2>10, RowReadType DEF Reread, TypeOK, HoldPc, db, wire, lvars, entry
  <2>11. CASE HoldOnce(c)
    <3>1. hread[c] \in Reads
      BY DEF TypeOK
    <3> QED BY <2>11, <3>1, StartOnceType DEF HoldOnce, TypeOK, db, wire, lvars, hvars
  <2>12. CASE HoldOnceDone(c)
    <3>1. result[c] \in Outcomes
      BY DEF TypeOK
    <3> QED BY <2>12, <3>1, HoldReturnsType DEF HoldOnceDone, TypeOK, db, wire, lvars
  <2>13. CASE Finish(c)
    <3>1. ResolutionEntry(out[c]) \in [decision: {"none", "allowed", "denied"},
                                       by: Users \cup {None}]
      BY ResolutionEntryType DEF TypeOK
    <3>2. resolution' \in [Calls -> [decision: {"none", "allowed", "denied"},
                                     by: Users \cup {None}]]
      BY <2>13, <3>1 DEF Finish, TypeOK
    <3> QED BY <2>13, <3>2 DEF Finish, TypeOK, HoldPc, rowvars, wire, lvars, entry
  <2> QED BY <1>2, <2>1, <2>2, <2>3, <2>4, <2>5, <2>6, <2>7, <2>8, <2>9, <2>10,
             <2>11, <2>12, <2>13 DEF CallStep
<1>3. ASSUME NEW c \in Calls, BodyStep(c) PROVE TypeOK'
  <2>1. ASSUME NEW o \in ResumeOutcomes, Refuse(c, o)
        PROVE  /\ status' \in [Calls -> Statuses]
               /\ approvedBy' \in [Calls -> Users \cup {None}]
               /\ resume' \in [Calls -> ResumeOutcomes]
               /\ exec' \in [Calls -> ExecPc]
               /\ result' \in [Calls -> Outcomes]
    BY <2>1, RecordResumeType, BodyReturnsType DEF Refuse
  <2>2. ASSUME NEW stage \in Body, Proceed(c, stage), UNCHANGED rowvars
        PROVE  /\ status' \in [Calls -> Statuses]
               /\ approvedBy' \in [Calls -> Users \cup {None}]
               /\ resume' \in [Calls -> ResumeOutcomes]
               /\ exec' \in [Calls -> ExecPc]
               /\ result' \in [Calls -> Outcomes]
    BY <2>2, ProceedType DEF TypeOK, rowvars
  <2>3. CASE CheckLive(c)
    <3>1. "license" \in Body /\ "agent_not_active" \in ResumeOutcomes
      BY DEF Body, ResumeOutcomes
    <3> QED BY <2>3, <2>1, <2>2, <3>1 DEF CheckLive, TypeOK, wire, lvars, hvars
  <2>4. CASE CheckLicense(c)
    <3>1. "usage" \in Body /\ "license_revoked" \in ResumeOutcomes
      BY DEF Body, ResumeOutcomes
    <3> QED BY <2>4, <2>1, <2>2, <3>1 DEF CheckLicense, TypeOK, wire, lvars, hvars
  <2>5. CASE CheckUsage(c)
    <3>1. "connector" \in Body
          /\ {"usage_limit_exceeded", "usage_limit_contention"} \subseteq ResumeOutcomes
      BY DEF Body, ResumeOutcomes
    <3> QED BY <2>5, <2>1, <2>2, <3>1 DEF CheckUsage, TypeOK, wire, lvars, hvars
  <2>6. CASE CheckConnector(c)
    <3>1. /\ "send" \in Body
          /\ {"static_fallback", "connector_deleted", "config_changed"} \subseteq ResumeOutcomes
      BY DEF Body, ResumeOutcomes
    <3>2. /\ status' \in [Calls -> Statuses]
          /\ approvedBy' \in [Calls -> Users \cup {None}]
          /\ resume' \in [Calls -> ResumeOutcomes]
          /\ exec' \in [Calls -> ExecPc]
          /\ result' \in [Calls -> Outcomes]
          /\ fetched' \in [Calls -> Pins]
      <4>1. CASE pin[c] = None /\ RecordResume(c, "static_fallback") /\ Proceed(c, "send")
                 /\ UNCHANGED fetched
        BY <4>1, <3>1, RecordResumeType, ProceedType DEF TypeOK
      <4>2. CASE Refuse(c, "connector_deleted") /\ UNCHANGED fetched
        BY <4>2, <3>1, <2>1 DEF TypeOK
      <4>3. CASE /\ pin[c] # None /\ Exists(pin[c].tool)
                 /\ fetched' = [fetched EXCEPT ![c] = [tool |-> pin[c].tool,
                                                       cfg |-> tools[pin[c].tool]]]
                 /\ \/ Refuse(c, "config_changed")
                    \/ Proceed(c, "send") /\ UNCHANGED rowvars
        <5>1. fetched' \in [Calls -> Pins]
          BY <4>3 DEF TypeOK, Pins, Exists
        <5> QED BY <4>3, <5>1, <3>1, <2>1, <2>2
      <4>4. CASE BodyReturns(c, FALSE) /\ UNCHANGED <<rowvars, fetched>>
        BY <4>4, BodyReturnsType DEF TypeOK, rowvars
      <4> QED BY <2>6, <4>1, <4>2, <4>3, <4>4 DEF CheckConnector
    <3> QED BY <2>6, <3>2 DEF CheckConnector, TypeOK, wire, lvars, hvars
  <2>7. CASE SendDownstream(c)
    <3>1. \E ok \in BOOLEAN : result' = [result EXCEPT ![c] = Resumed(c, ok)]
      BY <2>7 DEF SendDownstream
    <3>2. result' \in [Calls -> Outcomes]
      BY <3>1, ResumedType DEF TypeOK
    <3>3. \/ sends' = [sends EXCEPT ![c] = @ + 1] /\ sentTo' = [sentTo EXCEPT ![c] = fetched[c]]
          \/ UNCHANGED <<sends, sentTo>>
      BY <2>7 DEF SendDownstream, Destination
    <3>4. sends' \in [Calls -> Nat] /\ sentTo' \in [Calls -> Pins]
      <4>1. sends \in [Calls -> Nat] /\ sentTo \in [Calls -> Pins] /\ fetched[c] \in Pins
        BY DEF TypeOK
      <4>2. sends' \in [Calls -> Nat]
        BY <3>3, <4>1
      <4>3. sentTo' \in [Calls -> Pins]
        BY <3>3, <4>1
      <4> QED BY <4>2, <4>3
    <3>5. /\ exec' = [exec EXCEPT ![c] = "sent"]
          /\ UNCHANGED <<db, toNotify, lvars, hvars, pending, ch, runner, execBy, fetched>>
      BY <2>7 DEF SendDownstream
    <3> QED BY <3>2, <3>4, <3>5 DEF TypeOK, ExecPc, Body, db, lvars, hvars
  <2>8. CASE RecordDispatched(c)
    <3>1. /\ status' \in [Calls -> Statuses]
          /\ approvedBy' \in [Calls -> Users \cup {None}]
          /\ resume' \in [Calls -> ResumeOutcomes]
      <4>1. CASE pin[c] # None
        BY <2>8, <4>1, RecordResumeType DEF RecordDispatched, ResumeOutcomes
      <4>2. CASE pin[c] = None
        BY <2>8, <4>2 DEF RecordDispatched, TypeOK, rowvars
      <4> QED BY <4>1, <4>2
    <3> QED BY <2>8, <3>1 DEF RecordDispatched, TypeOK, ExecPc, wire, lvars, hvars
  <2> QED BY <1>3, <2>3, <2>4, <2>5, <2>6, <2>7, <2>8 DEF BodyStep
<1>4. ASSUME NEW c \in Calls, BodyPanics(c) PROVE TypeOK'
  <2>1. exec' \in [Calls -> ExecPc] /\ result' \in [Calls -> Outcomes]
    BY <1>4, ConstantTypes DEF BodyPanics, TypeOK, ExecPc
  <2>2. /\ lpc' \in [Nodes -> ListenerPc]
        /\ job' \in [Nodes -> Calls \cup {None}]
        /\ \A n \in Nodes : lpc'[n] = "wait" \/ job'[n] \in Calls
        /\ pc' \in [Calls -> HoldPc]
        /\ pending' \subseteq Calls
    <3>1. CASE /\ lpc' = [n \in Nodes |-> IF job[n] = c THEN "wait" ELSE lpc[n]]
               /\ job' = [n \in Nodes |-> IF job[n] = c THEN None ELSE job[n]]
               /\ UNCHANGED <<pc, pending>>
      BY <3>1 DEF TypeOK, ListenerPc
    <3>2. CASE /\ pc' = [pc EXCEPT ![c] = "panicked"]
               /\ pending' = pending \ {c}
               /\ UNCHANGED <<lpc, job>>
      BY <3>2 DEF TypeOK, HoldPc
    <3> QED BY <1>4, <3>1, <3>2 DEF BodyPanics
  <2> QED BY <1>4, <2>1, <2>2 DEF BodyPanics, TypeOK, db, wire
<1>5. ASSUME NEW n \in Nodes, NEW c \in Calls, TakeNotification(n, c) PROVE TypeOK'
  <2>1. notes' \in [Nodes -> SUBSET Calls]
    BY <1>5 DEF TakeNotification, TypeOK
  <2>2. /\ lpc' \in [Nodes -> ListenerPc]
        /\ job' \in [Nodes -> Calls \cup {None}]
        /\ \A m \in Nodes : lpc'[m] = "wait" \/ job'[m] \in Calls
    <3>1. CASE c \in pending /\ home[c] = n
      <4>1. lpc' = [lpc EXCEPT ![n] = "fetch"] /\ job' = [job EXCEPT ![n] = c]
        BY <1>5, <3>1 DEF TakeNotification
      <4> QED BY <4>1 DEF TypeOK, ListenerPc
    <3>2. CASE ~(c \in pending /\ home[c] = n)
      <4>1. UNCHANGED <<lpc, job>>
        BY <1>5, <3>2 DEF TakeNotification
      <4> QED BY <4>1 DEF TypeOK
    <3> QED BY <3>1, <3>2
  <2> QED BY <1>5, <2>1, <2>2 DEF TakeNotification, TypeOK, db, wire, hvars, entry
<1>6. ASSUME NEW n \in Nodes, ResolveStep(n) PROVE TypeOK'
  <2>1. CASE FetchDecision(n)
    <3>1. [status |-> status[job[n]], by |-> approvedBy[job[n]]] \in Reads
      BY <2>1, RowReadType DEF FetchDecision, TypeOK
    <3> QED BY <2>1, <3>1 DEF FetchDecision, TypeOK, ListenerPc, db, wire, hvars, entry
  <2>2. CASE FetchFails(n)
    BY <2>2, ConstantTypes DEF FetchFails, TypeOK, ListenerPc, db, wire, hvars, entry
  <2>3. CASE ListenerOnce(n)
    <3>1. job[n] \in Calls /\ lread[n] \in Reads
      BY <2>3 DEF ListenerOnce, TypeOK
    <3> QED BY <2>3, <3>1, StartOnceType DEF ListenerOnce, TypeOK, db, wire, lvars, hvars
  <2>4. CASE ListenerOnceDone(n)
    <3>1. result[job[n]] \in Outcomes
      BY <2>4 DEF ListenerOnceDone, TypeOK
    <3> QED BY <2>4, <3>1 DEF ListenerOnceDone, TypeOK, ListenerPc, db, wire, hvars, entry
  <2>5. CASE Send(n)
    <3>1. ch' \in [Calls -> Outcomes \cup {None}]
      BY <2>5 DEF Send, TypeOK
    <3> QED BY <2>5, <3>1, ListenerIdleType DEF Send, TypeOK, db, wire, hvars
  <2> QED BY <1>6, <2>1, <2>2, <2>3, <2>4, <2>5 DEF ResolveStep
<1>7. ASSUME NEW n \in Nodes, Disconnect(n) \/ Reconnect(n) PROVE TypeOK'
  BY <1>7 DEF Disconnect, Reconnect, TypeOK, db, wire, hvars, entry
<1>8. ASSUME NEW n \in Nodes, Crash(n) PROVE TypeOK'
  <2>1. pc' \in [Calls -> HoldPc]
    BY <1>8 DEF Crash, TypeOK, HoldPc
  <2>2. pending' \subseteq Calls /\ exec' \in [Calls -> ExecPc]
    BY <1>8 DEF Crash, TypeOK, ExecPc
  <2>3. conn' \in [Nodes -> BOOLEAN] /\ notes' \in [Nodes -> SUBSET Calls]
    BY <1>8 DEF Crash, TypeOK
  <2> QED BY <1>8, <2>1, <2>2, <2>3, ListenerIdleType DEF Crash, TypeOK, db, wire
<1>9. CASE ApiStep
  <2>1. ASSUME NEW c \in Calls, NEW u \in Users, NEW d \in Decided, Decide(c, u, d)
        PROVE  TypeOK'
    BY <2>1 DEF Decide, TypeOK, Statuses, Decided, wire, lvars, hvars, entry
  <2>2. ASSUME NEW c \in Calls, Notify(c) PROVE TypeOK'
    BY <2>2 DEF Notify, TypeOK, db, wire, hvars, entry
  <2>3. ASSUME NEW c \in Calls, NotifyLost(c) PROVE TypeOK'
    BY <2>3 DEF NotifyLost, TypeOK, db, wire, lvars, hvars, entry
  <2>4. ASSUME NEW t \in Tools, NEW g \in Configs, EditTool(t, g) \/ CreateTool(t, g)
        PROVE  TypeOK'
    BY <2>4 DEF EditTool, CreateTool, TypeOK, rowvars, wire, lvars, hvars, entry
  <2>5. ASSUME NEW t \in Tools, DeleteTool(t) PROVE TypeOK'
    BY <2>5 DEF DeleteTool, TypeOK, rowvars, wire, lvars, hvars, entry
  <2>6. ASSUME NEW b \in BOOLEAN, SetLive(b) \/ SetLicensed(b) PROVE TypeOK'
    BY <2>6 DEF SetLive, SetLicensed, TypeOK, rowvars, wire, lvars, hvars, entry
  <2> QED BY <1>9, <2>1, <2>2, <2>3, <2>4, <2>5, <2>6 DEF ApiStep
<1>10. CASE UNCHANGED vars
  BY <1>10 DEF vars, TypeOK
<1> QED BY <1>1, <1>2, <1>3, <1>4, <1>5, <1>6, <1>7, <1>8, <1>9, <1>10 DEF Next

LEMMA TypeInit == Init => TypeOK
<1> SUFFICES ASSUME Init PROVE TypeOK
  OBVIOUS
<1>1. tools \in [Tools -> Configs \cup {None, Gone}]
  BY DEF Init
<1> QED BY <1>1, ConstantTypes
        DEF Init, TypeOK, Statuses, ResumeOutcomes, Pins, ListenerPc, HoldPc, ExecPc

\* The type invariant of the approval protocol, for every instance.
THEOREM TypeCorrect == Spec => []TypeOK
  BY TypeInit, TypeStep, PTL DEF Spec

\* Every step preserves what relates rows, readers and the once body.
LEMMA InvStep == Inv /\ [Next]_vars => RowInv' /\ ReadInv' /\ ExecInv'
<1> SUFFICES ASSUME Inv, [Next]_vars PROVE RowInv' /\ ReadInv' /\ ExecInv'
  OBVIOUS
<1>0. TypeOK /\ RowInv /\ ReadInv /\ ExecInv
  BY DEF Inv
<1> USE DEF Decided, Terminal, Body, BeforeSend, rowvars, wire, db, lvars, hvars, entry
<1>1. ASSUME NEW c \in Calls, NEW n \in Nodes, Escalate(c, n) PROVE RowInv' /\ ReadInv' /\ ExecInv'
  <2>1. RowInv'
    BY <1>0, <1>1 DEF Escalate, TypeOK, RowInv
  <2>2. ReadInv'
    BY <1>0, <1>1 DEF Escalate, TypeOK, RowInv, ReadInv
  <2>3. ExecInv'
    BY <1>0, <1>1 DEF Escalate, TypeOK, RowInv, ReadInv, ExecInv
  <2> QED BY <2>1, <2>2, <2>3
<1>2. ASSUME NEW c \in Calls, Submit(c) PROVE RowInv' /\ ReadInv' /\ ExecInv'
  <2>1. RowInv'
    BY <1>0, <1>2 DEF Submit, TypeOK, RowInv
  <2>2. ReadInv'
    BY <1>0, <1>2 DEF Submit, TypeOK, RowInv, ReadInv
  <2>3. ExecInv'
    BY <1>0, <1>2 DEF Submit, TypeOK, RowInv, ReadInv, ExecInv
  <2> QED BY <2>1, <2>2, <2>3
<1>3. ASSUME NEW c \in Calls, SubmitFails(c) PROVE RowInv' /\ ReadInv' /\ ExecInv'
  <2>1. RowInv'
    BY <1>0, <1>3 DEF SubmitFails, TypeOK, RowInv
  <2>2. ReadInv'
    BY <1>0, <1>3 DEF SubmitFails, TypeOK, RowInv, ReadInv
  <2>3. ExecInv'
    BY <1>0, <1>3 DEF SubmitFails, TypeOK, RowInv, ReadInv, ExecInv
  <2> QED BY <2>1, <2>2, <2>3
<1>4. ASSUME NEW c \in Calls, Register(c) PROVE RowInv' /\ ReadInv' /\ ExecInv'
  <2>1. RowInv'
    BY <1>0, <1>4 DEF Register, TypeOK, RowInv
  <2>2. ReadInv'
    BY <1>0, <1>4 DEF Register, TypeOK, RowInv, ReadInv
  <2>3. ExecInv'
    BY <1>0, <1>4 DEF Register, TypeOK, RowInv, ReadInv, ExecInv
  <2> QED BY <2>1, <2>2, <2>3
<1>5. ASSUME NEW c \in Calls, Receive(c) PROVE RowInv' /\ ReadInv' /\ ExecInv'
  <2>1. RowInv'
    BY <1>0, <1>5 DEF Receive, HoldReturns, TypeOK, RowInv
  <2>2. ReadInv'
    BY <1>0, <1>5 DEF Receive, HoldReturns, TypeOK, RowInv, ReadInv
  <2>3. ExecInv'
    BY <1>0, <1>5 DEF Receive, HoldReturns, TypeOK, RowInv, ReadInv, ExecInv
  <2> QED BY <2>1, <2>2, <2>3
<1>6. ASSUME NEW c \in Calls, TimerFires(c) PROVE RowInv' /\ ReadInv' /\ ExecInv'
  <2>1. RowInv'
    BY <1>0, <1>6 DEF TimerFires, TypeOK, RowInv
  <2>2. ReadInv'
    BY <1>0, <1>6 DEF TimerFires, TypeOK, RowInv, ReadInv
  <2>3. ExecInv'
    BY <1>0, <1>6 DEF TimerFires, TypeOK, RowInv, ReadInv, ExecInv
  <2> QED BY <2>1, <2>2, <2>3
<1>7. ASSUME NEW c \in Calls, NothingArrived(c) PROVE RowInv' /\ ReadInv' /\ ExecInv'
  <2>1. RowInv'
    BY <1>0, <1>7 DEF NothingArrived, TypeOK, RowInv
  <2>2. ReadInv'
    BY <1>0, <1>7 DEF NothingArrived, TypeOK, RowInv, ReadInv
  <2>3. ExecInv'
    BY <1>0, <1>7 DEF NothingArrived, TypeOK, RowInv, ReadInv, ExecInv
  <2> QED BY <2>1, <2>2, <2>3
<1>8. ASSUME NEW c \in Calls, ExpireRow(c) PROVE RowInv' /\ ReadInv' /\ ExecInv'
  <2>1. RowInv'
    BY <1>0, <1>8 DEF ExpireRow, HoldReturns, TypeOK, RowInv
  <2>2. ReadInv'
    BY <1>0, <1>8 DEF ExpireRow, HoldReturns, TypeOK, RowInv, ReadInv
  <2>3. ExecInv'
    BY <1>0, <1>8 DEF ExpireRow, HoldReturns, TypeOK, RowInv, ReadInv, ExecInv
  <2> QED BY <2>1, <2>2, <2>3
<1>9. ASSUME NEW c \in Calls, AlreadyDecided(c) PROVE RowInv' /\ ReadInv' /\ ExecInv'
  <2>1. RowInv'
    BY <1>0, <1>9 DEF AlreadyDecided, Statuses, TypeOK, RowInv
  <2>2. ReadInv'
    BY <1>0, <1>9 DEF AlreadyDecided, Statuses, TypeOK, RowInv, ReadInv
  <2>3. ExecInv'
    BY <1>0, <1>9 DEF AlreadyDecided, Statuses, TypeOK, RowInv, ReadInv, ExecInv
  <2> QED BY <2>1, <2>2, <2>3
<1>10. ASSUME NEW c \in Calls, TimeoutDbFails(c) PROVE RowInv' /\ ReadInv' /\ ExecInv'
  <2>1. /\ pc' = [pc EXCEPT ![c] = "finish"]
        /\ \/ UNCHANGED status
           \/ status[c] = "pending" /\ status' = [status EXCEPT ![c] = "expired"]
        /\ UNCHANGED <<approvedBy, toNotify, notes, lpc, job, lread, pin, hread,
                       exec, execBy, fetched, sends, sentTo>>
    BY <1>10 DEF TimeoutDbFails, HoldReturns
  <2>2. RowInv'
    BY <1>0, <2>1 DEF TypeOK, RowInv
  <2>3. ReadInv'
    <3>1. CASE UNCHANGED status
      BY <1>0, <2>1, <3>1 DEF TypeOK, ReadInv
    <3>2. CASE status[c] = "pending" /\ status' = [status EXCEPT ![c] = "expired"]
      <4>1. \A e \in Calls : status[e] \in Decided => status'[e] = status[e]
        BY <1>0, <3>2 DEF TypeOK
      <4>2. \A e \in Calls : status[e] \in Terminal => status'[e] = status[e]
        BY <1>0, <3>2 DEF TypeOK
      <4>3. \A n \in Nodes : lpc[n] # "wait" => job[n] \in Calls
        BY <1>0 DEF TypeOK
      <4>4. toNotify \subseteq Calls /\ \A n \in Nodes : notes[n] \subseteq Calls
        BY <1>0 DEF TypeOK
      <4>5. \A e \in Calls : pc'[e] \in {"reread", "once"} => pc'[e] = pc[e]
        BY <1>0, <2>1 DEF TypeOK
      <4> HIDE DEF Decided, Terminal
      <4>6. \A e \in Calls :
               /\ pc'[e] \in {"reread", "once"} => status'[e] \in Terminal
               /\ pc'[e] = "once" => hread'[e] = [status |-> status'[e], by |-> approvedBy'[e]]
        BY <1>0, <2>1, <4>2, <4>5 DEF ReadInv
      <4>7. \A e \in toNotify' : status'[e] \in Decided
        BY <1>0, <2>1, <4>1, <4>4 DEF ReadInv
      <4>8. ASSUME NEW n \in Nodes
            PROVE  /\ \A e \in notes'[n] : status'[e] \in Decided
                   /\ lpc'[n] # "wait" => status'[job'[n]] \in Decided
                   /\ lpc'[n] = "once" =>
                         lread'[n] = [status |-> status'[job'[n]], by |-> approvedBy'[job'[n]]]
        BY <1>0, <2>1, <4>1, <4>3, <4>4 DEF ReadInv
      <4> QED BY <4>6, <4>7, <4>8 DEF ReadInv
    <3> QED BY <2>1, <3>1, <3>2
  <2>4. ExecInv'
    BY <1>0, <2>1 DEF TypeOK, RowInv, ExecInv
  <2> QED BY <2>2, <2>3, <2>4
<1>11. ASSUME NEW c \in Calls, Reread(c) PROVE RowInv' /\ ReadInv' /\ ExecInv'
  <2>1. RowInv'
    BY <1>0, <1>11 DEF Reread, TypeOK, RowInv
  <2>2. ReadInv'
    BY <1>0, <1>11 DEF Reread, TypeOK, RowInv, ReadInv
  <2>3. ExecInv'
    BY <1>0, <1>11 DEF Reread, TypeOK, RowInv, ReadInv, ExecInv
  <2> QED BY <2>1, <2>2, <2>3
<1>12. ASSUME NEW c \in Calls, HoldOnce(c) PROVE RowInv' /\ ReadInv' /\ ExecInv'
  <2>1. RowInv'
    BY <1>0, <1>12 DEF HoldOnce, StartOnce, TypeOK, RowInv
  <2>2. ReadInv'
    BY <1>0, <1>12 DEF HoldOnce, StartOnce, TypeOK, RowInv, ReadInv
  <2>3. ExecInv'
    BY <1>0, <1>12 DEF HoldOnce, StartOnce, TypeOK, RowInv, ReadInv, ExecInv
  <2> QED BY <2>1, <2>2, <2>3
<1>13. ASSUME NEW c \in Calls, HoldOnceDone(c) PROVE RowInv' /\ ReadInv' /\ ExecInv'
  <2>1. RowInv'
    BY <1>0, <1>13 DEF HoldOnceDone, HoldReturns, TypeOK, RowInv
  <2>2. ReadInv'
    BY <1>0, <1>13 DEF HoldOnceDone, HoldReturns, TypeOK, RowInv, ReadInv
  <2>3. ExecInv'
    BY <1>0, <1>13 DEF HoldOnceDone, HoldReturns, TypeOK, RowInv, ReadInv, ExecInv
  <2> QED BY <2>1, <2>2, <2>3
<1>14. ASSUME NEW c \in Calls, Finish(c) PROVE RowInv' /\ ReadInv' /\ ExecInv'
  <2>1. RowInv'
    BY <1>0, <1>14 DEF Finish, TypeOK, RowInv
  <2>2. ReadInv'
    BY <1>0, <1>14 DEF Finish, TypeOK, RowInv, ReadInv
  <2>3. ExecInv'
    BY <1>0, <1>14 DEF Finish, TypeOK, RowInv, ReadInv, ExecInv
  <2> QED BY <2>1, <2>2, <2>3
<1>15. ASSUME NEW c \in Calls, CheckLive(c) PROVE RowInv' /\ ReadInv' /\ ExecInv'
  <2>1. /\ exec[c] = "live"
        /\ exec' = [exec EXCEPT ![c] = "license"] \/ exec' = [exec EXCEPT ![c] = "done"]
        /\ UNCHANGED <<sends, sentTo, fetched>>
        /\ UNCHANGED <<status, approvedBy, toNotify, notes, lpc, job, lread, pin, pc, hread, execBy>>
    BY <1>15 DEF CheckLive, Refuse, RecordResume, BodyReturns, Proceed
  <2>2. RowInv' /\ ReadInv'
    BY <1>0, <2>1 DEF RowInv, ReadInv
  <2>3. ExecInv'
    BY <1>0, <2>1 DEF TypeOK, ExecInv
  <2> QED BY <2>2, <2>3
<1>16. ASSUME NEW c \in Calls, CheckLicense(c) PROVE RowInv' /\ ReadInv' /\ ExecInv'
  <2>1. /\ exec[c] = "license"
        /\ exec' = [exec EXCEPT ![c] = "usage"] \/ exec' = [exec EXCEPT ![c] = "done"]
        /\ UNCHANGED <<sends, sentTo, fetched>>
        /\ UNCHANGED <<status, approvedBy, toNotify, notes, lpc, job, lread, pin, pc, hread, execBy>>
    BY <1>16 DEF CheckLicense, Refuse, RecordResume, BodyReturns, Proceed
  <2>2. RowInv' /\ ReadInv'
    BY <1>0, <2>1 DEF RowInv, ReadInv
  <2>3. ExecInv'
    BY <1>0, <2>1 DEF TypeOK, ExecInv
  <2> QED BY <2>2, <2>3
<1>17. ASSUME NEW c \in Calls, CheckUsage(c) PROVE RowInv' /\ ReadInv' /\ ExecInv'
  <2>1. /\ exec[c] = "usage"
        /\ exec' = [exec EXCEPT ![c] = "connector"] \/ exec' = [exec EXCEPT ![c] = "done"]
        /\ UNCHANGED <<sends, sentTo, fetched>>
        /\ UNCHANGED <<status, approvedBy, toNotify, notes, lpc, job, lread, pin, pc, hread, execBy>>
    BY <1>17 DEF CheckUsage, Refuse, RecordResume, BodyReturns, Proceed
  <2>2. RowInv' /\ ReadInv'
    BY <1>0, <2>1 DEF RowInv, ReadInv
  <2>3. ExecInv'
    BY <1>0, <2>1 DEF TypeOK, ExecInv
  <2> QED BY <2>2, <2>3
<1>18. ASSUME NEW c \in Calls, CheckConnector(c) PROVE RowInv' /\ ReadInv' /\ ExecInv'
  <2>1. /\ exec[c] = "connector"
        /\ \/ exec' = [exec EXCEPT ![c] = "done"]
           \/ exec' = [exec EXCEPT ![c] = "send"] /\ pin[c] = None /\ UNCHANGED fetched
           \/ /\ exec' = [exec EXCEPT ![c] = "send"] /\ pin[c] # None
              /\ tools[pin[c].tool] = pin[c].cfg
              /\ fetched' = [fetched EXCEPT ![c] = [tool |-> pin[c].tool,
                                                    cfg |-> tools[pin[c].tool]]]
        /\ \/ UNCHANGED fetched
           \/ \E f : fetched' = [fetched EXCEPT ![c] = f]
        /\ UNCHANGED <<sends, sentTo>>
        /\ UNCHANGED <<status, approvedBy, toNotify, notes, lpc, job, lread, pin, pc, hread, execBy>>
    BY <1>18 DEF CheckConnector, Refuse, RecordResume, BodyReturns, Proceed
  <2>2. RowInv' /\ ReadInv'
    BY <1>0, <2>1 DEF RowInv, ReadInv
  <2>3. CASE exec' = [exec EXCEPT ![c] = "done"]
    BY <1>0, <2>1, <2>2, <2>3 DEF TypeOK, ExecInv
  <2>4. CASE exec' = [exec EXCEPT ![c] = "send"] /\ pin[c] = None /\ UNCHANGED fetched
    BY <1>0, <2>1, <2>2, <2>4 DEF TypeOK, ExecInv
  <2>5. CASE /\ exec' = [exec EXCEPT ![c] = "send"] /\ pin[c] # None
             /\ tools[pin[c].tool] = pin[c].cfg
             /\ fetched' = [fetched EXCEPT ![c] = [tool |-> pin[c].tool,
                                                   cfg |-> tools[pin[c].tool]]]
    <3>1. [tool |-> pin[c].tool, cfg |-> tools[pin[c].tool]] = pin[c]
      BY <1>0, <2>5 DEF TypeOK, Pins
    <3>2. fetched' = [fetched EXCEPT ![c] = pin[c]]
      BY <2>5, <3>1
    <3> QED BY <1>0, <2>1, <2>2, <2>5, <3>2 DEF TypeOK, ExecInv
  <2> QED BY <2>1, <2>3, <2>4, <2>5
<1>19. ASSUME NEW c \in Calls, SendDownstream(c) PROVE RowInv' /\ ReadInv' /\ ExecInv'
  <2>1. /\ exec[c] = "send"
        /\ exec' = [exec EXCEPT ![c] = "sent"]
        /\ \/ sends' = [sends EXCEPT ![c] = @ + 1] /\ sentTo' = [sentTo EXCEPT ![c] = fetched[c]]
           \/ UNCHANGED <<sends, sentTo>>
        /\ UNCHANGED fetched
        /\ UNCHANGED <<status, approvedBy, toNotify, notes, lpc, job, lread, pin, pc, hread, execBy>>
    BY <1>19 DEF SendDownstream, Destination
  <2>2. RowInv' /\ ReadInv'
    BY <1>0, <2>1 DEF RowInv, ReadInv
  <2>3. status[c] = "approved" /\ sends[c] = 0 /\ fetched[c] = pin[c]
    BY <1>0, <2>1 DEF ExecInv
  <2>4. ExecInv'
    BY <1>0, <2>1, <2>3 DEF TypeOK, ExecInv
  <2> QED BY <2>2, <2>4
<1>20. ASSUME NEW c \in Calls, RecordDispatched(c) PROVE RowInv' /\ ReadInv' /\ ExecInv'
  <2>1. RowInv'
    BY <1>0, <1>20 DEF RecordDispatched, RecordResume, TypeOK, RowInv
  <2>2. ReadInv'
    BY <1>0, <1>20 DEF RecordDispatched, RecordResume, TypeOK, RowInv, ReadInv
  <2>3. ExecInv'
    BY <1>0, <1>20 DEF RecordDispatched, RecordResume, TypeOK, RowInv, ReadInv, ExecInv
  <2> QED BY <2>1, <2>2, <2>3
<1>21. ASSUME NEW c \in Calls, BodyPanics(c) PROVE RowInv' /\ ReadInv' /\ ExecInv'
  <2>1. RowInv'
    BY <1>0, <1>21 DEF BodyPanics, TypeOK, RowInv
  <2>2. ReadInv'
    BY <1>0, <1>21 DEF BodyPanics, TypeOK, RowInv, ReadInv
  <2>3. ExecInv'
    BY <1>0, <1>21 DEF BodyPanics, TypeOK, RowInv, ReadInv, ExecInv
  <2> QED BY <2>1, <2>2, <2>3
<1>22. ASSUME NEW n \in Nodes, NEW c \in Calls, TakeNotification(n, c) PROVE RowInv' /\ ReadInv' /\ ExecInv'
  <2>1. RowInv'
    BY <1>0, <1>22 DEF TakeNotification, TypeOK, RowInv
  <2>2. ReadInv'
    BY <1>0, <1>22 DEF TakeNotification, TypeOK, RowInv, ReadInv
  <2>3. ExecInv'
    BY <1>0, <1>22 DEF TakeNotification, TypeOK, RowInv, ReadInv, ExecInv
  <2> QED BY <2>1, <2>2, <2>3
<1>23. ASSUME NEW n \in Nodes, FetchDecision(n) PROVE RowInv' /\ ReadInv' /\ ExecInv'
  <2>1. RowInv'
    BY <1>0, <1>23 DEF FetchDecision, TypeOK, RowInv
  <2>2. ReadInv'
    BY <1>0, <1>23 DEF FetchDecision, TypeOK, RowInv, ReadInv
  <2>3. ExecInv'
    BY <1>0, <1>23 DEF FetchDecision, TypeOK, RowInv, ReadInv, ExecInv
  <2> QED BY <2>1, <2>2, <2>3
<1>24. ASSUME NEW n \in Nodes, FetchFails(n) PROVE RowInv' /\ ReadInv' /\ ExecInv'
  <2>1. RowInv'
    BY <1>0, <1>24 DEF FetchFails, TypeOK, RowInv
  <2>2. ReadInv'
    BY <1>0, <1>24 DEF FetchFails, TypeOK, RowInv, ReadInv
  <2>3. ExecInv'
    BY <1>0, <1>24 DEF FetchFails, TypeOK, RowInv, ReadInv, ExecInv
  <2> QED BY <2>1, <2>2, <2>3
<1>25. ASSUME NEW n \in Nodes, ListenerOnce(n) PROVE RowInv' /\ ReadInv' /\ ExecInv'
  <2>1. RowInv'
    BY <1>0, <1>25 DEF ListenerOnce, StartOnce, TypeOK, RowInv
  <2>2. ReadInv'
    BY <1>0, <1>25 DEF ListenerOnce, StartOnce, TypeOK, RowInv, ReadInv
  <2>3. ExecInv'
    BY <1>0, <1>25 DEF ListenerOnce, StartOnce, TypeOK, RowInv, ReadInv, ExecInv
  <2> QED BY <2>1, <2>2, <2>3
<1>26. ASSUME NEW n \in Nodes, ListenerOnceDone(n) PROVE RowInv' /\ ReadInv' /\ ExecInv'
  <2>1. RowInv'
    BY <1>0, <1>26 DEF ListenerOnceDone, TypeOK, RowInv
  <2>2. ReadInv'
    BY <1>0, <1>26 DEF ListenerOnceDone, TypeOK, RowInv, ReadInv
  <2>3. ExecInv'
    BY <1>0, <1>26 DEF ListenerOnceDone, TypeOK, RowInv, ReadInv, ExecInv
  <2> QED BY <2>1, <2>2, <2>3
<1>27. ASSUME NEW n \in Nodes, Send(n) PROVE RowInv' /\ ReadInv' /\ ExecInv'
  <2>1. RowInv'
    BY <1>0, <1>27 DEF Send, ListenerIdle, TypeOK, RowInv
  <2>2. ReadInv'
    BY <1>0, <1>27 DEF Send, ListenerIdle, TypeOK, RowInv, ReadInv
  <2>3. ExecInv'
    BY <1>0, <1>27 DEF Send, ListenerIdle, TypeOK, RowInv, ReadInv, ExecInv
  <2> QED BY <2>1, <2>2, <2>3
<1>28. ASSUME NEW n \in Nodes, Disconnect(n) PROVE RowInv' /\ ReadInv' /\ ExecInv'
  <2>1. RowInv'
    BY <1>0, <1>28 DEF Disconnect, TypeOK, RowInv
  <2>2. ReadInv'
    BY <1>0, <1>28 DEF Disconnect, TypeOK, RowInv, ReadInv
  <2>3. ExecInv'
    BY <1>0, <1>28 DEF Disconnect, TypeOK, RowInv, ReadInv, ExecInv
  <2> QED BY <2>1, <2>2, <2>3
<1>29. ASSUME NEW n \in Nodes, Reconnect(n) PROVE RowInv' /\ ReadInv' /\ ExecInv'
  <2>1. RowInv'
    BY <1>0, <1>29 DEF Reconnect, TypeOK, RowInv
  <2>2. ReadInv'
    BY <1>0, <1>29 DEF Reconnect, TypeOK, RowInv, ReadInv
  <2>3. ExecInv'
    BY <1>0, <1>29 DEF Reconnect, TypeOK, RowInv, ReadInv, ExecInv
  <2> QED BY <2>1, <2>2, <2>3
<1>30. ASSUME NEW n \in Nodes, Crash(n) PROVE RowInv' /\ ReadInv' /\ ExecInv'
  <2>1. RowInv'
    BY <1>0, <1>30 DEF Crash, ListenerIdle, Ended, TypeOK, RowInv
  <2>2. ReadInv'
    BY <1>0, <1>30 DEF Crash, ListenerIdle, Ended, TypeOK, RowInv, ReadInv
  <2>3. ExecInv'
    BY <1>0, <1>30 DEF Crash, ListenerIdle, Ended, TypeOK, RowInv, ReadInv, ExecInv
  <2> QED BY <2>1, <2>2, <2>3
<1>31. ASSUME NEW c \in Calls, NEW u \in Users, NEW d \in Decided, Decide(c, u, d) PROVE RowInv' /\ ReadInv' /\ ExecInv'
  <2>1. RowInv'
    BY <1>0, <1>31 DEF Decide, TypeOK, RowInv
  <2>2. ReadInv'
    BY <1>0, <1>31 DEF Decide, TypeOK, RowInv, ReadInv
  <2>3. ExecInv'
    BY <1>0, <1>31 DEF Decide, TypeOK, RowInv, ReadInv, ExecInv
  <2> QED BY <2>1, <2>2, <2>3
<1>32. ASSUME NEW c \in Calls, Notify(c) PROVE RowInv' /\ ReadInv' /\ ExecInv'
  <2>1. RowInv'
    BY <1>0, <1>32 DEF Notify, TypeOK, RowInv
  <2>2. ReadInv'
    BY <1>0, <1>32 DEF Notify, TypeOK, RowInv, ReadInv
  <2>3. ExecInv'
    BY <1>0, <1>32 DEF Notify, TypeOK, RowInv, ReadInv, ExecInv
  <2> QED BY <2>1, <2>2, <2>3
<1>33. ASSUME NEW c \in Calls, NotifyLost(c) PROVE RowInv' /\ ReadInv' /\ ExecInv'
  <2>1. RowInv'
    BY <1>0, <1>33 DEF NotifyLost, TypeOK, RowInv
  <2>2. ReadInv'
    BY <1>0, <1>33 DEF NotifyLost, TypeOK, RowInv, ReadInv
  <2>3. ExecInv'
    BY <1>0, <1>33 DEF NotifyLost, TypeOK, RowInv, ReadInv, ExecInv
  <2> QED BY <2>1, <2>2, <2>3
<1>34. ASSUME NEW t \in Tools, NEW g \in Configs, EditTool(t, g) \/ CreateTool(t, g)
       PROVE  RowInv' /\ ReadInv' /\ ExecInv'
  BY <1>0, <1>34 DEF EditTool, CreateTool, RowInv, ReadInv, ExecInv
<1>35. ASSUME NEW t \in Tools, DeleteTool(t) PROVE RowInv' /\ ReadInv' /\ ExecInv'
  BY <1>0, <1>35 DEF DeleteTool, RowInv, ReadInv, ExecInv
<1>36. ASSUME NEW b \in BOOLEAN, SetLive(b) \/ SetLicensed(b) PROVE RowInv' /\ ReadInv' /\ ExecInv'
  BY <1>0, <1>36 DEF SetLive, SetLicensed, RowInv, ReadInv, ExecInv
<1>37. CASE UNCHANGED vars
  BY <1>0, <1>37 DEF vars, RowInv, ReadInv, ExecInv
<1>38. CASE \E c \in Calls : CallStep(c)
  BY <1>38, <1>2, <1>3, <1>4, <1>5, <1>6, <1>7, <1>8, <1>9, <1>10, <1>11, <1>12, <1>13, <1>14
     DEF CallStep
<1>39. CASE \E c \in Calls : BodyStep(c)
  BY <1>39, <1>15, <1>16, <1>17, <1>18, <1>19, <1>20 DEF BodyStep
<1>40. CASE \E n \in Nodes : ResolveStep(n)
  BY <1>40, <1>23, <1>24, <1>25, <1>26, <1>27 DEF ResolveStep
<1>41. CASE ApiStep
  BY <1>41, <1>31, <1>32, <1>33, <1>34, <1>35, <1>36 DEF ApiStep
<1> QED BY <1>1, <1>21, <1>22, <1>28, <1>29, <1>30, <1>37, <1>38, <1>39, <1>40, <1>41 DEF Next

LEMMA InvInit == Init => Inv
<1> SUFFICES ASSUME Init PROVE Inv
  OBVIOUS
<1>1. TypeOK
  BY TypeInit
<1>2. RowInv /\ ReadInv /\ ExecInv
  BY DEF Init, RowInv, ReadInv, ExecInv, Body, BeforeSend
<1> QED BY <1>1, <1>2 DEF Inv

\* What somebody read of a decision is what was committed, and what goes on
\* the wire is what was approved: the inductive invariant of the protocol.
THEOREM Invariance == Spec => []Inv
<1>1. Init => Inv
  BY InvInit
<1>2. Inv /\ [Next]_vars => Inv'
  BY TypeStep, InvStep DEF Inv
<1> QED BY <1>1, <1>2, PTL DEF Spec

\* However resolve() and the timeout backstop interleave, with faults, panics
\* and crashes, the downstream sees at most one request per approval.
THEOREM DispatchedAtMostOnce == Spec => []AtMostOneDispatch
<1>1. Inv => AtMostOneDispatch
  BY DEF Inv, ExecInv, AtMostOneDispatch
<1> QED BY <1>1, Invariance, PTL

\* Nothing is sent for a request that is denied, expired or undecided.
THEOREM DispatchedOnlyIfApproved == Spec => []DispatchNeedsApproval
<1>1. Inv => DispatchNeedsApproval
  BY DEF Inv, ExecInv, DispatchNeedsApproval
<1> QED BY <1>1, Invariance, PTL

\* The connector and configuration the approver's request named are the ones
\* used, whatever was edited during the hold.
THEOREM DispatchedToPinned == Spec => []DestinationIsPinned
<1>1. Inv => DestinationIsPinned
  BY DEF Inv, ExecInv, DestinationIsPinned
<1> QED BY <1>1, Invariance, PTL

-----------------------------------------------------------------------------
(* An agent that is suspended stays without its call.                      *)

\* The body of the once has not come past the check of the agent, or is over,
\* and nothing was sent.
NotPast(c) == exec[c] \in {"fresh", "live", "done"} /\ sends[c] = 0

LEMMA SuspendedBody ==
    ASSUME TypeOK, NEW c \in Calls, NEW d \in Calls, ~live, NotPast(c), BodyStep(d)
    PROVE  NotPast(c)'
<1> USE DEF TypeOK, NotPast
<1>1. CASE CheckLive(d)
  <2>1. exec' = [exec EXCEPT ![d] = "done"] /\ UNCHANGED sends
    BY <1>1 DEF CheckLive, Refuse, BodyReturns, wire
  <2> QED BY <2>1
<1>2. CASE d = c /\ ~CheckLive(d)
  BY <1>2 DEF BodyStep, CheckLicense, CheckUsage, CheckConnector, SendDownstream, RecordDispatched
<1>3. CASE d # c
  <2>1. exec'[c] = exec[c] /\ sends'[c] = sends[c]
    <3>1. CASE CheckLive(d) \/ CheckLicense(d) \/ CheckUsage(d)
      BY <1>3, <3>1 DEF CheckLive, CheckLicense, CheckUsage, Refuse, Proceed, BodyReturns, wire
    <3>2. CASE CheckConnector(d)
      BY <1>3, <3>2 DEF CheckConnector, Refuse, Proceed, BodyReturns, wire
    <3>3. CASE SendDownstream(d) \/ RecordDispatched(d)
      BY <1>3, <3>3 DEF SendDownstream, RecordDispatched, wire
    <3> QED BY <3>1, <3>2, <3>3 DEF BodyStep
  <2> QED BY <2>1
<1> QED BY <1>1, <1>2, <1>3

LEMMA SuspendedStep ==
    ASSUME TypeOK, NEW c \in Calls, [Next]_vars, ~live, NotPast(c)
    PROVE  NotPast(c)'
<1> USE DEF TypeOK, NotPast
<1>1. ASSUME NEW d \in Calls, BodyStep(d) PROVE NotPast(c)'
  BY <1>1, SuspendedBody
<1>2. ASSUME NEW d \in Calls, NEW who, NEW read, StartOnce(d, who, read), UNCHANGED wire PROVE NotPast(c)'
  BY <1>2 DEF StartOnce, wire
<1>3. ASSUME NEW d \in Calls, CallStep(d) PROVE NotPast(c)'
  <2>1. CASE HoldOnce(d)
    BY <1>2, <2>1 DEF HoldOnce
  <2>2. CASE ~HoldOnce(d)
    BY <1>3, <2>2 DEF CallStep, Submit, SubmitFails, Register, Receive, TimerFires, NothingArrived, ExpireRow,
                AlreadyDecided, TimeoutDbFails, Reread, HoldOnceDone, Finish, entry, wire
  <2> QED BY <2>1, <2>2
<1>4. ASSUME NEW n \in Nodes, ResolveStep(n) PROVE NotPast(c)'
  <2>1. CASE ListenerOnce(n)
    <3>1. job[n] \in Calls
      BY <2>1 DEF ListenerOnce
    <3> QED BY <1>2, <2>1, <3>1 DEF ListenerOnce
  <2>2. CASE ~ListenerOnce(n)
    BY <1>4, <2>2 DEF ResolveStep, FetchDecision, FetchFails, ListenerOnceDone, Send, entry, wire
  <2> QED BY <2>1, <2>2
<1>5. ASSUME NEW d \in Calls, BodyPanics(d) PROVE NotPast(c)'
  BY <1>5 DEF BodyPanics, wire
<1>6. ASSUME NEW n \in Nodes, Crash(n) PROVE NotPast(c)'
  <2>1. exec'[c] \in {exec[c], "done"} /\ sends' = sends
    BY <1>6 DEF Crash, wire
  <2> QED BY <2>1
<1>7. ASSUME NEW d \in Calls, NEW n \in Nodes, Escalate(d, n) \/ TakeNotification(n, d) PROVE NotPast(c)'
  BY <1>7 DEF Escalate, TakeNotification, entry, wire
<1>8. CASE ApiStep
  <2>1. UNCHANGED <<exec, sends>>
    BY <1>8 DEF ApiStep, Decide, Notify, NotifyLost, EditTool, DeleteTool, CreateTool, SetLive, SetLicensed,
                entry, wire
  <2> QED BY <2>1
<1>9. CASE UNCHANGED vars
  BY <1>9 DEF vars
<1>10. ASSUME NEW n \in Nodes, Disconnect(n) \/ Reconnect(n) PROVE NotPast(c)'
  BY <1>10 DEF Disconnect, Reconnect, entry, wire
<1> QED BY <1>1, <1>3, <1>4, <1>5, <1>6, <1>7, <1>8, <1>9, <1>10 DEF Next

\* An agent that stopped being live before the decision, and stayed so, never
\* has the approved call carried out, for any number of calls and nodes:
\* dispatchApproved asks CheckLive again, whoever runs it.
THEOREM SuspendedAgentNeverRuns == Spec => SuspendedNeverRuns
<1> SUFFICES ASSUME NEW c \in Calls
             PROVE  Spec => [](status[c] = "pending" /\ [](~live) => [](sends[c] = 0))
  BY DEF SuspendedNeverRuns
<1>1. Inv /\ status[c] = "pending" => NotPast(c)
  BY DEF Inv, ExecInv, NotPast, Terminal, BeforeSend
<1>2. Inv /\ [Next]_vars /\ ~live /\ NotPast(c) => NotPast(c)'
  BY SuspendedStep DEF Inv
<1>3. NotPast(c) => sends[c] = 0
  BY DEF NotPast
<1> QED BY <1>1, <1>2, <1>3, Invariance, PTL DEF Spec

-----------------------------------------------------------------------------
(* The protocol implements ApprovalContract.                               *)

\* The mapped row of every call but c is left alone, c's becomes [s, u].
LEMMA MappedUpdate ==
  ASSUME TypeOK, NEW c \in Calls, NEW s, NEW u,
         status' = [status EXCEPT ![c] = s],
         approvedBy' = [approvedBy EXCEPT ![c] = u] \/ (approvedBy' = approvedBy /\ u = approvedBy[c])
  PROVE  [e \in Calls |-> [status |-> status'[e], by |-> approvedBy'[e]]]
           = [[e \in Calls |-> [status |-> status[e], by |-> approvedBy[e]]]
                EXCEPT ![c] = [status |-> s, by |-> u]]
<1>1. \A e \in Calls : status'[e] = IF e = c THEN s ELSE status[e]
  BY DEF TypeOK
<1>2. \A e \in Calls : approvedBy'[e] = IF e = c THEN u ELSE approvedBy[e]
  BY DEF TypeOK
<1> QED BY <1>1, <1>2

\* Every step of the protocol is a step of the contract or leaves its
\* variables alone.
LEMMA ContractStep == Inv /\ [Next]_vars => [Contract!CNext]_(Contract!cvars)
<1> SUFFICES ASSUME Inv, [Next]_vars PROVE [Contract!CNext]_(Contract!cvars)
  OBVIOUS
<1>0. TypeOK /\ RowInv /\ ReadInv /\ ExecInv
  BY DEF Inv
<1>1. ASSUME UNCHANGED <<status, approvedBy, sends>> PROVE [Contract!CNext]_(Contract!cvars)
  BY <1>1 DEF Contract!cvars
<1>2. ASSUME NEW c \in Calls, Submit(c) PROVE Contract!CNext
  <2>1. status[c] = "none" /\ approvedBy[c] = None
    BY <1>0, <1>2 DEF Submit, RowInv
  <2>2. Contract!Request(c)
    BY <1>0, <1>2, <2>1, MappedUpdate DEF Submit, wire, Contract!Request
  <2> QED BY <2>2 DEF Contract!CNext
<1>3. ASSUME NEW c \in Calls, status[c] = "pending",
             status' = [status EXCEPT ![c] = "expired"], UNCHANGED <<approvedBy, sends>>
      PROVE  Contract!CNext
  <2>1. approvedBy[c] = None
    BY <1>0, <1>3 DEF RowInv
  <2>2. Contract!Settle(c, "expired", None)
    BY <1>0, <1>3, <2>1, MappedUpdate DEF Contract!Settle
  <2> QED BY <2>2 DEF Contract!CNext
<1>4. ASSUME NEW c \in Calls, NEW u \in Users, NEW d \in Decided, Decide(c, u, d)
      PROVE  Contract!CNext
  <2>1. Contract!Settle(c, d, u)
    BY <1>0, <1>4, MappedUpdate DEF Decide, wire, Contract!Settle
  <2> QED BY <2>1 DEF Contract!CNext, Decided
<1>5. ASSUME NEW c \in Calls, SendDownstream(c) PROVE [Contract!CNext]_(Contract!cvars)
  <2>1. /\ UNCHANGED <<status, approvedBy>>
        /\ sends' = [sends EXCEPT ![c] = @ + 1] \/ UNCHANGED sends
    BY <1>5 DEF SendDownstream, db
  <2>2. CASE UNCHANGED sends
    BY <1>1, <2>1, <2>2
  <2>3. CASE sends' = [sends EXCEPT ![c] = @ + 1]
    <3>1. status[c] = "approved" /\ sends[c] = 0
      BY <1>0, <1>5 DEF SendDownstream, ExecInv, Body, BeforeSend
    <3>2. sends' = [sends EXCEPT ![c] = 1]
      BY <1>0, <2>3, <3>1 DEF TypeOK
    <3>3. \A e \in Calls : sends'[e] = IF e = c THEN 1 ELSE sends[e]
      BY <1>0, <3>2 DEF TypeOK
    <3>4. Contract!Carry(c)
      BY <2>1, <3>1, <3>3 DEF Contract!Carry
    <3> QED BY <3>4 DEF Contract!CNext
  <2> QED BY <2>1, <2>2, <2>3
<1>6. ASSUME NEW c \in Calls, NEW n \in Nodes, Escalate(c, n) PROVE UNCHANGED <<status, approvedBy, sends>>
  BY <1>6 DEF Escalate, rowvars, wire
<1>7. ASSUME NEW c \in Calls, CallStep(c) PROVE [Contract!CNext]_(Contract!cvars)
  <2>1. CASE ExpireRow(c)
    BY <1>3, <2>1 DEF ExpireRow, wire
  <2>2. CASE TimeoutDbFails(c)
    <3>1. /\ UNCHANGED <<approvedBy, sends>>
          /\ \/ UNCHANGED status
             \/ status[c] = "pending" /\ status' = [status EXCEPT ![c] = "expired"]
      BY <2>2 DEF TimeoutDbFails, rowvars, wire
    <3> QED BY <1>1, <1>3, <3>1
  <2>3. CASE \/ SubmitFails(c) \/ Register(c) \/ Receive(c) \/ TimerFires(c)
             \/ NothingArrived(c) \/ AlreadyDecided(c) \/ Reread(c) \/ HoldOnce(c)
             \/ HoldOnceDone(c) \/ Finish(c)
    <3>1. UNCHANGED <<status, approvedBy, sends>>
      BY <2>3 DEF SubmitFails, Register, Receive, TimerFires, NothingArrived, AlreadyDecided,
                  Reread, HoldOnce, HoldOnceDone, Finish, db, wire, rowvars
    <3> QED BY <1>1, <3>1
  <2> QED BY <1>2, <1>7, <2>1, <2>2, <2>3 DEF CallStep
<1>8. ASSUME NEW c \in Calls, BodyStep(c) PROVE [Contract!CNext]_(Contract!cvars)
  <2>1. ASSUME NEW o, RecordResume(c, o) PROVE UNCHANGED <<status, approvedBy>>
    BY <2>1 DEF RecordResume, rowvars
  <2>2. CASE CheckLive(c) \/ CheckLicense(c) \/ CheckUsage(c)
    BY <1>1, <2>1, <2>2 DEF CheckLive, CheckLicense, CheckUsage, Refuse, rowvars, wire
  <2>3. CASE CheckConnector(c)
    BY <1>1, <2>1, <2>3 DEF CheckConnector, Refuse, rowvars, wire
  <2>4. CASE RecordDispatched(c)
    BY <1>1, <2>1, <2>4 DEF RecordDispatched, rowvars, wire
  <2> QED BY <1>5, <1>8, <2>2, <2>3, <2>4 DEF BodyStep
<1>9. ASSUME NEW c \in Calls, BodyPanics(c) PROVE UNCHANGED <<status, approvedBy, sends>>
  BY <1>9 DEF BodyPanics, db, wire
<1>10. ASSUME NEW n \in Nodes, \/ \E c \in Calls : TakeNotification(n, c)
                               \/ ResolveStep(n) \/ Disconnect(n) \/ Reconnect(n) \/ Crash(n)
       PROVE  UNCHANGED <<status, approvedBy, sends>>
  BY <1>10 DEF TakeNotification, ResolveStep, FetchDecision, FetchFails, ListenerOnce,
               ListenerOnceDone, Send, Disconnect, Reconnect, Crash, db, wire
<1>11. CASE ApiStep
  <2>1. ASSUME NEW c \in Calls, Notify(c) \/ NotifyLost(c) PROVE UNCHANGED <<status, approvedBy, sends>>
    BY <2>1 DEF Notify, NotifyLost, db, wire
  <2>2. ASSUME NEW t \in Tools, NEW g \in Configs, EditTool(t, g) \/ CreateTool(t, g)
        PROVE  UNCHANGED <<status, approvedBy, sends>>
    BY <2>2 DEF EditTool, CreateTool, rowvars, wire
  <2>3. ASSUME NEW t \in Tools, DeleteTool(t) PROVE UNCHANGED <<status, approvedBy, sends>>
    BY <2>3 DEF DeleteTool, rowvars, wire
  <2>4. ASSUME NEW b \in BOOLEAN, SetLive(b) \/ SetLicensed(b)
        PROVE  UNCHANGED <<status, approvedBy, sends>>
    BY <2>4 DEF SetLive, SetLicensed, rowvars, wire
  <2> QED BY <1>1, <1>4, <1>11, <2>1, <2>2, <2>3, <2>4 DEF ApiStep
<1>12. CASE UNCHANGED vars
  BY <1>1, <1>12 DEF vars
<1> QED BY <1>1, <1>6, <1>7, <1>8, <1>9, <1>10, <1>11, <1>12 DEF Next

\* The whole protocol, with its faults, panics, crashes and lost notifications,
\* implements the contract: one final decision, at most one execution, after it.
THEOREM Refinement == Spec => ImplementsContract
<1>1. Init => Contract!CInit
  BY DEF Init, Contract!CInit
<1>2. Inv /\ [Next]_vars => [Contract!CNext]_(Contract!cvars)
  BY ContractStep
<1> QED BY <1>1, <1>2, Invariance, PTL DEF Spec, ImplementsContract, Contract!CSpec

-----------------------------------------------------------------------------
(* What the gateway records of a call is true.                             *)

\* A step leaves the row of a call and its requests alone, or it is one of
\* four: the INSERT, the expiry, the decision, the request to the downstream.
LEMMA RowSteps ==
  ASSUME [Next]_vars
  PROVE  \/ UNCHANGED <<status, approvedBy, sends>>
         \/ \E c \in Calls : Submit(c)
         \/ \E c \in Calls : /\ status[c] = "pending"
                             /\ status' = [status EXCEPT ![c] = "expired"]
                             /\ UNCHANGED <<approvedBy, sends>>
         \/ \E c \in Calls, u \in Users, d \in Decided : Decide(c, u, d)
         \/ \E c \in Calls : SendDownstream(c)
<1> DEFINE Same == UNCHANGED <<status, approvedBy, sends>>
<1>1. ASSUME NEW c \in Calls, NEW n \in Nodes, Escalate(c, n) PROVE Same
  BY <1>1 DEF Escalate, rowvars, wire
<1>2. ASSUME NEW c \in Calls, CallStep(c)
      PROVE  \/ Same \/ Submit(c)
             \/ /\ status[c] = "pending"
                /\ status' = [status EXCEPT ![c] = "expired"]
                /\ UNCHANGED <<approvedBy, sends>>
  <2>1. CASE ExpireRow(c)
    BY <2>1 DEF ExpireRow, wire
  <2>2. CASE TimeoutDbFails(c)
    BY <2>2 DEF TimeoutDbFails, rowvars, wire
  <2>3. CASE \/ SubmitFails(c) \/ Register(c) \/ Receive(c) \/ TimerFires(c)
             \/ NothingArrived(c) \/ AlreadyDecided(c) \/ Reread(c) \/ HoldOnce(c)
             \/ HoldOnceDone(c) \/ Finish(c)
    BY <2>3 DEF SubmitFails, Register, Receive, TimerFires, NothingArrived, AlreadyDecided,
                Reread, HoldOnce, HoldOnceDone, Finish, db, wire, rowvars
  <2> QED BY <1>2, <2>1, <2>2, <2>3 DEF CallStep
<1>3. ASSUME NEW c \in Calls, BodyStep(c) PROVE Same \/ SendDownstream(c)
  <2>1. ASSUME NEW o, RecordResume(c, o) PROVE UNCHANGED <<status, approvedBy>>
    BY <2>1 DEF RecordResume, rowvars
  <2>2. CASE CheckLive(c) \/ CheckLicense(c) \/ CheckUsage(c)
    BY <2>1, <2>2 DEF CheckLive, CheckLicense, CheckUsage, Refuse, rowvars, wire
  <2>3. CASE CheckConnector(c)
    BY <2>1, <2>3 DEF CheckConnector, Refuse, rowvars, wire
  <2>4. CASE RecordDispatched(c)
    BY <2>1, <2>4 DEF RecordDispatched, rowvars, wire
  <2> QED BY <1>3, <2>2, <2>3, <2>4 DEF BodyStep
<1>4. ASSUME NEW c \in Calls, BodyPanics(c) PROVE Same
  BY <1>4 DEF BodyPanics, db, wire
<1>5. ASSUME NEW n \in Nodes, \/ \E c \in Calls : TakeNotification(n, c)
                              \/ ResolveStep(n) \/ Disconnect(n) \/ Reconnect(n) \/ Crash(n)
      PROVE  Same
  BY <1>5 DEF TakeNotification, ResolveStep, FetchDecision, FetchFails, ListenerOnce,
              ListenerOnceDone, Send, Disconnect, Reconnect, Crash, db, wire
<1>6. CASE ApiStep
  <2>1. ASSUME NEW c \in Calls, Notify(c) \/ NotifyLost(c) PROVE Same
    BY <2>1 DEF Notify, NotifyLost, db, wire
  <2>2. ASSUME NEW t \in Tools, NEW g \in Configs, EditTool(t, g) \/ CreateTool(t, g) PROVE Same
    BY <2>2 DEF EditTool, CreateTool, rowvars, wire
  <2>3. ASSUME NEW t \in Tools, DeleteTool(t) PROVE Same
    BY <2>3 DEF DeleteTool, rowvars, wire
  <2>4. ASSUME NEW b \in BOOLEAN, SetLive(b) \/ SetLicensed(b) PROVE Same
    BY <2>4 DEF SetLive, SetLicensed, rowvars, wire
  <2> QED BY <1>6, <2>1, <2>2, <2>3, <2>4 DEF ApiStep
<1>7. CASE UNCHANGED vars
  BY <1>7 DEF vars
<1> QED BY <1>1, <1>2, <1>3, <1>4, <1>5, <1>6, <1>7 DEF Next

\* A settled row stays as it is, and a request that went out is not taken back.
LEMMA RowFinal ==
  ASSUME Inv, Inv', [Next]_vars, NEW c \in Calls
  PROVE  /\ status[c] \in Terminal => status'[c] = status[c] /\ approvedBy'[c] = approvedBy[c]
         /\ sends[c] = 1 => sends'[c] = 1
<1>0. TypeOK /\ RowInv /\ ReadInv /\ ExecInv /\ TypeOK' /\ ExecInv'
  BY DEF Inv
<1>1. CASE UNCHANGED <<status, approvedBy, sends>>
  BY <1>1
<1>2. ASSUME NEW e \in Calls, Submit(e)
      PROVE  /\ status[c] \in Terminal => status'[c] = status[c] /\ approvedBy'[c] = approvedBy[c]
             /\ sends[c] = 1 => sends'[c] = 1
  BY <1>0, <1>2 DEF Submit, RowInv, TypeOK, Terminal, wire
<1>3. ASSUME NEW e \in Calls, status[e] = "pending",
             status' = [status EXCEPT ![e] = "expired"], UNCHANGED <<approvedBy, sends>>
      PROVE  /\ status[c] \in Terminal => status'[c] = status[c] /\ approvedBy'[c] = approvedBy[c]
             /\ sends[c] = 1 => sends'[c] = 1
  BY <1>0, <1>3 DEF TypeOK, Terminal
<1>4. ASSUME NEW e \in Calls, NEW u \in Users, NEW d \in Decided, Decide(e, u, d)
      PROVE  /\ status[c] \in Terminal => status'[c] = status[c] /\ approvedBy'[c] = approvedBy[c]
             /\ sends[c] = 1 => sends'[c] = 1
  BY <1>0, <1>4 DEF Decide, TypeOK, Terminal, wire
<1>5. ASSUME NEW e \in Calls, SendDownstream(e)
      PROVE  /\ status[c] \in Terminal => status'[c] = status[c] /\ approvedBy'[c] = approvedBy[c]
             /\ sends[c] = 1 => sends'[c] = 1
  <2>1. UNCHANGED <<status, approvedBy>>
    BY <1>5 DEF SendDownstream, db
  <2>2. sends[e] = 0
    BY <1>0, <1>5 DEF SendDownstream, ExecInv, BeforeSend
  <2>3. sends' = [sends EXCEPT ![e] = @ + 1] \/ UNCHANGED sends
    BY <1>5 DEF SendDownstream
  <2> QED BY <1>0, <2>1, <2>2, <2>3 DEF TypeOK
<1> QED BY <1>1, <1>2, <1>3, <1>4, <1>5, RowSteps

\* It is enough to look at the outcomes a step writes.
LEMMA OutcomeFrame ==
  ASSUME Inv, Inv', [Next]_vars, OutcomeInv,
         \A c \in Calls : result'[c] = result[c] \/ Confirmed(c, result[c])',
         \A c \in Calls : ch'[c] \in {ch[c], None} \/ Confirmed(c, ch[c])',
         \A c \in Calls : out'[c] = out[c] \/ Confirmed(c, out[c])',
         \A n \in Nodes : lpc'[n] = "send" =>
             \/ lpc[n] = "send" /\ job'[n] = job[n] /\ lout'[n] = lout[n]
             \/ Confirmed(job[n], lout[n])'
  PROVE  OutcomeInv'
<1>1. ASSUME NEW c \in Calls PROVE Confirmed(c, result[c])'
  <2>1. CASE result'[c] = result[c]
    <3>1. Confirmed(c, result[c])
      BY DEF OutcomeInv
    <3> QED BY <2>1, <3>1, RowFinal DEF Confirmed
  <2> QED BY <2>1
<1>2. ASSUME NEW c \in Calls, ch'[c] # None PROVE Confirmed(c, ch[c])'
  <2>1. CASE ch'[c] = ch[c]
    <3>1. Confirmed(c, ch[c])
      BY <1>2, <2>1 DEF OutcomeInv
    <3> QED BY <2>1, <3>1, RowFinal DEF Confirmed
  <2> QED BY <1>2, <2>1
<1>3. ASSUME NEW c \in Calls PROVE Confirmed(c, out[c])'
  <2>1. CASE out'[c] = out[c]
    <3>1. Confirmed(c, out[c])
      BY DEF OutcomeInv
    <3> QED BY <2>1, <3>1, RowFinal DEF Confirmed
  <2> QED BY <2>1
<1>4. ASSUME NEW n \in Nodes, lpc'[n] = "send" PROVE Confirmed(job[n], lout[n])'
  <2>1. CASE lpc[n] = "send" /\ job'[n] = job[n] /\ lout'[n] = lout[n]
    <3>1. job[n] \in Calls /\ Confirmed(job[n], lout[n])
      BY <2>1 DEF OutcomeInv, Inv, TypeOK
    <3> QED BY <2>1, <3>1, RowFinal DEF Confirmed
  <2> QED BY <1>4, <2>1
<1> QED BY <1>1, <1>2, <1>3, <1>4 DEF OutcomeInv

LEMMA NotApprovedFields ==
  ASSUME NEW read, read.status \notin {"denied", "expired"} PROVE ~NotApproved(read).resolved
<1>1. CASE read.status = "pending"
  BY <1>1 DEF NotApproved, Unconfirmed
<1>2. CASE read.status # "pending"
  BY <1>2 DEF NotApproved
<1> QED BY <1>1, <1>2

LEMMA ResumedFields == ASSUME NEW c, NEW ok \in BOOLEAN PROVE ~Resumed(c, ok).err => ok
  BY DEF Resumed

\* The once body's outcome for a row that is not approved says what the row says.
LEMMA StartOnceConfirmed ==
  ASSUME Inv, NEW c \in Calls, NEW who,
         NEW read, read = [status |-> status[c], by |-> approvedBy[c]],
         StartOnce(c, who, read), UNCHANGED <<status, approvedBy, sends>>
  PROVE  \A e \in Calls : result'[e] = result[e] \/ Confirmed(e, result[e])'
<1>1. CASE read.status = "approved"
  BY <1>1 DEF StartOnce
<1>2. CASE read.status # "approved"
  <2>1. result' = [result EXCEPT ![c] = NotApproved(read)]
    BY <1>2 DEF StartOnce
  <2>2. result'[c] = NotApproved(read) /\ \A e \in Calls : e # c => result'[e] = result[e]
    BY <2>1 DEF Inv, TypeOK
  <2>3. Confirmed(c, result[c])'
    <3>1. CASE read.status \in {"denied", "expired"}
      <4>1. result'[c].status = status[c] /\ result'[c].by = approvedBy[c]
        BY <2>2, <3>1 DEF NotApproved
      <4> QED BY <3>1, <4>1 DEF Confirmed, Terminal
    <3>2. CASE read.status \notin {"denied", "expired"}
      <4>1. ~result'[c].resolved
        BY <2>2, <3>2, NotApprovedFields
      <4> QED BY <4>1 DEF Confirmed
    <3> QED BY <3>1, <3>2
  <2> QED BY <2>2, <2>3
<1> QED BY <1>1, <1>2

\* So does the outcome of an approved call, whether or not its request went out.
LEMMA ResumedConfirmed ==
  ASSUME Inv, Inv', NEW c \in Calls, exec[c] \in Body, UNCHANGED <<status, approvedBy>>,
         NEW ok \in BOOLEAN, ok => sends'[c] = 1, result' = [result EXCEPT ![c] = Resumed(c, ok)]
  PROVE  \A e \in Calls : result'[e] = result[e] \/ Confirmed(e, result[e])'
<1>1. status[c] = "approved" /\ execBy[c] = approvedBy[c]
  BY DEF Inv, ExecInv
<1>2. result'[c] = Resumed(c, ok) /\ \A e \in Calls : e # c => result'[e] = result[e]
  BY DEF Inv, TypeOK
<1>3. Confirmed(c, result[c])'
  <2>1. result'[c].status = "approved" /\ result'[c].by = approvedBy'[c]
    BY <1>1, <1>2 DEF Resumed
  <2>2. ~result'[c].err => ok
    BY <1>2, ResumedFields
  <2> QED BY <1>1, <2>1, <2>2 DEF Confirmed, Terminal
<1> QED BY <1>2, <1>3

\* Every step of the goroutines keeps the outcomes under way true to the row.
LEMMA OutcomeStep == Inv /\ Inv' /\ OutcomeInv /\ [Next]_vars => OutcomeInv'
<1> SUFFICES ASSUME Inv, Inv', OutcomeInv, [Next]_vars PROVE OutcomeInv'
  OBVIOUS
<1>0. TypeOK /\ RowInv /\ ReadInv /\ ExecInv
  BY DEF Inv
<1>1. ASSUME UNCHANGED <<result, ch, out, lout, job>>,
             \A n \in Nodes : lpc'[n] = "send" => lpc[n] = "send"
      PROVE  OutcomeInv'
  BY <1>1, OutcomeFrame
<1>2. ASSUME NEW c \in Calls, NEW o, HoldReturns(c, o), Confirmed(c, o)',
             ch' \in {ch, [ch EXCEPT ![c] = None]}, UNCHANGED <<result, lout, lpc, job>>
      PROVE  OutcomeInv'
  <2>1. \A e \in Calls : out'[e] = out[e] \/ Confirmed(e, out[e])'
    <3>1. out' = [out EXCEPT ![c] = o]
      BY <1>2 DEF HoldReturns
    <3>2. out'[c] = o /\ \A e \in Calls : e # c => out'[e] = out[e]
      BY <1>0, <3>1 DEF TypeOK
    <3> QED BY <1>2, <3>2
  <2>2. \A e \in Calls : ch'[e] \in {ch[e], None}
    BY <1>0, <1>2 DEF TypeOK
  <2> QED BY <1>2, <2>1, <2>2, OutcomeFrame
<1>3. ASSUME NEW c \in Calls, NEW n \in Nodes, Escalate(c, n) PROVE OutcomeInv'
  BY <1>1, <1>3 DEF Escalate, lvars, entry
<1>4. ASSUME NEW c \in Calls, CallStep(c) PROVE OutcomeInv'
  <2>1. CASE Submit(c) \/ Register(c) \/ TimerFires(c) \/ NothingArrived(c)
             \/ AlreadyDecided(c) \/ Reread(c) \/ Finish(c)
    BY <1>1, <2>1 DEF Submit, Register, TimerFires, NothingArrived, AlreadyDecided,
                      Reread, Finish, lvars, entry
  <2>2. CASE SubmitFails(c)
    <3>1. /\ UNCHANGED <<result, ch, lout, job, lpc, status, approvedBy, sends>>
          /\ out' = [out EXCEPT ![c] = Unconfirmed]
      BY <2>2 DEF SubmitFails, db, wire, lvars, entry
    <3>2. \A e \in Calls : out'[e] = out[e] \/ Confirmed(e, out[e])'
      BY <1>0, <3>1 DEF TypeOK, Confirmed, Unconfirmed
    <3> QED BY <3>1, <3>2, OutcomeFrame
  <2>3. CASE Receive(c)
    <3>1. Confirmed(c, ch[c]) /\ UNCHANGED <<status, approvedBy, sends>>
      BY <2>3 DEF Receive, OutcomeInv, db, wire
    <3>2. Confirmed(c, ch[c]) /\ HoldReturns(c, ch[c]) /\ ch' = [ch EXCEPT ![c] = None]
          /\ UNCHANGED <<result, lout, lpc, job>>
      BY <2>3, <3>1 DEF Receive, lvars
    <3> DEFINE o == ch[c]
    <3>3. \A e \in Calls : out'[e] = out[e] \/ Confirmed(e, out[e])'
      <4>1. out' = [out EXCEPT ![c] = o]
        BY <3>2 DEF HoldReturns
      <4>2. out'[c] = o /\ \A e \in Calls : e # c => out'[e] = out[e]
        BY <1>0, <4>1 DEF TypeOK
      <4> QED BY <3>1, <4>2 DEF Confirmed
    <3>4. \A e \in Calls : ch'[e] \in {ch[e], None}
      BY <1>0, <3>2 DEF TypeOK
    <3> QED BY <3>2, <3>3, <3>4, OutcomeFrame
  <2>4. CASE ExpireRow(c)
    <3>1. approvedBy[c] = None /\ status' = [status EXCEPT ![c] = "expired"] /\ UNCHANGED approvedBy
      BY <1>0, <2>4 DEF ExpireRow, RowInv
    <3>2. status'[c] = "expired" /\ approvedBy'[c] = None
      BY <1>0, <3>1 DEF TypeOK
    <3>3. \A e \in Calls : out'[e] = out[e] \/ Confirmed(e, out[e])'
      <4>1. out' = [out EXCEPT ![c] = NotApproved([status |-> "expired", by |-> None])]
        BY <2>4 DEF ExpireRow, HoldReturns
      <4>2. /\ out'[c] = [err |-> TRUE, resolved |-> TRUE, status |-> "expired", by |-> None]
            /\ \A e \in Calls : e # c => out'[e] = out[e]
        BY <1>0, <4>1 DEF TypeOK, NotApproved
      <4> QED BY <3>2, <4>2 DEF Confirmed, Terminal
    <3> QED BY <2>4, <3>3, OutcomeFrame DEF ExpireRow, lvars
  <2>5. CASE TimeoutDbFails(c)
    <3>1. out' = [out EXCEPT ![c] = Unconfirmed] /\ UNCHANGED <<result, ch, lout, lpc, job>>
      BY <2>5 DEF TimeoutDbFails, HoldReturns, lvars
    <3>2. \A e \in Calls : out'[e] = out[e] \/ Confirmed(e, out[e])'
      BY <1>0, <3>1 DEF TypeOK, Confirmed, Unconfirmed
    <3> QED BY <3>1, <3>2, OutcomeFrame
  <2>6. CASE HoldOnce(c)
    <3>1. hread[c] = [status |-> status[c], by |-> approvedBy[c]]
      BY <1>0, <2>6 DEF HoldOnce, ReadInv
    <3>2. /\ StartOnce(c, "hold", hread[c])
          /\ UNCHANGED <<ch, out, lout, lpc, job, status, approvedBy, sends>>
      BY <2>6 DEF HoldOnce, db, wire, lvars, hvars
    <3>3. \A e \in Calls : result'[e] = result[e] \/ Confirmed(e, result[e])'
      BY <3>1, <3>2, StartOnceConfirmed
    <3> QED BY <3>2, <3>3, OutcomeFrame
  <2>7. CASE HoldOnceDone(c)
    <3>1. /\ HoldReturns(c, result[c]) /\ Confirmed(c, result[c])
          /\ UNCHANGED <<result, ch, lout, lpc, job, status, approvedBy, sends>>
      BY <2>7 DEF HoldOnceDone, OutcomeInv, lvars, db, wire
    <3>2. out' = [out EXCEPT ![c] = result[c]]
      BY <3>1 DEF HoldReturns
    <3>3. out'[c] = result[c] /\ \A e \in Calls : e # c => out'[e] = out[e]
      BY <1>0, <3>2 DEF TypeOK
    <3>4. \A e \in Calls : out'[e] = out[e] \/ Confirmed(e, out[e])'
      BY <3>1, <3>3 DEF Confirmed
    <3> QED BY <3>1, <3>4, OutcomeFrame
  <2> QED BY <1>4, <2>1, <2>2, <2>3, <2>4, <2>5, <2>6, <2>7 DEF CallStep
<1>5. ASSUME NEW c \in Calls, BodyStep(c) PROVE OutcomeInv'
  <2>1. ASSUME UNCHANGED result \/ BodyReturns(c, FALSE), exec[c] \in Body,
               UNCHANGED <<status, approvedBy, ch, out, lout, lpc, job>>
        PROVE  OutcomeInv'
    <3>1. \A e \in Calls : result'[e] = result[e] \/ Confirmed(e, result[e])'
      <4>1. CASE UNCHANGED result
        BY <4>1
      <4>2. CASE BodyReturns(c, FALSE)
        BY <4>2, <2>1, ResumedConfirmed DEF BodyReturns
      <4> QED BY <2>1, <4>1, <4>2
    <3> QED BY <2>1, <3>1, OutcomeFrame
  <2>2. ASSUME NEW o, RecordResume(c, o) PROVE UNCHANGED <<status, approvedBy>>
    BY <2>2 DEF RecordResume, rowvars
  <2>3. CASE CheckLive(c) \/ CheckLicense(c) \/ CheckUsage(c)
    <3>1. /\ UNCHANGED result \/ BodyReturns(c, FALSE)
          /\ UNCHANGED <<status, approvedBy, ch, out, lout, lpc, job>>
          /\ exec[c] \in Body
      BY <2>2, <2>3 DEF CheckLive, CheckLicense, CheckUsage, Refuse, Proceed, Body,
                        rowvars, lvars, hvars
    <3> QED BY <2>1, <3>1
  <2>4. CASE CheckConnector(c)
    <3>1. /\ UNCHANGED result \/ BodyReturns(c, FALSE)
          /\ UNCHANGED <<status, approvedBy, ch, out, lout, lpc, job>>
          /\ exec[c] \in Body
      BY <2>2, <2>4 DEF CheckConnector, Refuse, Proceed, Body, rowvars, lvars, hvars
    <3> QED BY <2>1, <3>1
  <2>5. CASE SendDownstream(c)
    <3>1. /\ exec[c] \in Body /\ sends[c] = 0
          /\ UNCHANGED <<status, approvedBy, ch, out, lout, lpc, job>>
      BY <1>0, <2>5 DEF SendDownstream, ExecInv, Body, BeforeSend, db, lvars, hvars
    <3>2. PICK ok \in BOOLEAN : /\ result' = [result EXCEPT ![c] = Resumed(c, ok)]
                                /\ ok => sends' = [sends EXCEPT ![c] = @ + 1]
      BY <2>5 DEF SendDownstream
    <3>3. ok => sends'[c] = 1
      BY <1>0, <3>1, <3>2 DEF TypeOK
    <3>4. \A e \in Calls : result'[e] = result[e] \/ Confirmed(e, result[e])'
      BY <3>1, <3>2, <3>3, ResumedConfirmed
    <3> QED BY <3>1, <3>4, OutcomeFrame
  <2>6. CASE RecordDispatched(c)
    <3>1. UNCHANGED <<result, ch, out, lout, lpc, job>>
      BY <2>6 DEF RecordDispatched, lvars, hvars
    <3> QED BY <1>1, <3>1
  <2> QED BY <1>5, <2>3, <2>4, <2>5, <2>6 DEF BodyStep
<1>6. ASSUME NEW c \in Calls, BodyPanics(c) PROVE OutcomeInv'
  <2>1. /\ result' = [result EXCEPT ![c] = ZeroOutcome]
        /\ UNCHANGED <<ch, out, lout>>
        /\ \/ UNCHANGED <<lpc, job>>
           \/ /\ lpc' = [n \in Nodes |-> IF job[n] = c THEN "wait" ELSE lpc[n]]
              /\ job' = [n \in Nodes |-> IF job[n] = c THEN None ELSE job[n]]
    BY <1>6 DEF BodyPanics
  <2>2. \A e \in Calls : result'[e] = result[e] \/ Confirmed(e, result[e])'
    BY <1>0, <2>1 DEF TypeOK, Confirmed, ZeroOutcome
  <2>3. \A n \in Nodes : lpc'[n] = "send" =>
            lpc[n] = "send" /\ job'[n] = job[n] /\ lout'[n] = lout[n]
    BY <2>1
  <2> QED BY <2>1, <2>2, <2>3, OutcomeFrame
<1>7. ASSUME NEW n \in Nodes, NEW c \in Calls, TakeNotification(n, c) PROVE OutcomeInv'
  <2>1. UNCHANGED <<result, ch, out, lout>>
        /\ \A m \in Nodes : lpc'[m] = "send" => lpc[m] = "send" /\ job'[m] = job[m]
    BY <1>0, <1>7 DEF TakeNotification, TypeOK, hvars, entry
  <2> QED BY <2>1, OutcomeFrame
<1>8. ASSUME NEW n \in Nodes, ResolveStep(n) PROVE OutcomeInv'
  <2>1. CASE FetchDecision(n)
    <3>1. UNCHANGED <<result, ch, out, lout, job>>
          /\ \A m \in Nodes : lpc'[m] = "send" => lpc[m] = "send"
      BY <1>0, <2>1 DEF FetchDecision, TypeOK, hvars, entry
    <3> QED BY <1>1, <3>1
  <2>2. CASE FetchFails(n)
    <3>1. /\ UNCHANGED <<result, ch, out, job>>
          /\ lout' = [lout EXCEPT ![n] = Unconfirmed] /\ lpc' = [lpc EXCEPT ![n] = "send"]
      BY <2>2 DEF FetchFails, hvars, entry
    <3>2. \A m \in Nodes : lpc'[m] = "send" =>
              \/ lpc[m] = "send" /\ job'[m] = job[m] /\ lout'[m] = lout[m]
              \/ Confirmed(job[m], lout[m])'
      BY <1>0, <3>1 DEF TypeOK, Confirmed, Unconfirmed
    <3> QED BY <3>1, <3>2, OutcomeFrame
  <2>3. CASE ListenerOnce(n)
    <3>1. job[n] \in Calls /\ lread[n] = [status |-> status[job[n]], by |-> approvedBy[job[n]]]
      BY <1>0, <2>3 DEF ListenerOnce, ReadInv, TypeOK
    <3>2. /\ StartOnce(job[n], "listener", lread[n])
          /\ UNCHANGED <<ch, out, lout, lpc, job, status, approvedBy, sends>>
      BY <2>3 DEF ListenerOnce, db, wire, lvars, hvars
    <3>3. \A e \in Calls : result'[e] = result[e] \/ Confirmed(e, result[e])'
      BY <3>1, <3>2, StartOnceConfirmed
    <3> QED BY <3>2, <3>3, OutcomeFrame
  <2>4. CASE ListenerOnceDone(n)
    <3>1. /\ job[n] \in Calls
          /\ UNCHANGED <<result, ch, out, job, status, approvedBy, sends>>
          /\ lout' = [lout EXCEPT ![n] = result[job[n]]] /\ lpc' = [lpc EXCEPT ![n] = "send"]
      BY <1>0, <2>4 DEF ListenerOnceDone, TypeOK, hvars, entry, db, wire
    <3>2. lout'[n] = result[job[n]] /\ \A m \in Nodes : m # n => lout'[m] = lout[m] /\ lpc'[m] = lpc[m]
      BY <1>0, <3>1 DEF TypeOK
    <3>3. Confirmed(job[n], lout[n])'
      BY <3>1, <3>2 DEF OutcomeInv, Confirmed
    <3>4. \A m \in Nodes : lpc'[m] = "send" =>
              \/ lpc[m] = "send" /\ job'[m] = job[m] /\ lout'[m] = lout[m]
              \/ Confirmed(job[m], lout[m])'
      BY <3>1, <3>2, <3>3
    <3> QED BY <3>1, <3>4, OutcomeFrame
  <2>5. CASE Send(n)
    <3>1. /\ job[n] \in Calls /\ lpc[n] = "send"
          /\ UNCHANGED <<result, out, status, approvedBy, sends>>
          /\ ch' = [ch EXCEPT ![job[n]] = lout[n]]
          /\ lpc' = [lpc EXCEPT ![n] = "wait"]
          /\ job' = [job EXCEPT ![n] = None] /\ lout' = [lout EXCEPT ![n] = ZeroOutcome]
      BY <1>0, <2>5 DEF Send, ListenerIdle, TypeOK, hvars, db, wire
    <3>2. ch'[job[n]] = lout[n] /\ \A e \in Calls : e # job[n] => ch'[e] = ch[e]
      BY <1>0, <3>1 DEF TypeOK
    <3>3. Confirmed(job[n], lout[n])
      BY <3>1 DEF OutcomeInv
    <3>4. \A e \in Calls : ch'[e] \in {ch[e], None} \/ Confirmed(e, ch[e])'
      BY <3>1, <3>2, <3>3 DEF Confirmed
    <3>5. \A m \in Nodes : lpc'[m] = "send" =>
              lpc[m] = "send" /\ job'[m] = job[m] /\ lout'[m] = lout[m]
      BY <1>0, <3>1 DEF TypeOK
    <3> QED BY <3>1, <3>4, <3>5, OutcomeFrame
  <2> QED BY <1>8, <2>1, <2>2, <2>3, <2>4, <2>5 DEF ResolveStep
<1>9. ASSUME NEW n \in Nodes, Disconnect(n) \/ Reconnect(n) PROVE OutcomeInv'
  BY <1>1, <1>9 DEF Disconnect, Reconnect, hvars, entry
<1>10. ASSUME NEW n \in Nodes, Crash(n) PROVE OutcomeInv'
  <2>1. UNCHANGED <<result, ch, out>> /\ ListenerIdle(n)
    BY <1>10 DEF Crash
  <2>2. \A m \in Nodes : lpc'[m] = "send" =>
            lpc[m] = "send" /\ job'[m] = job[m] /\ lout'[m] = lout[m]
    BY <1>0, <2>1 DEF ListenerIdle, TypeOK
  <2> QED BY <2>1, <2>2, OutcomeFrame
<1>11. CASE ApiStep
  <2>1. UNCHANGED <<result, ch, out, lout, lpc, job>>
    <3>1. ASSUME NEW c \in Calls, NEW u \in Users, NEW d \in Decided, Decide(c, u, d)
          PROVE  UNCHANGED <<result, ch, out, lout, lpc, job>>
      BY <3>1 DEF Decide, lvars, hvars, entry
    <3>2. ASSUME NEW c \in Calls, Notify(c) \/ NotifyLost(c)
          PROVE  UNCHANGED <<result, ch, out, lout, lpc, job>>
      BY <3>2 DEF Notify, NotifyLost, lvars, hvars, entry
    <3>3. ASSUME NEW t \in Tools,
                 DeleteTool(t) \/ \E g \in Configs : EditTool(t, g) \/ CreateTool(t, g)
          PROVE  UNCHANGED <<result, ch, out, lout, lpc, job>>
      BY <3>3 DEF EditTool, CreateTool, DeleteTool, lvars, hvars, entry
    <3>4. ASSUME NEW b \in BOOLEAN, SetLive(b) \/ SetLicensed(b)
          PROVE  UNCHANGED <<result, ch, out, lout, lpc, job>>
      BY <3>4 DEF SetLive, SetLicensed, lvars, hvars, entry
    <3> QED BY <1>11, <3>1, <3>2, <3>3, <3>4 DEF ApiStep
  <2> QED BY <1>1, <2>1
<1>12. CASE UNCHANGED vars
  BY <1>1, <1>12 DEF vars
<1> QED BY <1>3, <1>4, <1>5, <1>6, <1>7, <1>8, <1>9, <1>10, <1>11, <1>12 DEF Next

\* A step that writes resume_outcome, or moves the once body, does so in order.
LEMMA ResumeStep == Inv /\ ResumeInv /\ [Next]_vars => ResumeInv'
<1> SUFFICES ASSUME Inv, ResumeInv, [Next]_vars PROVE ResumeInv'
  OBVIOUS
<1>0. TypeOK /\ RowInv /\ ReadInv /\ ExecInv
  BY DEF Inv
<1>1. ASSUME UNCHANGED <<exec, resume, pin, sends>> PROVE ResumeInv'
  BY <1>1 DEF ResumeInv
<1>2. ASSUME NEW c \in Calls, UNCHANGED <<resume, pin, sends>>,
             exec' = [exec EXCEPT ![c] = "done"]
      PROVE  ResumeInv'
  BY <1>0, <1>2 DEF ResumeInv, BeforeSend, TypeOK
<1>3. ASSUME NEW c \in Calls, exec[c] = "fresh", UNCHANGED <<resume, pin, sends>>,
             exec' \in {[exec EXCEPT ![c] = "live"], [exec EXCEPT ![c] = "done"]}
      PROVE  ResumeInv'
  BY <1>0, <1>3 DEF ResumeInv, BeforeSend, TypeOK
<1>4. ASSUME NEW c \in Calls, NEW n \in Nodes, Escalate(c, n) PROVE ResumeInv'
  <2>1. exec[c] = "fresh" /\ resume[c] = "none"
    BY <1>0, <1>4 DEF Escalate, RowInv, ExecInv, ResumeInv, Terminal, BeforeSend
  <2>2. UNCHANGED <<exec, resume, sends>> /\ \A e \in Calls : e # c => pin'[e] = pin[e]
    BY <1>0, <1>4 DEF Escalate, TypeOK, rowvars, wire, entry
  <2> QED BY <2>1, <2>2 DEF ResumeInv
<1>5. ASSUME NEW c \in Calls, CallStep(c) PROVE ResumeInv'
  <2>1. CASE HoldOnce(c)
    BY <1>3, <2>1 DEF HoldOnce, StartOnce, db, wire, hvars
  <2>2. CASE Submit(c) \/ SubmitFails(c) \/ Register(c) \/ Receive(c) \/ TimerFires(c)
             \/ NothingArrived(c) \/ ExpireRow(c) \/ AlreadyDecided(c)
    BY <1>1, <2>2 DEF Submit, SubmitFails, Register, Receive, TimerFires, NothingArrived,
                      ExpireRow, AlreadyDecided, db, wire, rowvars, hvars, entry
  <2>3. CASE TimeoutDbFails(c) \/ Reread(c) \/ HoldOnceDone(c) \/ Finish(c)
    BY <1>1, <2>3 DEF TimeoutDbFails, Reread, HoldOnceDone, Finish, db, wire, rowvars,
                      hvars, entry
  <2> QED BY <1>5, <2>1, <2>2, <2>3 DEF CallStep
<1>6. ASSUME NEW c \in Calls, BodyStep(c) PROVE ResumeInv'
  <2>0. UNCHANGED pin
    BY <1>6 DEF BodyStep, CheckLive, CheckLicense, CheckUsage, CheckConnector,
                SendDownstream, RecordDispatched, hvars
  <2>1. ASSUME NEW o \in ResumeOutcomes \ {"none", "static_fallback", "dispatched"},
               exec[c] \in BeforeSend, Refuse(c, o), UNCHANGED sends
        PROVE  ResumeInv'
    <3>1. /\ exec' = [exec EXCEPT ![c] = "done"]
          /\ resume' = [resume EXCEPT ![c] = o] \/ UNCHANGED resume
      BY <2>1 DEF Refuse, RecordResume, BodyReturns, rowvars
    <3>2. sends[c] = 0
      BY <1>0, <2>1 DEF ExecInv
    <3> QED BY <1>0, <2>0, <2>1, <3>1, <3>2 DEF ResumeInv, BeforeSend, TypeOK
  <2>2. ASSUME NEW s \in {"license", "usage", "connector", "send"},
               exec[c] \in BeforeSend \ {"send"}, Proceed(c, s), UNCHANGED <<resume, sends>>
        PROVE  ResumeInv'
    BY <1>0, <2>0, <2>2 DEF Proceed, ResumeInv, BeforeSend, TypeOK
  <2>3. CASE CheckLive(c)
    BY <2>1, <2>2, <2>3 DEF CheckLive, BeforeSend, ResumeOutcomes, rowvars, wire
  <2>4. CASE CheckLicense(c)
    BY <2>1, <2>2, <2>4 DEF CheckLicense, BeforeSend, ResumeOutcomes, rowvars, wire
  <2>5. CASE CheckUsage(c)
    BY <2>1, <2>2, <2>5 DEF CheckUsage, BeforeSend, ResumeOutcomes, rowvars, wire
  <2>6. CASE CheckConnector(c)
    <3>0. exec[c] = "connector" /\ UNCHANGED sends
      BY <2>6 DEF CheckConnector, wire
    <3>1. CASE pin[c] = None /\ RecordResume(c, "static_fallback") /\ Proceed(c, "send")
      <4>1. /\ exec' = [exec EXCEPT ![c] = "send"]
            /\ resume' = [resume EXCEPT ![c] = "static_fallback"] \/ UNCHANGED resume
        BY <3>1 DEF Proceed, RecordResume, rowvars
      <4> QED BY <1>0, <2>0, <3>0, <3>1, <4>1 DEF ResumeInv, BeforeSend, TypeOK
    <3>2. CASE Refuse(c, "connector_deleted") \/ Refuse(c, "config_changed")
      BY <2>1, <3>0, <3>2 DEF BeforeSend, ResumeOutcomes
    <3>3. CASE Proceed(c, "send") /\ UNCHANGED rowvars
      BY <2>2, <3>0, <3>3 DEF BeforeSend, rowvars
    <3>4. CASE BodyReturns(c, FALSE) /\ UNCHANGED rowvars
      BY <1>2, <2>0, <3>0, <3>4 DEF BodyReturns, rowvars
    <3> QED BY <2>6, <3>1, <3>2, <3>3, <3>4 DEF CheckConnector
  <2>7. CASE SendDownstream(c)
    <3>1. /\ exec[c] = "send" /\ exec' = [exec EXCEPT ![c] = "sent"] /\ UNCHANGED resume
          /\ \A e \in Calls : e # c => sends'[e] = sends[e]
      BY <1>0, <2>7 DEF SendDownstream, TypeOK, db
    <3> QED BY <1>0, <2>0, <3>1 DEF ResumeInv, BeforeSend, TypeOK
  <2>8. CASE RecordDispatched(c)
    <3>1. /\ exec[c] = "sent" /\ exec' = [exec EXCEPT ![c] = "done"] /\ UNCHANGED sends
          /\ \/ pin[c] # None /\ resume' = [resume EXCEPT ![c] = "dispatched"]
             \/ UNCHANGED resume
      BY <2>8 DEF RecordDispatched, RecordResume, rowvars, wire
    <3> QED BY <1>0, <2>0, <3>1 DEF ResumeInv, BeforeSend, TypeOK
  <2> QED BY <1>6, <2>3, <2>4, <2>5, <2>6, <2>7, <2>8 DEF BodyStep
<1>7. ASSUME NEW c \in Calls, BodyPanics(c) PROVE ResumeInv'
  BY <1>2, <1>7 DEF BodyPanics, db, wire
<1>8. ASSUME NEW n \in Nodes, NEW c \in Calls, TakeNotification(n, c) PROVE ResumeInv'
  BY <1>1, <1>8 DEF TakeNotification, db, wire, hvars, entry
<1>9. ASSUME NEW n \in Nodes, ResolveStep(n) PROVE ResumeInv'
  <2>1. CASE ListenerOnce(n)
    <3>1. job[n] \in Calls
      BY <1>0, <2>1 DEF ListenerOnce, TypeOK
    <3> QED BY <1>3, <2>1, <3>1 DEF ListenerOnce, StartOnce, db, wire, hvars
  <2>2. CASE FetchDecision(n) \/ FetchFails(n) \/ ListenerOnceDone(n) \/ Send(n)
    BY <1>1, <2>2 DEF FetchDecision, FetchFails, ListenerOnceDone, Send, db, wire, hvars, entry
  <2> QED BY <1>9, <2>1, <2>2 DEF ResolveStep
<1>10. ASSUME NEW n \in Nodes, Disconnect(n) \/ Reconnect(n) PROVE ResumeInv'
  BY <1>1, <1>10 DEF Disconnect, Reconnect, db, wire, hvars, entry
<1>11. ASSUME NEW n \in Nodes, Crash(n) PROVE ResumeInv'
  <2>1. UNCHANGED <<resume, pin, sends>> /\ \A c \in Calls : exec'[c] \in {exec[c], "done"}
    BY <1>0, <1>11 DEF Crash, db, wire
  <2> QED BY <2>1 DEF ResumeInv, BeforeSend
<1>12. CASE ApiStep
  <2>1. ASSUME NEW c \in Calls, NEW u \in Users, NEW d \in Decided, Decide(c, u, d)
        PROVE  ResumeInv'
    BY <1>1, <2>1 DEF Decide, wire, hvars, entry
  <2>2. ASSUME NEW c \in Calls, Notify(c) \/ NotifyLost(c) PROVE ResumeInv'
    BY <1>1, <2>2 DEF Notify, NotifyLost, db, wire, hvars, entry
  <2>3. ASSUME NEW t \in Tools,
               DeleteTool(t) \/ \E g \in Configs : EditTool(t, g) \/ CreateTool(t, g)
        PROVE  ResumeInv'
    BY <1>1, <2>3 DEF DeleteTool, EditTool, CreateTool, rowvars, wire, hvars, entry
  <2>4. ASSUME NEW b \in BOOLEAN, SetLive(b) \/ SetLicensed(b) PROVE ResumeInv'
    BY <1>1, <2>4 DEF SetLive, SetLicensed, rowvars, wire, hvars, entry
  <2> QED BY <1>12, <2>1, <2>2, <2>3, <2>4 DEF ApiStep
<1>13. CASE UNCHANGED vars
  BY <1>1, <1>13 DEF vars
<1> QED BY <1>4, <1>5, <1>6, <1>7, <1>8, <1>9, <1>10, <1>11, <1>12, <1>13 DEF Next

\* Only the end of Dispatch writes a resolution row, of an outcome that is true.
LEMMA ResolutionStep ==
  Inv /\ Inv' /\ OutcomeInv /\ ResolutionTruthful /\ [Next]_vars => ResolutionTruthful'
<1> SUFFICES ASSUME Inv, Inv', OutcomeInv, ResolutionTruthful, [Next]_vars
             PROVE  ResolutionTruthful'
  OBVIOUS
<1>0. TypeOK /\ RowInv
  BY DEF Inv
<1>1. ASSUME UNCHANGED resolution PROVE ResolutionTruthful'
  BY <1>1, RowFinal DEF ResolutionTruthful, Terminal
<1>2. ASSUME NEW c \in Calls, Finish(c) PROVE ResolutionTruthful'
  <2>1. CASE UNCHANGED resolution
    BY <1>1, <2>1
  <2>2. CASE out[c].resolved /\ resolution' = [resolution EXCEPT ![c] = ResolutionEntry(out[c])]
    <3>0. UNCHANGED <<status, approvedBy, sends>> /\ out[c] \in Outcomes
      BY <1>0, <1>2 DEF Finish, rowvars, wire, TypeOK
    <3>1. /\ out[c].status = status[c] /\ out[c].by = approvedBy[c] /\ status[c] \in Terminal
          /\ out[c].status = "approved" /\ ~out[c].err => sends[c] = 1
      BY <2>2 DEF OutcomeInv, Confirmed
    <3>2. /\ resolution'[c] = ResolutionEntry(out[c])
          /\ \A e \in Calls : e # c => resolution'[e] = resolution[e]
      BY <1>0, <2>2 DEF TypeOK
    <3>3. resolution'[c].decision = "allowed" =>
              sends[c] = 1 /\ status[c] = "approved" /\ resolution'[c].by = approvedBy[c]
      BY <3>1, <3>2 DEF ResolutionEntry
    <3>4. resolution'[c].decision = "denied" /\ resolution'[c].by # None =>
              status[c] = "denied" /\ resolution'[c].by = approvedBy[c]
      BY <1>0, <3>1, <3>2 DEF ResolutionEntry, RowInv, Terminal
    <3> QED BY <3>0, <3>2, <3>3, <3>4 DEF ResolutionTruthful
  <2> QED BY <1>2, <2>1, <2>2 DEF Finish
<1>3. ASSUME NEW c \in Calls, NEW n \in Nodes, Escalate(c, n) PROVE UNCHANGED resolution
  BY <1>3 DEF Escalate
<1>4. ASSUME NEW c \in Calls, CallStep(c) PROVE UNCHANGED resolution \/ Finish(c)
  BY <1>4 DEF CallStep, Submit, SubmitFails, Register, Receive, TimerFires, NothingArrived,
              ExpireRow, AlreadyDecided, TimeoutDbFails, Reread, HoldOnce, HoldOnceDone, db
<1>5. ASSUME NEW c \in Calls, BodyStep(c) \/ BodyPanics(c) PROVE UNCHANGED resolution
  BY <1>5 DEF BodyStep, CheckLive, CheckLicense, CheckUsage, CheckConnector,
              SendDownstream, RecordDispatched, BodyPanics, db
<1>6. ASSUME NEW n \in Nodes, \/ \E c \in Calls : TakeNotification(n, c)
                              \/ ResolveStep(n) \/ Disconnect(n) \/ Reconnect(n) \/ Crash(n)
      PROVE  UNCHANGED resolution
  BY <1>6 DEF TakeNotification, ResolveStep, FetchDecision, FetchFails, ListenerOnce,
              ListenerOnceDone, Send, Disconnect, Reconnect, Crash, db
<1>7. CASE ApiStep
  <2>1. UNCHANGED resolution
    BY <1>7 DEF ApiStep, Decide, Notify, NotifyLost, DeleteTool, EditTool, CreateTool,
                SetLive, SetLicensed, db
  <2> QED BY <1>1, <2>1
<1>8. CASE UNCHANGED vars
  BY <1>1, <1>8 DEF vars
<1> QED BY <1>1, <1>2, <1>3, <1>4, <1>5, <1>6, <1>7, <1>8 DEF Next

\* The approval row, the audit trail and the answer to the caller tell what
\* happened to the call, for any number of calls, gateways and faults: "allowed"
\* is a call that was sent and approved by the person named, a refusal on
\* record is one that sent nothing, a confirmed outcome agrees with the row.
THEOREM RecordsAreTruthful == Spec => []RecordsTruthful
<1>1. Init => RecordsInv
  <2> SUFFICES ASSUME Init PROVE RecordsInv
    OBVIOUS
  <2>1. Inv
    BY InvInit
  <2>2. OutcomeInv
    BY DEF Init, OutcomeInv, Confirmed, ZeroOutcome
  <2>3. ResumeInv /\ ResolutionTruthful
    BY DEF Init, ResumeInv, ResolutionTruthful
  <2> QED BY <2>1, <2>2, <2>3 DEF RecordsInv
<1>2. RecordsInv /\ [Next]_vars => RecordsInv'
  <2>1. Inv /\ [Next]_vars => Inv'
    BY TypeStep, InvStep DEF Inv
  <2> QED BY <2>1, OutcomeStep, ResumeStep, ResolutionStep DEF RecordsInv
<1>3. RecordsInv => RecordsTruthful
  <2> SUFFICES ASSUME RecordsInv PROVE RecordsTruthful
    OBVIOUS
  <2>1. ResumeOutcomeTruthful
    BY DEF RecordsInv, ResumeInv, ResumeOutcomeTruthful
  <2>2. OutcomeMatchesRow
    BY DEF RecordsInv, OutcomeInv, Confirmed, OutcomeMatchesRow
  <2> QED BY <2>1, <2>2 DEF RecordsInv, RecordsTruthful
<1> QED BY <1>1, <1>2, <1>3, PTL DEF Spec

=============================================================================
