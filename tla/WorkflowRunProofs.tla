------------------------- MODULE WorkflowRunProofs -------------------------
(***************************************************************************)
(* Proofs about WorkflowRun, for any connectors, workflows and runs, and   *)
(* any number of edits and faults.                                         *)
(***************************************************************************)
EXTENDS WorkflowRun, SequenceTheorems, FiniteSetTheorems, WellFoundedInduction, TLAPS

-----------------------------------------------------------------------------
(* Runs in memory.                                                         *)

LEMMA MemoryFields ==
    ASSUME NEW x \in InMemory
    PROVE  /\ x.at \in Waiting \cup Working \cup Over /\ x.def \in Seq(Step)
           /\ x.done \in Seq(Outcomes) /\ x.name \in Names \cup {"none"}
           /\ x.began \in Row \cup {NoRow} /\ x.tool \in Row \cup {NoRow}
           /\ x.value \in {<<>>} \cup (Runs \X (0..MaxSteps)) /\ x.out \in Outcomes \cup {"none"}
           /\ x.ep \in {"none", "success", "failure"}
           /\ Len(x.def) \in Nat /\ DOMAIN x.def = 1..Len(x.def)
           /\ Len(x.done) \in Nat /\ DOMAIN x.done = 1..Len(x.done)
BY DEF InMemory

\* One field of it is set.
LEMMA SetAt ==
    ASSUME NEW x \in InMemory, NEW a \in Waiting \cup Working \cup Over
    PROVE  [x EXCEPT !.at = a] \in InMemory
BY DEF InMemory

LEMMA SetDef ==
    ASSUME NEW x \in InMemory, NEW a \in Seq(Step)
    PROVE  [x EXCEPT !.def = a] \in InMemory
BY DEF InMemory

LEMMA SetName ==
    ASSUME NEW x \in InMemory, NEW a \in Names \cup {"none"}
    PROVE  [x EXCEPT !.name = a] \in InMemory
BY DEF InMemory

LEMMA SetBegan ==
    ASSUME NEW x \in InMemory, NEW a \in Row \cup {NoRow}
    PROVE  [x EXCEPT !.began = a] \in InMemory
BY DEF InMemory

LEMMA SetTool ==
    ASSUME NEW x \in InMemory, NEW a \in Row \cup {NoRow}
    PROVE  [x EXCEPT !.tool = a] \in InMemory
BY DEF InMemory

LEMMA SetValue ==
    ASSUME NEW x \in InMemory, NEW a \in {<<>>} \cup (Runs \X (0..MaxSteps))
    PROVE  [x EXCEPT !.value = a] \in InMemory
BY DEF InMemory

LEMMA SetOut ==
    ASSUME NEW x \in InMemory, NEW a \in Outcomes \cup {"none"}
    PROVE  [x EXCEPT !.out = a] \in InMemory
BY DEF InMemory

LEMMA SetEp ==
    ASSUME NEW x \in InMemory, NEW a \in {"none", "success", "failure"}
    PROVE  [x EXCEPT !.ep = a] \in InMemory
BY DEF InMemory

LEMMA RunMemory ==
    ASSUME TypeOK, NEW r \in Runs PROVE run[r] \in InMemory /\ DOMAIN run[r].def \subseteq Positions
BY DEF TypeOK

LEMMA RunSet ==
    ASSUME TypeOK, NEW r \in Runs, NEW d, run' = [run EXCEPT ![r] = d]
    PROVE  /\ run'[r] = d /\ \A q \in Runs : q # r => run'[q] = run[q]
           /\ d \in InMemory /\ DOMAIN d.def \subseteq Positions =>
                run' \in [Runs -> InMemory] /\ \A q \in Runs : DOMAIN run'[q].def \subseteq Positions
<1>1. run'[r] = d /\ \A q \in Runs : q # r => run'[q] = run[q]
  BY DEF TypeOK
<1>2. d \in InMemory => run' \in [Runs -> InMemory]
  BY DEF TypeOK
<1> QED BY <1>1, <1>2 DEF TypeOK

LEMMA PositionsNat == Positions \subseteq Nat \ {0}
<1>1. ASSUME NEW d \in Definitions PROVE DOMAIN d \subseteq Nat \ {0}
  <2>1. d \in Seq(Step)
    BY WorkflowRunAssumption
  <2> QED BY <2>1
<1> QED BY <1>1 DEF Positions

\* The current step of a run that is at work.
LEMMA CurrentStep ==
    ASSUME TypeOK, NEW r \in Runs, NEW m \in InMemory, LoopInv(r, m), m.at \in Working,
           DOMAIN m.def \subseteq Positions
    PROVE  /\ At(m) \in DOMAIN m.def /\ At(m) \in Positions /\ At(m) \in Nat \ {0}
           /\ At(m) = Len(m.done) + 1 /\ Len(m.done) \in Nat
           /\ Now(m) \in Step /\ Now(m).id \in 1..MaxSteps /\ Now(m).from \in 0..MaxSteps
           /\ Now(m).tool \in Tools \cup {"none"}
<1>1. /\ m.def \in Seq(Step) /\ Len(m.done) \in Nat /\ Len(m.def) \in Nat
      /\ DOMAIN m.def = 1..Len(m.def)
  BY MemoryFields
<1>2. At(m) = Len(m.done) + 1 /\ Len(m.done) < Len(m.def)
  BY DEF At, LoopInv
<1>3. At(m) \in DOMAIN m.def /\ At(m) \in Nat \ {0}
  BY <1>1, <1>2
<1>4. Now(m) \in Step
  BY <1>1, <1>3 DEF Now
<1>5. Now(m).id \in 1..MaxSteps /\ Now(m).from \in 0..MaxSteps /\ Now(m).tool \in Tools \cup {"none"}
  BY <1>4 DEF Step
<1> QED BY <1>1, <1>2, <1>3, <1>4, <1>5

\* A row of the audit log, and nothing else there.
LEMMA AuditSet ==
    ASSUME TypeOK, NEW r \in Runs, NEW k \in Positions, NEW x \in Decisions,
           audit' = [audit EXCEPT ![r][k] = Append(audit[r][k], x)]
    PROVE  /\ audit' \in [Runs -> [Positions -> Seq(Decisions)]]
           /\ \A q \in Runs : q # r => audit'[q] = audit[q]
           /\ \A j \in Positions : j # k => audit'[r][j] = audit[r][j]
           /\ Written(r, k)' = Written(r, k) \cup {x}
<1>1. audit \in [Runs -> [Positions -> Seq(Decisions)]]
  BY DEF TypeOK
<1>2. PICK s \in Seq(Decisions) : s = audit[r][k]
  BY <1>1
<1>3. Append(s, x) \in Seq(Decisions)
  BY AppendProperties
<1>4. PICK w : w = Append(s, x)
  OBVIOUS
<1>5. audit' = [audit EXCEPT ![r] = [audit[r] EXCEPT ![k] = w]]
  BY <1>2, <1>4
<1>6. /\ audit' \in [Runs -> [Positions -> Seq(Decisions)]]
      /\ \A q \in Runs : q # r => audit'[q] = audit[q]
      /\ \A j \in Positions : j # k => audit'[r][j] = audit[r][j]
      /\ audit'[r][k] = w
  BY <1>1, <1>3, <1>4, <1>5
<1>7. {w[j] : j \in DOMAIN w} = {s[j] : j \in DOMAIN s} \cup {x}
  <2>1. /\ Len(s) \in Nat /\ DOMAIN s = 1..Len(s) /\ DOMAIN w = 1..(Len(s) + 1)
        /\ \A j \in 1..Len(s) : w[j] = s[j] /\ w[Len(s) + 1] = x
    BY <1>4
  <2>2. w[Len(s) + 1] = x
    BY <1>4
  <2>3. \A j \in DOMAIN w : j \in DOMAIN s \/ j = Len(s) + 1
    BY <2>1
  <2>4. DOMAIN s \subseteq DOMAIN w /\ Len(s) + 1 \in DOMAIN w
    BY <2>1
  <2> QED BY <2>1, <2>2, <2>3, <2>4
<1> QED BY <1>2, <1>6, <1>7 DEF Written

-----------------------------------------------------------------------------
(* One run, r, whose memory is m before a step and d after it.             *)

\* The calls of run r before and after a step are the same.
SameCalls(r) == \A c : c.run = r => (c \in calls <=> c \in calls')

LEMMA SameAnswers ==
    ASSUME NEW r \in Runs, SameCalls(r)
    PROVE  /\ \A k : Answered(r, k)' <=> Answered(r, k)
           /\ \A k, i : AnsweredAs(r, k, i)' <=> AnsweredAs(r, k, i)
BY DEF Answered, AnsweredAs, SameCalls

\* Nothing of run r changes but what is known to be lost.
LEMMA RunKept ==
    ASSUME NEW r \in Runs, NEW m, RunInv(r, m), status'[r] = status[r],
           audit'[r] = audit[r], usage'[r] = usage[r], episodes'[r] = episodes[r],
           SameCalls(r), lost \subseteq lost'
    PROVE  RunInv(r, m)'
<1>1. LoopInv(r, m)'
  BY DEF RunInv, LoopInv
<1>2. CallsInv(r, m)'
  BY SameAnswers DEF RunInv, CallsInv, SameCalls
<1>3. ExtractInv(r, m)'
  BY SameAnswers DEF RunInv, ExtractInv
<1>4. RecordInv(r, m)'
  <2>1. \A k : Written(r, k)' = Written(r, k)
    BY DEF Written
  <2>2. \A k : AllTell(r, k) => AllTell(r, k)'
    BY <2>1 DEF AllTell
  <2> QED BY <2>1, <2>2, SameAnswers DEF RunInv, RecordInv
<1> QED BY <1>1, <1>2, <1>3, <1>4 DEF RunInv

\* A run goes on with its step, without a call or an answer: at most a row
\* that says "denied" or "escalated" is written, the first only when the
\* dispatch is over.
Proceeds(r, m, d) ==
    /\ d.def = m.def /\ d.done = m.done
    /\ m.at \in Working \ {"hooks", "record"} /\ d.at \in Working \ {"answer"}
    /\ m.at = "answer" => d.at = "hooks"
    /\ d.at \in {"hooks", "record"} => d.out \in {"denied", "blocked"}
    /\ d.at = "hooks" => d.ep # "success"
    /\ d.at \notin {"hooks", "record"} => d.ep = "none"
    /\ UNCHANGED <<status, usage, episodes, calls>> /\ lost \subseteq lost'
    /\ \/ UNCHANGED audit
       \/ \E x \in {"denied", "escalated"} :
            /\ audit' = [audit EXCEPT ![r][At(m)] = Append(audit[r][At(m)], x)]
            /\ x = "denied" => d.at = "hooks"

LEMMA ProceedsKept ==
    ASSUME TypeOK, NEW r \in Runs, NEW m \in InMemory, NEW d \in InMemory, RunInv(r, m),
           DOMAIN m.def \subseteq Positions, Proceeds(r, m, d), ExtractInv(r, d)
    PROVE  RunInv(r, d)'
<1>0. /\ At(m) \in Positions /\ At(m) \in Nat \ {0} /\ At(d) = At(m) /\ Now(d) = Now(m)
      /\ At(m) = Len(m.done) + 1 /\ Len(m.done) \in Nat
  BY CurrentStep DEF RunInv, Proceeds, At, Now
<1>c. SameCalls(r)
  BY DEF Proceeds, SameCalls
<1>1. LoopInv(r, d)'
  BY DEF RunInv, LoopInv, Proceeds, Working, Waiting, Over, Dispatching
<1>2. CallsInv(r, d)'
  <2>1. \A c \in calls : c.run = r =>
          c.step <= Len(m.done) \/ (c.step = At(m) /\ m.at = "answer")
    BY DEF RunInv, CallsInv, Proceeds, Working, Dispatching
  <2>2. ~Answered(r, At(m))
    <3>1. CASE m.at = "answer"
      BY <3>1 DEF RunInv, CallsInv
    <3>2. CASE m.at # "answer"
      <4>1. ~(At(m) <= Len(m.done))
        BY <1>0
      <4> QED BY <2>1, <3>2, <4>1 DEF Answered
    <3> QED BY <3>1, <3>2
  <2>3. \A c \in calls' : c.run = r =>
          c.step <= Len(d.done) \/ (c.step = At(d) /\ d.at \in {"answer", "hooks", "record"})
    BY <1>0, <2>1 DEF Proceeds
  <2>4. \A k \in DOMAIN d.done :
         /\ d.done[k] = "allowed" => AnsweredAs(r, k, d.def[k].id)
         /\ Answered(r, k) => d.done[k] = "allowed"
    BY DEF RunInv, CallsInv, Proceeds
  <2>5. \A c \in calls' : c.run = r => \A k \in 1..(c.step - 1) : Answered(r, k)
    BY DEF RunInv, CallsInv, Proceeds
  <2>6. /\ d.at # "answer"
        /\ d.at \in {"hooks", "record"} => d.out # "allowed"
    BY DEF Proceeds
  <2> QED BY <1>0, <1>c, <2>2, <2>3, <2>4, <2>5, <2>6, SameAnswers DEF CallsInv
<1>3. ExtractInv(r, d)'
  BY <1>c, SameAnswers DEF ExtractInv
<1>4. RecordInv(r, d)'
  <2>1. /\ \A k \in Positions : k # At(m) => Written(r, k)' = Written(r, k)
        /\ \/ Written(r, At(m))' = Written(r, At(m))
           \/ Written(r, At(m))' = Written(r, At(m)) \cup {"escalated"}
           \/ d.at = "hooks" /\ Written(r, At(m))' = Written(r, At(m)) \cup {"denied"}
    <3>1. CASE UNCHANGED audit
      BY <3>1 DEF Written
    <3>2. ASSUME NEW x \in {"denied", "escalated"},
                 audit' = [audit EXCEPT ![r][At(m)] = Append(audit[r][At(m)], x)],
                 x = "denied" => d.at = "hooks"
          PROVE  <2>1!1 /\ <2>1!2
      <4>1. x \in Decisions
        BY DEF Decisions
      <4>2. /\ \A j \in Positions : j # At(m) => audit'[r][j] = audit[r][j]
            /\ Written(r, At(m))' = Written(r, At(m)) \cup {x}
        <5>1. PICK n \in Positions : n = At(m)
          BY <1>0
        <5>2. audit' = [audit EXCEPT ![r][n] = Append(audit[r][n], x)]
          BY <3>2, <5>1
        <5>3. /\ \A j \in Positions : j # n => audit'[r][j] = audit[r][j]
              /\ Written(r, n)' = Written(r, n) \cup {x}
          BY <4>1, <5>2, AuditSet
        <5> QED BY <5>1, <5>3 DEF At
      <4>3. \A k \in Positions : k # At(m) => Written(r, k)' = Written(r, k)
        BY <4>2 DEF Written
      <4> QED BY <3>2, <4>2, <4>3
    <3> QED BY <3>1, <3>2 DEF Proceeds
  <2>2. \A k \in Positions : k \in DOMAIN m.done => k # At(m)
    BY <1>0, MemoryFields
  <2>3. \A k \in Positions : k # At(m) /\ AllTell(r, k) => AllTell(r, k)'
    BY <2>1 DEF AllTell, Proceeds
  <2>4. \A k \in Positions : "allowed" \in Written(r, k)' => "allowed" \in Written(r, k)
    BY <2>1
  <2>5. ASSUME NEW k \in Positions
        PROVE  /\ "allowed" \in Written(r, k)' \/ usage'[r][k] > 0 \/ episodes'[r][k] = "success" => Answered(r, k)'
               /\ k \in DOMAIN d.done /\ d.done[k] = "allowed" => AllTell(r, k)'
               /\ d.at # "dead" /\ k > Len(d.done) /\ (k = At(d) => d.at \notin {"hooks", "record"}) =>
                     "denied" \notin Written(r, k)' /\ usage'[r][k] = 0
    <3>1. "allowed" \in Written(r, k)' \/ usage'[r][k] > 0 \/ episodes'[r][k] = "success" => Answered(r, k)'
      BY <1>c, <2>4, SameAnswers DEF RunInv, RecordInv, Proceeds
    <3>2. k \in DOMAIN d.done /\ d.done[k] = "allowed" => AllTell(r, k)'
      BY <2>2, <2>3 DEF RunInv, RecordInv, Proceeds
    <3>3. m.at \notin {"hooks", "record", "dead"}
      BY DEF Proceeds, Working, Dispatching
    <3>4. k > Len(d.done) => "denied" \notin Written(r, k) /\ usage[r][k] = 0
      BY <3>3 DEF RunInv, RecordInv, Proceeds
    <3>5. d.at # "dead" /\ k > Len(d.done) /\ (k = At(d) => d.at \notin {"hooks", "record"}) =>
                     "denied" \notin Written(r, k)' /\ usage'[r][k] = 0
      BY <1>0, <2>1, <3>4 DEF Proceeds
    <3> QED BY <3>1, <3>2, <3>5
  <2>6. /\ d.at = "hooks" => d.out # "allowed" /\ d.ep # "success"
        /\ d.at = "record" => d.out # "allowed"
        /\ d.at \notin {"hooks", "record"} => d.ep = "none"
    BY DEF Proceeds
  <2> QED BY <2>5, <2>6 DEF RecordInv
<1> QED BY <1>1, <1>2, <1>3, <1>4 DEF RunInv

\* What the calls of run r are after the answer of its step n.
SameCall(c, e) ==
    /\ c.run = e.run /\ c.step = e.step /\ c.id = e.id /\ c.from = e.from /\ c.value = e.value
    /\ (c.masked <=> e.masked) /\ (c.governed <=> e.governed)

LEMMA CallAnswered ==
    ASSUME NEW c \in Sent
    PROVE  LET e == [c EXCEPT !.answered = TRUE]
           IN  e \in Sent /\ SameCall(c, e) /\ e.answered
<1>1. ASSUME NEW b \in BOOLEAN, b
      PROVE  LET e == [c EXCEPT !.answered = b]
             IN  e \in Sent /\ SameCall(c, e) /\ e.answered
  BY <1>1, Zenon DEF Sent, SameCall
<1> QED BY <1>1, Zenon

LEMMA AnswerCalls ==
    ASSUME TypeOK, NEW r \in Runs, NEW n \in Positions,
           calls' = {IF c.run = r /\ c.step = n THEN [c EXCEPT !.answered = TRUE] ELSE c : c \in calls}
    PROVE  /\ calls' \subseteq Sent
           /\ \A c \in calls : \E e \in calls' :
                SameCall(c, e) /\ (c.answered \/ (c.run = r /\ c.step = n) => e.answered)
           /\ \A e \in calls' : \E c \in calls :
                SameCall(c, e) /\ (e.answered => c.answered \/ (c.run = r /\ c.step = n))
           /\ \A q \in Runs : q # r => SameCalls(q)
<1> DEFINE f(c) == IF c.run = r /\ c.step = n THEN [c EXCEPT !.answered = TRUE] ELSE c
<1>1. ASSUME NEW c \in calls
      PROVE  /\ f(c) \in Sent /\ SameCall(c, f(c))
             /\ c.answered \/ (c.run = r /\ c.step = n) => f(c).answered
             /\ f(c).answered => c.answered \/ (c.run = r /\ c.step = n)
             /\ c.run # r => f(c) = c
  <2>1. c \in Sent
    BY DEF TypeOK
  <2>2. CASE c.run = r /\ c.step = n
    <3>1. f(c) = [c EXCEPT !.answered = TRUE]
      BY <2>2
    <3> HIDE DEF f
    <3>2. f(c) \in Sent /\ SameCall(c, f(c)) /\ f(c).answered
      BY <2>1, <3>1, CallAnswered, Zenon
    <3> QED BY <2>2, <3>2
  <2>3. CASE ~(c.run = r /\ c.step = n)
    <3>1. f(c) = c
      BY <2>3
    <3>2. SameCall(c, c)
      BY DEF SameCall
    <3> HIDE DEF f
    <3> QED BY <2>1, <2>3, <3>1, <3>2
  <2> QED BY <2>2, <2>3
<1>2. calls' = {f(c) : c \in calls}
  OBVIOUS
<1> HIDE DEF f
<1>3. ASSUME NEW q \in Runs, q # r PROVE SameCalls(q)
  <2>1. ASSUME NEW e, e.run = q PROVE e \in calls <=> e \in calls'
    <3>1. e \in calls => e \in calls'
      BY <1>1, <1>2, <1>3, <2>1
    <3>2. ASSUME e \in calls' PROVE e \in calls
      <4>1. PICK c \in calls : e = f(c)
        BY <1>2, <3>2
      <4>2. c.run = e.run
        BY <1>1, <4>1 DEF SameCall
      <4> QED BY <1>1, <1>3, <2>1, <4>1, <4>2
    <3> QED BY <3>1, <3>2
  <2> QED BY <2>1 DEF SameCalls
<1> QED BY <1>1, <1>2, <1>3

\* The request leaves.
LEMMA SendKept ==
    ASSUME TypeOK, NEW r \in Runs, NEW m \in InMemory, NEW d \in InMemory, RunInv(r, m),
           DOMAIN m.def \subseteq Positions, m.at = "call", d.at = "answer",
           d.def = m.def, d.done = m.done, d.ep = m.ep,
           NEW c, c.run = r, c.step = At(m), c.id = Now(m).id, ~c.answered,
           calls' = calls \cup {c}, UNCHANGED <<status, audit, usage, episodes>>, lost \subseteq lost'
    PROVE  RunInv(r, d)'
<1>0. /\ At(m) \in Positions /\ At(m) \in Nat \ {0} /\ At(d) = At(m) /\ Now(d) = Now(m)
      /\ At(m) = Len(m.done) + 1 /\ Len(m.done) \in Nat /\ DOMAIN m.done = 1..Len(m.done)
  BY CurrentStep, MemoryFields DEF RunInv, At, Now, Working, Dispatching
<1>a. /\ \A k : Answered(r, k)' <=> Answered(r, k)
      /\ \A k, i : AnsweredAs(r, k, i)' <=> AnsweredAs(r, k, i)
  BY DEF Answered, AnsweredAs
<1>1. LoopInv(r, d)'
  BY DEF RunInv, LoopInv, Working, Waiting, Over, Dispatching
<1>2. CallsInv(r, d)'
  <2>1. \A e \in calls : e.run = r => e.step <= Len(m.done)
    BY DEF RunInv, CallsInv
  <2>2. \A k \in DOMAIN m.done :
         /\ m.done[k] = "allowed" /\ AnsweredAs(r, k, m.def[k].id) /\ Answered(r, k)
    BY DEF RunInv, CallsInv, LoopInv, Working, Dispatching, AnsweredAs, Answered
  <2>3. \A e \in calls' : e.run = r => e.step <= Len(d.done) \/ e.step = At(d)
    BY <1>0, <2>1
  <2>4. \E e \in calls' : e.run = r /\ e.step = At(d) /\ e.id = Now(d).id
    BY <1>0
  <2>5. ~Answered(r, At(d))
    <3>1. ~(At(m) <= Len(m.done))
      BY <1>0
    <3> QED BY <1>0, <2>1, <3>1 DEF Answered
  <2>6. ASSUME NEW e \in calls', e.run = r, NEW k \in 1..(e.step - 1) PROVE Answered(r, k)
    <3>1. CASE e \in calls
      BY <2>6, <3>1 DEF RunInv, CallsInv
    <3>2. CASE e = c
      <4>1. k \in DOMAIN m.done
        BY <1>0, <2>6, <3>2
      <4> QED BY <2>2, <4>1
    <3> QED BY <3>1, <3>2
  <2> QED BY <1>a, <2>2, <2>3, <2>4, <2>5, <2>6 DEF CallsInv
<1>3. ExtractInv(r, d)'
  BY DEF ExtractInv, Dispatching
<1>4. RecordInv(r, d)'
  <2>1. \A k : Written(r, k)' = Written(r, k)
    BY DEF Written
  <2>2. \A k : AllTell(r, k) => AllTell(r, k)'
    BY <2>1 DEF AllTell
  <2> QED BY <1>0, <1>a, <2>1, <2>2 DEF RunInv, RecordInv
<1> QED BY <1>1, <1>2, <1>3, <1>4 DEF RunInv

\* The downstream service answers, and the row of the call is written or lost.
LEMMA AnswerKept ==
    ASSUME TypeOK, NEW r \in Runs, NEW m \in InMemory, NEW d \in InMemory, RunInv(r, m),
           DOMAIN m.def \subseteq Positions, m.at = "answer", d.at = "hooks",
           d.def = m.def, d.done = m.done, d.out = "allowed", d.ep = "success",
           NEW n \in Positions, n = At(m),
           \A c \in calls : \E e \in calls' :
              /\ e.run = c.run /\ e.step = c.step /\ e.id = c.id
              /\ c.answered \/ (c.run = r /\ c.step = n) => e.answered,
           \A e \in calls' : \E c \in calls :
              /\ e.run = c.run /\ e.step = c.step /\ e.id = c.id
              /\ e.answered => c.answered \/ (c.run = r /\ c.step = n),
           UNCHANGED <<status, usage, episodes>>, lost \subseteq lost',
           \/ UNCHANGED audit /\ <<r, n>> \in lost'
           \/ audit' = [audit EXCEPT ![r][n] = Append(audit[r][n], "allowed")]
    PROVE  RunInv(r, d)'
<1>0. /\ n \in Positions /\ n \in Nat \ {0} /\ At(d) = n /\ Now(d) = Now(m)
      /\ n = Len(m.done) + 1 /\ Len(m.done) \in Nat /\ DOMAIN m.done = 1..Len(m.done)
  BY CurrentStep, MemoryFields DEF RunInv, At, Now, Working, Dispatching
<1>c. ASSUME NEW c \in calls
      PROVE  \E e \in calls' : /\ e.run = c.run /\ e.step = c.step /\ e.id = c.id
                               /\ c.answered \/ (c.run = r /\ c.step = n) => e.answered
  OBVIOUS
<1>e. ASSUME NEW e \in calls'
      PROVE  \E c \in calls : /\ e.run = c.run /\ e.step = c.step /\ e.id = c.id
                              /\ e.answered => c.answered \/ (c.run = r /\ c.step = n)
  OBVIOUS
<1>a. /\ \A k : Answered(r, k) => Answered(r, k)'
      /\ \A k, i : AnsweredAs(r, k, i) => AnsweredAs(r, k, i)'
      /\ \A k : Answered(r, k)' => Answered(r, k) \/ k = n
  <2>1. ASSUME NEW k, Answered(r, k) PROVE Answered(r, k)'
    BY <1>c, <2>1 DEF Answered
  <2>2. ASSUME NEW k, NEW i, AnsweredAs(r, k, i) PROVE AnsweredAs(r, k, i)'
    BY <1>c, <2>2 DEF AnsweredAs
  <2>3. ASSUME NEW k, Answered(r, k)' PROVE Answered(r, k) \/ k = n
    <3>1. PICK e \in calls' : e.run = r /\ e.step = k /\ e.answered
      BY <2>3 DEF Answered
    <3> QED BY <1>e, <3>1 DEF Answered
  <2> QED BY <2>1, <2>2, <2>3
<1>b. AnsweredAs(r, n, Now(m).id)' /\ Answered(r, n)'
  <2>1. PICK i : i = Now(m).id
    OBVIOUS
  <2>2. PICK c \in calls : c.run = r /\ c.step = n /\ c.id = i
    BY <2>1 DEF RunInv, CallsInv
  <2>3. AnsweredAs(r, n, i)' /\ Answered(r, n)'
    BY <1>c, <2>2 DEF AnsweredAs, Answered
  <2> QED BY <2>1, <2>3
<1>1. LoopInv(r, d)'
  BY DEF RunInv, LoopInv, Working, Waiting, Over, Dispatching
<1>2. CallsInv(r, d)'
  <2>1. \A e \in calls' : e.run = r => e.step <= Len(d.done) \/ e.step = At(d)
    <3>1. \A c \in calls : c.run = r => c.step <= Len(m.done) \/ c.step = n
      BY DEF RunInv, CallsInv
    <3> QED BY <1>0, <1>e, <3>1
  <2>2. \A k \in DOMAIN m.done : m.done[k] = "allowed" /\ AnsweredAs(r, k, m.def[k].id)
    BY DEF RunInv, CallsInv, LoopInv, Working, Dispatching
  <2>3. ASSUME NEW e \in calls', e.run = r, NEW k \in 1..(e.step - 1) PROVE Answered(r, k)'
    <3>1. \A c \in calls : c.run = r => \A j \in 1..(c.step - 1) : Answered(r, j)
      BY DEF RunInv, CallsInv
    <3> QED BY <1>a, <1>e, <2>3, <3>1
  <2> QED BY <1>0, <1>a, <1>b, <2>1, <2>2, <2>3 DEF CallsInv
<1>3. ExtractInv(r, d)'
  BY DEF ExtractInv, Dispatching
<1>4. RecordInv(r, d)'
  <2>1. /\ \A k \in Positions : k # n => Written(r, k)' = Written(r, k)
        /\ \/ Written(r, n)' = Written(r, n) /\ <<r, n>> \in lost'
           \/ Written(r, n)' = Written(r, n) \cup {"allowed"}
    <3>1. CASE UNCHANGED audit /\ <<r, n>> \in lost'
      BY <3>1 DEF Written
    <3>2. CASE audit' = [audit EXCEPT ![r][n] = Append(audit[r][n], "allowed")]
      <4>1. "allowed" \in Decisions
        BY DEF Decisions
      <4>2. PICK x \in Decisions : x = "allowed"
        BY <4>1
      <4>3. n \in Positions /\ audit' = [audit EXCEPT ![r][n] = Append(audit[r][n], x)]
        BY <1>0, <3>2, <4>2
      <4>4. /\ \A j \in Positions : j # n => audit'[r][j] = audit[r][j]
            /\ Written(r, n)' = Written(r, n) \cup {x}
        BY ONLY TypeOK, r \in Runs, x \in Decisions, <4>3, AuditSet
      <4>5. \A k \in Positions : k # n => Written(r, k)' = Written(r, k)
        BY <4>4 DEF Written
      <4> QED BY <4>2, <4>4, <4>5
    <3> QED BY <3>1, <3>2
  <2>2. \A k \in Positions : k \in DOMAIN m.done => k # n
    BY <1>0
  <2>3. \A k \in Positions : k # n /\ AllTell(r, k) => AllTell(r, k)'
    BY <2>1 DEF AllTell
  <2>4. "denied" \notin Written(r, n) /\ usage[r][n] = 0
    <3>1. n > Len(m.done)
      BY <1>0
    <3> QED BY <1>0, <3>1 DEF RunInv, RecordInv
  <2>5. ASSUME NEW k \in Positions, k # n
        PROVE  /\ "allowed" \in Written(r, k)' \/ usage'[r][k] > 0 \/ episodes'[r][k] = "success" => Answered(r, k)'
               /\ k \in DOMAIN d.done /\ d.done[k] = "allowed" => AllTell(r, k)'
               /\ k > Len(d.done) => "denied" \notin Written(r, k)' /\ usage'[r][k] = 0
    BY <1>a, <2>1, <2>3, <2>5 DEF RunInv, RecordInv
  <2> QED BY <1>0, <1>b, <2>1, <2>2, <2>4, <2>5 DEF RecordInv
<1> QED BY <1>1, <1>2, <1>3, <1>4 DEF RunInv

\* The hooks write, or fail to write, the usage and the episode of step n.
LEMMA HooksKept ==
    ASSUME TypeOK, NEW r \in Runs, NEW m \in InMemory, NEW d \in InMemory, RunInv(r, m),
           DOMAIN m.def \subseteq Positions, m.at = "hooks", d.at = "record",
           d.def = m.def, d.done = m.done, d.out = m.out, NEW n, n = At(m),
           UNCHANGED <<status, audit, calls>>, lost \subseteq lost',
           \A k \in Positions : k # n => usage'[r][k] = usage[r][k] /\ episodes'[r][k] = episodes[r][k],
           \/ usage'[r][n] = usage[r][n]
           \/ m.out = "allowed" /\ usage'[r][n] = usage[r][n] + 1,
           episodes'[r][n] = episodes[r][n] \/ episodes'[r][n] = m.ep,
           <<r, n>> \notin lost' =>
               /\ m.out = "allowed" => usage'[r][n] = usage[r][n] + 1
               /\ episodes'[r][n] = m.ep
    PROVE  RunInv(r, d)'
<1>0. /\ n \in Positions /\ n \in Nat \ {0} /\ At(d) = n /\ Now(d) = Now(m)
      /\ n = Len(m.done) + 1 /\ Len(m.done) \in Nat /\ DOMAIN m.done = 1..Len(m.done)
  BY CurrentStep, MemoryFields DEF RunInv, At, Now, Working, Dispatching
<1>c. SameCalls(r)
  BY DEF SameCalls
<1>a. m.out = "allowed" => Answered(r, n)
  BY DEF RunInv, CallsInv, AnsweredAs, Answered
<1>1. LoopInv(r, d)'
  BY DEF RunInv, LoopInv, Working, Waiting, Over, Dispatching
<1>2. CallsInv(r, d)'
  BY <1>0, <1>c, SameAnswers DEF RunInv, CallsInv
<1>3. ExtractInv(r, d)'
  BY DEF ExtractInv, Dispatching
<1>4. RecordInv(r, d)'
  <2>1. \A k : Written(r, k)' = Written(r, k)
    BY DEF Written
  <2>2. ASSUME NEW k \in Positions, k # n
        PROVE  /\ "allowed" \in Written(r, k)' \/ usage'[r][k] > 0 \/ episodes'[r][k] = "success" => Answered(r, k)'
               /\ k \in DOMAIN d.done /\ d.done[k] = "allowed" => AllTell(r, k)'
               /\ k > Len(d.done) => "denied" \notin Written(r, k)' /\ usage'[r][k] = 0
    <3>1. AllTell(r, k) => AllTell(r, k)'
      BY <2>1, <2>2 DEF AllTell
    <3> QED BY <1>0, <1>c, <2>1, <2>2, <3>1, SameAnswers DEF RunInv, RecordInv
  <2>3. /\ m.out = "allowed" =>
             /\ m.ep = "success" /\ usage[r][n] = 0
             /\ <<r, n>> \notin lost => "allowed" \in Written(r, n) /\ "denied" \notin Written(r, n)
        /\ m.ep = "success" => m.out = "allowed"
    BY DEF RunInv, RecordInv
  <2>4. "allowed" \in Written(r, n) \/ usage[r][n] > 0 \/ episodes[r][n] = "success" => Answered(r, n)
    BY <1>0 DEF RunInv, RecordInv
  <2>5. "allowed" \in Written(r, n)' \/ usage'[r][n] > 0 \/ episodes'[r][n] = "success" => Answered(r, n)'
    BY <1>a, <1>c, <2>1, <2>3, <2>4, SameAnswers
  <2>6. m.out = "allowed" => AllTell(r, n)'
    BY <2>1, <2>3 DEF AllTell
  <2>7. n \notin DOMAIN d.done
    BY <1>0
  <2> QED BY <1>0, <2>2, <2>5, <2>6, <2>7 DEF RecordInv
<1> QED BY <1>1, <1>2, <1>3, <1>4 DEF RunInv

\* The step is over, and the run goes on or not.
LEMMA UpdateKept ==
    ASSUME TypeOK, NEW r \in Runs, NEW m \in InMemory, NEW d \in InMemory, RunInv(r, m),
           DOMAIN m.def \subseteq Positions, m.at = "record", m.out \in Outcomes,
           d.at = IF m.out = "allowed" /\ At(m) < Len(m.def) THEN "step" ELSE "finish",
           d.def = m.def, d.done = Append(m.done, m.out), d.ep = "none",
           UNCHANGED <<status, audit, usage, episodes, calls>>, lost \subseteq lost'
    PROVE  RunInv(r, d)'
<1>n. PICK n : n = At(m)
  OBVIOUS
<1>0. /\ n \in DOMAIN m.def /\ n \in Positions /\ n \in Nat \ {0} /\ n = Len(m.done) + 1
      /\ Len(m.done) \in Nat /\ DOMAIN m.done = 1..Len(m.done)
      /\ Len(m.def) \in Nat /\ DOMAIN m.def = 1..Len(m.def)
  BY <1>n, CurrentStep, MemoryFields DEF RunInv, At, Now, Working, Dispatching
<1>d. /\ Len(d.done) = n /\ DOMAIN d.done = 1..n /\ d.done[n] = m.out
      /\ \A k \in DOMAIN m.done : d.done[k] = m.done[k]
      /\ \A k \in DOMAIN d.done : k \in DOMAIN m.done \/ k = n
  <2>1. m.done \in Seq(Outcomes)
    BY MemoryFields
  <2>2. PICK s \in Seq(Outcomes), o \in Outcomes : s = m.done /\ o = m.out
    BY <2>1
  <2>3. d.done = Append(s, o)
    BY <2>2
  <2>4. /\ Len(Append(s, o)) = Len(s) + 1 /\ Append(s, o) \in Seq(Outcomes)
        /\ \A i \in 1..Len(s) : Append(s, o)[i] = s[i]
        /\ Append(s, o)[Len(s) + 1] = o
    BY AppendProperties
  <2>5. DOMAIN d.done = 1..n /\ Len(d.done) = n
    BY <1>0, <2>2, <2>3, <2>4
  <2> QED BY <1>0, <2>2, <2>3, <2>4, <2>5
<1>a. \A k \in DOMAIN m.done : m.done[k] = "allowed"
  BY DEF RunInv, LoopInv, Working
<1>c. SameCalls(r)
  BY DEF SameCalls
<1>1. LoopInv(r, d)'
  <2>1. CASE m.out = "allowed" /\ n < Len(m.def)
    <3>1. d.at = "step"
      BY <1>n, <2>1
    <3>2. \A k \in DOMAIN d.done : d.done[k] = "allowed"
      BY <1>a, <1>d, <2>1
    <3>3. status[r] \notin {"completed", "denied", "failed"}
      BY DEF RunInv, LoopInv
    <3> QED BY <1>d, <2>1, <3>1, <3>2, <3>3 DEF LoopInv, Waiting, Over
  <2>2. CASE ~(m.out = "allowed" /\ n < Len(m.def))
    <3>1. d.at = "finish"
      BY <1>n, <2>2
    <3>2. \A k \in 1..(Len(d.done) - 1) : d.done[k] = "allowed"
      BY <1>0, <1>a, <1>d
    <3>3. status[r] \notin {"completed", "denied", "failed"}
      BY DEF RunInv, LoopInv
    <3>4. n \in 1..Len(d.def) /\ (m.out = "allowed" => n = Len(d.def))
      BY <1>0, <2>2
    <3> QED BY <1>d, <3>1, <3>2, <3>3, <3>4 DEF LoopInv, Waiting, Working, Dispatching
  <2> QED BY <2>1, <2>2
<1>p. d.at \notin {"hooks", "record", "answer", "dead"} /\ d.at \notin Dispatching
  BY DEF Dispatching
<1>2. CallsInv(r, d)'
  <2>1. \A c \in calls : c.run = r => c.step <= n
    <3>1. \A c \in calls : c.run = r => c.step <= Len(m.done) \/ c.step = n
      BY <1>n DEF RunInv, CallsInv
    <3>2. \A c \in calls : c.step \in Nat
      BY PositionsNat DEF TypeOK, Sent
    <3> QED BY <1>0, <3>1, <3>2
  <2>2. ASSUME NEW k \in DOMAIN d.done
        PROVE  /\ d.done[k] = "allowed" => AnsweredAs(r, k, d.def[k].id)
               /\ Answered(r, k) => d.done[k] = "allowed"
    <3>1. CASE k \in DOMAIN m.done
      BY <1>d, <3>1 DEF RunInv, CallsInv
    <3>2. CASE k = n
      BY <1>d, <1>n, <3>2 DEF RunInv, CallsInv, Now
    <3> QED BY <1>d, <3>1, <3>2
  <2>3. \A c \in calls : c.run = r => \A k \in 1..(c.step - 1) : Answered(r, k)
    BY DEF RunInv, CallsInv
  <2> QED BY <1>c, <1>d, <1>p, <2>1, <2>2, <2>3, SameAnswers DEF CallsInv
<1>3. ExtractInv(r, d)'
  BY <1>p DEF ExtractInv
<1>4. RecordInv(r, d)'
  <2>1. \A k : Written(r, k)' = Written(r, k)
    BY DEF Written
  <2>2. \A k : AllTell(r, k) => AllTell(r, k)'
    BY <2>1 DEF AllTell
  <2>3. m.out = "allowed" => AllTell(r, n)
    BY <1>n DEF RunInv, RecordInv
  <2>4. ASSUME NEW k \in Positions
        PROVE  /\ "allowed" \in Written(r, k)' \/ usage'[r][k] > 0 \/ episodes'[r][k] = "success" => Answered(r, k)'
               /\ k \in DOMAIN d.done /\ d.done[k] = "allowed" => AllTell(r, k)'
               /\ k > Len(d.done) => "denied" \notin Written(r, k)' /\ usage'[r][k] = 0
    <3>1. "allowed" \in Written(r, k)' \/ usage'[r][k] > 0 \/ episodes'[r][k] = "success" => Answered(r, k)'
      BY <1>c, <2>1, SameAnswers DEF RunInv, RecordInv
    <3>2. k \in DOMAIN d.done /\ d.done[k] = "allowed" => AllTell(r, k)'
      BY <1>d, <2>2, <2>3 DEF RunInv, RecordInv
    <3>3. k > n => k > Len(m.done) /\ k # n
      BY <1>0, PositionsNat
    <3>4. k > Len(d.done) => "denied" \notin Written(r, k)' /\ usage'[r][k] = 0
      BY <1>d, <1>n, <2>1, <3>3 DEF RunInv, RecordInv
    <3> QED BY <3>1, <3>2, <3>4
  <2> QED BY <1>p, <2>4 DEF RecordInv
<1> QED BY <1>1, <1>2, <1>3, <1>4 DEF RunInv

\* A run starts, or is refused.
LEMMA StartKept ==
    ASSUME TypeOK, NEW r \in Runs, NEW m \in InMemory, NEW d \in InMemory, RunInv(r, m),
           m.at = "idle", d.done = m.done, d.ep = m.ep,
           \/ d.at = "step" /\ d.def # <<>> /\ status'[r] = "running"
           \/ d.at = "refused" /\ d.def = m.def /\ status'[r] = status[r],
           UNCHANGED <<audit, usage, episodes, calls>>, lost \subseteq lost'
    PROVE  RunInv(r, d)'
<1>0. m.done = <<>> /\ m.def = <<>> /\ Len(m.done) = 0 /\ DOMAIN m.done = {}
  BY DEF RunInv, LoopInv, Waiting
<1>p. d.at \notin {"hooks", "record", "answer", "dead"} /\ d.at \notin Dispatching
  BY DEF Dispatching
<1>c. SameCalls(r)
  BY DEF SameCalls
<1>1. LoopInv(r, d)'
  <2>1. CASE d.at = "step"
    <3>1. Len(d.def) \in Nat /\ Len(d.def) # 0
      BY <2>1, MemoryFields, EmptySeq
    <3>2. status'[r] = "running"
      BY <2>1
    <3> QED BY <1>0, <1>p, <2>1, <3>1, <3>2 DEF LoopInv, Waiting, Over
  <2>2. CASE d.at = "refused"
    BY <1>0, <2>2 DEF RunInv, LoopInv, Waiting, Over, Working, Dispatching
  <2> QED BY <2>1, <2>2
<1>2. CallsInv(r, d)'
  BY <1>0, <1>c, <1>p, SameAnswers DEF RunInv, CallsInv
<1>3. ExtractInv(r, d)'
  BY <1>p DEF ExtractInv
<1>4. RecordInv(r, d)'
  <2>1. \A k : Written(r, k)' = Written(r, k)
    BY DEF Written
  <2> QED BY <1>0, <1>c, <1>p, <2>1, SameAnswers DEF RunInv, RecordInv
<1> QED BY <1>1, <1>2, <1>3, <1>4 DEF RunInv

\* A run ends, with its final status or, when the UPDATE fails, without.
LEMMA FinishKept ==
    ASSUME TypeOK, NEW r \in Runs, NEW m \in InMemory, NEW d \in InMemory, RunInv(r, m),
           m.at = "finish", d.def = m.def, d.done = m.done, d.ep = m.ep,
           \/ /\ d.at = "ended"
              /\ status'[r] = "completed" => m.done[Len(m.done)] = "allowed"
              /\ status'[r] \in {"denied", "failed"} => m.done[Len(m.done)] # "allowed"
           \/ d.at = "unrecorded" /\ status'[r] = status[r],
           UNCHANGED <<audit, usage, episodes, calls>>, lost \subseteq lost'
    PROVE  RunInv(r, d)'
<1>p. d.at \notin {"hooks", "record", "answer", "dead"} /\ d.at \notin Dispatching
  BY DEF Dispatching
<1>q. At(d) = At(m) /\ Now(d) = Now(m)
  BY DEF At, Now
<1>c. SameCalls(r)
  BY DEF SameCalls
<1>1. LoopInv(r, d)'
  BY <1>p DEF RunInv, LoopInv, Waiting, Over, Working, Dispatching
<1>2. CallsInv(r, d)'
  BY <1>c, <1>p, <1>q, SameAnswers DEF RunInv, CallsInv
<1>3. ExtractInv(r, d)'
  BY <1>p DEF ExtractInv
<1>4. RecordInv(r, d)'
  <2>1. \A k : Written(r, k)' = Written(r, k)
    BY DEF Written
  <2>2. \A k : AllTell(r, k) => AllTell(r, k)'
    BY <2>1 DEF AllTell
  <2> QED BY <1>c, <1>p, <1>q, <2>1, <2>2, SameAnswers DEF RunInv, RecordInv
<1> QED BY <1>1, <1>2, <1>3, <1>4 DEF RunInv

\* The gateway crashes: what is on record of the run stays true.
LEMMA CrashKept ==
    ASSUME TypeOK, NEW r \in Runs, NEW m \in InMemory, NEW d \in InMemory, RunInv(r, m),
           m.at # "ended", d.at = "dead", d.def = <<>>, d.done = <<>>, d.ep = "none",
           UNCHANGED <<status, audit, usage, episodes, calls, lost>>
    PROVE  RunInv(r, d)'
<1>0. DOMAIN d.done = {} /\ d.at \notin Dispatching
  BY DEF Dispatching
<1>c. SameCalls(r)
  BY DEF SameCalls
<1>1. LoopInv(r, d)'
  BY DEF RunInv, LoopInv, Waiting, Over, Working, Dispatching
<1>2. CallsInv(r, d)'
  BY <1>0, <1>c, SameAnswers DEF RunInv, CallsInv
<1>3. ExtractInv(r, d)'
  BY <1>0 DEF ExtractInv
<1>4. RecordInv(r, d)'
  <2>1. \A k : Written(r, k)' = Written(r, k)
    BY DEF Written
  <2> QED BY <1>0, <1>c, <2>1, SameAnswers DEF RunInv, RecordInv
<1> QED BY <1>1, <1>2, <1>3, <1>4 DEF RunInv

-----------------------------------------------------------------------------
(* What the steps of the executor do to the memory of their run.           *)

\* The run moves on.
SetsAt(r, a) == run' = [run EXCEPT ![r].at = a]
LEMMA ToFacts ==
    ASSUME TypeOK, NEW r \in Runs, NEW m, m = run[r],
           NEW a \in Waiting \cup Working \cup Over,
           SetsAt(r, a)
    PROVE  \E d \in InMemory :
             /\ run' = [run EXCEPT ![r] = d]
             /\ d.at = a /\ d.def = m.def /\ d.done = m.done /\ d.name = m.name /\ d.began = m.began
             /\ d.tool = m.tool /\ d.value = m.value /\ d.out = m.out /\ d.ep = m.ep
<1>1. PICK x \in InMemory : x = m
  BY RunMemory
<1>2. PICK d : d = [x EXCEPT !.at = a]
  OBVIOUS
<1>3. run' = [run EXCEPT ![r] = d]
  BY <1>1, <1>2 DEF TypeOK, SetsAt
<1>4. d \in InMemory
  BY <1>2, SetAt
<1>5. /\ d.at = a /\ d.def = x.def /\ d.done = x.done /\ d.name = x.name /\ d.began = x.began
      /\ d.tool = x.tool /\ d.value = x.value /\ d.out = x.out /\ d.ep = x.ep
  BY <1>2 DEF InMemory
<1> QED BY <1>1, <1>3, <1>4, <1>5

\* A step is over with an outcome.
SetsOut(r, a, o) == run' = [run EXCEPT ![r].at = a, ![r].out = o]
LEMMA OutFacts ==
    ASSUME TypeOK, NEW r \in Runs, NEW m, m = run[r],
           NEW a \in Waiting \cup Working \cup Over, NEW o \in Outcomes,
           SetsOut(r, a, o)
    PROVE  \E d \in InMemory :
             /\ run' = [run EXCEPT ![r] = d]
             /\ d.at = a /\ d.def = m.def /\ d.done = m.done /\ d.name = m.name /\ d.began = m.began
             /\ d.tool = m.tool /\ d.value = m.value /\ d.out = o /\ d.ep = m.ep
<1>1. PICK x \in InMemory : x = m
  BY RunMemory
<1>2. PICK d : d = [x EXCEPT !.at = a, !.out = o]
  OBVIOUS
<1>3. run' = [run EXCEPT ![r] = d]
  BY <1>1, <1>2 DEF TypeOK, SetsOut
<1>4. d \in InMemory
  BY <1>2, SetAt, SetOut
<1>5. /\ d.at = a /\ d.def = x.def /\ d.done = x.done /\ d.name = x.name /\ d.began = x.began
      /\ d.tool = x.tool /\ d.value = x.value /\ d.out = o /\ d.ep = x.ep
  BY <1>2 DEF InMemory
<1> QED BY <1>1, <1>3, <1>4, <1>5

\* A dispatch is over with an outcome.
SetsEnd(r, a, o, e) == run' = [run EXCEPT ![r].at = a, ![r].out = o, ![r].ep = e]
LEMMA EndFacts ==
    ASSUME TypeOK, NEW r \in Runs, NEW m, m = run[r],
           NEW a \in Waiting \cup Working \cup Over, NEW o \in Outcomes, NEW e \in {"none", "success", "failure"},
           SetsEnd(r, a, o, e)
    PROVE  \E d \in InMemory :
             /\ run' = [run EXCEPT ![r] = d]
             /\ d.at = a /\ d.def = m.def /\ d.done = m.done /\ d.name = m.name /\ d.began = m.began
             /\ d.tool = m.tool /\ d.value = m.value /\ d.out = o /\ d.ep = e
<1>1. PICK x \in InMemory : x = m
  BY RunMemory
<1>2. PICK d : d = [x EXCEPT !.at = a, !.out = o, !.ep = e]
  OBVIOUS
<1>3. run' = [run EXCEPT ![r] = d]
  BY <1>1, <1>2 DEF TypeOK, SetsEnd
<1>4. d \in InMemory
  BY <1>2, SetAt, SetOut, SetEp
<1>5. /\ d.at = a /\ d.def = x.def /\ d.done = x.done /\ d.name = x.name /\ d.began = x.began
      /\ d.tool = x.tool /\ d.value = x.value /\ d.out = o /\ d.ep = e
  BY <1>2 DEF InMemory
<1> QED BY <1>1, <1>3, <1>4, <1>5

\* The connector of a step is found.
SetsName(r, a, n) == run' = [run EXCEPT ![r].at = a, ![r].name = n]
LEMMA NameFacts ==
    ASSUME TypeOK, NEW r \in Runs, NEW m, m = run[r],
           NEW a \in Waiting \cup Working \cup Over, NEW n \in Names,
           SetsName(r, a, n)
    PROVE  \E d \in InMemory :
             /\ run' = [run EXCEPT ![r] = d]
             /\ d.at = a /\ d.def = m.def /\ d.done = m.done /\ d.name = n /\ d.began = m.began
             /\ d.tool = m.tool /\ d.value = m.value /\ d.out = m.out /\ d.ep = m.ep
<1>1. PICK x \in InMemory : x = m
  BY RunMemory
<1>2. PICK d : d = [x EXCEPT !.at = a, !.name = n]
  OBVIOUS
<1>3. run' = [run EXCEPT ![r] = d]
  BY <1>1, <1>2 DEF TypeOK, SetsName
<1>4. d \in InMemory
  BY <1>2, SetAt, SetName
<1>5. /\ d.at = a /\ d.def = x.def /\ d.done = x.done /\ d.name = n /\ d.began = x.began
      /\ d.tool = x.tool /\ d.value = x.value /\ d.out = x.out /\ d.ep = x.ep
  BY <1>2 DEF InMemory
<1> QED BY <1>1, <1>3, <1>4, <1>5

\* A value is extracted.
SetsValue(r, a, v) == run' = [run EXCEPT ![r].at = a, ![r].value = v]
LEMMA ValueFacts ==
    ASSUME TypeOK, NEW r \in Runs, NEW m, m = run[r],
           NEW a \in Waiting \cup Working \cup Over, NEW v \in Runs \X (0..MaxSteps),
           SetsValue(r, a, v)
    PROVE  \E d \in InMemory :
             /\ run' = [run EXCEPT ![r] = d]
             /\ d.at = a /\ d.def = m.def /\ d.done = m.done /\ d.name = m.name /\ d.began = m.began
             /\ d.tool = m.tool /\ d.value = v /\ d.out = m.out /\ d.ep = m.ep
<1>1. PICK x \in InMemory : x = m
  BY RunMemory
<1>2. PICK d : d = [x EXCEPT !.at = a, !.value = v]
  OBVIOUS
<1>3. run' = [run EXCEPT ![r] = d]
  BY <1>1, <1>2 DEF TypeOK, SetsValue
<1>4. d \in InMemory
  BY <1>2, SetAt, SetValue
<1>5. /\ d.at = a /\ d.def = x.def /\ d.done = x.done /\ d.name = x.name /\ d.began = x.began
      /\ d.tool = x.tool /\ d.value = v /\ d.out = x.out /\ d.ep = x.ep
  BY <1>2 DEF InMemory
<1> QED BY <1>1, <1>3, <1>4, <1>5

\* The lookup by name.
SetsBegan(r, a, b) == run' = [run EXCEPT ![r].at = a, ![r].began = b]
LEMMA BeganFacts ==
    ASSUME TypeOK, NEW r \in Runs, NEW m, m = run[r],
           NEW a \in Waiting \cup Working \cup Over, NEW b \in Row \cup {NoRow},
           SetsBegan(r, a, b)
    PROVE  \E d \in InMemory :
             /\ run' = [run EXCEPT ![r] = d]
             /\ d.at = a /\ d.def = m.def /\ d.done = m.done /\ d.name = m.name /\ d.began = b
             /\ d.tool = m.tool /\ d.value = m.value /\ d.out = m.out /\ d.ep = m.ep
<1>1. PICK x \in InMemory : x = m
  BY RunMemory
<1>2. PICK d : d = [x EXCEPT !.at = a, !.began = b]
  OBVIOUS
<1>3. run' = [run EXCEPT ![r] = d]
  BY <1>1, <1>2 DEF TypeOK, SetsBegan
<1>4. d \in InMemory
  BY <1>2, SetAt, SetBegan
<1>5. /\ d.at = a /\ d.def = x.def /\ d.done = x.done /\ d.name = x.name /\ d.began = b
      /\ d.tool = x.tool /\ d.value = x.value /\ d.out = x.out /\ d.ep = x.ep
  BY <1>2 DEF InMemory
<1> QED BY <1>1, <1>3, <1>4, <1>5

\* The lookup of an AI provider.
SetsTool(r, a, t) == run' = [run EXCEPT ![r].at = a, ![r].tool = t]
LEMMA ToolFacts ==
    ASSUME TypeOK, NEW r \in Runs, NEW m, m = run[r],
           NEW a \in Waiting \cup Working \cup Over, NEW t \in Row \cup {NoRow},
           SetsTool(r, a, t)
    PROVE  \E d \in InMemory :
             /\ run' = [run EXCEPT ![r] = d]
             /\ d.at = a /\ d.def = m.def /\ d.done = m.done /\ d.name = m.name /\ d.began = m.began
             /\ d.tool = t /\ d.value = m.value /\ d.out = m.out /\ d.ep = m.ep
<1>1. PICK x \in InMemory : x = m
  BY RunMemory
<1>2. PICK d : d = [x EXCEPT !.at = a, !.tool = t]
  OBVIOUS
<1>3. run' = [run EXCEPT ![r] = d]
  BY <1>1, <1>2 DEF TypeOK, SetsTool
<1>4. d \in InMemory
  BY <1>2, SetAt, SetTool
<1>5. /\ d.at = a /\ d.def = x.def /\ d.done = x.done /\ d.name = x.name /\ d.began = x.began
      /\ d.tool = t /\ d.value = x.value /\ d.out = x.out /\ d.ep = x.ep
  BY <1>2 DEF InMemory
<1> QED BY <1>1, <1>3, <1>4, <1>5

\* The lookup of a REST API.
SetsFound(r, a, t, b) == run' = [run EXCEPT ![r].at = a, ![r].tool = t, ![r].began = b]
LEMMA FoundFacts ==
    ASSUME TypeOK, NEW r \in Runs, NEW m, m = run[r],
           NEW a \in Waiting \cup Working \cup Over, NEW t \in Row \cup {NoRow}, NEW b \in Row \cup {NoRow},
           SetsFound(r, a, t, b)
    PROVE  \E d \in InMemory :
             /\ run' = [run EXCEPT ![r] = d]
             /\ d.at = a /\ d.def = m.def /\ d.done = m.done /\ d.name = m.name /\ d.began = b
             /\ d.tool = t /\ d.value = m.value /\ d.out = m.out /\ d.ep = m.ep
<1>1. PICK x \in InMemory : x = m
  BY RunMemory
<1>2. PICK d : d = [x EXCEPT !.at = a, !.tool = t, !.began = b]
  OBVIOUS
<1>3. run' = [run EXCEPT ![r] = d]
  BY <1>1, <1>2 DEF TypeOK, SetsFound
<1>4. d \in InMemory
  BY <1>2, SetAt, SetTool, SetBegan
<1>5. /\ d.at = a /\ d.def = x.def /\ d.done = x.done /\ d.name = x.name /\ d.began = b
      /\ d.tool = t /\ d.value = x.value /\ d.out = x.out /\ d.ep = x.ep
  BY <1>2 DEF InMemory
<1> QED BY <1>1, <1>3, <1>4, <1>5

\* A run starts.
SetsDef(r, a, w) == run' = [run EXCEPT ![r].at = a, ![r].def = w]
LEMMA StartFacts ==
    ASSUME TypeOK, NEW r \in Runs, NEW m, m = run[r],
           NEW a \in Waiting \cup Working \cup Over, NEW w \in Seq(Step),
           SetsDef(r, a, w)
    PROVE  \E d \in InMemory :
             /\ run' = [run EXCEPT ![r] = d]
             /\ d.at = a /\ d.def = w /\ d.done = m.done /\ d.name = m.name /\ d.began = m.began
             /\ d.tool = m.tool /\ d.value = m.value /\ d.out = m.out /\ d.ep = m.ep
<1>1. PICK x \in InMemory : x = m
  BY RunMemory
<1>2. PICK d : d = [x EXCEPT !.at = a, !.def = w]
  OBVIOUS
<1>3. run' = [run EXCEPT ![r] = d]
  BY <1>1, <1>2 DEF TypeOK, SetsDef
<1>4. d \in InMemory
  BY <1>2, SetAt, SetDef
<1>5. /\ d.at = a /\ d.def = w /\ d.done = x.done /\ d.name = x.name /\ d.began = x.began
      /\ d.tool = x.tool /\ d.value = x.value /\ d.out = x.out /\ d.ep = x.ep
  BY <1>2 DEF InMemory
<1> QED BY <1>1, <1>3, <1>4, <1>5

-----------------------------------------------------------------------------
(* All runs.                                                               *)

RunsInv == \A r \in Runs : RunInv(r, run[r])

LEMMA RunInvOf ==
    ASSUME NEW r, NEW d, run'[r] = d, RunInv(r, d)' PROVE RunInv(r, run[r])'
<1>1. LoopInv(r, run[r])'
  BY DEF RunInv, LoopInv
<1>2. CallsInv(r, run[r])'
  BY DEF RunInv, CallsInv, At, Now, AnsweredAs, Answered
<1>3. ExtractInv(r, run[r])'
  BY DEF RunInv, ExtractInv, At, Now, AnsweredAs
<1>4. RecordInv(r, run[r])'
  BY DEF RunInv, RecordInv, At, AllTell, Written, Answered
<1> QED BY <1>1, <1>2, <1>3, <1>4 DEF RunInv

\* What run and step records are, of TypeOK.
RunTyped ==
    /\ run \in [Runs -> InMemory] /\ \A r \in Runs : DOMAIN run[r].def \subseteq Positions
    /\ status \in [Runs -> {"none", "running", "completed", "denied", "failed"}]
    /\ audit \in [Runs -> [Positions -> Seq(Decisions)]]
    /\ usage \in [Runs -> [Positions -> Nat]]
    /\ episodes \in [Runs -> [Positions -> {"none", "success", "failure"}]]
    /\ calls \subseteq Sent /\ lost \subseteq Runs \X Nat

\* A step of run r leaves what is on record of the others alone.
Mine(r) ==
    /\ \A q \in Runs : q # r =>
         /\ status'[q] = status[q] /\ audit'[q] = audit[q] /\ usage'[q] = usage[q]
         /\ episodes'[q] = episodes[q] /\ SameCalls(q)
    /\ lost \subseteq lost'

LEMMA OthersKept ==
    ASSUME TypeOK, RunsInv, NEW r \in Runs, NEW d, run' = [run EXCEPT ![r] = d], RunInv(r, d)', Mine(r)
    PROVE  RunsInv'
<1>1. run'[r] = d /\ \A q \in Runs : q # r => run'[q] = run[q]
  BY RunSet
<1>2. RunInv(r, run[r])'
  BY <1>1, RunInvOf
<1>3. ASSUME NEW q \in Runs, q # r PROVE RunInv(q, run[q])'
  <2>1. PICK m : m = run[q] /\ run'[q] = m
    BY <1>1, <1>3
  <2>2. RunInv(q, m)
    BY <2>1 DEF RunsInv
  <2>3. RunInv(q, m)'
    BY <1>3, <2>2, RunKept DEF Mine
  <2> QED BY <2>1, <2>3, RunInvOf
<1> QED BY <1>2, <1>3 DEF RunsInv

LEMMA Place ==
    ASSUME NEW r, NEW m, m = run[r] PROVE K(r) = At(m) /\ Current(r) = Now(m)
BY DEF K, At, Current, Now

LEMMA ProceedStep ==
    ASSUME TypeOK, RunsInv, NEW r \in Runs, NEW m, m = run[r], NEW d \in InMemory,
           run' = [run EXCEPT ![r] = d], Proceeds(r, m, d), ExtractInv(r, d), lost' \subseteq Runs \X Nat
    PROVE  RunsInv' /\ RunTyped'
<1>1. m \in InMemory /\ DOMAIN m.def \subseteq Positions /\ RunInv(r, m)
  BY RunMemory DEF RunsInv
<1>2. RunInv(r, d)'
  BY <1>1, ProceedsKept
<1>3. At(m) \in Positions
  BY <1>1, CurrentStep DEF RunInv, Proceeds
<1>4. audit' \in [Runs -> [Positions -> Seq(Decisions)]] /\ \A q \in Runs : q # r => audit'[q] = audit[q]
  <2>1. CASE UNCHANGED audit
    BY <2>1 DEF TypeOK
  <2>2. ASSUME NEW x \in {"denied", "escalated"},
               audit' = [audit EXCEPT ![r][At(m)] = Append(audit[r][At(m)], x)]
        PROVE  audit' \in [Runs -> [Positions -> Seq(Decisions)]] /\ \A q \in Runs : q # r => audit'[q] = audit[q]
    <3>1. PICK n \in Positions : n = At(m)
      BY <1>3
    <3>2. x \in Decisions /\ audit' = [audit EXCEPT ![r][n] = Append(audit[r][n], x)]
      BY <2>2, <3>1 DEF Decisions
    <3> QED BY ONLY TypeOK, r \in Runs, n \in Positions, <3>2, AuditSet
  <2> QED BY <2>1, <2>2 DEF Proceeds
<1>5. Mine(r)
  BY <1>4 DEF Mine, Proceeds, SameCalls
<1>6. DOMAIN d.def \subseteq Positions
  BY <1>1 DEF Proceeds
<1>7. RunTyped'
  BY <1>4, <1>6, RunSet DEF RunTyped, TypeOK, Proceeds
<1> QED BY <1>2, <1>5, <1>7, OthersKept

\* A move within a dispatch that writes at most an escalation.
LEMMA MoveStep ==
    ASSUME TypeOK, RunsInv, NEW r \in Runs, NEW m, m = run[r], NEW d \in InMemory,
           run' = [run EXCEPT ![r] = d], m.at \in Dispatching, d.at \in Dispatching, d.def = m.def,
           d.done = m.done, d.value = m.value, d.ep = m.ep,
           UNCHANGED <<status, usage, episodes, calls>>, lost \subseteq lost', lost' \subseteq Runs \X Nat,
           UNCHANGED audit \/ audit' = [audit EXCEPT ![r][K(r)] = Append(audit[r][K(r)], "escalated")]
    PROVE  RunsInv' /\ RunTyped'
<1>1. RunInv(r, m) /\ K(r) = At(m)
  BY Place DEF RunsInv
<1>2. /\ m.at \in Working \ {"hooks", "record", "answer"}
      /\ d.at \in Working \ {"hooks", "record", "answer"}
  BY DEF Working, Dispatching
<1>3. d.ep = "none"
  BY <1>1, <1>2 DEF RunInv, RecordInv
<1>4. Proceeds(r, m, d)
  BY <1>1, <1>2, <1>3 DEF Proceeds
<1>5. ExtractInv(r, d)
  BY <1>1 DEF RunInv, ExtractInv, At, Now
<1> QED BY <1>4, <1>5, ProceedStep

\* The audit log and what is lost of it, after Write.
LEMMA WriteFacts ==
    ASSUME TypeOK, RunsInv, NEW r \in Runs, run[r].at \in Working, NEW x, Write(r, x)
    PROVE  /\ lost \subseteq lost' /\ lost' \subseteq Runs \X Nat
           /\ \/ UNCHANGED audit /\ <<r, K(r)>> \in lost'
              \/ audit' = [audit EXCEPT ![r][K(r)] = Append(audit[r][K(r)], x)]
<1>1. PICK m : m = run[r]
  OBVIOUS
<1>2. m \in InMemory /\ RunInv(r, m) /\ DOMAIN m.def \subseteq Positions
  BY <1>1, RunMemory DEF RunsInv
<1>3. K(r) \in Nat
  BY <1>1, <1>2, Place, CurrentStep DEF RunInv
<1> QED BY <1>3 DEF Write, TypeOK

\* A dispatch that ends without an answer, and its audit row, written or lost.
LEMMA EndStep ==
    ASSUME TypeOK, RunsInv, NEW r \in Runs, NEW o \in {"denied", "blocked"},
           SetsEnd(r, "hooks", o, "failure"),
           run[r].at \in Dispatching \cup {"answer"}, UNCHANGED <<status, usage, episodes, calls>>,
           lost \subseteq lost', lost' \subseteq Runs \X Nat,
           UNCHANGED audit \/ audit' = [audit EXCEPT ![r][K(r)] = Append(audit[r][K(r)], "denied")]
    PROVE  RunsInv' /\ RunTyped'
<1>1. PICK m : m = run[r]
  OBVIOUS
<1>2. RunInv(r, m) /\ K(r) = At(m) /\ m.at \in Working \ {"hooks", "record"}
  BY <1>1, Place DEF RunsInv, Working, Dispatching
<1>3. /\ "hooks" \in Waiting \cup Working \cup Over /\ o \in Outcomes
      /\ "failure" \in {"none", "success", "failure"}
  BY DEF Working, Outcomes
<1>4. PICK d \in InMemory :
         /\ run' = [run EXCEPT ![r] = d] /\ d.at = "hooks" /\ d.def = m.def /\ d.done = m.done
         /\ d.out = o /\ d.ep = "failure"
  BY <1>1, <1>3, EndFacts
<1>5. Proceeds(r, m, d)
  BY <1>2, <1>4 DEF Proceeds, Working, Dispatching
<1>6. ExtractInv(r, d)
  BY <1>4 DEF ExtractInv, Dispatching
<1> QED BY <1>1, <1>4, <1>5, <1>6, ProceedStep

LEMMA RejectStep ==
    ASSUME TypeOK, RunsInv, NEW r \in Runs, NEW o \in {"denied", "blocked"}, Reject(r, o),
           run[r].at \in Dispatching \cup {"answer"}, UNCHANGED <<status, usage, episodes, calls>>
    PROVE  RunsInv' /\ RunTyped'
<1>1. /\ lost \subseteq lost' /\ lost' \subseteq Runs \X Nat
      /\ UNCHANGED audit \/ audit' = [audit EXCEPT ![r][K(r)] = Append(audit[r][K(r)], "denied")]
  BY WriteFacts DEF Reject, Working
<1>2. SetsEnd(r, "hooks", o, "failure")
  BY DEF Reject, SetsEnd
<1> QED BY <1>1, <1>2, EndStep

-----------------------------------------------------------------------------
(* The actions of the executor, for the runs.                              *)

\* A step that is not dispatched is over.
LEMMA BlockedStep ==
    ASSUME TypeOK, RunsInv, NEW r \in Runs, run[r].at \in {"step", "params"},
           SetsOut(r, "record", "blocked"), UNCHANGED <<status, audit, usage, episodes, calls, lost>>
    PROVE  RunsInv' /\ RunTyped'
<1>1. PICK m : m = run[r]
  OBVIOUS
<1>2. "record" \in Waiting \cup Working \cup Over /\ "blocked" \in Outcomes
  BY DEF Working, Outcomes
<1>3. PICK d \in InMemory :
         /\ run' = [run EXCEPT ![r] = d] /\ d.at = "record" /\ d.def = m.def /\ d.done = m.done
         /\ d.out = "blocked"
  BY <1>1, <1>2, OutFacts
<1>4. Proceeds(r, m, d)
  BY <1>1, <1>3 DEF Proceeds, Working, Dispatching
<1>5. ExtractInv(r, d)
  BY <1>3 DEF ExtractInv, Dispatching
<1>6. lost' \subseteq Runs \X Nat
  BY DEF TypeOK
<1> QED BY <1>1, <1>3, <1>4, <1>5, <1>6, ProceedStep

LEMMA ResolveConnectorStep ==
    ASSUME TypeOK, RunsInv, NEW r \in Runs, resolveConnectorByID(r) PROVE RunsInv' /\ RunTyped'
<1>1. PICK m : m = run[r] /\ m.at = "step"
  BY DEF resolveConnectorByID
<1>2. UNCHANGED <<status, audit, usage, episodes, calls, lost>>
  BY DEF resolveConnectorByID
<1>3. ASSUME NEW t \in tools, SetsName(r, "params", t.name) PROVE RunsInv' /\ RunTyped'
  <2>1. "params" \in Waiting \cup Working \cup Over /\ t.name \in Names
    BY DEF Working, TypeOK, Row
  <2>2. PICK d \in InMemory :
           /\ run' = [run EXCEPT ![r] = d] /\ d.at = "params" /\ d.def = m.def /\ d.done = m.done
           /\ d.ep = m.ep
    BY <1>1, <1>3, <2>1, NameFacts
  <2>3. m.ep = "none"
    BY <1>1 DEF RunsInv, RunInv, RecordInv
  <2>4. Proceeds(r, m, d)
    BY <1>1, <1>2, <2>2, <2>3 DEF Proceeds, Working, Dispatching
  <2>5. ExtractInv(r, d)
    BY <2>2 DEF ExtractInv, Dispatching
  <2>6. lost' \subseteq Runs \X Nat
    BY <1>2 DEF TypeOK
  <2> QED BY <1>1, <2>2, <2>4, <2>5, <2>6, ProceedStep
<1>4. CASE SetsOut(r, "record", "blocked")
  BY <1>1, <1>2, <1>4, BlockedStep
<1> QED BY <1>3, <1>4 DEF resolveConnectorByID, SetsName, SetsOut

LEMMA ResolveParamsStep ==
    ASSUME TypeOK, RunsInv, NEW r \in Runs, resolveParams(r) PROVE RunsInv' /\ RunTyped'
<1>1. PICK m : m = run[r] /\ m.at = "params"
  BY DEF resolveParams
<1>2. UNCHANGED <<status, audit, usage, episodes, calls, lost>>
  BY DEF resolveParams
<1>3. m \in InMemory /\ RunInv(r, m) /\ DOMAIN m.def \subseteq Positions /\ Current(r) = Now(m) /\ K(r) = At(m)
  BY <1>1, Place, RunMemory DEF RunsInv
<1>4. m.ep = "none" /\ lost' \subseteq Runs \X Nat
  BY <1>1, <1>2, <1>3 DEF RunInv, RecordInv, TypeOK
<1>5. CASE Current(r).from = 0 /\ SetsAt(r, "gates")
  <2>1. "gates" \in Waiting \cup Working \cup Over
    BY DEF Working, Dispatching
  <2>2. PICK d \in InMemory :
           /\ run' = [run EXCEPT ![r] = d] /\ d.at = "gates" /\ d.def = m.def /\ d.done = m.done
           /\ d.ep = m.ep
    BY <1>1, <1>5, <2>1, ToFacts
  <2>3. Proceeds(r, m, d)
    BY <1>1, <1>2, <1>4, <2>2 DEF Proceeds, Working, Dispatching
  <2>4. ExtractInv(r, d)
    BY <1>3, <1>5, <2>2 DEF ExtractInv, Now, At
  <2> QED BY <1>1, <1>4, <2>2, <2>3, <2>4, ProceedStep
<1>6. CASE Current(r).from \in priorResults(r) /\ SetsValue(r, "gates", <<r, extracted(r)>>)
  <2>1. "gates" \in Waiting \cup Working \cup Over
    BY DEF Working, Dispatching
  <2>2. Now(m).from \in 0..MaxSteps /\ Len(m.done) \in Nat /\ At(m) = Len(m.done) + 1
        /\ DOMAIN m.done = 1..Len(m.done)
    BY <1>1, <1>3, CurrentStep, MemoryFields DEF RunInv, Working
  <2>3. PICK v \in Runs \X (0..MaxSteps) : v = <<r, extracted(r)>> /\ v = <<r, Now(m).from>>
    BY <1>3, <2>2 DEF extracted
  <2>4. PICK d \in InMemory :
           /\ run' = [run EXCEPT ![r] = d] /\ d.at = "gates" /\ d.def = m.def /\ d.done = m.done
           /\ d.ep = m.ep /\ d.value = v
    BY <1>1, <1>6, <2>1, <2>3, ValueFacts
  <2>5. Proceeds(r, m, d)
    BY <1>1, <1>2, <1>4, <2>4 DEF Proceeds, Working, Dispatching
  <2>6. PICK k \in 1..(At(m) - 1) : m.done[k] = "allowed" /\ m.def[k].id = Now(m).from
    BY <1>1, <1>3, <1>6 DEF priorResults
  <2>7. k \in DOMAIN m.done
    BY <2>2
  <2>8. AnsweredAs(r, k, Now(m).from)
    BY <1>3, <2>6, <2>7 DEF RunInv, CallsInv
  <2>9. ExtractInv(r, d)
    <3>1. Now(d) = Now(m)
      BY <2>4 DEF Now, At
    <3> QED BY <2>3, <2>4, <2>7, <2>8, <3>1 DEF ExtractInv
  <2> QED BY <1>1, <1>4, <2>4, <2>5, <2>9, ProceedStep
<1>7. CASE SetsOut(r, "record", "blocked")
  BY <1>1, <1>2, <1>7, BlockedStep
<1> QED BY <1>5, <1>6, <1>7 DEF resolveParams, To, SetsAt, SetsValue, SetsOut

LEMMA DynamicToolStep ==
    ASSUME TypeOK, RunsInv, NEW r \in Runs, resolveDynamicTool(r) PROVE RunsInv' /\ RunTyped'
<1>1. PICK m : m = run[r] /\ m.at = "gates"
  BY DEF resolveDynamicTool
<1>2. UNCHANGED <<status, audit, usage, episodes, calls, lost>> /\ lost' \subseteq Runs \X Nat
  BY DEF resolveDynamicTool, records, TypeOK
<1>3. PICK row \in Row \cup {NoRow} : row = Named(run[r].name)
  BY DEF Named, TypeOK
<1>4. CASE SetsFound(r, "policy", row, row)
  <2>1. "policy" \in Waiting \cup Working \cup Over
    BY DEF Working, Dispatching
  <2>2. PICK d \in InMemory :
           /\ run' = [run EXCEPT ![r] = d] /\ d.at = "policy" /\ d.def = m.def /\ d.done = m.done
           /\ d.ep = m.ep /\ d.value = m.value
    BY <1>1, <1>4, <2>1, FoundFacts
  <2>3. m.at \in Dispatching /\ d.at \in Dispatching
    BY <1>1, <2>2 DEF Dispatching
  <2> QED BY <1>1, <1>2, <2>2, <2>3, MoveStep
<1>5. CASE SetsBegan(r, "provider", row)
  <2>1. "provider" \in Waiting \cup Working \cup Over
    BY DEF Working, Dispatching
  <2>2. PICK d \in InMemory :
           /\ run' = [run EXCEPT ![r] = d] /\ d.at = "provider" /\ d.def = m.def /\ d.done = m.done
           /\ d.ep = m.ep /\ d.value = m.value
    BY <1>1, <1>5, <2>1, BeganFacts
  <2>3. m.at \in Dispatching /\ d.at \in Dispatching
    BY <1>1, <2>2 DEF Dispatching
  <2> QED BY <1>1, <1>2, <2>2, <2>3, MoveStep
<1> QED BY <1>3, <1>4, <1>5 DEF resolveDynamicTool, SetsFound, SetsBegan

LEMMA ProviderToolStep ==
    ASSUME TypeOK, RunsInv, NEW r \in Runs, resolveAIProviderTool(r) PROVE RunsInv' /\ RunTyped'
<1>1. PICK m : m = run[r] /\ m.at = "provider"
  BY DEF resolveAIProviderTool
<1>2. UNCHANGED <<status, usage, episodes, calls>>
  BY DEF resolveAIProviderTool
<1>3. PICK row \in Row \cup {NoRow} : row = Named(run[r].name)
  BY DEF Named, TypeOK
<1>4. ASSUME NEW t \in Row \cup {NoRow}, SetsTool(r, "policy", t), UNCHANGED <<audit, lost>>
      PROVE  RunsInv' /\ RunTyped'
  <2>1. "policy" \in Waiting \cup Working \cup Over
    BY DEF Working, Dispatching
  <2>2. PICK d \in InMemory :
           /\ run' = [run EXCEPT ![r] = d] /\ d.at = "policy" /\ d.def = m.def /\ d.done = m.done
           /\ d.ep = m.ep /\ d.value = m.value
    BY <1>1, <1>4, <2>1, ToolFacts
  <2>3. m.at \in Dispatching /\ d.at \in Dispatching
    BY <1>1, <2>2 DEF Dispatching
  <2>4. lost' \subseteq Runs \X Nat
    BY <1>4 DEF TypeOK
  <2> QED BY <1>1, <1>2, <1>4, <2>2, <2>3, <2>4, MoveStep
<1>5. CASE Fault /\ ResolveError(r)
  <2>1. run[r].at \in Dispatching \cup {"answer"} /\ run[r].at \in Working
    BY <1>1 DEF Dispatching, Working
  <2>2. K(r) \in Nat
    <3>1. m \in InMemory /\ RunInv(r, m) /\ DOMAIN m.def \subseteq Positions /\ K(r) = At(m)
      BY <1>1, Place, RunMemory DEF RunsInv
    <3> QED BY <1>1, <2>1, <3>1, CurrentStep DEF RunInv
  <2>3. /\ lost \subseteq lost' /\ lost' \subseteq Runs \X Nat
        /\ UNCHANGED audit \/ audit' = [audit EXCEPT ![r][K(r)] = Append(audit[r][K(r)], "denied")]
    BY <1>5, <2>2 DEF ResolveError, TypeOK
  <2>4. SetsEnd(r, "hooks", "blocked", "failure")
    BY <1>5 DEF ResolveError, SetsEnd
  <2> QED BY <1>2, <2>1, <2>3, <2>4, EndStep
<1>6. \/ Fault /\ ResolveError(r)
      \/ /\ UNCHANGED <<audit, lost>>
         /\ SetsTool(r, "policy", IF row.kind = "ai_provider" THEN row ELSE NoRow)
  BY <1>3 DEF resolveAIProviderTool, SetsTool
<1> QED BY <1>4, <1>5, <1>6

\* A quiet move from one place of a dispatch to another.
LEMMA QuietStep ==
    ASSUME TypeOK, RunsInv, NEW r \in Runs, run[r].at \in Dispatching, NEW a \in Dispatching, To(r, a),
           UNCHANGED <<status, usage, episodes, calls>>, lost \subseteq lost', lost' \subseteq Runs \X Nat,
           UNCHANGED audit \/ audit' = [audit EXCEPT ![r][K(r)] = Append(audit[r][K(r)], "escalated")]
    PROVE  RunsInv' /\ RunTyped'
<1>1. PICK m : m = run[r]
  OBVIOUS
<1>2. a \in Waiting \cup Working \cup Over /\ SetsAt(r, a)
  BY DEF Working, To, SetsAt
<1>3. PICK d \in InMemory :
         /\ run' = [run EXCEPT ![r] = d] /\ d.at = a /\ d.def = m.def /\ d.done = m.done
         /\ d.ep = m.ep /\ d.value = m.value
  BY <1>1, <1>2, ToFacts
<1> QED BY <1>1, <1>3, MoveStep

LEMMA PolicyStep ==
    ASSUME TypeOK, RunsInv, NEW r \in Runs, Policy(r) PROVE RunsInv' /\ RunTyped'
<1>1. PICK m : m = run[r] /\ m.at = "policy"
  BY DEF Policy
<1>2. UNCHANGED <<status, usage, episodes, calls>>
  BY DEF Policy
<1>3. run[r].at \in Dispatching /\ run[r].at \in Working
  BY <1>1 DEF Dispatching, Working
<1>4. CASE To(r, "call") /\ UNCHANGED <<audit, lost>>
  BY <1>2, <1>3, <1>4, QuietStep DEF Dispatching, TypeOK
<1>5. CASE Reject(r, "denied")
  BY <1>2, <1>3, <1>5, RejectStep
<1>6. CASE Write(r, "escalated")
            /\ (To(r, "hold") \/ run' = [run EXCEPT ![r].at = "hooks", ![r].out = "blocked"])
  <2>1. /\ lost \subseteq lost' /\ lost' \subseteq Runs \X Nat
        /\ UNCHANGED audit \/ audit' = [audit EXCEPT ![r][K(r)] = Append(audit[r][K(r)], "escalated")]
    BY <1>3, <1>6, WriteFacts
  <2>2. CASE To(r, "hold")
    BY <1>2, <1>3, <2>1, <2>2, QuietStep DEF Dispatching
  <2>3. CASE run' = [run EXCEPT ![r].at = "hooks", ![r].out = "blocked"]
    <3>1. "hooks" \in Waiting \cup Working \cup Over /\ "blocked" \in Outcomes /\ SetsOut(r, "hooks", "blocked")
      BY <2>3 DEF Working, Outcomes, SetsOut
    <3>2. PICK d \in InMemory :
             /\ run' = [run EXCEPT ![r] = d] /\ d.at = "hooks" /\ d.def = m.def /\ d.done = m.done
             /\ d.out = "blocked" /\ d.ep = m.ep
      BY <1>1, <3>1, OutFacts
    <3>3. m.ep = "none" /\ K(r) = At(m)
      BY <1>1, Place DEF RunsInv, RunInv, RecordInv
    <3>4. Proceeds(r, m, d)
      BY <1>1, <1>2, <1>3, <2>1, <3>2, <3>3 DEF Proceeds, Working, Dispatching
    <3>5. ExtractInv(r, d)
      BY <3>2 DEF ExtractInv, Dispatching
    <3> QED BY <1>1, <2>1, <3>2, <3>4, <3>5, ProceedStep
  <2> QED BY <1>6, <2>2, <2>3
<1> QED BY <1>4, <1>5, <1>6 DEF Policy

LEMMA HoldStep ==
    ASSUME TypeOK, RunsInv, NEW r \in Runs, Hold(r) \/ dispatchApproved(r) \/ RejectAtGate(r)
    PROVE  RunsInv' /\ RunTyped'
<1>1. UNCHANGED <<status, usage, episodes, calls>>
  BY DEF Hold, dispatchApproved, RejectAtGate
<1>2. run[r].at \in Dispatching
  BY DEF Hold, dispatchApproved, RejectAtGate, Dispatching
<1>3. CASE Reject(r, "blocked")
  BY <1>1, <1>2, <1>3, RejectStep
<1>4. CASE (To(r, "resume") \/ To(r, "call")) /\ UNCHANGED <<audit, lost>>
  BY <1>1, <1>2, <1>4, QuietStep DEF Dispatching, TypeOK
<1> QED BY <1>3, <1>4 DEF Hold, dispatchApproved, RejectAtGate

\* The record of a call that leaves.
CallOf(r, k, i, f, v, b, g) ==
    [run |-> r, step |-> k, id |-> i, from |-> f, value |-> v, masked |-> b, answered |-> FALSE, governed |-> g]

LEMMA CallOfFacts ==
    ASSUME NEW r \in Runs, NEW k \in Positions, NEW i \in 1..MaxSteps, NEW f \in 0..MaxSteps,
           NEW v \in {<<>>} \cup (Runs \X (0..MaxSteps)), NEW b \in BOOLEAN, NEW g \in BOOLEAN,
           NEW c, c = CallOf(r, k, i, f, v, b, g)
    PROVE  /\ c \in Sent /\ c.run = r /\ c.step = k /\ c.id = i /\ c.from = f /\ c.value = v
           /\ ~c.answered /\ (c.masked <=> b) /\ (c.governed <=> g)
<1>1. ASSUME NEW a \in BOOLEAN, ~a
      PROVE  LET d == [run |-> r, step |-> k, id |-> i, from |-> f, value |-> v, masked |-> b,
                       answered |-> a, governed |-> g]
             IN  /\ d \in Sent /\ d.run = r /\ d.step = k /\ d.id = i /\ d.from = f /\ d.value = v
                 /\ ~d.answered /\ (d.masked <=> b) /\ (d.governed <=> g)
  BY <1>1, Zenon DEF Sent
<1> QED BY <1>1, Zenon DEF CallOf

LEMMA RowMasks ==
    ASSUME NEW x \in Row \cup {NoRow} PROVE x.masks \in BOOLEAN
<1>1. CASE x \in Row
  BY <1>1, Zenon DEF Row
<1>2. CASE x = NoRow
  <2>1. NoRow.masks = FALSE
    BY DEF NoRow
  <2>2. FALSE \in BOOLEAN
    BY Zenon
  <2>3. NoRow.masks \in BOOLEAN
    BY <2>1, <2>2, Zenon
  <2> QED BY <1>2, <2>3, Zenon
<1> QED BY <1>1, <1>2

\* The request leaves, and is on record as it was in memory.
LEMMA SendFacts ==
    ASSUME TypeOK, RunsInv, NEW r \in Runs, NEW m, m = run[r], m.at = "call", NEW b \in BOOLEAN, Send(r, b)
    PROVE  /\ SetsAt(r, "answer") /\ UNCHANGED <<audit, lost, faults>>
           /\ \E c \in Sent :
                /\ calls' = calls \cup {c} /\ c.run = r /\ c.step = At(m) /\ c.id = Now(m).id
                /\ c.from = Now(m).from /\ c.value = m.value /\ ~c.answered /\ (c.masked <=> b)
                /\ (c.governed <=> (m.began.masks /\ m.began = Named(m.name)))
<1>1. /\ m \in InMemory /\ DOMAIN m.def \subseteq Positions /\ RunInv(r, m)
      /\ K(r) = At(m) /\ Current(r) = Now(m)
  BY RunMemory, Place DEF RunsInv
<1>2. PICK k \in Positions, i \in 1..MaxSteps, f \in 0..MaxSteps :
         k = At(m) /\ i = Now(m).id /\ f = Now(m).from
  BY <1>1, CurrentStep DEF RunInv, Working, Dispatching
<1>3. PICK v \in {<<>>} \cup (Runs \X (0..MaxSteps)) : v = m.value
  BY <1>1, MemoryFields
<1>4. (m.began.masks /\ m.began = Named(m.name)) \in BOOLEAN
  BY Zenon
<1>5. PICK g \in BOOLEAN : g = (m.began.masks /\ m.began = Named(m.name))
  BY <1>4, Zenon
<1>6. PICK c : c = CallOf(r, k, i, f, v, b, g)
  BY Zenon
<1>7. calls' = calls \cup {c}
  <2>1. calls' = calls \cup {[run |-> r, step |-> K(r), id |-> Current(r).id, from |-> Current(r).from,
                             value |-> run[r].value, masked |-> b, answered |-> FALSE,
                             governed |-> run[r].began.masks /\ run[r].began = Named(run[r].name)]}
    BY Zenon DEF Send
  <2>2. K(r) = k /\ Current(r).id = i /\ Current(r).from = f /\ run[r].value = v
    BY <1>1, <1>2, <1>3
  <2>3. (run[r].began.masks /\ run[r].began = Named(run[r].name)) = g
    BY <1>5, Zenon
  <2>4. c = [run |-> r, step |-> K(r), id |-> Current(r).id, from |-> Current(r).from,
             value |-> run[r].value, masked |-> b, answered |-> FALSE,
             governed |-> run[r].began.masks /\ run[r].began = Named(run[r].name)]
    BY <1>6, <2>2, <2>3, Zenon DEF CallOf
  <2> QED BY <2>1, <2>4, Zenon
<1>8. /\ c \in Sent /\ c.run = r /\ c.step = k /\ c.id = i /\ c.from = f /\ c.value = v
      /\ ~c.answered /\ (c.masked <=> b) /\ (c.governed <=> g)
  BY <1>6, CallOfFacts
<1>9. SetsAt(r, "answer") /\ UNCHANGED <<audit, lost, faults>>
  BY DEF Send, To, AfterSend, Sound, SetsAt
<1>10. c.governed <=> (m.began.masks /\ m.began = Named(m.name))
  BY <1>5, <1>8, Zenon
<1>11. c.step = At(m) /\ c.id = Now(m).id /\ c.from = Now(m).from /\ c.value = m.value
  BY <1>2, <1>3, <1>8, Zenon
<1> QED BY <1>7, <1>8, <1>9, <1>10, <1>11, Zenon

LEMMA SendStep ==
    ASSUME TypeOK, RunsInv, NEW r \in Runs, run[r].at = "call", NEW b \in BOOLEAN, Send(r, b),
           UNCHANGED <<status, usage, episodes>>
    PROVE  RunsInv' /\ RunTyped'
<1>1. PICK m : m = run[r]
  OBVIOUS
<1>2. m \in InMemory /\ DOMAIN m.def \subseteq Positions /\ RunInv(r, m) /\ m.at = "call"
  BY <1>1, RunMemory DEF RunsInv
<1>3. SetsAt(r, "answer") /\ UNCHANGED <<audit, lost>>
  BY <1>1, <1>2, SendFacts
<1>4. PICK c \in Sent :
        calls' = calls \cup {c} /\ c.run = r /\ c.step = At(m) /\ c.id = Now(m).id /\ ~c.answered
  BY <1>1, <1>2, SendFacts
<1>5. "answer" \in Waiting \cup Working \cup Over
  BY DEF Working
<1>6. PICK d \in InMemory :
         /\ run' = [run EXCEPT ![r] = d] /\ d.at = "answer" /\ d.def = m.def /\ d.done = m.done /\ d.ep = m.ep
  BY <1>1, <1>3, <1>5, ToFacts
<1>7. RunInv(r, d)'
  BY <1>2, <1>3, <1>4, <1>6, SendKept
<1>8. Mine(r)
  BY <1>3, <1>4 DEF Mine, SameCalls
<1>9. RunTyped'
  BY <1>2, <1>3, <1>4, <1>6, RunSet DEF RunTyped, TypeOK
<1> QED BY <1>6, <1>7, <1>8, <1>9, OthersKept

\* What the routers send is masked, or not, and what is not sent ends the dispatch.
LEMMA CallSends ==
    ASSUME TypeOK, NEW r \in Runs, Call(r)
    PROVE  \/ UNCHANGED calls /\ Reject(r, "blocked")
           \/ \E b \in BOOLEAN : /\ Send(r, b)
                                 /\ run[r].tool.kind = "ai_provider" => (b <=> run[r].tool.masks)
<1>1. run[r].tool.masks \in BOOLEAN
  BY RunMemory, MemoryFields, RowMasks
<1>2. CASE ProviderDispatch(r)
  <2>1. Send(r, run[r].tool.masks) \/ NotSent(r)
    BY <1>2 DEF ProviderDispatch, ClaudeDispatch, Redact, ParseConfig
  <2> QED BY <1>1, <2>1, Zenon DEF NotSent
<1>3. CASE ToolForward(r) \/ ProxyForward(r)
  <2>1. NoRow.kind = "static"
    BY DEF NoRow
  <2>2. run[r].tool.kind \in {"rest_api", "static"}
    BY <1>3, <2>1 DEF ToolForward, ProxyForward
  <2>3. Send(r, FALSE) \/ NotSent(r)
    BY <1>3 DEF ToolForward, ProxyForward
  <2>4. run[r].tool.kind # "ai_provider"
    BY <2>2
  <2> QED BY <2>3, <2>4, Zenon DEF NotSent
<1> QED BY <1>2, <1>3 DEF Call

LEMMA CallStep ==
    ASSUME TypeOK, RunsInv, NEW r \in Runs, Call(r) PROVE RunsInv' /\ RunTyped'
<1>1. UNCHANGED <<status, usage, episodes>> /\ run[r].at = "call"
  BY DEF Call
<1>2. CASE UNCHANGED calls /\ Reject(r, "blocked")
  BY <1>1, <1>2, RejectStep DEF Dispatching
<1>3. ASSUME NEW b \in BOOLEAN, Send(r, b) PROVE RunsInv' /\ RunTyped'
  BY <1>1, <1>3, SendStep
<1> QED BY <1>2, <1>3, CallSends

LEMMA AnswerStep ==
    ASSUME TypeOK, RunsInv, NEW r \in Runs, Answer(r) PROVE RunsInv' /\ RunTyped'
<1>1. PICK m : m = run[r] /\ m.at = "answer"
  BY DEF Answer
<1>2. UNCHANGED <<status, usage, episodes>>
  BY DEF Answer
<1>3. CASE UNCHANGED calls /\ Reject(r, "blocked")
  BY <1>1, <1>2, <1>3, RejectStep
<1>4. CASE /\ calls' = {IF c.run = r /\ c.step = K(r) THEN [c EXCEPT !.answered = TRUE] ELSE c : c \in calls}
           /\ Write(r, "allowed")
           /\ SetsEnd(r, "hooks", "allowed", "success")
  <2>1. m \in InMemory /\ DOMAIN m.def \subseteq Positions /\ RunInv(r, m) /\ K(r) = At(m) /\ m.at \in Working
    BY <1>1, RunMemory, Place DEF RunsInv, Working
  <2>2. PICK n \in Positions : n = At(m) /\ n = K(r)
    BY <2>1, CurrentStep DEF RunInv
  <2>3. calls' = {IF c.run = r /\ c.step = n THEN [c EXCEPT !.answered = TRUE] ELSE c : c \in calls}
    BY <1>4, <2>2, Zenon
  <2>4. /\ calls' \subseteq Sent
        /\ \A c \in calls : \E e \in calls' :
             SameCall(c, e) /\ (c.answered \/ (c.run = r /\ c.step = n) => e.answered)
        /\ \A e \in calls' : \E c \in calls :
             SameCall(c, e) /\ (e.answered => c.answered \/ (c.run = r /\ c.step = n))
        /\ \A q \in Runs : q # r => SameCalls(q)
    BY <2>3, AnswerCalls
  <2>5. /\ lost \subseteq lost' /\ lost' \subseteq Runs \X Nat
        /\ \/ UNCHANGED audit /\ <<r, n>> \in lost'
           \/ audit' = [audit EXCEPT ![r][n] = Append(audit[r][n], "allowed")]
    BY <1>1, <1>4, <2>1, <2>2, WriteFacts
  <2>6. /\ "hooks" \in Waiting \cup Working \cup Over /\ "allowed" \in Outcomes
        /\ "success" \in {"none", "success", "failure"}
    BY DEF Working, Outcomes
  <2>7. PICK d \in InMemory :
           /\ run' = [run EXCEPT ![r] = d] /\ d.at = "hooks" /\ d.def = m.def /\ d.done = m.done
           /\ d.out = "allowed" /\ d.ep = "success"
    BY <1>1, <1>4, <2>6, EndFacts
  <2>8. /\ \A c \in calls : \E e \in calls' :
             /\ e.run = c.run /\ e.step = c.step /\ e.id = c.id
             /\ c.answered \/ (c.run = r /\ c.step = n) => e.answered
        /\ \A e \in calls' : \E c \in calls :
             /\ e.run = c.run /\ e.step = c.step /\ e.id = c.id
             /\ e.answered => c.answered \/ (c.run = r /\ c.step = n)
    BY <2>4 DEF SameCall
  <2>9. RunInv(r, d)'
    BY <1>1, <1>2, <2>1, <2>2, <2>5, <2>7, <2>8, AnswerKept
  <2>10. audit' \in [Runs -> [Positions -> Seq(Decisions)]] /\ \A q \in Runs : q # r => audit'[q] = audit[q]
    <3>1. CASE UNCHANGED audit
      BY <3>1 DEF TypeOK
    <3>2. CASE audit' = [audit EXCEPT ![r][n] = Append(audit[r][n], "allowed")]
      <4>1. PICK x \in Decisions : x = "allowed"
        BY DEF Decisions
      <4>2. audit' = [audit EXCEPT ![r][n] = Append(audit[r][n], x)]
        BY <3>2, <4>1
      <4> QED BY ONLY TypeOK, r \in Runs, n \in Positions, x \in Decisions, <4>2, AuditSet
    <3> QED BY <2>5, <3>1, <3>2
  <2>11. Mine(r)
    BY <1>2, <2>4, <2>5, <2>10 DEF Mine
  <2>12. run' \in [Runs -> InMemory] /\ \A q \in Runs : DOMAIN run'[q].def \subseteq Positions
    BY <2>1, <2>7, RunSet
  <2>13. RunTyped'
    BY <1>2, <2>4, <2>5, <2>10, <2>12 DEF RunTyped, TypeOK
  <2> QED BY <2>7, <2>9, <2>11, <2>13, OthersKept
<1> QED BY <1>3, <1>4 DEF Answer, SetsEnd

\* A cell of a table by run and position is written.
LEMMA CellSet ==
    ASSUME NEW S, NEW f \in [Runs -> [Positions -> S]], NEW r \in Runs, NEW n \in Positions, NEW x \in S
    PROVE  LET g == [f EXCEPT ![r][n] = x]
           IN  /\ g \in [Runs -> [Positions -> S]] /\ g[r][n] = x
               /\ \A q \in Runs : q # r => g[q] = f[q]
               /\ \A k \in Positions : k # n => g[r][k] = f[r][k]
OBVIOUS

LEMMA HooksStep ==
    ASSUME TypeOK, RunsInv, NEW r \in Runs, Hooks(r) PROVE RunsInv' /\ RunTyped'
<1>1. PICK m : m = run[r] /\ m.at = "hooks"
  BY DEF Hooks
<1>2. UNCHANGED <<status, audit, calls>> /\ SetsAt(r, "record")
  BY DEF Hooks, To, SetsAt
<1>3. m \in InMemory /\ DOMAIN m.def \subseteq Positions /\ RunInv(r, m) /\ K(r) = At(m) /\ m.at \in Working
  BY <1>1, RunMemory, Place DEF RunsInv, Working
<1>4. PICK n \in Positions : n = At(m) /\ n = K(r)
  BY <1>3, CurrentStep DEF RunInv
<1>5. n \in Nat /\ m.ep \in {"none", "success", "failure"}
  BY <1>3, PositionsNat, MemoryFields
<1>6. "record" \in Waiting \cup Working \cup Over
  BY DEF Working
<1>7. PICK d \in InMemory :
         /\ run' = [run EXCEPT ![r] = d] /\ d.at = "record" /\ d.def = m.def /\ d.done = m.done
         /\ d.out = m.out
  BY <1>1, <1>2, <1>6, ToFacts
<1>8. lost \subseteq lost' /\ lost' \subseteq Runs \X Nat
  BY <1>4, <1>5 DEF Hooks, TypeOK
<1> DEFINE U == /\ usage' \in [Runs -> [Positions -> Nat]]
                /\ \A q \in Runs : q # r => usage'[q] = usage[q]
                /\ \A k \in Positions : k # n => usage'[r][k] = usage[r][k]
           E == /\ episodes' \in [Runs -> [Positions -> {"none", "success", "failure"}]]
                /\ \A q \in Runs : q # r => episodes'[q] = episodes[q]
                /\ \A k \in Positions : k # n => episodes'[r][k] = episodes[r][k]
<1>9. /\ usage \in [Runs -> [Positions -> Nat]] /\ usage[r][n] \in Nat
      /\ episodes \in [Runs -> [Positions -> {"none", "success", "failure"}]]
  BY DEF TypeOK
<1>10. ASSUME recordTokenUsage(r)
       PROVE  /\ U
              /\ \/ usage'[r][n] = usage[r][n] /\ m.out # "allowed"
                 \/ usage'[r][n] = usage[r][n] + 1 /\ m.out = "allowed"
  <2>1. CASE m.out = "allowed"
    <3>1. PICK x \in Nat : x = usage[r][n] + 1
      BY <1>9
    <3>2. usage' = [usage EXCEPT ![r][n] = x]
      BY <1>1, <1>4, <1>10, <2>1, <3>1 DEF recordTokenUsage
    <3> QED BY <1>9, <2>1, <3>1, <3>2, CellSet
  <2>2. CASE m.out # "allowed"
    BY <1>1, <1>9, <1>10, <2>2 DEF recordTokenUsage
  <2> QED BY <2>1, <2>2
<1>11. ASSUME recordEpisode(r) PROVE E /\ episodes'[r][n] = m.ep
  <2>1. PICK x \in {"none", "success", "failure"} : x = m.ep
    BY <1>5
  <2>2. episodes' = [episodes EXCEPT ![r][n] = x]
    BY <1>1, <1>4, <1>11, <2>1 DEF recordEpisode
  <2> QED BY <1>9, <2>1, <2>2, CellSet
<1>12. /\ U /\ E
       /\ usage'[r][n] = usage[r][n] \/ (m.out = "allowed" /\ usage'[r][n] = usage[r][n] + 1)
       /\ episodes'[r][n] = episodes[r][n] \/ episodes'[r][n] = m.ep
       /\ <<r, n>> \notin lost' =>
            (m.out = "allowed" => usage'[r][n] = usage[r][n] + 1) /\ episodes'[r][n] = m.ep
  <2>1. CASE recordTokenUsage(r) /\ recordEpisode(r)
    BY <1>10, <1>11, <2>1
  <2>2. CASE <<r, n>> \in lost' /\ recordTokenUsage(r) /\ UNCHANGED episodes
    BY <1>9, <1>10, <2>2
  <2>3. CASE <<r, n>> \in lost' /\ recordEpisode(r) /\ UNCHANGED usage
    BY <1>9, <1>11, <2>3
  <2> QED BY <1>4, <2>1, <2>2, <2>3 DEF Hooks
<1>13. RunInv(r, d)'
  <2>1. \A k \in Positions : k # n => usage'[r][k] = usage[r][k] /\ episodes'[r][k] = episodes[r][k]
    BY <1>12
  <2> HIDE DEF U, E
  <2> QED BY <1>1, <1>2, <1>3, <1>4, <1>7, <1>8, <1>12, <2>1, HooksKept
<1>14. Mine(r)
  BY <1>2, <1>8, <1>12 DEF Mine, SameCalls
<1>15. run' \in [Runs -> InMemory] /\ \A q \in Runs : DOMAIN run'[q].def \subseteq Positions
  BY <1>3, <1>7, RunSet
<1>16. RunTyped'
  BY <1>2, <1>8, <1>12, <1>15 DEF RunTyped, TypeOK
<1> QED BY <1>7, <1>13, <1>14, <1>16, OthersKept

LEMMA IdleMemory == Idle \in InMemory /\ Idle.ep = "none" /\ Idle.def = <<>> /\ Idle.done = <<>> /\ Idle.at = "idle"
<1>1. <<>> \in Seq(Step) /\ <<>> \in Seq(Outcomes)
  OBVIOUS
<1>2. NoRow \in Row \cup {NoRow}
  OBVIOUS
<1> HIDE DEF NoRow
<1>3. Idle \in InMemory
  BY <1>1, <1>2 DEF Idle, InMemory, Waiting, Outcomes
<1> QED BY <1>3 DEF Idle

LEMMA SetDone ==
    ASSUME NEW x \in InMemory, NEW a \in Seq(Outcomes)
    PROVE  [x EXCEPT !.done = a] \in InMemory
BY DEF InMemory

\* The memory of a run that starts on its next step, or on its end.
FreshAt(a, w, s) == [Idle EXCEPT !.at = a, !.def = w, !.done = s]
LEMMA FreshMemory ==
    ASSUME NEW a \in Waiting \cup Working \cup Over, NEW w \in Seq(Step), NEW s \in Seq(Outcomes)
    PROVE  LET d == FreshAt(a, w, s)
           IN  d \in InMemory /\ d.at = a /\ d.def = w /\ d.done = s /\ d.ep = "none"
<1>1. PICK x \in InMemory : x = Idle /\ x.ep = "none"
  BY IdleMemory
<1>2. [x EXCEPT !.at = a, !.def = w, !.done = s] \in InMemory
  BY SetAt, SetDef, SetDone
<1>3. PICK d : d = [x EXCEPT !.at = a, !.def = w, !.done = s]
  OBVIOUS
<1>4. d.at = a /\ d.def = w /\ d.done = s /\ d.ep = "none"
  BY <1>1, <1>3 DEF InMemory
<1> QED BY <1>1, <1>2, <1>3, <1>4 DEF FreshAt

LEMMA UpdateStep ==
    ASSUME TypeOK, RunsInv, NEW r \in Runs, updateRunStep(r) PROVE RunsInv' /\ RunTyped'
<1>1. PICK m : m = run[r] /\ m.at = "record"
  BY DEF updateRunStep
<1>2. UNCHANGED <<status, audit, usage, episodes, calls, lost>>
  BY DEF updateRunStep
<1>3. m \in InMemory /\ DOMAIN m.def \subseteq Positions /\ RunInv(r, m) /\ K(r) = At(m)
  BY <1>1, RunMemory, Place DEF RunsInv
<1>4. m.out \in Outcomes
  BY <1>1, <1>3, MemoryFields DEF RunInv, LoopInv
<1>5. PICK a \in Waiting \cup Working \cup Over :
        a = IF m.out = "allowed" /\ At(m) < Len(m.def) THEN "step" ELSE "finish"
  BY DEF Working, Over
<1>6. PICK w \in Seq(Step), s \in Seq(Outcomes) : w = m.def /\ s = Append(m.done, m.out)
  BY <1>3, <1>4, MemoryFields, AppendProperties
<1>7. PICK d : d = FreshAt(a, w, s)
  OBVIOUS
<1>8. run' = [run EXCEPT ![r] = d]
  BY <1>1, <1>3, <1>5, <1>6, <1>7 DEF updateRunStep, Goes, FreshAt
<1>9. d \in InMemory /\ d.at = a /\ d.def = w /\ d.done = s /\ d.ep = "none"
  BY <1>7, FreshMemory
<1>10. RunInv(r, d)'
  BY <1>1, <1>2, <1>3, <1>4, <1>5, <1>6, <1>9, UpdateKept
<1>11. Mine(r)
  BY <1>2 DEF Mine, SameCalls
<1>12. RunTyped'
  BY <1>2, <1>3, <1>6, <1>8, <1>9, RunSet DEF RunTyped, TypeOK
<1> QED BY <1>8, <1>9, <1>10, <1>11, <1>12, OthersKept

LEMMA FinishStep ==
    ASSUME TypeOK, RunsInv, NEW r \in Runs, Finish(r) PROVE RunsInv' /\ RunTyped'
<1>1. PICK m : m = run[r] /\ m.at = "finish"
  BY DEF Finish
<1>2. UNCHANGED <<audit, usage, episodes, calls, lost>>
  BY DEF Finish
<1>3. m \in InMemory /\ DOMAIN m.def \subseteq Positions /\ RunInv(r, m)
  BY <1>1, RunMemory DEF RunsInv
<1>4. "ended" \in Waiting \cup Working \cup Over /\ "unrecorded" \in Waiting \cup Working \cup Over
  BY DEF Over
<1>5. CASE status' = [status EXCEPT ![r] = finalStatus(r)] /\ SetsAt(r, "ended")
  <2>1. PICK d \in InMemory :
           /\ run' = [run EXCEPT ![r] = d] /\ d.at = "ended" /\ d.def = m.def /\ d.done = m.done /\ d.ep = m.ep
    BY <1>1, <1>4, <1>5, ToFacts
  <2>2. PICK s : s = finalStatus(r)
    OBVIOUS
  <2>3. /\ s \in {"completed", "denied", "failed"}
        /\ s = "completed" => m.done[Len(m.done)] = "allowed"
        /\ s \in {"denied", "failed"} => m.done[Len(m.done)] # "allowed"
    BY <1>1, <2>2 DEF finalStatus
  <2>4. status'[r] = s /\ \A q \in Runs : q # r => status'[q] = status[q]
    BY <1>5, <2>2 DEF TypeOK
  <2>5. status' \in [Runs -> {"none", "running", "completed", "denied", "failed"}]
    BY <1>5, <2>2, <2>3 DEF TypeOK
  <2>6. RunInv(r, d)'
    BY <1>1, <1>2, <1>3, <2>1, <2>3, <2>4, FinishKept
  <2>7. Mine(r)
    BY <1>2, <2>4 DEF Mine, SameCalls
  <2>8. run' \in [Runs -> InMemory] /\ \A q \in Runs : DOMAIN run'[q].def \subseteq Positions
    BY <1>3, <2>1, RunSet
  <2>9. RunTyped'
    BY <1>2, <2>5, <2>8 DEF RunTyped, TypeOK
  <2> QED BY <2>1, <2>6, <2>7, <2>9, OthersKept
<1>6. CASE UNCHANGED status /\ SetsAt(r, "unrecorded")
  <2>1. PICK d \in InMemory :
           /\ run' = [run EXCEPT ![r] = d] /\ d.at = "unrecorded" /\ d.def = m.def /\ d.done = m.done /\ d.ep = m.ep
    BY <1>1, <1>4, <1>6, ToFacts
  <2>2. RunInv(r, d)'
    BY <1>1, <1>2, <1>3, <1>6, <2>1, FinishKept
  <2>3. Mine(r)
    BY <1>2, <1>6 DEF Mine, SameCalls
  <2>4. RunTyped'
    BY <1>2, <1>3, <1>6, <2>1, RunSet DEF RunTyped, TypeOK
  <2> QED BY <2>1, <2>2, <2>3, <2>4, OthersKept
<1> QED BY <1>5, <1>6 DEF Finish, To, SetsAt, Cancelled

LEMMA HandleRunStep ==
    ASSUME TypeOK, RunsInv, NEW r \in Runs, HandleRun(r) PROVE RunsInv' /\ RunTyped'
<1>1. PICK m : m = run[r] /\ m.at = "idle"
  BY DEF HandleRun
<1>2. UNCHANGED <<audit, usage, episodes, calls, lost>>
  BY DEF HandleRun
<1>3. m \in InMemory /\ DOMAIN m.def \subseteq Positions /\ RunInv(r, m)
  BY <1>1, RunMemory DEF RunsInv
<1>4. "step" \in Waiting \cup Working \cup Over /\ "refused" \in Waiting \cup Working \cup Over
  BY DEF Waiting, Working
<1>5. CASE Resolve /\ SetsDef(r, "step", steps) /\ status' = [status EXCEPT ![r] = "running"]
  <2>1. PICK w \in Seq(Step) : w = steps /\ w # <<>> /\ DOMAIN w \subseteq Positions
    BY <1>5 DEF TypeOK, Resolve
  <2>2. PICK d \in InMemory :
           /\ run' = [run EXCEPT ![r] = d] /\ d.at = "step" /\ d.def = w /\ d.done = m.done /\ d.ep = m.ep
    BY <1>1, <1>4, <1>5, <2>1, StartFacts
  <2>3. /\ status'[r] = "running" /\ \A q \in Runs : q # r => status'[q] = status[q]
        /\ status' \in [Runs -> {"none", "running", "completed", "denied", "failed"}]
    BY <1>5 DEF TypeOK
  <2>4. RunInv(r, d)'
    BY <1>1, <1>2, <1>3, <2>1, <2>2, <2>3, StartKept
  <2>5. Mine(r)
    BY <1>2, <2>3 DEF Mine, SameCalls
  <2>6. run' \in [Runs -> InMemory] /\ \A q \in Runs : DOMAIN run'[q].def \subseteq Positions
    BY <2>1, <2>2, RunSet
  <2>7. RunTyped'
    BY <1>2, <2>3, <2>6 DEF RunTyped, TypeOK
  <2> QED BY <2>2, <2>4, <2>5, <2>7, OthersKept
<1>6. CASE UNCHANGED status /\ SetsAt(r, "refused")
  <2>1. PICK d \in InMemory :
           /\ run' = [run EXCEPT ![r] = d] /\ d.at = "refused" /\ d.def = m.def /\ d.done = m.done /\ d.ep = m.ep
    BY <1>1, <1>4, <1>6, ToFacts
  <2>2. RunInv(r, d)'
    BY <1>1, <1>2, <1>3, <1>6, <2>1, StartKept
  <2>3. Mine(r)
    BY <1>2, <1>6 DEF Mine, SameCalls
  <2>4. RunTyped'
    BY <1>2, <1>3, <1>6, <2>1, RunSet DEF RunTyped, TypeOK
  <2> QED BY <2>1, <2>2, <2>3, <2>4, OthersKept
<1> QED BY <1>5, <1>6 DEF HandleRun, To, SetsAt, SetsDef

\* What leaves the runs and their records alone, but for what is lost.
LEMMA QuietKept ==
    ASSUME TypeOK, RunsInv, UNCHANGED <<run, status, audit, usage, episodes, calls>>,
           lost \subseteq lost', lost' \subseteq Runs \X Nat
    PROVE  RunsInv' /\ RunTyped'
<1>1. ASSUME NEW q \in Runs PROVE RunInv(q, run[q])'
  <2>1. PICK m : m = run[q] /\ run'[q] = m
    OBVIOUS
  <2>2. RunInv(q, m)
    BY <2>1 DEF RunsInv
  <2>3. RunInv(q, m)'
    BY <2>2, RunKept DEF SameCalls
  <2> QED BY <2>1, <2>3, RunInvOf
<1> QED BY <1>1 DEF RunsInv, RunTyped, TypeOK

LEMMA CrashStep ==
    ASSUME TypeOK, RunsInv, Crash PROVE RunsInv' /\ RunTyped'
<1>1. UNCHANGED <<status, audit, usage, episodes, calls, lost>>
  BY DEF Crash, records
<1>2. PICK d : d = [Idle EXCEPT !.at = "dead"]
  OBVIOUS
<1>3. d \in InMemory /\ d.at = "dead" /\ d.def = <<>> /\ d.done = <<>> /\ d.ep = "none"
  <2>1. PICK x \in InMemory : x = Idle /\ x.ep = "none" /\ x.def = <<>> /\ x.done = <<>>
    BY IdleMemory
  <2>2. "dead" \in Waiting \cup Working \cup Over
    BY DEF Waiting
  <2>3. d = [x EXCEPT !.at = "dead"] /\ d \in InMemory
    BY <1>2, <2>1, <2>2, SetAt
  <2> QED BY <2>1, <2>3 DEF InMemory
<1>4. run' = [q \in Runs |-> IF InFlight(q) THEN d ELSE run[q]]
  BY <1>2 DEF Crash
<1>5. ASSUME NEW q \in Runs PROVE RunInv(q, run[q])'
  <2>1. PICK m : m = run[q]
    OBVIOUS
  <2>2. RunInv(q, m) /\ m \in InMemory
    BY <2>1, RunMemory DEF RunsInv
  <2>3. CASE InFlight(q)
    <3>1. m.at # "ended" /\ run'[q] = d
      BY <1>4, <2>1, <2>3 DEF InFlight
    <3>2. RunInv(q, d)'
      BY <1>1, <1>3, <2>2, <3>1, CrashKept
    <3> QED BY <3>1, <3>2, RunInvOf
  <2>4. CASE ~InFlight(q)
    <3>1. run'[q] = m
      BY <1>4, <2>1, <2>4
    <3>2. RunInv(q, m)'
      BY <1>1, <2>2, RunKept DEF SameCalls
    <3> QED BY <3>1, <3>2, RunInvOf
  <2> QED BY <2>3, <2>4
<1>6. RunTyped'
  <2>1. run' \in [Runs -> InMemory]
    BY <1>3, <1>4, RunMemory
  <2>2. \A q \in Runs : DOMAIN run'[q].def \subseteq Positions
    BY <1>3, <1>4, RunMemory
  <2> QED BY <1>1, <2>1, <2>2 DEF RunTyped, TypeOK
<1> QED BY <1>5, <1>6 DEF RunsInv

\* All the steps there are, for the runs.
LEMMA RunsStep ==
    ASSUME TypeOK, RunsInv, [Next]_vars PROVE RunsInv' /\ RunTyped'
<1>1. CASE Operator \/ Handler \/ UNCHANGED vars
  <2>1. UNCHANGED <<run, status, audit, usage, episodes, calls, lost>>
    BY <1>1 DEF Operator, Handler, CreateTool, UpdateTool, DeleteTool, CreateWorkflow, UpdateWorkflow,
               DeleteWorkflow, PutWorkflowStepParams, WriteWorkflow, Kept, records, vars
  <2>2. lost' \subseteq Runs \X Nat
    BY <2>1 DEF TypeOK
  <2> QED BY <2>1, <2>2, QuietKept
<1>2. CASE Crash
  BY <1>2, CrashStep
<1>3. ASSUME NEW r \in Runs, HandleRun(r) \/ Executes(r) \/ Disconnect(r) PROVE RunsInv' /\ RunTyped'
  <2>1. CASE HandleRun(r)
    BY <2>1, HandleRunStep
  <2>2. CASE Finish(r)
    BY <2>2, FinishStep
  <2>3. CASE Disconnect(r)
    <3>1. UNCHANGED <<run, status, audit, usage, episodes, calls>> /\ lost \subseteq lost'
      BY <2>3 DEF Disconnect
    <3>2. lost' \subseteq Runs \X Nat
      BY <2>3 DEF Disconnect, TypeOK
    <3> QED BY <3>1, <3>2, QuietKept
  <2>4. CASE runStep(r)
    BY <2>4, ResolveConnectorStep, ResolveParamsStep, HoldStep, DynamicToolStep, ProviderToolStep,
       PolicyStep, CallStep, AnswerStep, HooksStep, UpdateStep DEF runStep
  <2> QED BY <1>3, <2>1, <2>2, <2>3, <2>4 DEF Executes
<1> QED BY <1>1, <1>2, <1>3 DEF Next

-----------------------------------------------------------------------------
(* The workflows that operators save.                                      *)

LEMMA LeastNatural ==
    ASSUME NEW T, T \subseteq Nat, T # {}
    PROVE  \E x \in T : \A y \in T : x <= y
<1>1. PICK x \in T : \A y \in T : ~ <<y, x>> \in OpToRel(<, Nat)
  BY NatLessThanWellFounded, WFMin
<1>2. \A y \in T : ~(y < x)
  BY <1>1 DEF OpToRel
<1> QED BY <1>2

LEMMA StepIds ==
    ASSUME NEW s \in Seq(Step) PROVE IdsOf(s) \subseteq 1..MaxSteps
<1>1. \A k \in DOMAIN s : s[k] \in Step
  OBVIOUS
<1>2. \A x \in Step : x.id \in 1..MaxSteps
  BY DEF Step
<1> QED BY <1>1, <1>2 DEF IdsOf

\* There is a highest identity.
LEMMA UsedBound ==
    ASSUME TypeOK PROVE Used \in 0..MaxSteps
<1> DEFINE ofRuns == UNION {IdsOf(run[r].def) : r \in Runs}
           ofUpdates == UNION {IdsOf(u.steps) : u \in updates}
           ids == IdsOf(steps) \cup ofRuns \cup ofUpdates
           T == {n \in Nat : \A s \in ids : s <= n}
<1>1. MaxSteps \in Nat
  BY WorkflowRunAssumption
<1>2. ids \subseteq 1..MaxSteps
  <2>1. IdsOf(steps) \subseteq 1..MaxSteps
    BY StepIds DEF TypeOK
  <2>2. \A r \in Runs : IdsOf(run[r].def) \subseteq 1..MaxSteps
    BY StepIds, RunMemory, MemoryFields
  <2>3. \A u \in updates : IdsOf(u.steps) \subseteq 1..MaxSteps
    BY StepIds DEF TypeOK
  <2>4. ofRuns \subseteq 1..MaxSteps
    BY <2>2
  <2>5. ofUpdates \subseteq 1..MaxSteps
    BY <2>3
  <2> HIDE DEF ofRuns, ofUpdates
  <2> QED BY <2>1, <2>4, <2>5
<1> HIDE DEF ids
<1>3. MaxSteps \in T
  BY <1>1, <1>2
<1>4. PICK n \in T : \A y \in T : n <= y
  <2>1. T \subseteq Nat /\ T # {}
    BY <1>3
  <2> HIDE DEF T
  <2> QED BY <2>1, LeastNatural
<1>5. n \in 0..MaxSteps /\ \A s \in ids : s <= n
  BY <1>1, <1>3, <1>4
<1>6. n = 0 \/ n \in ids
  <2>1. SUFFICES ASSUME n # 0, n \notin ids PROVE FALSE
    OBVIOUS
  <2>2. n - 1 \in Nat
    BY <1>5, <2>1
  <2>3. \A s \in ids : s <= n - 1
    BY <1>2, <1>5, <2>1
  <2>4. n - 1 \in T
    BY <2>2, <2>3
  <2> QED BY <1>4, <1>5, <2>4
<1>7. \E k \in 0..MaxSteps : (\A s \in ids : s <= k) /\ (k = 0 \/ k \in ids)
  BY <1>5, <1>6
<1>8. Used = CHOOSE k \in 0..MaxSteps : (\A s \in ids : s <= k) /\ (k = 0 \/ k \in ids)
  BY DEF Used, ids, ofRuns, ofUpdates
<1> QED BY <1>7, <1>8

\* The steps that are saved are steps, with identities within the bound.
LEMMA ResolvedSteps ==
    ASSUME TypeOK, NEW d \in Definitions, NEW u \in 0..MaxSteps, u + Len(d) <= MaxSteps
    PROVE  resolveStepIDs(d, u) \in Seq(Step) /\ DOMAIN resolveStepIDs(d, u) \subseteq Positions
<1>1. d \in Seq(Step) /\ DOMAIN d = 1..Len(d) /\ Len(d) \in Nat /\ MaxSteps \in Nat
  BY WorkflowRunAssumption
<1>2. PICK s : s = resolveStepIDs(d, u)
  OBVIOUS
<1>3. ASSUME NEW k \in DOMAIN d PROVE s[k] \in Step
  <2>1. d[k] \in Step /\ k \in 1..Len(d)
    BY <1>1
  <2>2. CASE d[k].id \in IdsOf(steps)
    BY <1>2, <2>1, <2>2 DEF resolveStepIDs
  <2>3. CASE d[k].id \notin IdsOf(steps)
    <3> DEFINE J == {j \in 1..k : d[j].id \notin IdsOf(steps)}
    <3>1. J \subseteq 1..k /\ k \in J
      BY <1>1, <2>1, <2>3
    <3>2. s[k] = [d[k] EXCEPT !.id = u + Cardinality(J)]
      BY <1>2, <2>3 DEF resolveStepIDs
    <3> HIDE DEF J
    <3>3. IsFiniteSet(1..k) /\ Cardinality(1..k) = k
      BY <1>1, <2>1, FS_Interval
    <3>4. IsFiniteSet(J) /\ Cardinality(J) <= k
      BY <3>1, <3>3, FS_Subset
    <3>5. Cardinality(J) \in Nat /\ Cardinality(J) # 0
      BY <3>1, <3>4, FS_CardinalityType, FS_EmptySet
    <3>6. PICK c \in Nat : c = Cardinality(J) /\ c # 0 /\ c <= k
      BY <3>4, <3>5
    <3>7. u + c \in 1..MaxSteps
      BY <1>1, <2>1, <3>6
    <3> QED BY <2>1, <3>2, <3>6, <3>7 DEF Step
  <2> QED BY <2>2, <2>3
<1>4. DOMAIN s = DOMAIN d /\ s = [k \in DOMAIN d |-> s[k]]
  BY <1>2 DEF resolveStepIDs
<1>5. s \in [1..Len(d) -> Step]
  BY <1>1, <1>3, <1>4
<1>6. s \in Seq(Step)
  BY <1>1, <1>5, SeqDef
<1> QED BY <1>2, <1>4, <1>6 DEF Positions

-----------------------------------------------------------------------------
(* Connectors.                                                             *)

LEMMA NamedFacts ==
    ASSUME TypeOK, ToolsInv, NEW n
    PROVE  /\ \A t \in tools : t.name = n => Named(n) = t
           /\ Named(n) # NoRow => Named(n) \in tools /\ Named(n).name = n
           /\ Named(n) = NoRow => \A t \in tools : t.name # n
           /\ Named(n) \in Row \cup {NoRow}
<1>1. ASSUME NEW t \in tools, t.name = n PROVE Named(n) = t /\ t # NoRow
  <2>1. Named(n) = CHOOSE x \in tools : x.name = n
    BY <1>1 DEF Named
  <2>2. Named(n) \in tools /\ Named(n).name = n
    BY <1>1, <2>1
  <2>3. Named(n) = t
    BY <1>1, <2>2 DEF ToolsInv
  <2>4. t.id \in Tools /\ NoRow.id = "none"
    BY DEF TypeOK, Row, NoRow
  <2> QED BY <2>3, <2>4, WorkflowRunAssumption
<1>2. ASSUME \A t \in tools : t.name # n PROVE Named(n) = NoRow
  BY <1>2 DEF Named
<1>3. tools \subseteq Row
  BY DEF TypeOK
<1> QED BY <1>1, <1>2, <1>3

\* The row of a connector that is created.
RowOf(i, n, k, b, v, e) == [id |-> i, name |-> n, kind |-> k, masks |-> b, ver |-> v, rev |-> e]

LEMMA RowOfFacts ==
    ASSUME NEW i \in Tools, NEW n \in Names, NEW k \in Kinds, NEW b \in BOOLEAN, NEW v \in {0, 1},
           NEW e \in 0..MaxEdits
    PROVE  LET w == RowOf(i, n, k, b, v, e)
           IN  w \in Row /\ w.id = i /\ w.name = n /\ w.kind = k /\ (w.masks <=> b) /\ w.rev = e
BY Zenon DEF RowOf, Row

\* A row that is written anew.
LEMMA RowNamed ==
    ASSUME NEW t \in Row, NEW n \in Names
    PROVE  LET w == [t EXCEPT !.name = n]
           IN  w \in Row /\ w.id = t.id /\ w.name = n /\ w.kind = t.kind /\ (w.masks <=> t.masks)
BY Zenon DEF Row

LEMMA RowMasked ==
    ASSUME NEW t \in Row, NEW b \in BOOLEAN
    PROVE  LET w == [t EXCEPT !.masks = b]
           IN  w \in Row /\ w.id = t.id /\ w.name = t.name /\ w.kind = t.kind
BY Zenon DEF Row

LEMMA RowVersion ==
    ASSUME NEW t \in Row, NEW v \in {0, 1}
    PROVE  LET w == [t EXCEPT !.ver = v]
           IN  w \in Row /\ w.id = t.id /\ w.name = t.name /\ w.kind = t.kind /\ (w.masks <=> t.masks)
BY Zenon DEF Row

LEMMA RowWritten ==
    ASSUME NEW t \in Row, NEW e \in 0..MaxEdits
    PROVE  LET w == [t EXCEPT !.rev = e]
           IN  w \in Row /\ w.id = t.id /\ w.name = t.name /\ w.kind = t.kind /\ (w.masks <=> t.masks) /\ w.rev = e
BY Zenon DEF Row

\* A request writes the row w in the place of those of S.
ToolWritten(S, w) ==
    /\ tools' = (tools \ S) \cup {w} /\ w \in Row /\ w.rev = edits'
    /\ w.masks => w.kind = "ai_provider"
    /\ \A t \in tools \ S : t.id # w.id /\ t.name # w.name

LEMMA EditsBound ==
    ASSUME TypeOK, Edit PROVE edits' = edits + 1 /\ edits \in Nat /\ edits' \in 0..MaxEdits
BY WorkflowRunAssumption DEF TypeOK, Edit

LEMMA CreateToolWrites ==
    ASSUME TypeOK, ToolsInv, NEW i \in Tools, CreateTool(i)
    PROVE  Edit /\ \E w : ToolWritten({}, w)
<1>1. Edit /\ \A t \in tools : t.id # i
  BY DEF CreateTool
<1>2. PICK n \in Names, k \in Kinds, b \in BOOLEAN :
        /\ Named(n) = NoRow /\ (b => k = "ai_provider")
        /\ tools' = tools \cup {[id |-> i, name |-> n, kind |-> k, masks |-> b, ver |-> 0, rev |-> edits']}
  BY Zenon DEF CreateTool
<1>3. PICK e \in 0..MaxEdits : e = edits'
  BY <1>1, EditsBound
<1>4. PICK w : w = RowOf(i, n, k, b, 0, e)
  BY Zenon
<1>5. tools' = tools \cup {w}
  BY <1>2, <1>3, <1>4, Zenon DEF RowOf
<1>6. 0 \in {0, 1}
  OBVIOUS
<1>7. w \in Row /\ w.id = i /\ w.name = n /\ w.kind = k /\ (w.masks <=> b) /\ w.rev = e
  BY <1>4, <1>6, RowOfFacts
<1>8. \A t \in tools : t.name # n
  BY <1>2, NamedFacts
<1>9. tools' = (tools \ {}) \cup {w}
  BY <1>5
<1>10. w.masks => w.kind = "ai_provider"
  BY <1>2, <1>7, Zenon
<1> QED BY <1>1, <1>3, <1>7, <1>8, <1>9, <1>10 DEF ToolWritten

LEMMA UpdateToolWrites ==
    ASSUME TypeOK, ToolsInv, NEW t \in tools, UpdateTool(t)
    PROVE  Edit /\ \E w : ToolWritten({t}, w)
<1>1. Edit /\ t \in Row
  BY DEF UpdateTool, TypeOK
<1>2. PICK e \in 0..MaxEdits : e = edits'
  BY <1>1, EditsBound
<1>3. /\ t.masks => t.kind = "ai_provider"
      /\ \A x \in tools \ {t} : x.id # t.id /\ x.name # t.name
  BY DEF ToolsInv
<1>4. ASSUME NEW new \in Row, Put(t, new), new.id = t.id, new.masks => new.kind = "ai_provider",
             \A x \in tools \ {t} : x.name # new.name
      PROVE  \E w : ToolWritten({t}, w)
  <2>1. PICK w : w = [new EXCEPT !.rev = e]
    BY Zenon
  <2>2. tools' = (tools \ {t}) \cup {w}
    BY <1>2, <1>4, <2>1, Zenon DEF Put
  <2>3. /\ w \in Row /\ w.id = new.id /\ w.name = new.name /\ w.kind = new.kind
        /\ (w.masks <=> new.masks) /\ w.rev = e
    BY <2>1, RowWritten, Zenon
  <2>4. w.masks => w.kind = "ai_provider"
    BY <1>4, <2>3, Zenon
  <2> QED BY <1>2, <1>3, <1>4, <2>2, <2>3, <2>4 DEF ToolWritten
<1>5. ASSUME NEW n \in Names, Named(n) = NoRow, Put(t, [t EXCEPT !.name = n])
      PROVE  \E w : ToolWritten({t}, w)
  <2>1. PICK new : new = [t EXCEPT !.name = n]
    BY Zenon
  <2>2. new \in Row /\ new.id = t.id /\ new.name = n /\ new.kind = t.kind /\ (new.masks <=> t.masks)
    BY <1>1, <2>1, RowNamed, Zenon
  <2>3. new.masks => new.kind = "ai_provider"
    BY <1>3, <2>2, Zenon
  <2>4. \A x \in tools \ {t} : x.name # new.name
    BY <1>5, <2>2, NamedFacts
  <2>5. Put(t, new)
    BY <1>5, <2>1, Zenon
  <2> QED BY <1>4, <2>2, <2>3, <2>4, <2>5
<1>6. ASSUME t.kind = "ai_provider", Put(t, [t EXCEPT !.masks = ~@])
      PROVE  \E w : ToolWritten({t}, w)
  <2>1. (~t.masks) \in BOOLEAN
    BY Zenon
  <2>2. PICK new : new = [t EXCEPT !.masks = ~t.masks]
    BY Zenon
  <2>3. new \in Row /\ new.id = t.id /\ new.name = t.name /\ new.kind = t.kind
    BY <1>1, <2>1, <2>2, RowMasked, Zenon
  <2>4. Put(t, new)
    BY <1>6, <2>2, Zenon
  <2>5. new.masks => new.kind = "ai_provider"
    BY <1>6, <2>3, Zenon
  <2>6. \A x \in tools \ {t} : x.name # new.name
    BY <1>3, <2>3
  <2> QED BY <1>4, <2>3, <2>4, <2>5, <2>6
<1>7. ASSUME Put(t, [t EXCEPT !.ver = 1 - @])
      PROVE  \E w : ToolWritten({t}, w)
  <2>1. PICK v \in {0, 1} : v = 1 - t.ver
    BY <1>1 DEF Row
  <2>2. PICK new : new = [t EXCEPT !.ver = v]
    BY Zenon
  <2>3. new \in Row /\ new.id = t.id /\ new.name = t.name /\ new.kind = t.kind /\ (new.masks <=> t.masks)
    BY <1>1, <2>2, RowVersion, Zenon
  <2>4. Put(t, new)
    BY <1>7, <2>1, <2>2, Zenon
  <2>5. new.masks => new.kind = "ai_provider"
    BY <1>3, <2>3, Zenon
  <2>6. \A x \in tools \ {t} : x.name # new.name
    BY <1>3, <2>3
  <2> QED BY <1>4, <2>3, <2>4, <2>5, <2>6
<1> QED BY <1>1, <1>5, <1>6, <1>7, Zenon DEF UpdateTool

\* What any step does to the connectors.
LEMMA ToolsChange ==
    ASSUME TypeOK, ToolsInv, [Next]_vars
    PROVE  /\ edits' \in 0..MaxEdits /\ edits <= edits'
           /\ \/ tools' \subseteq tools
              \/ edits < edits' /\ \E S, w : ToolWritten(S, w)
<1>1. CASE UNCHANGED <<tools, edits>>
  BY <1>1 DEF TypeOK
<1>2. ASSUME Edit, tools' \subseteq tools \/ \E S, w : ToolWritten(S, w)
      PROVE  /\ edits' \in 0..MaxEdits /\ edits <= edits'
             /\ \/ tools' \subseteq tools
                \/ edits < edits' /\ \E S, w : ToolWritten(S, w)
  BY <1>2, EditsBound
<1>3. CASE Operator
  <2>1. ASSUME NEW i \in Tools, CreateTool(i) PROVE Edit /\ \E S, w : ToolWritten(S, w)
    BY <2>1, CreateToolWrites
  <2>2. ASSUME NEW t \in tools, UpdateTool(t) PROVE Edit /\ \E S, w : ToolWritten(S, w)
    BY <2>2, UpdateToolWrites
  <2>3. ASSUME NEW t \in tools, DeleteTool(t) PROVE Edit /\ tools' \subseteq tools
    BY <2>3 DEF DeleteTool
  <2>4. ASSUME NEW d \in Definitions, CreateWorkflow(d) \/ UpdateWorkflow(d) PROVE Edit /\ tools' \subseteq tools
    BY <2>4 DEF CreateWorkflow, UpdateWorkflow
  <2>5. ASSUME DeleteWorkflow \/ \E s \in 1..MaxSteps : PutWorkflowStepParams(s) PROVE Edit /\ tools' \subseteq tools
    BY <2>5 DEF DeleteWorkflow, PutWorkflowStepParams
  <2> QED BY <1>2, <1>3, <2>1, <2>2, <2>3, <2>4, <2>5 DEF Operator
<1>4. CASE ~Operator
  <2>1. UNCHANGED <<tools, edits>>
    BY <1>4 DEF Next, vars, admin, Handler, WriteWorkflow, Crash, HandleRun, Disconnect, Executes, Finish,
       runStep, resolveConnectorByID, resolveParams, RejectAtGate, resolveDynamicTool, resolveAIProviderTool,
       Policy, Hold, dispatchApproved, Call, Answer, Hooks, updateRunStep
  <2> QED BY <1>1, <2>1
<1> QED BY <1>3, <1>4

LEMMA ToolsStep ==
    ASSUME TypeOK, ToolsInv, [Next]_vars PROVE ToolsInv' /\ tools' \subseteq Row
<1>1. edits \in Nat /\ edits' \in Nat /\ edits <= edits' /\ tools \subseteq Row
  BY ToolsChange DEF TypeOK
<1>2. \A t \in tools : t.rev \in Nat /\ t.rev <= edits'
  BY <1>1 DEF ToolsInv, Row
<1>3. CASE tools' \subseteq tools
  BY <1>1, <1>2, <1>3 DEF ToolsInv
<1>4. ASSUME NEW S, NEW w, ToolWritten(S, w) PROVE ToolsInv' /\ tools' \subseteq Row
  <2>1. /\ \A t \in tools' : t = w \/ t \in tools \ S
        /\ w \in Row /\ w.rev = edits' /\ (w.masks => w.kind = "ai_provider")
        /\ \A t \in tools \ S : t.id # w.id /\ t.name # w.name
    BY <1>4, Zenon DEF ToolWritten
  <2>2. \A a, b \in tools' : a.id = b.id \/ a.name = b.name => a = b
    BY <2>1 DEF ToolsInv
  <2>3. \A t \in tools' : t.rev <= edits'
    BY <1>1, <1>2, <2>1
  <2>4. \A t \in tools' : t.masks => t.kind = "ai_provider"
    BY <2>1, Zenon DEF ToolsInv
  <2> QED BY <1>1, <2>1, <2>2, <2>3, <2>4 DEF ToolsInv
<1> QED BY <1>3, <1>4, ToolsChange

-----------------------------------------------------------------------------
(* What else TypeOK says.                                                  *)

Saved == [steps : Seq(Step), params : [1..MaxSteps -> {0, 1}]]
WorkflowTyped ==
    /\ steps \in Seq(Step) /\ DOMAIN steps \subseteq Positions
    /\ params \in [1..MaxSteps -> {0, 1}]
    /\ updates \subseteq Saved
    /\ \A u \in updates : DOMAIN u.steps \subseteq Positions
TableTyped ==
    /\ rows \in [Runs -> Seq(Outcomes \cup {"none", "missing"})]
    /\ faults \in 0..MaxFaults

LEMMA WorkflowIsTyped == ASSUME TypeOK PROVE WorkflowTyped
BY DEF TypeOK, WorkflowTyped, Saved

LEMMA OperatorTyped ==
    ASSUME TypeOK, Operator PROVE WorkflowTyped'
<1>0. WorkflowTyped
  BY WorkflowIsTyped
<1>1. ASSUME NEW t \in tools, DeleteTool(t) PROVE WorkflowTyped'
  <2>1. DOMAIN steps = 1..Len(steps) /\ Len(steps) \in Nat /\ \A k \in DOMAIN steps : steps[k] \in Step
    BY <1>0 DEF WorkflowTyped
  <2>2. \A k \in DOMAIN steps : [steps[k] EXCEPT !.tool = "none"] \in Step
    BY <2>1 DEF Step
  <2>3. steps' \in [1..Len(steps) -> Step] /\ DOMAIN steps' = DOMAIN steps
    BY <1>1, <2>1, <2>2 DEF DeleteTool
  <2>4. steps' \in Seq(Step)
    BY <2>1, <2>3, SeqDef
  <2>5. UNCHANGED <<params, updates>>
    BY <1>1 DEF DeleteTool
  <2> QED BY <1>0, <2>3, <2>4, <2>5 DEF WorkflowTyped
<1>2. ASSUME NEW d \in Definitions, Used + Len(d) <= MaxSteps
      PROVE  resolveStepIDs(d, Used) \in Seq(Step) /\ DOMAIN resolveStepIDs(d, Used) \subseteq Positions
  <2>1. PICK u \in 0..MaxSteps : u = Used
    BY UsedBound
  <2> QED BY <1>2, <2>1, ResolvedSteps
<1>3. ASSUME NEW d \in Definitions, CreateWorkflow(d) PROVE WorkflowTyped'
  BY <1>0, <1>2, <1>3 DEF CreateWorkflow, WorkflowTyped
<1>4. ASSUME NEW d \in Definitions, UpdateWorkflow(d) PROVE WorkflowTyped'
  <2>1. PICK s \in Seq(Step) : s = resolveStepIDs(d, Used) /\ DOMAIN s \subseteq Positions
    BY <1>2, <1>4 DEF UpdateWorkflow
  <2>2. PICK u : u = [steps |-> s, params |-> params]
    OBVIOUS
  <2>3. u \in Saved /\ u.steps = s
    BY <1>0, <2>2 DEF WorkflowTyped, Saved
  <2>4. updates' = updates \cup {u} /\ UNCHANGED <<steps, params>>
    BY <1>4, <2>1, <2>2 DEF UpdateWorkflow
  <2> QED BY <1>0, <2>1, <2>3, <2>4 DEF WorkflowTyped
<1>5. CASE DeleteWorkflow
  <2>1. params' \in [1..MaxSteps -> {0, 1}] /\ steps' = <<>> /\ UNCHANGED updates
    BY <1>5 DEF DeleteWorkflow
  <2> QED BY <1>0, <2>1 DEF WorkflowTyped
<1>6. ASSUME NEW s \in 1..MaxSteps, PutWorkflowStepParams(s) PROVE WorkflowTyped'
  <2>1. params' \in [1..MaxSteps -> {0, 1}] /\ UNCHANGED <<steps, updates>>
    BY <1>0, <1>6 DEF PutWorkflowStepParams, WorkflowTyped
  <2> QED BY <1>0, <2>1 DEF WorkflowTyped
<1>7. ASSUME UNCHANGED <<steps, params, updates>> PROVE WorkflowTyped'
  BY <1>0, <1>7 DEF WorkflowTyped
<1>8. ASSUME NEW i \in Tools, CreateTool(i) PROVE WorkflowTyped'
  BY <1>7, <1>8 DEF CreateTool
<1>9. ASSUME NEW t \in tools, UpdateTool(t) PROVE WorkflowTyped'
  BY <1>7, <1>9 DEF UpdateTool
<1> QED BY <1>1, <1>3, <1>4, <1>5, <1>6, <1>8, <1>9 DEF Operator

LEMMA HandlerTyped ==
    ASSUME TypeOK, Handler PROVE WorkflowTyped'
<1>0. WorkflowTyped
  BY WorkflowIsTyped
<1>1. PICK u \in updates : WriteWorkflow(u)
  BY DEF Handler
<1>2. /\ u \in Saved /\ DOMAIN u.steps \subseteq Positions
      /\ u.steps \in Seq(Step) /\ u.params \in [1..MaxSteps -> {0, 1}]
  BY <1>0 DEF WorkflowTyped, Saved
<1>3. updates' \subseteq updates
  BY <1>1 DEF WriteWorkflow
<1>4. CASE steps' = u.steps /\ params' = [s \in 1..MaxSteps |-> IF s \in IdsOf(u.steps) THEN u.params[s] ELSE 0]
  <2>1. params' \in [1..MaxSteps -> {0, 1}]
    BY <1>2, <1>4
  <2> QED BY <1>0, <1>2, <1>3, <1>4, <2>1 DEF WorkflowTyped
<1>5. CASE UNCHANGED <<steps, params>>
  BY <1>0, <1>3, <1>5 DEF WorkflowTyped
<1> QED BY <1>1, <1>4, <1>5 DEF WriteWorkflow

LEMMA WorkflowStep ==
    ASSUME TypeOK, [Next]_vars PROVE WorkflowTyped'
<1>1. CASE Operator \/ Handler
  BY <1>1, OperatorTyped, HandlerTyped
<1>2. CASE ~(Operator \/ Handler)
  <2>1. UNCHANGED <<steps, params, updates>>
    BY <1>2 DEF Next, vars, admin, Crash, HandleRun, Disconnect, Executes, Finish,
       runStep, resolveConnectorByID, resolveParams, RejectAtGate, resolveDynamicTool, resolveAIProviderTool,
       Policy, Hold, dispatchApproved, Call, Answer, Hooks, updateRunStep
  <2>2. WorkflowTyped
    BY WorkflowIsTyped
  <2> QED BY <2>1, <2>2 DEF WorkflowTyped
<1> QED BY <1>1, <1>2

\* A row of a run is added, or its outcome set.
LEMMA RowsSet ==
    ASSUME TypeOK, NEW r \in Runs,
           \/ \E x \in {"none", "missing"} : rows' = [rows EXCEPT ![r] = Append(@, x)]
           \/ rows' = [rows EXCEPT ![r][K(r)] = IF @ = "none" THEN run[r].out ELSE @]
    PROVE  rows' \in [Runs -> Seq(Outcomes \cup {"none", "missing"})]
<1> DEFINE S == Outcomes \cup {"none", "missing"}
<1>1. rows \in [Runs -> Seq(S)]
  BY DEF TypeOK
<1>2. PICK s \in Seq(S) : s = rows[r]
  BY <1>1
<1>3. ASSUME NEW x \in {"none", "missing"}, rows' = [rows EXCEPT ![r] = Append(rows[r], x)]
      PROVE  rows' \in [Runs -> Seq(S)]
  <2>1. Append(s, x) \in Seq(S)
    BY AppendProperties
  <2> QED BY <1>1, <1>2, <1>3, <2>1
<1>4. ASSUME rows' = [rows EXCEPT ![r][K(r)] = IF @ = "none" THEN run[r].out ELSE @]
      PROVE  rows' \in [Runs -> Seq(S)]
  <2>1. PICK n : n = K(r)
    OBVIOUS
  <2>2. PICK o \in S : o = run[r].out
    BY RunMemory, MemoryFields
  <2>3. PICK w : w = [s EXCEPT ![n] = IF s[n] = "none" THEN o ELSE s[n]]
    OBVIOUS
  <2>4. rows' = [rows EXCEPT ![r] = w]
    BY <1>1, <1>2, <1>4, <2>1, <2>2, <2>3
  <2>5. DOMAIN s = 1..Len(s) /\ Len(s) \in Nat /\ \A k \in DOMAIN s : s[k] \in S
    OBVIOUS
  <2>6. w \in [1..Len(s) -> S]
    BY <2>3, <2>5
  <2>7. w \in Seq(S)
    BY <2>5, <2>6, SeqDef
  <2> QED BY <1>1, <2>4, <2>7
<1> QED BY <1>3, <1>4

LEMMA TableStep ==
    ASSUME TypeOK, [Next]_vars PROVE TableTyped'
<1>1. faults' \in 0..MaxFaults
  <2>1. CASE Operator \/ Handler \/ UNCHANGED vars
    BY <2>1 DEF Operator, Handler, CreateTool, UpdateTool, DeleteTool, CreateWorkflow, UpdateWorkflow,
               DeleteWorkflow, PutWorkflowStepParams, WriteWorkflow, Kept, vars, TypeOK
  <2>2. ASSUME UNCHANGED faults \/ Fault PROVE faults' \in 0..MaxFaults
    BY <2>2, WorkflowRunAssumption DEF TypeOK, Fault
  <2>3. CASE Crash
    BY <2>2, <2>3 DEF Crash
  <2>4. ASSUME NEW r \in Runs, HandleRun(r) \/ Executes(r) \/ Disconnect(r) PROVE faults' \in 0..MaxFaults
    <3>1. CASE HandleRun(r) \/ Disconnect(r) \/ Finish(r)
      BY <2>2, <3>1 DEF HandleRun, Disconnect, Finish, Sound
    <3>2. ASSUME NEW x, Write(r, x) PROVE UNCHANGED faults \/ Fault
      BY <3>2 DEF Write, Sound
    <3>3. CASE resolveConnectorByID(r) \/ resolveParams(r) \/ resolveDynamicTool(r) \/ resolveAIProviderTool(r)
      BY <2>2, <3>3 DEF resolveConnectorByID, resolveParams, insertRunStep, resolveDynamicTool,
                       resolveAIProviderTool, Sound
    <3>4. CASE RejectAtGate(r) \/ Policy(r) \/ Hold(r) \/ dispatchApproved(r)
      BY <2>2, <3>2, <3>4 DEF RejectAtGate, Policy, Hold, dispatchApproved, Reject, Sound
    <3>5. CASE Call(r)
      <4>1. CASE Reject(r, "blocked")
        BY <2>2, <3>2, <4>1 DEF Reject
      <4>2. ASSUME NEW b \in BOOLEAN, Send(r, b) PROVE UNCHANGED faults
        BY <4>2 DEF Send, AfterSend, Sound
      <4> QED BY <2>2, <3>5, <4>1, <4>2, CallSends
    <3>6. CASE Answer(r) \/ Hooks(r) \/ updateRunStep(r)
      BY <2>2, <3>2, <3>6 DEF Answer, Hooks, updateRunStep, Reject, Sound
    <3> QED BY <2>4, <3>1, <3>3, <3>4, <3>5, <3>6 DEF Executes, runStep
  <2> QED BY <2>1, <2>3, <2>4 DEF Next
<1>2. ASSUME UNCHANGED rows PROVE TableTyped'
  BY <1>1, <1>2 DEF TypeOK, TableTyped
<1>3. ASSUME NEW r \in Runs, runStep(r) PROVE TableTyped'
  <2>1. CASE resolveConnectorByID(r)
    <3>1. \/ UNCHANGED rows
          \/ \E x \in {"none", "missing"} : rows' = [rows EXCEPT ![r] = Append(@, x)]
      BY <2>1 DEF resolveConnectorByID
    <3> QED BY <1>1, <1>2, <3>1, RowsSet DEF TableTyped
  <2>2. CASE resolveParams(r)
    <3>1. \E x \in {"none", "missing"} : rows' = [rows EXCEPT ![r] = Append(@, x)]
      BY <2>2 DEF resolveParams, insertRunStep
    <3> QED BY <1>1, <3>1, RowsSet DEF TableTyped
  <2>3. CASE updateRunStep(r)
    <3>1. \/ UNCHANGED rows
          \/ rows' = [rows EXCEPT ![r][K(r)] = IF @ = "none" THEN run[r].out ELSE @]
      BY <2>3 DEF updateRunStep
    <3> QED BY <1>1, <1>2, <3>1, RowsSet DEF TableTyped
  <2>4. CASE ~(resolveConnectorByID(r) \/ resolveParams(r) \/ updateRunStep(r))
    <3>1. UNCHANGED rows
      BY <1>3, <2>4 DEF runStep, RejectAtGate, resolveDynamicTool, resolveAIProviderTool, Policy, Hold,
                       dispatchApproved, Call, Answer, Hooks, records
    <3> QED BY <1>2, <3>1
  <2> QED BY <2>1, <2>2, <2>3, <2>4
<1>4. CASE ~(\E r \in Runs : runStep(r))
  <2>1. UNCHANGED rows
    BY <1>4 DEF Next, vars, records, Operator, Handler, CreateTool, UpdateTool, DeleteTool, CreateWorkflow,
           UpdateWorkflow, DeleteWorkflow, PutWorkflowStepParams, WriteWorkflow, Kept, Crash, HandleRun,
           Disconnect, Executes, Finish
  <2> QED BY <1>2, <2>1
<1> QED BY <1>3, <1>4

-----------------------------------------------------------------------------
(* What is sent is governed by the rules of its connector.                 *)

RunsGoverned == \A r \in Runs : GovernInv(run[r])

\* A row that was found before the last write is not one that is written.
LEMMA GovernKept ==
    ASSUME TypeOK, ToolsInv, [Next]_vars, NEW m \in InMemory, GovernInv(m) PROVE GovernInv(m)'
<1>1. SUFFICES ASSUME m.at \in Dispatching \ {"gates"}, m.began # NoRow
               PROVE  /\ m.began.rev <= edits' /\ m.began.name = m.name
                      /\ m.began.masks => m.began.kind = "ai_provider"
                      /\ m.at # "provider" /\ m.began.masks /\ m.began \in tools' => m.tool = m.began
  BY Zenon DEF GovernInv
<1>2. /\ m.began.rev <= edits /\ m.began.name = m.name
      /\ m.began.masks => m.began.kind = "ai_provider"
      /\ m.at # "provider" /\ m.began.masks /\ m.began \in tools => m.tool = m.began
  BY <1>1, Zenon DEF GovernInv
<1>3. m.began.rev \in Nat /\ edits \in Nat /\ edits' \in Nat /\ edits <= edits'
  <2>1. m.began \in Row
    BY <1>1, MemoryFields
  <2> QED BY <2>1, ToolsChange, WorkflowRunAssumption DEF Row, TypeOK
<1>4. m.began.rev <= edits'
  BY <1>2, <1>3
<1>5. m.began \in tools' => m.began \in tools
  <2>1. CASE tools' \subseteq tools
    BY <2>1
  <2>2. ASSUME NEW S, NEW w, ToolWritten(S, w), edits < edits' PROVE m.began \in tools' => m.began \in tools
    <3>1. w.rev = edits' /\ tools' = (tools \ S) \cup {w}
      BY <2>2, Zenon DEF ToolWritten
    <3>2. m.began # w
      BY <1>2, <1>3, <2>2, <3>1
    <3> QED BY <3>1, <3>2
  <2> QED BY <2>1, <2>2, ToolsChange
<1> QED BY <1>2, <1>4, <1>5, Zenon

LEMMA GovernSettled ==
    ASSUME NEW d, d.at \notin Dispatching \ {"gates"} PROVE GovernInv(d)'
BY DEF GovernInv

\* From one place of a dispatch to the next.
LEMMA GovernMoved ==
    ASSUME NEW m, NEW d, GovernInv(m), m.at \in Dispatching \ {"gates", "provider"}, UNCHANGED <<tools, edits>>,
           d.name = m.name, d.began = m.began, d.tool = m.tool
    PROVE  GovernInv(d)'
<1>1. /\ m.began # NoRow =>
           /\ m.began.rev <= edits /\ m.began.name = m.name
           /\ m.began.masks => m.began.kind = "ai_provider"
           /\ m.began.masks /\ m.began \in tools => m.tool = m.began
  <2>1. m.at \in Dispatching \ {"gates"} /\ m.at # "provider"
    OBVIOUS
  <2> QED BY <2>1, Zenon DEF GovernInv
<1>2. d.began # NoRow =>
           /\ d.began.rev <= edits' /\ d.began.name = d.name
           /\ d.began.masks => d.began.kind = "ai_provider"
           /\ d.began.masks /\ d.began \in tools' => d.tool = d.began
  BY <1>1
<1> QED BY <1>2, Zenon DEF GovernInv

\* The step r is over for the dispatcher, or moves on.
LEMMA GovernEnd ==
    ASSUME TypeOK, NEW r \in Runs, NEW o \in Outcomes, NEW e \in {"none", "success", "failure"},
           SetsEnd(r, "hooks", o, e)
    PROVE  \E d : run' = [run EXCEPT ![r] = d] /\ GovernInv(d)'
<1>1. "hooks" \in Waiting \cup Working \cup Over /\ "hooks" \notin Dispatching
  BY DEF Working, Dispatching
<1>2. PICK d \in InMemory : run' = [run EXCEPT ![r] = d] /\ d.at = "hooks"
  BY <1>1, EndFacts
<1> QED BY <1>1, <1>2, GovernSettled

LEMMA GovernReject ==
    ASSUME TypeOK, NEW r \in Runs, NEW o \in Outcomes, Reject(r, o)
    PROVE  \E d : run' = [run EXCEPT ![r] = d] /\ GovernInv(d)'
<1>1. SetsEnd(r, "hooks", o, "failure") /\ "failure" \in {"none", "success", "failure"}
  BY DEF Reject, SetsEnd
<1> QED BY <1>1, GovernEnd

LEMMA GovernTo ==
    ASSUME TypeOK, RunsGoverned, NEW r \in Runs, NEW a \in Waiting \cup Working \cup Over, To(r, a),
           UNCHANGED <<tools, edits>>,
           a \notin Dispatching \ {"gates"} \/ run[r].at \in Dispatching \ {"gates", "provider"}
    PROVE  \E d : run' = [run EXCEPT ![r] = d] /\ GovernInv(d)'
<1>1. PICK m : m = run[r]
  OBVIOUS
<1>2. GovernInv(m) /\ SetsAt(r, a)
  BY <1>1 DEF RunsGoverned, SetsAt, To
<1>3. PICK d \in InMemory :
         /\ run' = [run EXCEPT ![r] = d] /\ d.at = a /\ d.name = m.name /\ d.began = m.began /\ d.tool = m.tool
  BY <1>1, <1>2, ToFacts
<1>4. CASE a \notin Dispatching \ {"gates"}
  BY <1>3, <1>4, GovernSettled
<1>5. CASE run[r].at \in Dispatching \ {"gates", "provider"}
  BY <1>1, <1>2, <1>3, <1>5, GovernMoved
<1> QED BY <1>4, <1>5

LEMMA GovernOut ==
    ASSUME TypeOK, NEW r \in Runs, NEW a \in {"record", "hooks"}, SetsOut(r, a, "blocked")
    PROVE  \E d : run' = [run EXCEPT ![r] = d] /\ GovernInv(d)'
<1>1. a \in Waiting \cup Working \cup Over /\ a \notin Dispatching /\ "blocked" \in Outcomes
  BY DEF Working, Dispatching, Outcomes
<1>2. PICK d \in InMemory : run' = [run EXCEPT ![r] = d] /\ d.at = a
  BY <1>1, OutFacts
<1> QED BY <1>1, <1>2, GovernSettled

\* The first lookup.
LEMMA GovernDynamic ==
    ASSUME TypeOK, ToolsInv, RunsGoverned, NEW r \in Runs, resolveDynamicTool(r)
    PROVE  \E d : run' = [run EXCEPT ![r] = d] /\ GovernInv(d)'
<1>1. PICK m : m = run[r]
  OBVIOUS
<1>2. UNCHANGED <<tools, edits>>
  BY DEF resolveDynamicTool, admin
<1>3. PICK row \in Row \cup {NoRow} : row = Named(m.name)
  BY NamedFacts
<1>4. row # NoRow =>
        row \in tools /\ row.name = m.name /\ row.rev <= edits /\ (row.masks => row.kind = "ai_provider")
  BY <1>3, NamedFacts DEF ToolsInv
<1>5. CASE SetsFound(r, "policy", row, row)
  <2>1. "policy" \in Waiting \cup Working \cup Over
    BY DEF Working, Dispatching
  <2>2. PICK d \in InMemory :
           run' = [run EXCEPT ![r] = d] /\ d.name = m.name /\ d.began = row /\ d.tool = row
    BY <1>1, <1>5, <2>1, FoundFacts
  <2>3. d.began # NoRow =>
           /\ d.began.rev <= edits' /\ d.began.name = d.name
           /\ d.began.masks => d.began.kind = "ai_provider"
           /\ d.tool = d.began
    BY <1>2, <1>4, <2>2
  <2>4. GovernInv(d)'
    BY <2>3, Zenon DEF GovernInv
  <2> QED BY <2>2, <2>4
<1>6. CASE SetsBegan(r, "provider", row)
  <2>1. "provider" \in Waiting \cup Working \cup Over
    BY DEF Working, Dispatching
  <2>2. PICK d \in InMemory :
           run' = [run EXCEPT ![r] = d] /\ d.at = "provider" /\ d.name = m.name /\ d.began = row
    BY <1>1, <1>6, <2>1, BeganFacts
  <2>3. /\ d.at = "provider"
        /\ d.began # NoRow =>
             /\ d.began.rev <= edits' /\ d.began.name = d.name
             /\ d.began.masks => d.began.kind = "ai_provider"
    BY <1>2, <1>4, <2>2
  <2>4. GovernInv(d)'
    BY <2>3, Zenon DEF GovernInv
  <2> QED BY <2>2, <2>4
<1> QED BY <1>1, <1>3, <1>5, <1>6 DEF resolveDynamicTool, SetsFound, SetsBegan

\* The second: it finds the connector that the first one found, if it is still as it was.
LEMMA GovernProvider ==
    ASSUME TypeOK, ToolsInv, RunsGoverned, NEW r \in Runs, resolveAIProviderTool(r)
    PROVE  \E d : run' = [run EXCEPT ![r] = d] /\ GovernInv(d)'
<1>1. PICK m : m = run[r] /\ m.at = "provider"
  BY DEF resolveAIProviderTool
<1>2. UNCHANGED <<tools, edits>> /\ GovernInv(m)
  BY <1>1 DEF resolveAIProviderTool, admin, RunsGoverned
<1>3. PICK row \in Row \cup {NoRow} : row = Named(m.name)
  BY NamedFacts
<1>4. ASSUME NEW t \in Row \cup {NoRow}, t = IF row.kind = "ai_provider" THEN row ELSE NoRow,
             SetsTool(r, "policy", t)
      PROVE  \E d : run' = [run EXCEPT ![r] = d] /\ GovernInv(d)'
  <2>1. "policy" \in Waiting \cup Working \cup Over
    BY DEF Working, Dispatching
  <2>2. PICK d \in InMemory :
           run' = [run EXCEPT ![r] = d] /\ d.name = m.name /\ d.began = m.began /\ d.tool = t
    BY <1>1, <1>4, <2>1, ToolFacts
  <2>3. m.began # NoRow =>
           /\ m.began.rev <= edits /\ m.began.name = m.name
           /\ m.began.masks => m.began.kind = "ai_provider"
    <3>1. m.at \in Dispatching \ {"gates"}
      BY <1>1 DEF Dispatching
    <3> QED BY <1>2, <3>1, Zenon DEF GovernInv
  <2>4. m.began # NoRow /\ m.began \in tools => row = m.began
    BY <1>3, <2>3, NamedFacts
  <2>5. m.began # NoRow /\ m.began.kind = "ai_provider" /\ m.began \in tools => t = m.began
    BY <1>4, <2>4
  <2>6. m.began # NoRow =>
           /\ m.began.rev <= edits' /\ m.began.name = m.name
           /\ m.began.masks => m.began.kind = "ai_provider"
           /\ m.began.masks /\ m.began \in tools' => t = m.began
    <3>1. tools' = tools /\ edits' = edits
      BY <1>2
    <3> QED BY <2>3, <2>5, <3>1, Zenon
  <2>7. d.began # NoRow =>
           /\ d.began.rev <= edits' /\ d.began.name = d.name
           /\ d.began.masks => d.began.kind = "ai_provider"
           /\ d.began.masks /\ d.began \in tools' => d.tool = d.began
    BY <2>2, <2>6
  <2>8. GovernInv(d)'
    BY <2>7, Zenon DEF GovernInv
  <2> QED BY <2>2, <2>8
<1>5. CASE ResolveError(r)
  <2>1. SetsEnd(r, "hooks", "blocked", "failure") /\ "blocked" \in Outcomes
        /\ "failure" \in {"none", "success", "failure"}
    BY <1>5 DEF ResolveError, SetsEnd, Outcomes
  <2> QED BY <2>1, GovernEnd
<1>6. PICK t \in Row \cup {NoRow} : t = IF row.kind = "ai_provider" THEN row ELSE NoRow
  OBVIOUS
<1>7. ResolveError(r) \/ SetsTool(r, "policy", t)
  BY <1>1, <1>3, <1>6 DEF resolveAIProviderTool, SetsTool
<1> QED BY <1>4, <1>5, <1>6, <1>7

LEMMA GovernAction ==
    ASSUME TypeOK, RunsInv, ToolsInv, RunsGoverned, NEW r \in Runs, HandleRun(r) \/ Executes(r)
    PROVE  \E d : run' = [run EXCEPT ![r] = d] /\ GovernInv(d)'
<1>0. UNCHANGED <<tools, edits>>
  BY DEF admin, HandleRun, Executes, Finish,
       runStep, resolveConnectorByID, resolveParams, RejectAtGate, resolveDynamicTool, resolveAIProviderTool,
       Policy, Hold, dispatchApproved, Call, Answer, Hooks, updateRunStep
<1>1. /\ "denied" \in Outcomes /\ "blocked" \in Outcomes /\ "allowed" \in Outcomes
      /\ "success" \in {"none", "success", "failure"}
  BY DEF Outcomes
<1>2. /\ {"refused", "ended", "unrecorded", "gates", "answer", "record", "hold", "resume", "call"}
           \subseteq Waiting \cup Working \cup Over
      /\ {"refused", "ended", "unrecorded", "gates", "answer", "record"} \cap (Dispatching \ {"gates"}) = {}
      /\ {"policy", "hold", "resume"} \subseteq Dispatching \ {"gates", "provider"}
  BY DEF Waiting, Working, Over, Dispatching
<1>3. CASE HandleRun(r)
  <2>1. CASE SetsDef(r, "step", steps)
    <3>1. "step" \in Waiting \cup Working \cup Over /\ steps \in Seq(Step)
      BY DEF Working, TypeOK
    <3>2. PICK w \in Seq(Step) : w = steps
      BY <3>1
    <3>3. PICK d \in InMemory : run' = [run EXCEPT ![r] = d] /\ d.at = "step"
      BY <2>1, <3>1, <3>2, StartFacts
    <3>4. d.at \notin Dispatching
      BY <3>3 DEF Dispatching
    <3> QED BY <3>3, <3>4, GovernSettled
  <2>2. CASE To(r, "refused")
    BY <1>0, <1>2, <2>2, GovernTo
  <2> QED BY <1>3, <2>1, <2>2 DEF HandleRun, SetsDef
<1>4. CASE Finish(r)
  <2>1. To(r, "ended") \/ To(r, "unrecorded")
    BY <1>4 DEF Finish
  <2> QED BY <1>0, <1>2, <2>1, GovernTo
<1>5. CASE resolveConnectorByID(r)
  <2>1. ASSUME NEW t \in tools, SetsName(r, "params", t.name)
        PROVE  \E d : run' = [run EXCEPT ![r] = d] /\ GovernInv(d)'
    <3>1. "params" \in Waiting \cup Working \cup Over /\ t.name \in Names
      BY DEF Working, TypeOK, Row
    <3>2. PICK d \in InMemory : run' = [run EXCEPT ![r] = d] /\ d.at = "params"
      BY <2>1, <3>1, NameFacts
    <3>3. d.at \notin Dispatching
      BY <3>2 DEF Dispatching
    <3> QED BY <3>2, <3>3, GovernSettled
  <2>2. CASE SetsOut(r, "record", "blocked")
    BY <2>2, GovernOut
  <2> QED BY <1>5, <2>1, <2>2 DEF resolveConnectorByID, SetsName, SetsOut
<1>6. CASE resolveParams(r)
  <2>1. CASE To(r, "gates")
    BY <1>0, <1>2, <2>1, GovernTo
  <2>2. CASE SetsValue(r, "gates", <<r, extracted(r)>>)
    <3>1. PICK m : m = run[r] /\ m.at = "params"
      BY <1>6 DEF resolveParams
    <3>2. m \in InMemory /\ RunInv(r, m) /\ DOMAIN m.def \subseteq Positions /\ Current(r) = Now(m)
      BY <3>1, Place, RunMemory DEF RunsInv
    <3>3. Now(m).from \in 0..MaxSteps
      BY <3>1, <3>2, CurrentStep DEF RunInv, Working
    <3>4. PICK v \in Runs \X (0..MaxSteps) : v = <<r, extracted(r)>>
      BY <3>2, <3>3 DEF extracted
    <3>5. PICK d \in InMemory : run' = [run EXCEPT ![r] = d] /\ d.at = "gates"
      BY <1>2, <2>2, <3>4, ValueFacts
    <3> QED BY <3>5, GovernSettled
  <2>3. CASE SetsOut(r, "record", "blocked")
    BY <2>3, GovernOut
  <2> QED BY <1>6, <2>1, <2>2, <2>3 DEF resolveParams, SetsValue, SetsOut
<1>7. CASE RejectAtGate(r)
  BY <1>1, <1>7, GovernReject DEF RejectAtGate
<1>8. CASE resolveDynamicTool(r) \/ resolveAIProviderTool(r)
  BY <1>8, GovernDynamic, GovernProvider
<1>9. CASE Policy(r) \/ Hold(r) \/ dispatchApproved(r)
  <2>1. run[r].at \in Dispatching \ {"gates", "provider"}
    BY <1>2, <1>9 DEF Policy, Hold, dispatchApproved
  <2>2. \/ Reject(r, "denied") \/ Reject(r, "blocked")
        \/ To(r, "call") \/ To(r, "hold") \/ To(r, "resume")
        \/ SetsOut(r, "hooks", "blocked")
    BY <1>9 DEF Policy, Hold, dispatchApproved, SetsOut
  <2>3. ASSUME NEW a \in {"call", "hold", "resume"}, To(r, a)
        PROVE  \E d : run' = [run EXCEPT ![r] = d] /\ GovernInv(d)'
    BY <1>0, <1>2, <2>1, <2>3, GovernTo
  <2> QED BY <1>1, <2>2, <2>3, GovernReject, GovernOut
<1>10. CASE Call(r)
  <2>1. ASSUME NEW b \in BOOLEAN, Send(r, b) PROVE To(r, "answer")
    BY <2>1 DEF Send
  <2>2. To(r, "answer") \/ Reject(r, "blocked")
    BY <1>10, <2>1, CallSends
  <2> QED BY <1>0, <1>1, <1>2, <2>2, GovernReject, GovernTo
<1>11. CASE Answer(r)
  <2>1. SetsEnd(r, "hooks", "allowed", "success") \/ Reject(r, "blocked")
    BY <1>11 DEF Answer, SetsEnd
  <2> QED BY <1>1, <2>1, GovernReject, GovernEnd
<1>12. CASE Hooks(r)
  BY <1>0, <1>2, <1>12, GovernTo DEF Hooks
<1>13. CASE updateRunStep(r)
  <2>1. PICK a \in {"step", "finish"} : a = IF Goes(r) /\ K(r) < Len(run[r].def) THEN "step" ELSE "finish"
    OBVIOUS
  <2>2. PICK w, s : w = run[r].def /\ s = Append(run[r].done, run[r].out)
    OBVIOUS
  <2>3. PICK d : d = FreshAt(a, w, s)
    OBVIOUS
  <2>4. run' = [run EXCEPT ![r] = d]
    BY <1>13, <2>1, <2>2, <2>3 DEF updateRunStep, FreshAt
  <2>5. d.at = a
    BY <2>3 DEF Idle, FreshAt
  <2>6. d.at \notin Dispatching
    BY <2>5 DEF Dispatching
  <2> QED BY <2>4, <2>6, GovernSettled
<1> QED BY <1>3, <1>4, <1>5, <1>6, <1>7, <1>8, <1>9, <1>10, <1>11, <1>12, <1>13 DEF Executes, runStep

LEMMA GovernOf ==
    ASSUME NEW r, NEW d, run'[r] = d, GovernInv(d)' PROVE GovernInv(run[r])'
BY DEF GovernInv

LEMMA GovernStep ==
    ASSUME TypeOK, RunsInv, ToolsInv, RunsGoverned, [Next]_vars PROVE RunsGoverned'
<1>1. ASSUME NEW q \in Runs, run'[q] = run[q] PROVE GovernInv(run[q])'
  <2>1. PICK m \in InMemory : m = run[q] /\ run'[q] = m
    BY <1>1, RunMemory
  <2>2. GovernInv(m)'
    BY <2>1, GovernKept DEF RunsGoverned
  <2> QED BY <2>1, <2>2, GovernOf
<1>2. CASE UNCHANGED run
  BY <1>1, <1>2 DEF RunsGoverned
<1>3. CASE Crash
  <2>1. ASSUME NEW q \in Runs PROVE GovernInv(run[q])'
    <3>1. CASE run'[q] = run[q]
      BY <1>1, <3>1
    <3>2. CASE run'[q] # run[q]
      <4>1. PICK d : d = run'[q]
        OBVIOUS
      <4>2. d = [Idle EXCEPT !.at = "dead"]
        BY <1>3, <3>2, <4>1 DEF Crash
      <4>3. d.at = "dead" /\ d.at \notin Dispatching
        BY <4>2 DEF Idle, Dispatching
      <4> QED BY <4>1, <4>3, GovernSettled, GovernOf
    <3> QED BY <3>1, <3>2
  <2> QED BY <2>1 DEF RunsGoverned
<1>4. ASSUME NEW r \in Runs, HandleRun(r) \/ Executes(r) PROVE RunsGoverned'
  <2>1. PICK d : run' = [run EXCEPT ![r] = d] /\ GovernInv(d)'
    BY <1>4, GovernAction
  <2>2. run'[r] = d /\ \A q \in Runs : q # r => run'[q] = run[q]
    BY <2>1, RunSet
  <2>3. GovernInv(run[r])'
    BY <2>1, <2>2, GovernOf
  <2>4. \A q \in Runs : q # r => GovernInv(run[q])'
    BY <1>1, <2>2
  <2> QED BY <2>3, <2>4 DEF RunsGoverned
<1>5. CASE Operator \/ Handler \/ UNCHANGED vars \/ \E r \in Runs : Disconnect(r)
  <2>1. UNCHANGED run
    BY <1>5 DEF Operator, Handler, CreateTool, UpdateTool, DeleteTool, CreateWorkflow, UpdateWorkflow,
               DeleteWorkflow, PutWorkflowStepParams, WriteWorkflow, Kept, Disconnect, vars
  <2> QED BY <1>2, <2>1
<1> QED BY <1>3, <1>4, <1>5 DEF Next

-----------------------------------------------------------------------------
(* The calls.                                                              *)

\* A step adds to the calls one that was extracted and is governed as it should, ...
Adds(c) ==
    /\ calls' = calls \cup {c}
    /\ c.from # 0 =>
         /\ c.value = <<c.run, c.from>>
         /\ \E e \in calls : e.run = c.run /\ e.id = c.from /\ e.step < c.step /\ e.answered
    /\ c.governed => c.masked
\* ... or marks in them those that are answered.
Marks ==
    /\ \A c \in calls : \E e \in calls' : SameCall(c, e) /\ (c.answered => e.answered)
    /\ \A e \in calls' : \E c \in calls : SameCall(c, e)

LEMMA SendAdds ==
    ASSUME TypeOK, RunsInv, ToolsInv, RunsGoverned, NEW r \in Runs, NEW b \in BOOLEAN, run[r].at = "call",
           Send(r, b), run[r].tool.kind = "ai_provider" => (b <=> run[r].tool.masks)
    PROVE  \E c : Adds(c)
<1>1. PICK m : m = run[r] /\ m.at = "call"
  OBVIOUS
<1>2. m \in InMemory /\ RunInv(r, m) /\ DOMAIN m.def \subseteq Positions /\ GovernInv(m)
  BY <1>1, RunMemory DEF RunsInv, RunsGoverned
<1>3. PICK c \in Sent :
        /\ calls' = calls \cup {c} /\ c.run = r /\ c.step = At(m) /\ c.from = Now(m).from /\ c.value = m.value
        /\ (c.masked <=> b) /\ (c.governed <=> (m.began.masks /\ m.began = Named(m.name)))
  BY <1>1, SendFacts
<1>4. ASSUME c.from # 0
      PROVE  /\ c.value = <<c.run, c.from>>
             /\ \E e \in calls : e.run = c.run /\ e.id = c.from /\ e.step < c.step /\ e.answered
  <2>1. m.value = <<r, Now(m).from>> /\ \E k \in DOMAIN m.done : AnsweredAs(r, k, Now(m).from)
    BY <1>1, <1>2, <1>3, <1>4 DEF RunInv, ExtractInv, Dispatching
  <2>2. PICK k \in DOMAIN m.done : AnsweredAs(r, k, Now(m).from)
    BY <2>1
  <2>3. k < At(m)
    BY <1>2, MemoryFields DEF At
  <2> QED BY <1>3, <2>1, <2>2, <2>3 DEF AnsweredAs
<1>5. ASSUME c.governed PROVE c.masked
  <2>1. m.began.masks /\ m.began = Named(m.name)
    BY <1>3, <1>5, Zenon
  <2>2. m.began # NoRow
    <3>1. ~NoRow.masks
      BY DEF NoRow
    <3> QED BY <2>1, <3>1
  <2>3. m.began \in tools
    BY <2>1, <2>2, NamedFacts
  <2>4. m.at \in Dispatching \ {"gates"} /\ m.at # "provider"
    BY <1>1 DEF Dispatching
  <2>5. m.tool = m.began /\ m.began.kind = "ai_provider"
    BY <1>2, <2>1, <2>2, <2>3, <2>4, Zenon DEF GovernInv
  <2>6. run[r].tool.kind = "ai_provider" /\ run[r].tool.masks
    BY <1>1, <2>1, <2>5, Zenon
  <2> QED BY <1>3, <2>6, Zenon
<1> QED BY <1>3, <1>4, <1>5, Zenon DEF Adds

LEMMA AnswerMarks ==
    ASSUME TypeOK, RunsInv, NEW r \in Runs, Answer(r) PROVE UNCHANGED calls \/ Marks
<1>1. PICK m : m = run[r] /\ m.at = "answer"
  BY DEF Answer
<1>2. m \in InMemory /\ DOMAIN m.def \subseteq Positions /\ RunInv(r, m) /\ K(r) = At(m) /\ m.at \in Working
  BY <1>1, RunMemory, Place DEF RunsInv, Working
<1>3. PICK n \in Positions : n = K(r)
  BY <1>2, CurrentStep DEF RunInv
<1>4. \/ UNCHANGED calls
      \/ calls' = {IF c.run = r /\ c.step = n THEN [c EXCEPT !.answered = TRUE] ELSE c : c \in calls}
  BY <1>3, Zenon DEF Answer
<1>5. ASSUME calls' = {IF c.run = r /\ c.step = n THEN [c EXCEPT !.answered = TRUE] ELSE c : c \in calls}
      PROVE  Marks
  <2>1. /\ \A c \in calls : \E e \in calls' :
             SameCall(c, e) /\ (c.answered \/ (c.run = r /\ c.step = n) => e.answered)
        /\ \A e \in calls' : \E c \in calls :
             SameCall(c, e) /\ (e.answered => c.answered \/ (c.run = r /\ c.step = n))
    BY <1>5, AnswerCalls
  <2> QED BY <2>1, Zenon DEF Marks
<1> QED BY <1>4, <1>5

LEMMA CallsChange ==
    ASSUME TypeOK, RunsInv, ToolsInv, RunsGoverned, [Next]_vars
    PROVE  UNCHANGED calls \/ (\E c : Adds(c)) \/ Marks
<1>1. ASSUME NEW r \in Runs, Call(r) PROVE UNCHANGED calls \/ \E c : Adds(c)
  BY <1>1, CallSends, SendAdds DEF Call
<1>2. CASE \E r \in Runs : Call(r) \/ Answer(r)
  BY <1>1, <1>2, AnswerMarks
<1>3. CASE ~\E r \in Runs : Call(r) \/ Answer(r)
  <2>1. UNCHANGED calls
    BY <1>3 DEF Next, vars, records, Operator, Handler, CreateTool, UpdateTool, DeleteTool, CreateWorkflow,
           UpdateWorkflow, DeleteWorkflow, PutWorkflowStepParams, WriteWorkflow, Kept, Crash, HandleRun,
           Disconnect, Executes, Finish, runStep, resolveConnectorByID, resolveParams, RejectAtGate,
           resolveDynamicTool, resolveAIProviderTool, Policy, Hold, dispatchApproved, Hooks, updateRunStep
  <2> QED BY <2>1
<1> QED BY <1>2, <1>3

LEMMA ExtractedStep ==
    ASSUME ExtractedFromNamedStep, UNCHANGED calls \/ (\E c : Adds(c)) \/ Marks PROVE ExtractedFromNamedStep'
<1>1. CASE UNCHANGED calls
  BY <1>1 DEF ExtractedFromNamedStep
<1>2. ASSUME NEW c, Adds(c) PROVE ExtractedFromNamedStep'
  BY <1>2 DEF Adds, ExtractedFromNamedStep
<1>3. CASE Marks
  <2>1. SUFFICES ASSUME NEW e \in calls', e.from # 0
                 PROVE  /\ e.value = <<e.run, e.from>>
                        /\ \E d \in calls' : d.run = e.run /\ d.id = e.from /\ d.step < e.step /\ d.answered
    BY DEF ExtractedFromNamedStep
  <2>2. PICK c \in calls : SameCall(c, e)
    BY <1>3 DEF Marks
  <2>3. /\ c.value = <<c.run, c.from>>
        /\ \E d \in calls : d.run = c.run /\ d.id = c.from /\ d.step < c.step /\ d.answered
    BY <2>1, <2>2 DEF ExtractedFromNamedStep, SameCall
  <2>4. PICK d \in calls : d.run = c.run /\ d.id = c.from /\ d.step < c.step /\ d.answered
    BY <2>3
  <2>5. PICK x \in calls' : SameCall(d, x) /\ x.answered
    BY <1>3, <2>4, Zenon DEF Marks
  <2> QED BY <2>2, <2>3, <2>4, <2>5 DEF SameCall
<1> QED BY <1>1, <1>2, <1>3

LEMMA GovernedStep ==
    ASSUME ProviderGoverned, UNCHANGED calls \/ (\E c : Adds(c)) \/ Marks PROVE ProviderGoverned'
<1>1. CASE UNCHANGED calls
  BY <1>1 DEF ProviderGoverned
<1>2. ASSUME NEW c, Adds(c) PROVE ProviderGoverned'
  <2>1. calls' = calls \cup {c} /\ (c.governed => c.masked)
    BY <1>2, Zenon DEF Adds
  <2> QED BY <2>1, Zenon DEF ProviderGoverned
<1>3. CASE Marks
  BY <1>3, Zenon DEF Marks, SameCall, ProviderGoverned
<1> QED BY <1>1, <1>2, <1>3

-----------------------------------------------------------------------------
(* The invariant, and what follows from it.                                *)

LEMMA InitInv ==
    ASSUME Init PROVE WorkflowInv
<1>1. TypeOK
  <2>1. tools \subseteq Row /\ edits \in 0..MaxEdits /\ faults \in 0..MaxFaults
    BY WorkflowRunAssumption DEF Init
  <2>2. steps \in Seq(Step) /\ DOMAIN steps \subseteq Positions
    BY WorkflowRunAssumption DEF Init, Positions
  <2>3. params \in [1..MaxSteps -> {0, 1}] /\ updates = {}
    BY DEF Init
  <2>4. run \in [Runs -> InMemory] /\ \A r \in Runs : DOMAIN run[r].def \subseteq Positions
    BY IdleMemory DEF Init
  <2>5. status \in [Runs -> {"none", "running", "completed", "denied", "failed"}]
    BY DEF Init
  <2>6. rows \in [Runs -> Seq(Outcomes \cup {"none", "missing"})]
    BY DEF Init
  <2>7. audit \in [Runs -> [Positions -> Seq(Decisions)]]
    BY DEF Init
  <2>8. usage \in [Runs -> [Positions -> Nat]] /\ episodes \in [Runs -> [Positions -> {"none", "success", "failure"}]]
    BY DEF Init
  <2>9. calls = {} /\ lost = {}
    BY DEF Init
  <2> QED BY <2>1, <2>2, <2>3, <2>4, <2>5, <2>6, <2>7, <2>8, <2>9 DEF TypeOK
<1>2. ToolsInv
  BY WorkflowRunAssumption DEF Init, ToolsInv
<1>3. ExtractedFromNamedStep /\ ProviderGoverned
  BY DEF Init, ExtractedFromNamedStep, ProviderGoverned
<1>4. ASSUME NEW r \in Runs PROVE RunInv(r, run[r]) /\ GovernInv(run[r])
  <2>1. /\ run[r].at = "idle" /\ run[r].def = <<>> /\ run[r].done = <<>> /\ run[r].ep = "none"
        /\ status[r] = "none" /\ calls = {} /\ DOMAIN run[r].done = {}
        /\ \A k \in Positions : audit[r][k] = <<>> /\ usage[r][k] = 0 /\ episodes[r][k] = "none"
    BY IdleMemory DEF Init
  <2>2. LoopInv(r, run[r])
    BY <2>1 DEF LoopInv, Working, Dispatching, Over
  <2>3. CallsInv(r, run[r])
    BY <2>1 DEF CallsInv
  <2>4. ExtractInv(r, run[r]) /\ GovernInv(run[r])
    BY <2>1 DEF ExtractInv, GovernInv, Dispatching
  <2>5. RecordInv(r, run[r])
    <3>1. \A k \in Positions : Written(r, k) = {}
      BY <2>1 DEF Written
    <3> QED BY <2>1, <3>1 DEF RecordInv
  <2> QED BY <2>2, <2>3, <2>4, <2>5 DEF RunInv
<1> QED BY <1>1, <1>2, <1>3, <1>4 DEF WorkflowInv

LEMMA NextInv ==
    ASSUME WorkflowInv, [Next]_vars PROVE WorkflowInv'
<1>1. TypeOK /\ ToolsInv /\ RunsInv /\ RunsGoverned /\ ExtractedFromNamedStep /\ ProviderGoverned
  BY DEF WorkflowInv, RunsInv, RunsGoverned
<1>2. RunsInv' /\ RunTyped'
  BY <1>1, RunsStep
<1>3. ToolsInv' /\ tools' \subseteq Row /\ edits' \in 0..MaxEdits
  BY <1>1, ToolsStep, ToolsChange
<1>4. WorkflowTyped' /\ TableTyped'
  BY <1>1, WorkflowStep, TableStep
<1>5. RunsGoverned'
  BY <1>1, GovernStep
<1>6. ExtractedFromNamedStep' /\ ProviderGoverned'
  BY <1>1, CallsChange, ExtractedStep, GovernedStep
<1>7. TypeOK'
  BY <1>2, <1>3, <1>4 DEF TypeOK, RunTyped, WorkflowTyped, TableTyped, Saved
<1> QED BY <1>2, <1>3, <1>5, <1>6, <1>7 DEF WorkflowInv, RunsInv, RunsGoverned

\* What is in memory of a run, on record of its steps and at the services it
\* called agrees at every moment, whatever operators save and whatever fails.
THEOREM RunsSound == Spec => []WorkflowInv
<1>1. Init => WorkflowInv
  BY InitInv
<1>2. WorkflowInv /\ [Next]_vars => WorkflowInv'
  BY NextInv
<1> QED BY <1>1, <1>2, PTL DEF Spec

\* The status that Finish writes is what happened: "completed" only of a run
\* whose every step was answered, "denied" or "failed" only of one with a step
\* that was not, and nothing is called after such a step.
THEOREM StatusIsTruthful == Spec => []RunStatusTruthful
<1>1. WorkflowInv => RunStatusTruthful
  <2>1. SUFFICES ASSUME WorkflowInv, NEW r \in Runs
                 PROVE  /\ status[r] = "completed" => \A k \in DOMAIN run[r].def : Answered(r, k)
                        /\ status[r] \in {"denied", "failed"} => \E k \in DOMAIN run[r].def : ~Answered(r, k)
                        /\ \A c \in calls : c.run = r => \A k \in 1..(c.step - 1) : Answered(r, k)
    BY DEF RunStatusTruthful
  <2>2. PICK m \in InMemory : m = run[r] /\ LoopInv(r, m) /\ CallsInv(r, m)
    BY <2>1, RunMemory DEF WorkflowInv, RunInv
  <2>3. /\ Len(m.def) \in Nat /\ DOMAIN m.def = 1..Len(m.def)
        /\ Len(m.done) \in Nat /\ DOMAIN m.done = 1..Len(m.done)
    BY MemoryFields
  <2>4. \A k \in DOMAIN m.done :
          /\ m.done[k] = "allowed" => Answered(r, k)
          /\ Answered(r, k) => m.done[k] = "allowed"
    BY <2>2 DEF CallsInv, AnsweredAs, Answered
  <2>5. status[r] \in {"completed", "denied", "failed"} =>
          /\ Len(m.done) \in 1..Len(m.def)
          /\ \A k \in 1..(Len(m.done) - 1) : m.done[k] = "allowed"
          /\ m.done[Len(m.done)] = "allowed" => Len(m.done) = Len(m.def)
    BY <2>2 DEF LoopInv, Over
  <2>6. ASSUME status[r] = "completed", NEW k \in DOMAIN m.def PROVE Answered(r, k)
    <3>1. m.done[Len(m.done)] = "allowed"
      BY <2>2, <2>6 DEF LoopInv
    <3>2. k \in DOMAIN m.done /\ m.done[k] = "allowed"
      BY <2>3, <2>5, <2>6, <3>1
    <3> QED BY <2>4, <3>2
  <2>7. ASSUME status[r] \in {"denied", "failed"} PROVE \E k \in DOMAIN m.def : ~Answered(r, k)
    <3>1. m.done[Len(m.done)] # "allowed"
      BY <2>2, <2>7 DEF LoopInv
    <3>2. Len(m.done) \in DOMAIN m.done /\ Len(m.done) \in DOMAIN m.def
      BY <2>3, <2>5, <2>7
    <3> QED BY <2>4, <3>1, <3>2
  <2>8. \A c \in calls : c.run = r => \A k \in 1..(c.step - 1) : Answered(r, k)
    BY <2>2 DEF CallsInv
  <2> QED BY <2>2, <2>6, <2>7, <2>8
<1> QED BY <1>1, RunsSound, PTL

\* The value that resolveParams extracts is of the step its mapping names, in
\* the same run, whose answer came before, however the steps are moved.
THEOREM ExtractionIsByIdentity == Spec => []ExtractedFromNamedStep
<1>1. WorkflowInv => ExtractedFromNamedStep
  BY DEF WorkflowInv
<1> QED BY <1>1, RunsSound, PTL

\* The audit log, the usage records, the episodes and the outcomes of the steps
\* tell of the calls that were answered, and of no others.
THEOREM RecordsMatchCalls == Spec => []AuditMatchesCalls
<1>1. WorkflowInv => AuditMatchesCalls
  <2>1. SUFFICES ASSUME WorkflowInv, NEW r \in Runs, NEW k \in Positions
                 PROVE  /\ "allowed" \in Written(r, k) \/ usage[r][k] > 0 \/ episodes[r][k] = "success" => Answered(r, k)
                        /\ k <= Len(run[r].done) => (Answered(r, k) <=> run[r].done[k] = "allowed")
                        /\ k <= Len(run[r].done) /\ Answered(r, k) /\ <<r, k>> \notin lost =>
                             /\ "allowed" \in Written(r, k) /\ "denied" \notin Written(r, k)
                             /\ usage[r][k] = 1 /\ episodes[r][k] = "success"
    BY DEF AuditMatchesCalls, Written
  <2>2. PICK m \in InMemory : m = run[r] /\ CallsInv(r, m) /\ RecordInv(r, m)
    BY <2>1, RunMemory DEF WorkflowInv, RunInv
  <2>3. k <= Len(m.done) => k \in DOMAIN m.done
    BY PositionsNat, MemoryFields
  <2>4. \A j \in DOMAIN m.done :
          /\ m.done[j] = "allowed" => Answered(r, j)
          /\ Answered(r, j) => m.done[j] = "allowed"
    BY <2>2 DEF CallsInv, AnsweredAs, Answered
  <2>5. /\ "allowed" \in Written(r, k) \/ usage[r][k] > 0 \/ episodes[r][k] = "success" => Answered(r, k)
        /\ k \in DOMAIN m.done /\ m.done[k] = "allowed" => AllTell(r, k)
    BY <2>2 DEF RecordInv
  <2> QED BY <2>2, <2>3, <2>4, <2>5 DEF AllTell
<1> QED BY <1>1, RunsSound, PTL

\* What leaves for the name of an AI provider whose rules mask is masked, even
\* when the first lookup of the dispatch fails: the second finds the same row.
THEOREM ProvidersAreGoverned == Spec => []ProviderGoverned
<1>1. WorkflowInv => ProviderGoverned
  BY DEF WorkflowInv
<1> QED BY <1>1, RunsSound, PTL

=============================================================================
