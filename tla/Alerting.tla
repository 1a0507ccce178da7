------------------------------ MODULE Alerting ------------------------------
(***************************************************************************)
(* The alert engine of eami-api: every minute it lists the enabled rules,   *)
(* evaluates each against its metric, opens an alert for a rule that fires  *)
(* and has none open, and posts it to Slack.  Operators change the rules,   *)
(* the alerts and the notification settings in the middle of a tick; the    *)
(* database, the collector and Slack fail; the process restarts.            *)
(*                                                                          *)
(* Abstractions: one organisation.  A rule is its metric, its threshold and *)
(* whether ParseConditionConfig and QueryMetric take it (window_minutes > 0, *)
(* a metric that exists); a metric is the number its query returns now.     *)
(***************************************************************************)
EXTENDS Integers, FiniteSets, Sequences

CONSTANTS
    Rules,       \* identities of alert rules
    Metrics,     \* the metrics that rules watch
    Values,      \* values of a metric
    Thresholds,  \* thresholds of rules
    HasCollector,\* the collector's URL is configured
    MaxEdits,    \* bound on requests of operators
    MaxFaults    \* bound on failures and restarts

ASSUME AlertingAssumption ==
    /\ 0 \in Values /\ Values \subseteq Nat /\ Thresholds \subseteq Nat /\ HasCollector \in BOOLEAN
    /\ MaxEdits \in Nat /\ MaxFaults \in Nat

Config == [metric : Metrics, threshold : Thresholds, sound : BOOLEAN]

VARIABLES
    rules,      \* alert_rules: a function on the identities that exist
    alerts,     \* alerts, in the order they were created
    slack,      \* notification_config: slack_enabled is set and so is a webhook
    metric,     \* what each metric amounts to now
    engine,     \* where the engine is
    todo,       \* rules of this tick that are still to be evaluated, as listed
    patches,    \* PATCHes of rules that have read and not written
    posted,     \* history: Slack messages about each alert
    edits, faults

admin == <<rules, slack, patches, edits>>
vars == <<admin, alerts, metric, engine, todo, posted, faults>>

Rule == [cfg : Config, enabled : BOOLEAN]
Alert == [rule : Rules, status : {"open", "acknowledged", "resolved"}, notified : BOOLEAN]
\* An engine at work on a rule knows its identity; on an alert, its number.
Engine == [at : {"down", "idle", "rules", "check", "create"}, rule : Rules \cup {"none"}, alert : {0}] \cup
          [at : {"notify", "send", "mark"}, rule : Rules, alert : Nat \ {0}]
At(place) == [at |-> place, rule |-> "none", alert |-> 0]
None == [x \in {} |-> x]

\* The operators have made some rules and settings, and no alert is open yet.
Init ==
    /\ \E S \in SUBSET Rules : rules \in [S -> {r \in Rule : r.cfg.sound /\ r.enabled}]
    /\ alerts = <<>> /\ posted = <<>>
    /\ slack \in BOOLEAN
    /\ metric = [k \in Metrics |-> 0]
    /\ engine = At("down") /\ todo = None
    /\ patches = {} /\ edits = 0 /\ faults = 0
-----------------------------------------------------------------------------
(* The requests of operators. *)
Edit == edits < MaxEdits /\ edits' = edits + 1

\* A new rule is validated: it can be evaluated.
CreateAlertRule(r) ==
    /\ Edit /\ r \notin DOMAIN rules
    /\ \E c \in Config, e \in BOOLEAN :
         /\ c.sound
         /\ rules' = [x \in DOMAIN rules \cup {r} |-> IF x = r THEN [cfg |-> c, enabled |-> e] ELSE rules[x]]
    /\ UNCHANGED <<alerts, slack, metric, engine, todo, patches, posted, faults>>

\* UpdateAlertRule reads the rule and merges the request into its condition, which is not validated ...
UpdateAlertRule(r) ==
    /\ Edit /\ r \in DOMAIN rules
    /\ \E t \in Thresholds, s \in BOOLEAN, e \in {"keep", "on", "off"} :
         patches' = patches \cup {[rule |-> r, enabled |-> e,
                                   cfg |-> [rules[r].cfg EXCEPT !.threshold = t, !.sound = s]]}
    /\ UNCHANGED <<rules, alerts, slack, metric, engine, todo, posted, faults>>

\* ... and writes the whole condition, but enabled only where the request has it.
WriteAlertRule(p) ==
    /\ patches' = patches \ {p}
    /\ rules' = IF p.rule \notin DOMAIN rules THEN rules
                ELSE [rules EXCEPT ![p.rule] = [cfg |-> p.cfg,
                                                enabled |-> IF p.enabled = "keep" THEN @.enabled ELSE p.enabled = "on"]]
    /\ UNCHANGED <<alerts, slack, metric, engine, todo, posted, edits, faults>>

\* A rule that alerts refer to stays: the foreign key refuses the DELETE.
DeleteAlertRule(r) ==
    /\ Edit /\ r \in DOMAIN rules
    /\ \A i \in DOMAIN alerts : alerts[i].rule # r
    /\ rules' = [x \in DOMAIN rules \ {r} |-> rules[x]]
    /\ UNCHANGED <<alerts, slack, metric, engine, todo, patches, posted, faults>>

\* UpdateAlertStatus, which takes no account of the status the alert has.
UpdateAlertStatus(i, s) ==
    /\ Edit
    /\ alerts' = [alerts EXCEPT ![i].status = s]
    /\ UNCHANGED <<rules, slack, metric, engine, todo, patches, posted, faults>>
AcknowledgeAlert(i) == UpdateAlertStatus(i, "acknowledged")
ResolveAlert(i) == UpdateAlertStatus(i, "resolved")

\* UpdateNotificationConfig, whichever fields it merges into the row it has read.
UpdateNotificationConfig ==
    /\ Edit /\ slack' = ~slack
    /\ UNCHANGED <<rules, alerts, metric, engine, todo, patches, posted, faults>>

Operator ==
    \/ \E r \in Rules : CreateAlertRule(r) \/ UpdateAlertRule(r) \/ DeleteAlertRule(r)
    \/ \E i \in DOMAIN alerts : AcknowledgeAlert(i) \/ ResolveAlert(i)
    \/ UpdateNotificationConfig
Handler == \E p \in patches : WriteAlertRule(p)
-----------------------------------------------------------------------------
(* The engine.  Fault is a step of it that fails. *)
Fault == faults < MaxFaults /\ faults' = faults + 1

\* Run: the first tick comes at once.
Run ==
    /\ engine.at = "down" /\ engine' = At("idle")
    /\ UNCHANGED <<admin, alerts, metric, todo, posted, faults>>

\* tick: the rules as they are now.
tick ==
    /\ engine.at = "idle"
    /\ \/ /\ engine' = At("rules")
          /\ todo' = [r \in {x \in DOMAIN rules : rules[x].enabled} |-> rules[r].cfg]
          /\ UNCHANGED faults
       \/ Fault /\ UNCHANGED <<engine, todo>>
    /\ UNCHANGED <<admin, alerts, metric, posted>>

\* What the query of a metric returns; without a collector no delivery has failed.
queryMetricWithCollector(k) ==
    IF k = "failed_delivery_count" /\ ~HasCollector THEN 0 ELSE metric[k]
conditionMet(cfg) == queryMetricWithCollector(cfg.metric) > cfg.threshold

Rest(r) == [x \in DOMAIN todo \ {r} |-> todo[x]]
AfterError_Stop(r) == None
\* A rule that fails or panics is passed over.
AfterError(r) == Rest(r)

\* evaluateRule up to the metric.
evaluateRule(r) ==
    /\ engine.at = "rules" /\ r \in DOMAIN todo
    /\ \/ /\ todo[r].sound /\ conditionMet(todo[r])
          /\ engine' = [At("check") EXCEPT !.rule = r] /\ todo' = Rest(r)
          /\ UNCHANGED faults
       \/ /\ todo[r].sound /\ ~conditionMet(todo[r])
          /\ todo' = Rest(r)
          /\ UNCHANGED <<engine, faults>>
       \/ ~todo[r].sound /\ todo' = AfterError(r) /\ UNCHANGED <<engine, faults>>
       \/ todo[r].sound /\ Fault /\ todo' = AfterError(r) /\ UNCHANGED engine
    /\ UNCHANGED <<admin, alerts, metric, posted>>

EvaluatedAll ==
    /\ engine.at = "rules" /\ todo = None
    /\ engine' = At("idle")
    /\ UNCHANGED <<admin, alerts, metric, todo, posted, faults>>

Open(r) == {i \in DOMAIN alerts : alerts[i].rule = r /\ alerts[i].status = "open"}
GetOpenAlertByRuleID_Notified(r) == {i \in Open(r) : alerts[i].notified}
GetOpenAlertByRuleID(r) == Open(r)

\* Duplicate suppression.
CheckOpenAlert ==
    /\ engine.at = "check"
    /\ \/ engine' = (IF GetOpenAlertByRuleID(engine.rule) = {} THEN [engine EXCEPT !.at = "create"] ELSE At("rules"))
          /\ UNCHANGED faults
       \/ Fault /\ engine' = At("rules")
    /\ UNCHANGED <<admin, alerts, metric, todo, posted>>

\* The rule of a new alert must still exist.
CreateAlert ==
    /\ engine.at = "create"
    /\ \/ /\ engine.rule \in DOMAIN rules
          /\ alerts' = Append(alerts, [rule |-> engine.rule, status |-> "open", notified |-> FALSE])
          /\ posted' = Append(posted, 0)
          /\ engine' = [engine EXCEPT !.at = "notify", !.alert = Len(alerts) + 1]
          /\ UNCHANGED faults
       \/ /\ engine.rule \notin DOMAIN rules
          /\ engine' = At("rules") /\ UNCHANGED <<alerts, posted, faults>>
       \/ Fault /\ engine' = At("rules") /\ UNCHANGED <<alerts, posted>>
    /\ UNCHANGED <<admin, metric, todo>>

\* dispatchNotifications: only where Slack is configured.
dispatchNotifications ==
    /\ engine.at = "notify"
    /\ \/ engine' = (IF slack THEN [engine EXCEPT !.at = "send"] ELSE At("rules"))
          /\ UNCHANGED faults
       \/ Fault /\ engine' = At("rules")
    /\ UNCHANGED <<admin, alerts, metric, todo, posted>>

AfterSendError_Mark == [engine EXCEPT !.at = "mark"]
AfterSendError == At("rules")

\* Slack may have the message although the call fails: the answer is lost or late.
SendSlack ==
    /\ engine.at = "send"
    /\ \/ /\ posted' = [posted EXCEPT ![engine.alert] = @ + 1]
          /\ engine' = [engine EXCEPT !.at = "mark"] /\ UNCHANGED faults
       \/ /\ Fault /\ engine' = AfterSendError
          /\ posted' = posted \/ posted' = [posted EXCEPT ![engine.alert] = @ + 1]
    /\ UNCHANGED <<admin, alerts, metric, todo>>

MarkAlertNotified ==
    /\ engine.at = "mark" /\ engine' = At("rules")
    /\ \/ alerts' = [alerts EXCEPT ![engine.alert].notified = TRUE] /\ UNCHANGED faults
       \/ Fault /\ UNCHANGED alerts
    /\ UNCHANGED <<admin, metric, todo, posted>>

\* The process ends, with the engine at whatever it did.
Restart ==
    /\ engine.at # "down" /\ Fault
    /\ engine' = At("down") /\ todo' = None
    /\ UNCHANGED <<admin, alerts, metric, posted>>

\* Calls are denied, deliveries fail, and the window moves on.
Measure ==
    /\ \E k \in Metrics, v \in Values : metric' = [metric EXCEPT ![k] = v]
    /\ UNCHANGED <<admin, alerts, engine, todo, posted, faults>>

Evaluate ==
    \/ Run \/ tick \/ EvaluatedAll \/ CheckOpenAlert \/ CreateAlert \/ dispatchNotifications \/ SendSlack
    \/ MarkAlertNotified \/ \E r \in Rules : evaluateRule(r)
Next == Operator \/ Handler \/ Evaluate \/ Restart \/ Measure

Spec == Init /\ [][Next]_vars
\* The ticker goes on, and a handler that has read goes on to write.
FairSpec == Spec /\ WF_vars(Evaluate) /\ WF_vars(Handler)
-----------------------------------------------------------------------------
TypeOK ==
    /\ DOMAIN rules \subseteq Rules /\ \A r \in DOMAIN rules : rules[r] \in Rule
    /\ DOMAIN todo \subseteq Rules /\ \A r \in DOMAIN todo : todo[r] \in Config
    /\ alerts \in Seq(Alert) /\ DOMAIN posted = DOMAIN alerts
    /\ slack \in BOOLEAN /\ engine \in Engine

\* A rule has at most one open alert, whatever operators do to rules and alerts during a tick
\* and wherever the process restarts (evaluateRule's duplicate suppression).
OneOpenAlertPerRule == \A r \in Rules : Cardinality(Open(r)) <= 1

\* An alert is never posted twice, and one that is marked notified was posted, although
\* the send, the mark and the process can each fail after the other (dispatchNotifications).
NotifiedTruthfully ==
    \A i \in DOMAIN alerts : posted[i] <= 1 /\ (alerts[i].notified => posted[i] = 1)

Firing(r) == r \in DOMAIN rules /\ rules[r].enabled /\ rules[r].cfg.sound /\ conditionMet(rules[r].cfg)
\* A rule whose condition goes on holding gets its open alert, even when another rule fails at
\* every tick or the engine restarted in between (evaluateRules, safeTick).
FiringRuleAlerts == \A r \in Rules : Firing(r) ~> (Open(r) # {} \/ ~Firing(r))
-----------------------------------------------------------------------------
(* Why it is so. *)
OpenOnce ==
    \A i, j \in DOMAIN alerts :
        alerts[i].status = "open" /\ alerts[j].status = "open" /\ alerts[i].rule = alerts[j].rule => i = j

\* What the engine has looked up and done is still so: nobody else opens or posts an alert.
EngineInv ==
    /\ engine.at \in {"check", "create"} => engine.rule \in Rules
    /\ engine.at = "create" => Open(engine.rule) = {}
    /\ engine.at \in {"notify", "send", "mark"} => engine.alert \in DOMAIN alerts
    /\ engine.at \in {"notify", "send"} => posted[engine.alert] = 0
    /\ engine.at = "mark" => posted[engine.alert] = 1

AlertInv ==
    /\ alerts \in Seq(Alert) /\ posted \in Seq(Nat) /\ Len(posted) = Len(alerts) /\ engine \in Engine
    /\ OpenOnce /\ EngineInv /\ NotifiedTruthfully
=============================================================================
