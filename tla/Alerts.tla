------------------------------- MODULE Alerts -------------------------------
(* The alerts of the governance system and the rules that choose who receives
   them (agents/compliance/alert_manager.py), with their endpoints
   (api/routes/audit.py). The manager is a singleton of one process and no
   operation suspends.                                                      *)
EXTENDS Integers, FiniteSets, Sequences

CONSTANTS Kinds,      \* the alert types that occur
          Facts,      \* metadata of an alert: functions from some keys to values
          MaxAlerts   \* bound on the alerts of a behaviour

\* What the values of the constants satisfy.
AlertsAssumption ==
  /\ Kinds \subseteq {"policy_violation", "compliance_failure", "anomaly_detected",
                      "approval_required", "other"}
  /\ MaxAlerts \in Nat

Severities == <<"low", "medium", "high", "critical">>
Statuses == {"sent", "acknowledged", "resolved"}  \* pending and escalated last no step

VARIABLES
  alerts,  \* in the order of creation; "given", "raised" and "last" are history
           \* fields: the first severity, the escalations, the last operation
  rules    \* the enabled rules by their identifiers

vars == <<alerts, rules>>

(* A rule names for some keys the values an alert must have. *)
Rule(kind, conditions, recipients) ==
  [kind |-> kind, conditions |-> conditions, recipients |-> recipients]

DefaultRules ==
  [r1 |-> Rule("policy_violation", [severity |-> {"critical"}], {"compliance", "security"}),
   r2 |-> Rule("compliance_failure", [status |-> {"fail"}], {"compliance"}),
   r3 |-> Rule("anomaly_detected", [severity |-> {"high", "critical"}], {"security"}),
   r4 |-> Rule("approval_required", [risk_tier |-> {"high", "critical"}], {"officer"})]

Init == alerts = <<>> /\ rules = DefaultRules

(* A condition on a fact the alert does not state is met. *)
Matches(rule, kind, severity, facts) ==
  /\ rule.kind = kind
  /\ \A key \in DOMAIN rule.conditions :
       LET wanted == rule.conditions[key]
       IN IF key = "severity" THEN severity \in wanted
          ELSE key \in DOMAIN facts => facts[key] \in wanted

RecipientsForAlert(kind, severity, facts) ==
  LET matching == {r \in DOMAIN rules : Matches(rules[r], kind, severity, facts)}
  IN IF matching = {} THEN {"default-admin"}
     ELSE UNION {rules[r].recipients : r \in matching}

CreateAlert(kind, level, facts) ==
  /\ Len(alerts) < MaxAlerts
  /\ alerts' = Append(alerts,
       [kind |-> kind, level |-> level, status |-> "sent",
        recipients |-> RecipientsForAlert(kind, Severities[level], facts),
        given |-> level, raised |-> 0, last |-> "send"])
  /\ UNCHANGED rules

(* None of these looks at the status the alert is in. *)
AcknowledgeAlert(i) ==
  /\ alerts' = [alerts EXCEPT ![i].status = "acknowledged", ![i].last = "acknowledge"]
  /\ UNCHANGED rules

ResolveAlert(i) ==
  /\ alerts' = [alerts EXCEPT ![i].status = "resolved", ![i].last = "resolve"]
  /\ UNCHANGED rules

\* Mutant: an alert that is resolved stays so.
EscalateQuietly(i) ==
  /\ alerts' = [alerts EXCEPT ![i].level = IF @ < Len(Severities) THEN @ + 1 ELSE @,
                              ![i].raised = IF @ < Len(Severities) THEN @ + 1 ELSE @,
                              ![i].last = "send"]
  /\ UNCHANGED rules

(* The escalated alert is sent again, which also makes it one that was sent;
   it goes to those who received it before.                                  *)
EscalateAlert(i) ==
  /\ alerts' = [alerts EXCEPT ![i].level = IF @ < Len(Severities) THEN @ + 1 ELSE @,
                              ![i].status = "sent",
                              ![i].raised = IF @ < Len(Severities) THEN @ + 1 ELSE @,
                              ![i].last = "send"]
  /\ UNCHANGED rules

AddRule(id, rule) ==
  /\ rules' = [r \in DOMAIN rules \cup {id} |-> IF r = id THEN rule ELSE rules[r]]
  /\ UNCHANGED alerts

RemoveRule(id) ==
  /\ id \in DOMAIN rules
  /\ rules' = [r \in DOMAIN rules \ {id} |-> rules[r]]
  /\ UNCHANGED alerts

Clear ==
  /\ alerts # <<>>
  /\ alerts' = <<>> /\ rules' = DefaultRules

ActiveAlerts == {i \in DOMAIN alerts : alerts[i].status # "resolved"}

(* The newest first. *)
ListAlerts(kind, severity, status, limit) ==
  LET given(filter, value) == filter = "any" \/ filter = value
      all == {i \in DOMAIN alerts : /\ given(kind, alerts[i].kind)
                                    /\ given(severity, Severities[alerts[i].level])
                                    /\ given(status, alerts[i].status)}
  IN {i \in all : Cardinality({j \in all : j > i}) < limit}

Next ==
  \/ \E kind \in Kinds, level \in DOMAIN Severities, facts \in Facts :
       CreateAlert(kind, level, facts)
  \/ \E i \in DOMAIN alerts : AcknowledgeAlert(i) \/ ResolveAlert(i) \/ EscalateAlert(i)
  \/ \E kind \in Kinds : AddRule("r5", Rule(kind, <<>>, {"owner"}))
  \/ \E id \in DOMAIN rules : RemoveRule(id)
  \/ Clear

Spec == Init /\ [][Next]_vars

(***************************************************************************)
(* Properties                                                              *)
(***************************************************************************)
TypeOK ==
  /\ \A i \in DOMAIN alerts :
       /\ alerts[i].kind \in Kinds /\ alerts[i].level \in DOMAIN Severities
       /\ alerts[i].status \in Statuses /\ alerts[i].recipients # {}
  /\ DOMAIN rules \subseteq {"r1", "r2", "r3", "r4", "r5"}

(* In whatever order an alert is acknowledged, resolved and escalated: it is
   active unless resolving it was the last thing done, and its severity is the
   one it was created with, raised once for every escalation up to critical. *)
AlertsStayOpen ==
  \A i \in DOMAIN alerts :
    /\ i \in ActiveAlerts <=> alerts[i].last # "resolve"
    /\ alerts[i].level = IF alerts[i].given + alerts[i].raised > 4 THEN 4
                         ELSE alerts[i].given + alerts[i].raised
=============================================================================
