---------------------------- MODULE AuditMonitor ----------------------------
(* The audit events that are tracked, their indexes and the anomalies found
   while tracking (agents/compliance/audit_monitor.py), the compliance checker
   that reads them, and the endpoints of both (api/routes/audit.py).

   The monitor is a singleton of one process and tracking suspends nowhere, so
   it is one step. An event carries a time of its own, which may lie before the
   one at which it is tracked. Time is in minutes.                          *)
EXTENDS Integers, SequencesExt

CONSTANTS Actors, EventTypes,
          Assets,         \* identifiers of assets that events may name
          Moments,        \* minutes at which something happens
          ManyDenials,    \* denials of an actor in 15 minutes that are too many
          ActorLookback,  \* newest events of the actor that are looked at for them
          ManyEvents,     \* events of a type in 5 minutes that are too many
          MaxEvents       \* bound on the events of a behaviour

Results == {"allowed", "denied"}
NoAsset == "none"

\* What the values of the constants satisfy.
MonitorAssumption ==
  /\ {ManyDenials, ActorLookback, ManyEvents, MaxEvents} \subseteq Nat \ {0}
  /\ Moments \subseteq Nat /\ 0 \in Moments /\ NoAsset \notin Assets

VARIABLES
  now,       \* the time
  events,    \* in the order of tracking; "tracked" is a history field
  anomalies  \* kind, events and time of each, in the order of detection

vars == <<now, events, anomalies>>

Init == now = 0 /\ events = <<>> /\ anomalies = <<>>

(* The newest first, and of equal times the ones tracked first; at most limit. *)
Newest(log, positions, limit) ==
  LET sorted == SetToSortSeq(positions, LAMBDA i, j :
        \/ log[i].at > log[j].at
        \/ log[i].at = log[j].at /\ i < j)
  IN SubSeq(sorted, 1, IF Len(sorted) < limit THEN Len(sorted) ELSE limit)

\* Mutant: the limit is applied before the sort.
FirstTracked(log, actor) ==
  {i \in DOMAIN log :
     /\ log[i].actor = actor
     /\ Cardinality({j \in 1..(i - 1) : log[j].actor = actor}) < ActorLookback}

(* get_events for an actor. *)
ActorEvents(log, actor) ==
  ToSet(Newest(log, {i \in DOMAIN log : log[i].actor = actor}, ActorLookback))

(* get_events with a type does not look at the other filters; "any" stands for
   a filter that is not given. *)
GetEvents(type, actor, asset, result, limit) ==
  LET given(filter, value) == filter = "any" \/ filter = value
  IN Newest(events,
       {i \in DOMAIN events :
          IF type # "any" THEN events[i].type = type
          ELSE /\ given(actor, events[i].actor)
               /\ given(asset, events[i].asset)
               /\ given(result, events[i].result)},
       limit)

AuditTrail(asset) ==
  SetToSortSeq({i \in DOMAIN events : events[i].asset = asset},
               LAMBDA i, j : events[i].at < events[j].at \/ (events[i].at = events[j].at /\ i < j))

(* What tracking the last event of the log detects, in this order. *)
RepeatedDenials(log) ==
  LET e == Last(log)
      denials == {i \in ActorEvents(log, e.actor) : log[i].result = "denied" /\ log[i].at >= now - 15}
  IN IF e.result = "denied" /\ Cardinality(denials) >= ManyDenials
     THEN <<[kind |-> "repeated_denials", events |-> denials, at |-> now]>> ELSE <<>>

UnusualVolume(log) ==
  LET recent == {i \in DOMAIN log : log[i].type = Last(log).type /\ log[i].at >= now - 5}
  IN IF Cardinality(recent) >= ManyEvents
     THEN <<[kind |-> "unusual_volume", events |-> recent, at |-> now]>> ELSE <<>>

(* Whether a minute is off hours is left open. *)
OffHours(log, offHours) ==
  IF offHours /\ Last(log).type \in {"asset_registered", "asset_updated", "policy_created",
                                     "policy_updated"}
  THEN <<[kind |-> "off_hours", events |-> {Len(log)}, at |-> now]>> ELSE <<>>

CheckForAnomalies(log, offHours) ==
  anomalies' = anomalies \o RepeatedDenials(log) \o UnusualVolume(log) \o OffHours(log, offHours)

TrackEvent(e, offHours) ==
  /\ Len(events) < MaxEvents
  /\ events' = Append(events, e)
  /\ CheckForAnomalies(Append(events, e), offHours)
  /\ UNCHANGED now

Clear ==
  /\ events # <<>>
  /\ events' = <<>> /\ anomalies' = <<>>
  /\ UNCHANGED now

Tick ==
  /\ \E t \in Moments : t > now /\ now' = t
  /\ UNCHANGED <<events, anomalies>>

Next ==
  \/ \E type \in EventTypes, actor \in Actors, asset \in Assets \cup {NoAsset},
        result \in Results, at \in Moments, offHours \in BOOLEAN :
       /\ at <= now
       /\ TrackEvent([type |-> type, actor |-> actor, asset |-> asset, result |-> result,
                      at |-> at, tracked |-> now], offHours)
  \/ Clear
  \/ Tick

Spec == Init /\ [][Next]_vars

(***************************************************************************)
(* Properties                                                              *)
(***************************************************************************)
TypeOK ==
  /\ now \in Moments
  /\ events \in Seq([type : EventTypes, actor : Actors, asset : Assets \cup {NoAsset},
                     result : Results, at : Moments, tracked : Moments])
  /\ \A i \in DOMAIN anomalies : anomalies[i].events \subseteq DOMAIN events

(* However events of several actors are mixed: an actor whose events came one
   after the other and whose last ones were all denied, as many as are too many
   and within a quarter of an hour, is reported, however long his log; and
   whoever is reported had that many denials of his own in that time. *)
DenialsAreNoticed ==
  LET reports == {i \in DOMAIN anomalies : anomalies[i].kind = "repeated_denials"}
      quarter(at, i) == at - 15 <= events[i].at
  IN /\ \A i \in DOMAIN events :
          LET own == {j \in 1..i : events[j].actor = events[i].actor}
              newest == {j \in own : Cardinality({k \in own : k > j}) < ManyDenials}
          IN (/\ Cardinality(newest) = ManyDenials
              /\ \A j, k \in own : j < k => events[j].at < events[k].at
              /\ \A j \in newest : events[j].result = "denied" /\ quarter(events[i].tracked, j))
             => \E r \in reports : i \in anomalies[r].events
     /\ \A r \in reports :
          /\ Cardinality(anomalies[r].events) >= ManyDenials
          /\ \A i, j \in anomalies[r].events :
               /\ events[i].actor = events[j].actor /\ events[i].result = "denied"
               /\ quarter(anomalies[r].at, i)

(***************************************************************************)
(* The compliance checker (agents/compliance/compliance_checker.py) over   *)
(* the registered assets, the policies and the audit events, with its      *)
(* endpoints (api/routes/audit.py).  A check that raises records nothing:  *)
(* the answer is 500 and whatever the last check of its type said stays.   *)
(***************************************************************************)
CONSTANTS AssetStates,  \* what an asset of the registry may look like
          MaxChecks     \* bound on the checks of a behaviour

CheckTypes == {"asset", "policy", "approval", "data", "audit", "risk", "tag"}
Unregistered == [registered |-> FALSE]

\* What the values of the constants satisfy.
CheckerAssumption ==
  /\ \A s \in AssetStates : DOMAIN s = {"registered", "owned", "described", "deprecated", "tags"}
  /\ MaxChecks \in Nat

VARIABLES
  assets,  \* the registry
  active,  \* whether a policy is active
  checks   \* the recorded checks in order; "seen" is a history field, the assets
           \* as the check found them

checkVars == <<assets, active, checks>>
allVars == <<vars, checkVars>>

CheckInit ==
  /\ Init
  /\ assets = [a \in Assets |-> Unregistered]
  /\ active = FALSE
  /\ checks = <<>>

Registered == {a \in Assets : assets[a] # Unregistered}
Tagged(tag) == {a \in Registered : tag \in assets[a].tags}

(* A finding that affects no asset is about a policy or the anomalies. *)
Finding(about, severity, affected) == [about |-> about, severity |-> severity, assets |-> affected]
FoundIn(about, severity, affected) ==
  IF affected = {} THEN {} ELSE {Finding(about, severity, affected)}

(***************************************************************************)
(* The checks                                                              *)
(***************************************************************************)
Outcome(findings, penalty, status) ==
  [findings |-> findings, score |-> IF penalty < 100 THEN 100 - penalty ELSE 0,
   status |-> IF findings = {} THEN "pass" ELSE status, raises |-> FALSE]
Raising(outcome, condition) == [outcome EXCEPT !.raises = condition]

AssetCheck ==
  LET ownerless == {a \in Registered : ~assets[a].owned}
      deprecated == {a \in Tagged("production") : assets[a].deprecated}
      undescribed == {a \in Registered : ~assets[a].described}
  IN Outcome(FoundIn("no owner", "high", ownerless)
               \cup FoundIn("deprecated in production", "critical", deprecated)
               \cup FoundIn("no description", "medium", undescribed),
             5 * (Cardinality(ownerless) + Cardinality(deprecated) + Cardinality(undescribed)),
             IF deprecated # {} THEN "fail" ELSE "warning")

(* Two templates are looked for among the active policies, which have no
   template_id.                                                              *)
PolicyCheck ==
  Raising(Outcome({Finding("gdpr-pii-protection", "high", {}),
                   Finding("high-risk-approval", "high", {})}, 40, "fail"), active)

(* The approval repository has no accessor of the name that is imported. *)
ApprovalCheck == Raising(Outcome({}, 0, "pass"), TRUE)

DataCheck ==
  LET found == FoundIn("pii without policy", "critical", Tagged("pii"))
                 \cup FoundIn("phi without policy", "critical", Tagged("phi"))
  IN Raising(Outcome(found, 20 * Cardinality(found), "fail"), active /\ found # {})

(* Anomalies have no asset_id. *)
AuditCheck ==
  LET found == FoundIn("no trail", "high", {a \in Registered : Len(AuditTrail(a)) = 0})
  IN Raising(Outcome(found, 15 * Cardinality(found), "fail"), anomalies # <<>>)

(* A score is never missing and never stale: reading it calculates it. *)
RiskCheck == Outcome({}, 0, "warning")

TagCheck ==
  LET untagged == {a \in Registered : assets[a].tags = {}}
  IN Outcome(FoundIn("no tags", "medium", untagged), 2 * Cardinality(untagged), "warning")

OutcomeOf(type) ==
  CASE type = "asset" -> AssetCheck [] type = "policy" -> PolicyCheck
    [] type = "approval" -> ApprovalCheck [] type = "data" -> DataCheck
    [] type = "audit" -> AuditCheck [] type = "risk" -> RiskCheck [] type = "tag" -> TagCheck

(* A check that raises leaves the one before it in force. *)
RunCheck(type) ==
  LET outcome == OutcomeOf(type)
  IN /\ Len(checks) < MaxChecks
     /\ ~outcome.raises
     /\ checks' = Append(checks, [type |-> type, status |-> outcome.status, score |-> outcome.score,
                                  findings |-> outcome.findings, seen |-> assets])
     /\ UNCHANGED <<vars, assets, active>>

(***************************************************************************)
(* What is answered                                                        *)
(***************************************************************************)
\* Mutant: the first check of a type is kept.
FirstOf(log) == {i \in DOMAIN log : \A j \in DOMAIN log : log[j].type = log[i].type => i <= j}

(* The newest check of every type that was ever recorded. *)
RecentOf(log) == {i \in DOMAIN log : \A j \in DOMAIN log : log[j].type = log[i].type => j <= i}

RecentChecks == {checks[i] : i \in RecentOf(checks)}

(* The mean as a total and a count; no check at all counts as a score of zero. *)
ComplianceScore ==
  [total |-> FoldSet(LAMBDA i, sum : sum + checks[i].score, 0, RecentOf(checks)),
   of |-> IF checks = <<>> THEN 1 ELSE Cardinality(RecentOf(checks))]

Verdict ==
  LET s == ComplianceScore IN
  CASE s.total >= 80 * s.of -> "compliant"
    [] s.total < 60 * s.of -> "non_compliant"
    [] OTHER -> "warning"

Violations ==
  {f \in UNION {c.findings : c \in RecentChecks} : f.severity \in {"critical", "high"}}

ListChecks(type, status, limit) ==
  LET all == {i \in DOMAIN checks : /\ type = "any" \/ checks[i].type = type
                                    /\ status = "any" \/ checks[i].status = status}
      newest == SetToSortSeq(all, LAMBDA i, j : i > j)
  IN SubSeq(newest, 1, IF Len(newest) < limit THEN Len(newest) ELSE limit)

(***************************************************************************)
(* The specification                                                       *)
(***************************************************************************)
ClearChecks ==
  /\ checks # <<>> /\ checks' = <<>>
  /\ UNCHANGED <<vars, assets, active>>

(* The registry and the policies change under the checker. *)
ChangeAsset(a, state) ==
  /\ state # assets[a]
  /\ assets' = [assets EXCEPT ![a] = state]
  /\ UNCHANGED <<vars, active, checks>>

SwitchPolicies ==
  /\ active' = ~active
  /\ UNCHANGED <<vars, assets, checks>>

CheckNext ==
  \/ Next /\ UNCHANGED checkVars
  \/ \E type \in CheckTypes : RunCheck(type)
  \/ ClearChecks
  \/ \E a \in Assets, s \in AssetStates \cup {Unregistered} : ChangeAsset(a, s)
  \/ SwitchPolicies

CheckSpec == CheckInit /\ [][CheckNext]_allVars

(***************************************************************************)
(* Properties                                                              *)
(***************************************************************************)
CheckTypeOK ==
  /\ TypeOK
  /\ assets \in [Assets -> AssetStates \cup {Unregistered}]
  /\ active \in BOOLEAN
  /\ \A i \in DOMAIN checks : checks[i].type \in CheckTypes /\ checks[i].score \in 0..100

(* Assets change between the checks and checks that raise leave no trace: what
   is reported as a violation of an asset is what the last recorded check of
   that type found, no more and no less, and a system called compliant was
   seen by at least one check.                                               *)
ViolationsAreOfTheLastRun ==
  LET last(type) == LET of == {i \in DOMAIN checks : checks[i].type = type}
                    IN IF of = {} THEN [a \in Assets |-> Unregistered]
                       ELSE checks[CHOOSE i \in of : \A j \in of : j <= i].seen
      reported(about) == UNION {f.assets : f \in {v \in Violations : v.about = about}}
      known(type) == {a \in Assets : last(type)[a] # Unregistered}
  IN /\ reported("no owner") = {a \in known("asset") : ~last("asset")[a].owned}
     /\ reported("deprecated in production") =
          {a \in known("asset") : last("asset")[a].deprecated
                                  /\ "production" \in last("asset")[a].tags}
     /\ reported("pii without policy") = {a \in known("data") : "pii" \in last("data")[a].tags}
     /\ Verdict = "compliant" => checks # <<>>
=============================================================================
