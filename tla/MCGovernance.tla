----------------------------- MODULE MCGovernance ------------------------------
(***************************************************************************)
(* The parts of the governance system for TLC, side by side: a behaviour   *)
(* is one of one part, chosen at the start, and the variables of the other *)
(* parts stay as they begin.  Parts of one module with different bounds    *)
(* share their variables.  No part calls another within an operation: what *)
(* one hands to the next, tags or a tier or events, comes from small sets. *)
(***************************************************************************)
EXTENDS Integers, Sequences, FiniteSets, TLC

CONSTANTS
  Parts,                                                   \* the parts that are checked
  a1, a2, a3,                                              \* identifiers of assets
  TagSets, Hours, MaxApprovals,                            \* ApprovalWorkflow
  Checkers, PerMinute, PerHour, BaseLimit, Floor, RedisLimit, Seconds,
  MaxAsked, MaxFaults,                                     \* RateLimits
  Rules, Calls, ToolLimit, CallTimes,                      \* ToolCompliance
  Delays, StoreTimes, MaxStored,                           \* ApprovalStore
  Ids, Definitions, Demands, Conditions, PolicyContexts, PolicyTimes   \* Policies

VARIABLES
  part,
  registered, asset, byType, byOwner, traced,                    \* AssetRegistry
  tags, contextual, hour, level, incidents, score,               \* RiskScoring
  autoApprove, approvals,                                        \* ApprovalWorkflow
  second, past, governed, admitted, window, calls, checker, asked, faults, \* RateLimits
  called, registry, windows, passed, answer,                     \* ToolCompliance
  stored, requests,                                              \* ApprovalStore
  judged, policies, order, cache,                                \* Policies
  minute, events, anomalies,                                     \* AuditMonitor
  inventory, active, checks,                                     \* its compliance checker
  alerts, rules,                                                 \* Alerts
  day, portfolio, snapshots, counts                              \* RiskReports

registryVars == <<registered, asset, byType, byOwner, traced>>
riskVars == <<tags, contextual, hour, level, incidents, score>>
workflowVars == <<autoApprove, approvals>>
limitVars == <<second, past, governed, admitted, window, calls, checker, asked, faults>>
toolVars == <<called, registry, windows, passed, answer>>
storeVars == <<stored, requests>>
policyVars == <<judged, policies, order, cache>>
auditVars == <<minute, events, anomalies>>
checkVars == <<inventory, active, checks>>
alertVars == <<alerts, rules>>
reportVars == <<day, portfolio, snapshots, counts>>

(***************************************************************************)
(* The parts and their bounds                                              *)
(***************************************************************************)
DependencyLists == {<<>>, <<a1>>, <<a1, a2>>}

AR == INSTANCE AssetRegistry WITH
        Assets <- {a1, a2, a3}, Owners <- {"user", "team"}, Types <- {"agent"}

\* Contexts that tag an asset, and updates with the tags that move it most.
LooksAtIris == [data |-> {"iris_scan"}, domain |-> "none", location |-> "staging", metadata |-> {}]
InProduction == [data |-> {"other"}, domain |-> "none", location |-> "production", metadata |-> {}]
Contexts == {LooksAtIris, InProduction}
Severities == {"critical"}
RiskTags == {"phi", "production", "biometric", "social-scoring", "chatbot"}

RK == INSTANCE RiskScoring WITH
        TagSets <- {{"chatbot"}}, Tags <- RiskTags, Instants <- {0, 50, 3000},
        MaxIncidents <- 1

\* Tags of an asset at the highest risk.
AtRisk == {{"social-scoring", "phi", "pii", "production"}}

AW == INSTANCE ApprovalWorkflow WITH
        Contexts <- {}, Tags <- {}, Instants <- Hours, MaxIncidents <- 0,
        MaxRequests <- MaxApprovals

RL == INSTANCE RateLimits WITH
        now <- second, history <- past, Moments <- Seconds, MaxRequests <- MaxAsked

\* A call of a limited tool and one of a tool the agent may not use.
Call(tool) ==
  [type |-> "researcher", tool |-> tool, justified |-> TRUE, private |-> FALSE,
   foreign |-> FALSE, agentAsset |-> "active", toolAsset |-> "active"]
TwoCalls == {Call("web_search"), Call("file_reader")}

TC == INSTANCE ToolCompliance WITH now <- called, Limit <- ToolLimit, Moments <- CallTimes

LateOrNever == {-1, 0, 10}

ST == INSTANCE ApprovalStore WITH
        now <- stored, Moments <- StoreTimes, MaxRequests <- MaxStored

\* Policies about health data, about risky nights and about whom they spare.
Text(n) == [kind |-> "text", v |-> n]
Phi == 3
ByDay == [type |-> "time_of_day", operator |-> "between",
          value |-> [kind |-> "pair", of |-> "text", v |-> <<8, 18>>],
          negated |-> <<>>, ors |-> <<>>, ands |-> <<>>]
IsDoctor == [ByDay EXCEPT !.type = "user_role", !.operator = "equals", !.value = Text(5)]
TouchesHealth ==
  [ByDay EXCEPT !.type = "asset_tag", !.operator = "contains", !.value = Text(Phi)]
AtNight == [ByDay EXCEPT !.negated = <<ByDay>>]
DoctorByDay == [IsDoctor EXCEPT !.negated = <<AtNight>>]
HealthOrDoctor == [TouchesHealth EXCEPT !.ors = <<DoctorByDay>>]
NestedConditions == {ByDay, AtNight, DoctorByDay, HealthOrDoctor}
SpareDoctors ==
  {[conditions |-> <<HealthOrDoctor>>,
    actions |-> << [type |-> "allow"], [type |-> "require_approval", level |-> 3] >>,
    appliesTo |-> {}, priority |-> 1]}
HealthAndHours == {[template |-> "hipaa", appliesTo |-> {}, priority |-> 0],
                   [template |-> "business_hours", appliesTo |-> {"agent"}, priority |-> 1]}

Context(key, type, tagSet, time) ==
  [key |-> key, type |-> type,
   values |-> [asset_tag |-> [kind |-> "set", v |-> tagSet], time_of_day |-> Text(time),
               user_role |-> Text(5)]]
DayAndNight == {Context("k1", "agent", {Phi}, 9), Context("k1", "agent", {Phi}, 23),
                Context("k2", "tool", {}, 9)}

PO == INSTANCE Policies WITH
        now <- judged, Contexts <- PolicyContexts, Moments <- PolicyTimes

AU == INSTANCE AuditMonitor WITH
        now <- minute, Actors <- {"u", "v"}, EventTypes <- {"asset_updated"}, Assets <- {},
        Moments <- {0, 10, 20}, ManyDenials <- 2, ActorLookback <- 2, ManyEvents <- 3,
        MaxEvents <- 3, assets <- inventory, AssetStates <- {}, MaxChecks <- 0

AssetState(owned, deprecated, tagSet) ==
  [registered |-> TRUE, owned |-> owned, described |-> owned, deprecated |-> deprecated,
   tags |-> tagSet]
AssetStates == {AssetState(FALSE, FALSE, {}), AssetState(TRUE, TRUE, {"production"}),
                AssetState(TRUE, FALSE, {"pii"})}

CC == INSTANCE AuditMonitor WITH
        now <- minute, assets <- inventory, Actors <- {"u"}, EventTypes <- {"asset_updated"},
        Assets <- {"asset"}, Moments <- {0}, ManyDenials <- 1, ActorLookback <- 2,
        ManyEvents <- 2, MaxEvents <- 1, AssetStates <- AssetStates, MaxChecks <- 2

Facts == {<<>>, [risk_tier |-> "low"], [risk_tier |-> "high"]}

AL == INSTANCE Alerts WITH
        Kinds <- {"policy_violation", "approval_required"}, Facts <- Facts, MaxAlerts <- 1

Profiles == {[type |-> "agent", status |-> "active", tagged |-> TRUE, risk |-> 60],
             [type |-> "model", status |-> "deprecated", tagged |-> FALSE, risk |-> 24]}

RR == INSTANCE RiskReports WITH
        assets <- portfolio, history <- snapshots, Assets <- {"asset", "other"},
        Profiles <- Profiles, Days <- {0, 1, 3}, Window <- 90, MaxSnapshots <- 2

\* What the values of the bounds satisfy.
ASSUME BoundsAssumption ==
  /\ AW!RiskAssumption /\ AW!WorkflowAssumption /\ RL!LimitsAssumption
  /\ TC!ComplianceAssumption /\ ST!StoreAssumption /\ PO!PoliciesAssumption
ASSUME /\ AR!RegistryAssumption /\ RK!RiskAssumption /\ AU!MonitorAssumption
       /\ CC!MonitorAssumption /\ CC!CheckerAssumption /\ AL!AlertsAssumption
       /\ RR!ReportsAssumption

(***************************************************************************)
(* The behaviours                                                          *)
(***************************************************************************)
InitAll ==
  /\ part \in Parts
  /\ AR!Init /\ AW!Init /\ RL!Init /\ TC!Init /\ ST!Init /\ PO!Init /\ AL!Init /\ RR!Init
  /\ CC!CheckInit
  /\ part # "approvals" => ~autoApprove

NextAll ==
  \/ /\ part = "registry" /\ AR!Next
     /\ UNCHANGED <<part, riskVars, workflowVars, limitVars, toolVars, storeVars, policyVars,
                    auditVars, checkVars, alertVars, reportVars>>
  \/ /\ part = "risk" /\ RK!AssetNext
     /\ UNCHANGED <<part, registryVars, workflowVars, limitVars, toolVars, storeVars, policyVars,
                    auditVars, checkVars, alertVars, reportVars>>
  \/ /\ part = "approvals" /\ AW!Next
     /\ UNCHANGED <<part, registryVars, limitVars, toolVars, storeVars, policyVars,
                    auditVars, checkVars, alertVars, reportVars>>
  \/ /\ part = "limits" /\ RL!Next
     /\ UNCHANGED <<part, registryVars, riskVars, workflowVars, toolVars, storeVars, policyVars,
                    auditVars, checkVars, alertVars, reportVars>>
  \/ /\ part = "tools" /\ TC!Next
     /\ UNCHANGED <<part, registryVars, riskVars, workflowVars, limitVars, storeVars, policyVars,
                    auditVars, checkVars, alertVars, reportVars>>
  \/ /\ part = "store" /\ ST!Next
     /\ UNCHANGED <<part, registryVars, riskVars, workflowVars, limitVars, toolVars, policyVars,
                    auditVars, checkVars, alertVars, reportVars>>
  \/ /\ part = "policies" /\ PO!Next
     /\ UNCHANGED <<part, registryVars, riskVars, workflowVars, limitVars, toolVars, storeVars,
                    auditVars, checkVars, alertVars, reportVars>>
  \/ /\ part = "audit" /\ AU!Next
     /\ UNCHANGED <<part, registryVars, riskVars, workflowVars, limitVars, toolVars, storeVars,
                    policyVars, checkVars, alertVars, reportVars>>
  \/ /\ part = "checks" /\ CC!CheckNext
     /\ UNCHANGED <<part, registryVars, riskVars, workflowVars, limitVars, toolVars, storeVars,
                    policyVars, alertVars, reportVars>>
  \/ /\ part = "alerts" /\ AL!Next
     /\ UNCHANGED <<part, registryVars, riskVars, workflowVars, limitVars, toolVars, storeVars,
                    policyVars, auditVars, checkVars, reportVars>>
  \/ /\ part = "reports" /\ RR!Next
     /\ UNCHANGED <<part, registryVars, riskVars, workflowVars, limitVars, toolVars, storeVars,
                    policyVars, auditVars, checkVars, alertVars>>

allVars == <<part, registryVars, riskVars, workflowVars, limitVars, toolVars, storeVars,
             policyVars, auditVars, checkVars, alertVars, reportVars>>

SpecAll == InitAll /\ [][NextAll]_allVars

Symmetry == Permutations({a1, a2, a3})

--------------------------------------------------------------------------------
\* Every variable of the part that runs keeps its type.
TypesOK ==
  CASE part = "registry" -> AR!TypeOK   [] part = "risk" -> RK!AssetTypeOK
    [] part = "approvals" -> AW!TypeOK  [] part = "limits" -> RL!TypeOK
    [] part = "tools" -> TC!TypeOK      [] part = "store" -> ST!TypeOK
    [] part = "policies" -> PO!TypeOK   [] part = "audit" -> AU!TypeOK
    [] part = "checks" -> CC!CheckTypeOK [] part = "alerts" -> AL!TypeOK
    [] part = "reports" -> RR!TypeOK

\* After any sequence of registrations, changes and deletions, those that stop
\* half-way included, the indexes list what is registered and nothing else, and the
\* blast radius over any graph of dependencies, cycles included, misses no asset
\* that would be hit.
RegistryIsWhole == part = "registry" => AR!ListingsResolve /\ AR!RadiusMissesNothing

\* To use more data or to carry one more tag never makes an asset freer: its level
\* and tier only grow, and the users who may use it get fewer.
NeverFreer == part = "risk" => RK!NeverFreer

\* Whatever comes late, twice or out of order: what is executed was approved in
\* time by somebody or by the time-out the policy allows, a decided request changes
\* no more, and a waiting one never asks for less authority; in the memory of a
\* process as in the database.
ApprovalsStand ==
  [](part = "approvals" => AW!ExecutedWasGrantedInTime) /\ AW!DecisionsStand
    /\ ST!DecidedOnceInTime

\* No window lets more through than its limit: neither the middleware, whatever was
\* cut from its histories, nor the rule of rates with its resets, nor the limiter in
\* Redis, where processes that count at once overrun it by one call each at most.
LimitsHold ==
  /\ part = "limits" => RL!WindowsHold /\ RL!OverrunIsBounded
  /\ part = "tools" => TC!ToolLimitHolds

\* A verdict is the one of all the rules that are registered, in whatever order, and
\* an answer from the cache follows every activation and deactivation of a policy.
VerdictsStand ==
  /\ part = "tools" => TC!VerdictIsTheConjunction
  /\ part = "policies" => PO!AnswersFollowActivations

\* Denials of an actor are noticed among the events of others, a violation is
\* reported as long as the last check of its kind found it, and an alert is active
\* until resolving it was the last thing done.
NothingGoesUnnoticed ==
  /\ part = "audit" => AU!DenialsAreNoticed
  /\ part = "checks" => CC!ViolationsAreOfTheLastRun
  /\ part = "alerts" => AL!AlertsStayOpen

\* Whatever the rhythm of the snapshots, a history that lies on a line is forecast
\* on that line.
ForecastExtendsALine == part = "reports" => RR!ForecastExtendsALine
================================================================================
