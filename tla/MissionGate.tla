---------------------------- MODULE MissionGate ----------------------------
(* The governance of one agent: the lifecycle hooks
   (agents/integration/governance_hooks.py), the repositories they write
   through (database/repositories), and the NATS handlers that assess the
   agent again (agents/integration/nats_governance.py).

   Several worker processes serve the same database (Dockerfile.production
   starts four). In one process a hook or a handler runs on the event loop
   without suspending until its last statement, a publication, so a worker
   does one of them at a time; the statements of different workers
   interleave. Every repository method commits: a hook that stops half-way
   leaves what its earlier statements wrote. A statement that fails raises
   either before its commit or after it, in the refresh that follows.

   Requests are those for this agent. Each worker holds its own in-memory
   registry and so its own idea of the risk of the agent; each subscribes
   without a queue group and gets its own copy of a message, unless it is not
   connected.                                                              *)
EXTENDS Integers, Sequences, FiniteSets, TLC

CONSTANTS Workers,    \* processes of the backend
          Missions,   \* missions the agent is asked to start
          Exercises   \* what behaviours exercise, each one of these

EngineTiers == {"critical", "high", "medium", "low", "minimal"}
RowTiers == {"none", "unacceptable", "high", "limited", "minimal"}
Compliance == {"none", "compliant", "needs_review", "non_compliant"}
Statuses == {"pending", "approved", "rejected", "escalated", "expired"}

(* The bounds of a behaviour: missions that may start, engine tiers the agent
   goes through, agent hooks that are called, results of the compliance checks,
   rows of governance_approvals, failing statements. Missions start while the
   agent is registered, assessed and decided about; all hooks are called for one
   agent, with missions and compliance checks; it is assessed again by processes
   whose registries differ; or it is a critical one from the start.          *)
Bounds(exercise) ==
  CASE exercise = "starting" ->
         [missions |-> Missions, risks |-> {"high", "low"}, lifecycle |-> {"create"},
          checks |-> {}, requests |-> 2, faults |-> 1]
    [] exercise = "hooking" ->
         [missions |-> Missions, risks |-> {},
          lifecycle |-> {"create", "update", "delete", "complete"},
          checks |-> {"non_compliant"}, requests |-> 0, faults |-> 1]
    [] exercise = "assessing" ->
         [missions |-> {}, risks |-> {"critical", "high", "low"},
          lifecycle |-> {"create", "update"}, checks |-> {}, requests |-> 0, faults |-> 1]
    [] exercise = "critical" ->
         [missions |-> Missions, risks |-> {"critical"}, lifecycle |-> {"create"},
          checks |-> {}, requests |-> 2, faults |-> 0]
Scopes == {Bounds(exercise) : exercise \in Exercises}

ASSUME GateAssumption ==
  /\ Exercises \subseteq {"starting", "hooking", "assessing", "critical"}
  /\ IsFiniteSet(Workers) /\ "officer" \notin Workers /\ "none" \notin Missions

\* Workers are alike, and so are missions.
GateSymmetry == Permutations(Workers) \cup Permutations(Missions)

VARIABLES
  scope,     \* the bounds of this behaviour
  agent,     \* the row of governance_assets; "source" is a history field:
             \* the engine tier that the tier of the row stands for
  requests,  \* rows of governance_approvals, oldest first; "granted" is a
             \* history field: the request was approved at some time
  lineage,   \* hooks with a lineage event
  audit,     \* hooks with an audit event
  starts,    \* audit events of mission starts, per mission
  memory,    \* engine tier in the registry of each process
  inbox,     \* risk messages a process has yet to handle
  run,       \* what each process is doing
  verdict,   \* what on_mission_started returned, per mission
  basis,     \* what the tier it decided on stood for, per mission
  erred,     \* missions whose call ended in an exception
  begun,     \* hooks and completed missions so far
  faults,    \* statements that failed so far
  raised,    \* times the tier of the row became a gated one
  alerts     \* alerts about that

vars == <<scope, agent, requests, lineage, audit, starts, memory, inbox, run, verdict,
          basis, erred, begun, faults, raised, alerts>>
trail == <<lineage, audit>>
gate == <<starts, verdict, basis, erred>>
risk == <<memory, inbox, raised, alerts>>

Gated == {"unacceptable", "high"}
Hooks == {"create", "update", "delete", "complete"}

\* Mutant: the handler stores the name the engine uses.
EngineName(t) == t

\* Mutant: the entry of tier_map for "high" is missing.
MapWithoutHigh(t) == IF t = "minimal" THEN t ELSE "limited"

(* tier_map.get(tier, LIMITED): the engine's names are not those of the row. *)
DbTier(t) == IF t \in RowTiers \ {"none"} THEN t ELSE "limited"

Row == [known : BOOLEAN, tier : RowTiers, source : EngineTiers \cup {"none"},
        compliance : Compliance, archived : BOOLEAN]
NoRow == [known |-> FALSE, tier |-> "none", source |-> "none",
          compliance |-> "none", archived |-> FALSE]
Idle == [op |-> "idle", at |-> "end", mission |-> "none", tier |-> "none",
         engine |-> "none"]

Init ==
  /\ scope \in Scopes
  /\ agent = NoRow
  /\ requests = <<>>
  /\ lineage = {} /\ audit = {}
  /\ starts = [m \in Missions |-> {}]
  /\ memory = [w \in Workers |-> "none"]
  /\ inbox = [w \in Workers |-> 0]
  /\ run = [w \in Workers |-> Idle]
  /\ verdict = [m \in Missions |-> "none"]
  /\ basis = [m \in Missions |-> "unknown"]
  /\ erred = {} /\ begun = {} /\ faults = 0 /\ raised = 0 /\ alerts = 0

At(w, op, at) == run[w].op = op /\ run[w].at = at
GoTo(w, at) == run' = [run EXCEPT ![w].at = at]
Free(w) == run' = [run EXCEPT ![w] = Idle]
Fault == faults < scope.faults /\ faults' = faults + 1

(***************************************************************************)
(* The hooks on_agent_created, on_agent_updated, on_agent_deleted and      *)
(* on_mission_completed: asset, lineage event, audit event, message.       *)
(***************************************************************************)
BeginHook(w, op) ==
  /\ run[w] = Idle
  /\ op \in scope.lifecycle \ (begun \cup {"complete"})
  /\ begun' = begun \cup {op}
  /\ run' = [run EXCEPT ![w] = [Idle EXCEPT !.op = op, !.at = "asset"]]
  /\ UNCHANGED <<agent, requests, trail, gate, risk, faults>>

BeginCompleted(w, m) ==
  /\ run[w] = Idle
  /\ "complete" \in scope.lifecycle
  /\ verdict[m] = "allowed" /\ m \notin begun
  /\ begun' = begun \cup {m}
  /\ run' = [run EXCEPT ![w] = [Idle EXCEPT !.op = "complete", !.at = "lineage"]]
  /\ UNCHANGED <<agent, requests, trail, gate, risk, faults>>

Following == [asset |-> "lineage", lineage |-> "audit", audit |-> "tell"]

(* What the statement that comes next in worker w writes. *)
Write(w) ==
  LET op == run[w].op
  IN /\ agent' = CASE run[w].at # "asset" -> agent
                   [] op = "create" -> [agent EXCEPT !.known = TRUE]
                   [] op = "delete" -> [agent EXCEPT !.archived = TRUE]
                   [] OTHER -> agent
     /\ lineage' = IF run[w].at = "lineage" THEN lineage \cup {op} ELSE lineage
     /\ audit' = IF run[w].at = "audit" THEN audit \cup {op} ELSE audit

(* Without its row an agent is not updated or archived, and events about it
   break their foreign key. *)
Refused(w) == ~agent.known /\ ~At(w, "create", "asset")

Statement(w) ==
  /\ run[w].op \in Hooks /\ run[w].at \in DOMAIN Following
  /\ \/ Refused(w) /\ Free(w) /\ UNCHANGED <<agent, trail, faults>>
     \/ ~Refused(w) /\ Write(w) /\ GoTo(w, Following[run[w].at]) /\ UNCHANGED faults
     \/ ~Refused(w) /\ Fault /\ Free(w) /\ (Write(w) \/ UNCHANGED <<agent, trail>>)
  /\ UNCHANGED <<requests, gate, risk, begun>>

(* publish_risk_recalculation reaches the workers that are connected; an
   update that is not significant and a mission that did not fail send none. *)
Tell(w) ==
  /\ run[w].op \in Hooks /\ run[w].at = "tell"
  /\ \E S \in SUBSET Workers :
       /\ run[w].op = "delete" => S = {}
       /\ inbox' = [v \in Workers |-> IF v \in S THEN inbox[v] + 1 ELSE inbox[v]]
  /\ Free(w)
  /\ UNCHANGED <<agent, requests, trail, gate, memory, raised, alerts, begun, faults>>

(***************************************************************************)
(* on_mission_started                                                      *)
(***************************************************************************)
Answer(w, m, a) == verdict' = [verdict EXCEPT ![m] = a] /\ Free(w)

Asked(m) == verdict[m] # "none" \/ \E w \in Workers : run[w].mission = m

(* The row is read: an agent that is not registered may start. *)
Start(w, m) ==
  /\ run[w] = Idle /\ ~Asked(m)
  /\ IF ~agent.known
     THEN Answer(w, m, "allowed") /\ UNCHANGED basis
     ELSE /\ basis' = [basis EXCEPT ![m] = agent.source]
          /\ run' = [run EXCEPT ![w] =
               [Idle EXCEPT !.op = "start", !.mission = m,
                            !.at = CASE agent.compliance = "non_compliant" -> "block"
                                     [] agent.tier \in Gated -> "approved"
                                     [] OTHER -> "clear"]]
          /\ UNCHANGED verdict
  /\ UNCHANGED <<agent, requests, trail, risk, starts, erred, begun, faults>>

WithStatus(s) == {i \in DOMAIN requests : requests[i].status = s}

LookForApproved(w) ==
  /\ At(w, "start", "approved")
  /\ GoTo(w, IF WithStatus("approved") # {} THEN "clear" ELSE "pending")
  /\ UNCHANGED <<agent, requests, trail, gate, risk, begun, faults>>

\* Mutant: only approved requests are looked for.
NeverLooks(w) ==
  /\ At(w, "start", "pending")
  /\ GoTo(w, "request")
  /\ UNCHANGED <<agent, requests, trail, gate, risk, begun, faults>>

LookForPending(w) ==
  /\ At(w, "start", "pending")
  /\ IF WithStatus("pending") = {}
     THEN GoTo(w, "request") /\ UNCHANGED verdict
     ELSE Answer(w, run[w].mission, "blocked")
  /\ UNCHANGED <<agent, requests, trail, risk, starts, basis, erred, begun, faults>>

NewRequest(by) == [status |-> "pending", by |-> by, granted |-> FALSE]

CreateRequest(w) ==
  /\ At(w, "start", "request")
  /\ Len(requests) < scope.requests
  /\ requests' = Append(requests, NewRequest(w))
  /\ GoTo(w, "block")
  /\ UNCHANGED <<agent, trail, gate, risk, begun, faults>>

AuditBlocked(w) ==
  /\ At(w, "start", "block")
  /\ starts' = [starts EXCEPT ![run[w].mission] = @ \cup {"blocked"}]
  /\ Answer(w, run[w].mission, "blocked")
  /\ UNCHANGED <<agent, requests, trail, risk, basis, erred, begun, faults>>

AuditStarted(w) ==
  /\ At(w, "start", "clear")
  /\ starts' = [starts EXCEPT ![run[w].mission] = @ \cup {"started"}]
  /\ Answer(w, run[w].mission, "allowed")
  /\ UNCHANGED <<agent, requests, trail, risk, basis, erred, begun, faults>>

\* Mutant: the mission is held back on an error.
BlocksOnError(w, m) == Answer(w, m, "blocked")

(* Any statement of the hook raises, written or not: the mission is allowed. *)
AnswerOnError(w, m) == Answer(w, m, "allowed")

StartFails(w) ==
  LET m == run[w].mission
  IN /\ run[w].op = "start" /\ Fault
     /\ \/ UNCHANGED <<requests, starts>>
        \/ /\ run[w].at = "request" /\ Len(requests) < scope.requests
           /\ requests' = Append(requests, NewRequest(w))
           /\ UNCHANGED starts
        \/ /\ run[w].at \in {"block", "clear"}
           /\ starts' = [starts EXCEPT ![m] =
                @ \cup {IF run[w].at = "block" THEN "blocked" ELSE "started"}]
           /\ UNCHANGED requests
     /\ erred' = erred \cup {m}
     /\ AnswerOnError(w, m)
     /\ UNCHANGED <<agent, trail, risk, basis, begun>>

ReadFails(w, m) ==
  /\ run[w] = Idle /\ ~Asked(m) /\ Fault
  /\ erred' = erred \cup {m}
  /\ AnswerOnError(w, m)
  /\ UNCHANGED <<agent, requests, trail, risk, starts, basis, begun>>

(***************************************************************************)
(* The table of requests: ApprovalRepository looks at no state before it   *)
(* writes one. Requests of a hook have no expires_at.                      *)
(***************************************************************************)
Decide(i, s) ==
  /\ s \in {"approved", "rejected", "escalated"}
  /\ requests' = [requests EXCEPT ![i].status = s, ![i].granted = @ \/ s = "approved"]
  /\ UNCHANGED <<agent, trail, gate, risk, run, begun, faults>>

ExpireOld(S) ==
  /\ S # {}
  /\ S \subseteq {i \in WithStatus("pending") : requests[i].by = "officer"}
  /\ requests' = [i \in DOMAIN requests |->
       IF i \in S THEN [requests[i] EXCEPT !.status = "expired"] ELSE requests[i]]
  /\ UNCHANGED <<agent, trail, gate, risk, run, begun, faults>>

FileRequest ==
  /\ agent.known /\ Len(requests) < scope.requests
  /\ requests' = Append(requests, NewRequest("officer"))
  /\ UNCHANGED <<agent, trail, gate, risk, run, begun, faults>>

(***************************************************************************)
(* The handlers of the NATS subscriptions.                                 *)
(***************************************************************************)
(* The registry of a process changes: tags, assessments, incidents. *)
Assess(w, t) ==
  /\ memory' = [memory EXCEPT ![w] = t]
  /\ memory' # memory
  /\ UNCHANGED <<agent, requests, trail, gate, inbox, raised, alerts, run, begun, faults>>

(* handle_risk_recalculation scores the agent and reads its row. *)
Recalculate(w) ==
  /\ run[w] = Idle /\ inbox[w] > 0
  /\ inbox' = [inbox EXCEPT ![w] = @ - 1]
  /\ IF memory[w] # "none" /\ agent.known
     THEN run' = [run EXCEPT ![w] = [Idle EXCEPT !.op = "risk", !.at = "write",
                                       !.tier = agent.tier, !.engine = memory[w]]]
     ELSE UNCHANGED run
  /\ UNCHANGED <<agent, requests, trail, gate, memory, raised, alerts, begun, faults>>

(* update_risk_assessment: the session writes the tier only if it differs from
   the one it loaded. *)
WriteTier(w) ==
  LET t == DbTier(run[w].engine)
      after == IF t = run[w].tier THEN agent.tier ELSE t
  IN /\ agent' = [agent EXCEPT !.tier = after,
                    !.source = IF after = t THEN run[w].engine ELSE @]
     /\ raised' = IF after \in Gated /\ after # agent.tier THEN raised + 1 ELSE raised

\* Mutant: only the highest tier of the row raises an alert.
OnlyUnacceptable(w) == DbTier(run[w].engine) = "unacceptable"

Escalates(w) == LET t == DbTier(run[w].engine)
                IN t \in Gated /\ t # run[w].tier

WriteRisk(w) ==
  /\ At(w, "risk", "write")
  /\ WriteTier(w)
  /\ IF Escalates(w) THEN GoTo(w, "alert") ELSE Free(w)
  /\ UNCHANGED <<requests, trail, gate, memory, inbox, alerts, begun, faults>>

(* The statement raises, or Redis does when the cached score is dropped. *)
RiskFails(w) ==
  /\ At(w, "risk", "write") /\ Fault
  /\ WriteTier(w) \/ UNCHANGED <<agent, raised>>
  /\ Free(w)
  /\ UNCHANGED <<requests, trail, gate, memory, inbox, alerts, begun>>

Alert(w) ==
  /\ At(w, "risk", "alert")
  /\ alerts' = alerts + 1
  /\ Free(w)
  /\ UNCHANGED <<agent, requests, trail, gate, memory, inbox, raised, begun, faults>>

AlertFails(w) ==
  /\ At(w, "risk", "alert") /\ Fault
  /\ Free(w)
  /\ UNCHANGED <<agent, requests, trail, gate, risk, begun>>

(* handle_compliance_check writes the status its score stands for; nothing
   here reads its alert. *)
CheckCompliance(w, c) ==
  /\ run[w] = Idle /\ agent.known
  /\ agent' = [agent EXCEPT !.compliance = c]
  /\ agent' # agent
  /\ UNCHANGED <<requests, trail, gate, risk, run, begun, faults>>

HookStep(w) ==
  \/ \E op \in scope.lifecycle : BeginHook(w, op)
  \/ \E m \in Missions : BeginCompleted(w, m)
  \/ Statement(w)
  \/ Tell(w)
StartStep(w) ==
  \/ \E m \in scope.missions : Start(w, m) \/ ReadFails(w, m)
  \/ LookForApproved(w) \/ LookForPending(w) \/ CreateRequest(w)
  \/ AuditBlocked(w) \/ AuditStarted(w) \/ StartFails(w)
RequestStep ==
  \/ \E i \in DOMAIN requests, s \in Statuses : Decide(i, s)
  \/ \E S \in SUBSET DOMAIN requests : ExpireOld(S)
  \/ FileRequest
HandlerStep(w) ==
  \/ \E t \in scope.risks : Assess(w, t)
  \/ Recalculate(w) \/ WriteRisk(w) \/ RiskFails(w) \/ Alert(w) \/ AlertFails(w)
  \/ \E c \in scope.checks : CheckCompliance(w, c)

Next ==
  /\ \/ \E w \in Workers : HookStep(w) \/ StartStep(w) \/ HandlerStep(w)
     \/ RequestStep
  /\ UNCHANGED scope

Spec == Init /\ [][Next]_vars

(***************************************************************************)
(* Properties                                                              *)
(***************************************************************************)
TypeOK ==
  /\ scope \in Scopes
  /\ agent \in Row
  /\ requests \in Seq([status : Statuses, by : Workers \cup {"officer"}, granted : BOOLEAN])
  /\ lineage \subseteq Hooks /\ audit \subseteq Hooks
  /\ starts \in [Missions -> SUBSET {"started", "blocked"}]
  /\ memory \in [Workers -> scope.risks \cup {"none"}]
  /\ inbox \in [Workers -> Nat]
  /\ run \in [Workers ->
       [op : Hooks \cup {"start", "risk", "idle"},
        at : {"asset", "lineage", "audit", "tell", "approved", "pending", "request",
              "block", "clear", "write", "alert", "end"},
        mission : Missions \cup {"none"}, tier : RowTiers, engine : scope.risks \cup {"none"}]]
  /\ verdict \in [Missions -> {"none", "allowed", "blocked"}]
  /\ basis \in [Missions -> EngineTiers \cup {"none", "unknown"}]
  /\ erred \subseteq Missions /\ begun \subseteq scope.lifecycle \cup Missions
  /\ faults \in 0..scope.faults /\ raised \in Nat /\ alerts \in Nat

Pending(i) == i \in WithStatus("pending") /\ requests[i].by \in Workers

(* However the workers interleave, the statements fail and the officers
   decide, no process has two undecided requests of its own for an agent: the
   duplicates that the look for a pending one lets through are at most one for
   each process. *)
OnePendingPerWorker ==
  \A i, j \in DOMAIN requests :
    Pending(i) /\ Pending(j) /\ requests[i].by = requests[j].by => i = j

(* A mission that started without an exception, on a row whose tier stands for
   the engine tier t, started after somebody approved a request. *)
NeedsApproval(t) ==
  \A m \in Missions :
    verdict[m] = "allowed" /\ m \notin erred /\ basis[m] = t
      => \E i \in DOMAIN requests : requests[i].granted

(* The assessment, the stored tier and the gate agree for the tier "high", and
   the audit never says "started" of a mission that was held back, also if a
   statement fails. *)
GateHolds ==
  /\ NeedsApproval("high")
  /\ \A m \in Missions : "started" \in starts[m] => verdict[m] = "allowed"

(* "CRITICAL ... C-Level approval required" (risk_scoring.py:37) and "high-risk
   and unacceptable agents require an approved governance approval before
   executing any mission" (governance_hooks.py:356): an agent the engine put
   above "high" is not freer than one at "high". *)
CriticalNeedsApproval == NeedsApproval("critical")

AboutToAlert == {w \in Workers : At(w, "risk", "alert")}

(* Each time the stored tier becomes a gated one, by whichever process and
   however stale the row it read, an alert is or will be published, unless a
   statement fails. *)
EscalationIsAlerted == raised <= alerts + Cardinality(AboutToAlert) + faults
=============================================================================
