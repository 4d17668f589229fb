---------------------------- MODULE MissionGateProofs ----------------------------
(***************************************************************************)
(* Proofs about MissionGate, for any finite set of worker processes and any*)
(* missions: one undecided request per process, no mission of a gated agent*)
(* without an approval, no rise of the stored tier without an alert.       *)
(***************************************************************************)
EXTENDS MissionGate, FiniteSetTheorems, TLAPS

Ops == Hooks \cup {"start", "risk", "idle"}
Places == {"asset", "lineage", "audit", "tell", "approved", "pending", "request",
           "block", "clear", "write", "alert", "end"}
Activity == [op : Ops, at : Places, mission : Missions \cup {"none"}, tier : RowTiers,
             engine : scope.risks \cup {"none"}]
Request == [status : Statuses, by : Workers \cup {"officer"}, granted : BOOLEAN]

\* The types alone are not inductive: a start that fails records its mission.
Named == \A w \in Workers : run[w].op = "start" <=> run[w].mission # "none"

--------------------------------------------------------------------------------
(* Types.                                                                      *)

\* What every choice of bounds has in common.
LEMMA ScopeIs ==
  ASSUME scope \in Scopes
  PROVE  /\ scope.risks \subseteq EngineTiers /\ scope.missions \subseteq Missions
         /\ scope.lifecycle \subseteq Hooks /\ scope.checks \subseteq Compliance
         /\ scope.faults \in Nat
  BY GateAssumption DEF Scopes, Bounds, EngineTiers, Hooks, Compliance

LEMMA IsASeq ==
  ASSUME NEW S, NEW n \in Nat, NEW s \in [1 .. n -> S]
  PROVE  s \in Seq(S)
  OBVIOUS

LEMMA InitTypes == Init => TypeOK
<1>. SUFFICES ASSUME Init PROVE TypeOK
  OBVIOUS
<1>1. scope \in Scopes /\ scope.faults \in Nat
  BY ScopeIs DEF Init
<1>2. agent \in Row
  BY DEF Init, Row, NoRow, RowTiers, Compliance
<1>3. run \in [Workers -> Activity]
  BY DEF Init, Activity, Idle, Ops, Places, RowTiers
<1>. QED
  BY <1>1, <1>2, <1>3 DEF Init, TypeOK, Activity, Ops, Places

\* A worker goes on, or ends, as what it is.
LEMMA GoesOn ==
  ASSUME TypeOK, NEW w \in Workers, NEW at \in Places, GoTo(w, at)
  PROVE  run' \in [Workers -> Activity]
<1>1. run \in [Workers -> Activity]
  BY DEF TypeOK, Activity, Ops, Places
<1>2. [run[w] EXCEPT !.at = at] \in Activity
  BY <1>1 DEF Activity
<1>. QED BY <1>1, <1>2 DEF GoTo

LEMMA Ends ==
  ASSUME TypeOK, NEW w \in Workers, Free(w)
  PROVE  run' \in [Workers -> Activity]
  BY DEF TypeOK, Free, Activity, Ops, Places, Idle, RowTiers

\* The types, variable by variable, after a step that keeps the bounds.
LEMMA TypesFrom ==
  ASSUME TypeOK, UNCHANGED scope,
         agent' \in Row, requests' \in Seq(Request), lineage' \subseteq Hooks,
         audit' \subseteq Hooks, starts' \in [Missions -> SUBSET {"started", "blocked"}],
         memory' \in [Workers -> scope.risks \cup {"none"}], inbox' \in [Workers -> Nat],
         run' \in [Workers -> Activity],
         verdict' \in [Missions -> {"none", "allowed", "blocked"}],
         basis' \in [Missions -> EngineTiers \cup {"none", "unknown"}],
         erred' \subseteq Missions, begun' \subseteq scope.lifecycle \cup Missions,
         faults' \in 0 .. scope.faults, raised' \in Nat, alerts' \in Nat
  PROVE  TypeOK'
  BY DEF TypeOK, Activity, Ops, Places, Request

\* The statements of the hooks.
LEMMA HookTypes ==
  ASSUME TypeOK, UNCHANGED scope, NEW w \in Workers, HookStep(w)
  PROVE  TypeOK'
<1>. USE ScopeIs DEF trail, gate, risk
<1>1. ASSUME NEW op \in scope.lifecycle, BeginHook(w, op) PROVE TypeOK'
  <2>1. run' \in [Workers -> Activity]
    BY <1>1 DEF BeginHook, TypeOK, Activity, Ops, Places, Idle, RowTiers
  <2>. QED BY <1>1, <2>1, TypesFrom DEF BeginHook, TypeOK, Request
<1>2. ASSUME NEW m \in Missions, BeginCompleted(w, m) PROVE TypeOK'
  <2>1. run' \in [Workers -> Activity]
    BY <1>2 DEF BeginCompleted, TypeOK, Activity, Ops, Places, Idle, RowTiers, Hooks
  <2>. QED BY <1>2, <2>1, TypesFrom DEF BeginCompleted, TypeOK, Request
<1>3. CASE Statement(w)
  <2>1. run' \in [Workers -> Activity]
    <3>1. run[w].at \in DOMAIN Following => Following[run[w].at] \in Places
      BY DEF Following, Places
    <3>. QED BY <1>3, <3>1, GoesOn, Ends DEF Statement
  <2>2. ASSUME Write(w)
        PROVE  agent' \in Row /\ lineage' \subseteq Hooks /\ audit' \subseteq Hooks
    BY <1>3, <2>2 DEF Statement, Write, TypeOK, Row
  <2>3. agent' \in Row /\ lineage' \subseteq Hooks /\ audit' \subseteq Hooks
    BY <1>3, <2>2 DEF Statement, TypeOK
  <2>4. faults' \in 0 .. scope.faults
    BY <1>3 DEF Statement, Fault, TypeOK
  <2>. QED BY <1>3, <2>1, <2>3, <2>4, TypesFrom DEF Statement, TypeOK, Request
<1>4. CASE Tell(w)
  <2>1. run' \in [Workers -> Activity]
    BY <1>4, Ends DEF Tell
  <2>2. inbox' \in [Workers -> Nat]
    BY <1>4 DEF Tell, TypeOK
  <2>. QED BY <1>4, <2>1, <2>2, TypesFrom DEF Tell, TypeOK, Request
<1>. QED BY <1>1, <1>2, <1>3, <1>4 DEF HookStep

\* The steps of on_mission_started.
LEMMA StartTypes ==
  ASSUME TypeOK, Named, UNCHANGED scope, NEW w \in Workers, StartStep(w)
  PROVE  TypeOK'
<1>. USE ScopeIs DEF trail, gate, risk
<1>1. ASSUME NEW m \in Missions, Start(w, m) PROVE TypeOK'
  <2>1. /\ run' \in [Workers -> Activity]
        /\ basis' \in [Missions -> EngineTiers \cup {"none", "unknown"}]
        /\ verdict' \in [Missions -> {"none", "allowed", "blocked"}]
    <3>1. CASE ~ agent.known
      BY <1>1, <3>1, Ends DEF Start, Answer, TypeOK
    <3>2. CASE agent.known
      <4>1. PICK at \in Places : run' = [run EXCEPT ![w] =
                                   [Idle EXCEPT !.op = "start", !.mission = m, !.at = at]]
        BY <1>1, <3>2 DEF Start, Places
      <4>2. [Idle EXCEPT !.op = "start", !.mission = m, !.at = at] \in Activity
        BY DEF Idle, Activity, Ops, RowTiers
      <4>3. run' \in [Workers -> Activity]
        BY <4>1, <4>2 DEF TypeOK, Activity, Ops, Places
      <4>4. agent.source \in EngineTiers \cup {"none", "unknown"}
        BY DEF TypeOK, Row
      <4>5. basis' = [basis EXCEPT ![m] = agent.source] /\ verdict' = verdict
        BY <1>1, <3>2 DEF Start
      <4>. QED BY <4>3, <4>4, <4>5 DEF TypeOK
    <3>. QED BY <3>1, <3>2
  <2>. QED BY <1>1, <2>1, TypesFrom DEF Start, TypeOK, Request
<1>2. ASSUME NEW m \in Missions, ReadFails(w, m) PROVE TypeOK'
  BY <1>2, TypesFrom DEF ReadFails, AnswerOnError, Answer, Fault, Idle, TypeOK, Request,
     Activity, Ops, Places, Free, RowTiers
<1>3. CASE LookForApproved(w)
  <2>1. run' \in [Workers -> Activity]
    BY <1>3, GoesOn DEF LookForApproved, Places
  <2>. QED BY <1>3, <2>1, TypesFrom DEF LookForApproved, TypeOK, Request
<1>4. CASE LookForPending(w)
  <2>1. run' \in [Workers -> Activity]
    BY <1>4, GoesOn, Ends DEF LookForPending, Answer, Places
  <2>. QED BY <1>4, <2>1, TypesFrom DEF LookForPending, Answer, TypeOK, Request
<1>5. NewRequest(w) \in Request
  BY DEF NewRequest, Request, Statuses
<1>6. CASE CreateRequest(w)
  <2>1. run' \in [Workers -> Activity]
    BY <1>6, GoesOn DEF CreateRequest, Places
  <2>2. requests' \in Seq(Request)
    BY <1>5, <1>6 DEF CreateRequest, TypeOK, Request
  <2>. QED BY <1>6, <2>1, <2>2, TypesFrom DEF CreateRequest, TypeOK
<1>7. CASE AuditBlocked(w) \/ AuditStarted(w)
  <2>1. run' \in [Workers -> Activity]
    BY <1>7, Ends DEF AuditBlocked, AuditStarted, Answer
  <2>2. PICK a \in {"allowed", "blocked"}, b \in {"started", "blocked"} :
          /\ verdict' = [verdict EXCEPT ![run[w].mission] = a]
          /\ starts' = [starts EXCEPT ![run[w].mission] = @ \cup {b}]
    BY <1>7 DEF AuditBlocked, AuditStarted, Answer
  <2>3. /\ verdict' \in [Missions -> {"none", "allowed", "blocked"}]
        /\ starts' \in [Missions -> SUBSET {"started", "blocked"}]
    BY <2>2 DEF TypeOK
  <2>. QED BY <1>7, <2>1, <2>3, TypesFrom DEF AuditBlocked, AuditStarted, TypeOK, Request
<1>8. CASE StartFails(w)
  <2>1. /\ run[w].mission \in Missions
        /\ erred' = erred \cup {run[w].mission}
        /\ Answer(w, run[w].mission, "allowed") /\ Fault
    BY <1>8 DEF StartFails, AnswerOnError, TypeOK, Named
  <2>2. run' \in [Workers -> Activity]
    BY <2>1, Ends DEF Answer
  <2>3. requests' \in Seq(Request)
    <3>1. requests' = requests \/ requests' = Append(requests, NewRequest(w))
      BY <1>8 DEF StartFails
    <3>2. requests \in Seq(Request)
      BY DEF TypeOK, Request
    <3>. QED BY <1>5, <3>1, <3>2
  <2>4. \/ starts' = starts
        \/ \E b \in {"started", "blocked"} :
             starts' = [starts EXCEPT ![run[w].mission] = @ \cup {b}]
    BY <1>8 DEF StartFails
  <2>5. starts' \in [Missions -> SUBSET {"started", "blocked"}]
    BY <2>4 DEF TypeOK
  <2>6. erred' \subseteq Missions
    BY <2>1 DEF TypeOK
  <2>7. /\ verdict' \in [Missions -> {"none", "allowed", "blocked"}]
        /\ faults' \in 0 .. scope.faults
    BY <2>1 DEF Answer, Fault, TypeOK
  <2>8. UNCHANGED <<agent, trail, risk, basis, begun>>
    BY <1>8 DEF StartFails
  <2>. QED BY <2>2, <2>3, <2>5, <2>6, <2>7, <2>8, TypesFrom DEF TypeOK
<1>9. scope.missions \subseteq Missions
  BY DEF TypeOK
<1>. QED
  BY <1>1, <1>2, <1>3, <1>4, <1>6, <1>7, <1>8, <1>9 DEF StartStep

\* What officers do with the requests.
LEMMA RequestTypes ==
  ASSUME TypeOK, UNCHANGED scope, RequestStep
  PROVE  TypeOK'
<1>. USE DEF trail, gate, risk
<1>1. requests \in Seq(Request)
  BY DEF TypeOK, Request
<1>2. ASSUME requests' \in Seq(Request),
             UNCHANGED <<agent, trail, gate, risk, run, begun, faults>>
      PROVE  TypeOK'
  BY <1>2 DEF TypeOK, Request
<1>3. ASSUME NEW i \in DOMAIN requests, NEW s \in Statuses, Decide(i, s) PROVE TypeOK'
  <2>1. PICK g \in BOOLEAN : g = (requests[i].granted \/ s = "approved")
    OBVIOUS
  <2>2. requests' = [requests EXCEPT ![i].status = s, ![i].granted = g]
    BY <1>3, <2>1 DEF Decide
  <2>3. requests' \in Seq(Request)
    <3>1. requests[i] \in Request
      BY <1>1
    <3>2. PICK r \in Request : r = [requests[i] EXCEPT !.status = s, !.granted = g]
      BY <3>1 DEF Request
    <3>3. requests' = [requests EXCEPT ![i] = r]
      BY <2>2, <3>2
    <3>. QED BY <1>1, <3>3
  <2>. QED BY <1>2, <1>3, <2>3 DEF Decide
<1>4. ASSUME NEW S \in SUBSET DOMAIN requests, ExpireOld(S) PROVE TypeOK'
  <2>1. \A i \in DOMAIN requests : [requests[i] EXCEPT !.status = "expired"] \in Request
    <3>1. \A r \in Request : [r EXCEPT !.status = "expired"] \in Request
      BY DEF Request, Statuses
    <3>. QED BY <1>1, <3>1
  <2>2. requests' \in Seq(Request)
    <3>1. requests' \in [1 .. Len(requests) -> Request]
      BY <1>1, <1>4, <2>1 DEF ExpireOld
    <3>2. Len(requests) \in Nat
      BY <1>1
    <3>. QED BY <3>1, <3>2, IsASeq
  <2>. QED BY <1>2, <1>4, <2>2 DEF ExpireOld
<1>5. CASE FileRequest
  <2>1. NewRequest("officer") \in Request
    BY DEF NewRequest, Request, Statuses
  <2>. QED BY <1>1, <1>2, <1>5, <2>1 DEF FileRequest
<1>. QED BY <1>3, <1>4, <1>5 DEF RequestStep

\* The handlers of the messages.
LEMMA HandlerTypes ==
  ASSUME TypeOK, UNCHANGED scope, NEW w \in Workers, HandlerStep(w)
  PROVE  TypeOK'
<1>. USE ScopeIs DEF trail, gate, risk
<1>1. ASSUME NEW t \in scope.risks, Assess(w, t) PROVE TypeOK'
  BY <1>1 DEF Assess, TypeOK
<1>2. CASE Recalculate(w)
  <2>1. run' \in [Workers -> Activity]
    <3>1. agent.tier \in RowTiers /\ memory[w] \in scope.risks \cup {"none"}
      BY DEF TypeOK, Row
    <3>2. PICK a : a = [op |-> "risk", at |-> "write", mission |-> "none",
                        tier |-> agent.tier, engine |-> memory[w]]
      OBVIOUS
    <3>3. a \in Activity
      BY <3>1, <3>2 DEF Activity, Ops, Places
    <3>4. UNCHANGED run \/ run' = [run EXCEPT ![w] = a]
      BY <1>2, <3>2 DEF Recalculate, Idle
    <3>5. run \in [Workers -> Activity]
      BY DEF TypeOK, Activity, Ops, Places
    <3>. QED BY ONLY <3>3, <3>4, <3>5
  <2>2. inbox' \in [Workers -> Nat]
    BY <1>2 DEF Recalculate, TypeOK
  <2>. QED BY <1>2, <2>1, <2>2, TypesFrom DEF Recalculate, TypeOK, Request
<1>3. ASSUME WriteTier(w)
      PROVE  agent' \in Row /\ raised' \in Nat
  <2>1. run[w].engine \in EngineTiers \cup {"none"} /\ run[w].tier \in RowTiers
    BY DEF TypeOK
  <2>2. DbTier(run[w].engine) \in RowTiers
    BY DEF DbTier, RowTiers
  <2>3. PICK a \in RowTiers, e \in EngineTiers \cup {"none"} :
          agent' = [agent EXCEPT !.tier = a, !.source = e]
    <3>1. agent \in Row
      BY DEF TypeOK
    <3>2. agent.tier \in RowTiers /\ agent.source \in EngineTiers \cup {"none"}
      BY <3>1 DEF Row
    <3>. QED BY <1>3, <2>1, <2>2, <3>2 DEF WriteTier
  <2>4. agent' \in Row
    BY <2>3 DEF TypeOK, Row
  <2>5. raised' \in Nat
    BY <1>3 DEF WriteTier, TypeOK
  <2>. QED BY <2>4, <2>5
<1>4. CASE WriteRisk(w)
  <2>1. run' \in [Workers -> Activity]
    BY <1>4, GoesOn, Ends DEF WriteRisk, Places
  <2>. QED BY <1>3, <1>4, <2>1, TypesFrom DEF WriteRisk, TypeOK, Request
<1>5. CASE RiskFails(w)
  <2>1. run' \in [Workers -> Activity]
    BY <1>5, Ends DEF RiskFails
  <2>2. faults' \in 0 .. scope.faults
    BY <1>5 DEF RiskFails, Fault, TypeOK
  <2>3. agent' \in Row /\ raised' \in Nat
    BY <1>3, <1>5 DEF RiskFails, TypeOK
  <2>. QED BY <1>5, <2>1, <2>2, <2>3, TypesFrom DEF RiskFails, TypeOK, Request
<1>6. CASE Alert(w) \/ AlertFails(w)
  <2>1. run' \in [Workers -> Activity]
    BY <1>6, Ends DEF Alert, AlertFails
  <2>2. faults' \in 0 .. scope.faults /\ alerts' \in Nat
    BY <1>6 DEF Alert, AlertFails, Fault, TypeOK
  <2>. QED BY <1>6, <2>1, <2>2, TypesFrom DEF Alert, AlertFails, TypeOK, Request
<1>7. ASSUME NEW c \in scope.checks, CheckCompliance(w, c) PROVE TypeOK'
  <2>1. c \in Compliance
    BY DEF TypeOK
  <2>. QED BY <1>7, <2>1 DEF CheckCompliance, TypeOK, Row
<1>. QED BY <1>1, <1>2, <1>4, <1>5, <1>6, <1>7 DEF HandlerStep

LEMMA TypesStep == TypeOK /\ Named /\ [Next]_vars => TypeOK'
<1>1. CASE UNCHANGED vars
  BY <1>1 DEF vars, TypeOK
<1>. QED BY <1>1, HookTypes, StartTypes, RequestTypes, HandlerTypes DEF Next, TypeOK

--------------------------------------------------------------------------------
(* Which process starts which mission.                                         *)

\* A mission that is starting has no verdict and one process that starts it.
Starting ==
  /\ \A w \in Workers : run[w].mission # "none" => verdict[run[w].mission] = "none"
  /\ \A v, w \in Workers :
       run[v].mission = run[w].mission /\ run[v].mission # "none" => v = w

\* A step of w leaves what the others are doing.
Others(w) == \A v \in Workers \ {w} : run'[v] = run[v]

\* Worker w stays at what it does, or ends it, or does something of a hook or
\* of a handler: no mission starts and none is answered.
Elsewhere(w) ==
  /\ Others(w) /\ UNCHANGED verdict
  /\ \/ run'[w].op = run[w].op /\ run'[w].mission = run[w].mission
     \/ run'[w].op # "start" /\ run'[w].mission = "none"

Begins(w, m) ==
  /\ Others(w) /\ UNCHANGED verdict /\ ~Asked(m)
  /\ run'[w].op = "start" /\ run'[w].mission = m

Answers(w, m) ==
  /\ Others(w) /\ run'[w] = Idle
  /\ m = run[w].mission \/ ~Asked(m)
  /\ \A n \in Missions \ {m} : verdict'[n] = verdict[n]

LEMMA GoingIsElsewhere ==
  ASSUME TypeOK, NEW w \in Workers, UNCHANGED verdict,
         (\E at \in Places : GoTo(w, at)) \/ Free(w) \/ UNCHANGED run
  PROVE  Elsewhere(w)
  BY DEF TypeOK, GoTo, Free, Elsewhere, Others, Idle

LEMMA AnswerIs ==
  ASSUME TypeOK, NEW w \in Workers, NEW m \in Missions, NEW a, Answer(w, m, a),
         m = run[w].mission \/ ~Asked(m)
  PROVE  Answers(w, m) /\ verdict'[m] = a
<1>1. run' = [run EXCEPT ![w] = Idle] /\ verdict' = [verdict EXCEPT ![m] = a]
  BY DEF Answer, Free
<1>2. DOMAIN run = Workers /\ DOMAIN verdict = Missions
  BY DEF TypeOK
<1>. QED BY <1>1, <1>2 DEF Answers, Others

LEMMA HooksAreElsewhere ==
  ASSUME TypeOK, NEW w \in Workers, HookStep(w)
  PROVE  Elsewhere(w)
<1>. USE DEF gate
<1>1. ASSUME NEW op \in scope.lifecycle, BeginHook(w, op) PROVE Elsewhere(w)
  BY <1>1, ScopeIs DEF BeginHook, Elsewhere, Others, Idle, TypeOK, Hooks
<1>2. ASSUME NEW m \in Missions, BeginCompleted(w, m) PROVE Elsewhere(w)
  BY <1>2 DEF BeginCompleted, Elsewhere, Others, Idle, TypeOK
<1>3. CASE Statement(w)
  BY <1>3, GoingIsElsewhere DEF Statement, Following, Places
<1>4. CASE Tell(w)
  BY <1>4, GoingIsElsewhere DEF Tell
<1>. QED BY <1>1, <1>2, <1>3, <1>4 DEF HookStep

LEMMA HandlersAreElsewhere ==
  ASSUME TypeOK, NEW w \in Workers, HandlerStep(w)
  PROVE  Elsewhere(w)
<1>. USE DEF gate
<1>1. CASE Recalculate(w)
  <2>1. PICK a : a = [op |-> "risk", at |-> "write", mission |-> "none",
                      tier |-> agent.tier, engine |-> memory[w]]
    OBVIOUS
  <2>2. UNCHANGED run \/ run' = [run EXCEPT ![w] = a]
    BY <1>1, <2>1 DEF Recalculate, Idle
  <2>3. UNCHANGED verdict
    BY <1>1 DEF Recalculate
  <2>4. a.op = "risk" /\ a.mission = "none"
    BY <2>1
  <2>5. run \in [Workers -> Activity]
    BY DEF TypeOK, Activity, Ops, Places
  <2>. QED BY <2>2, <2>3, <2>4, <2>5 DEF Elsewhere, Others
<1>2. CASE WriteRisk(w) \/ RiskFails(w) \/ Alert(w) \/ AlertFails(w)
  BY <1>2, GoingIsElsewhere DEF WriteRisk, RiskFails, Alert, AlertFails, Places
<1>3. CASE (\E t \in scope.risks : Assess(w, t)) \/ \E c \in scope.checks : CheckCompliance(w, c)
  BY <1>3, GoingIsElsewhere DEF Assess, CheckCompliance
<1>. QED BY <1>1, <1>2, <1>3 DEF HandlerStep

LEMMA StartIs ==
  ASSUME TypeOK, NEW w \in Workers, NEW m \in Missions, Start(w, m)
  PROVE  Begins(w, m) \/ Answers(w, m)
<1>. USE DEF gate
<1>1. CASE ~ agent.known
  BY <1>1, AnswerIs DEF Start
<1>2. CASE agent.known
  <2>1. PICK a : /\ run' = [run EXCEPT ![w] = a]
                 /\ a.op = "start" /\ a.mission = m
    <3>1. PICK at : run' = [run EXCEPT ![w] =
                      [Idle EXCEPT !.op = "start", !.mission = m, !.at = at]]
      BY <1>2 DEF Start
    <3>2. PICK a : a = [Idle EXCEPT !.op = "start", !.mission = m, !.at = at]
      OBVIOUS
    <3>3. a.op = "start" /\ a.mission = m
      BY <3>2 DEF Idle
    <3>. QED BY <3>1, <3>2, <3>3
  <2>2. run \in [Workers -> Activity]
    BY DEF TypeOK, Activity, Ops, Places
  <2>3. UNCHANGED verdict /\ ~Asked(m)
    BY <1>2 DEF Start
  <2>. QED BY <2>1, <2>2, <2>3 DEF Begins, Others
<1>. QED BY <1>1, <1>2

LEMMA StartsAre ==
  ASSUME TypeOK, Named, NEW w \in Workers, StartStep(w)
  PROVE  Elsewhere(w) \/ \E m \in Missions : Begins(w, m) \/ Answers(w, m)
<1>. USE DEF gate
<1>1. ASSUME NEW m \in Missions, Start(w, m) PROVE Begins(w, m) \/ Answers(w, m)
  BY <1>1, StartIs
<1>2. ASSUME NEW m \in Missions, ReadFails(w, m) PROVE Answers(w, m)
  BY <1>2, AnswerIs DEF ReadFails, AnswerOnError
<1>3. run[w].op = "start" => run[w].mission \in Missions
  BY DEF Named, TypeOK
<1>4. CASE AuditBlocked(w) \/ AuditStarted(w) \/ StartFails(w)
  BY <1>3, <1>4, AnswerIs DEF AuditBlocked, AuditStarted, StartFails, AnswerOnError, At
<1>5. CASE LookForPending(w)
  BY <1>3, <1>5, AnswerIs, GoingIsElsewhere DEF LookForPending, At, Places
<1>6. CASE LookForApproved(w) \/ CreateRequest(w)
  BY <1>6, GoingIsElsewhere DEF LookForApproved, CreateRequest, Places
<1>. QED
  BY <1>1, <1>2, <1>4, <1>5, <1>6, ScopeIs DEF StartStep, TypeOK

LEMMA StartingStep ==
  ASSUME TypeOK, Named, Starting, [Next]_vars
  PROVE  Named' /\ Starting'
<1>1. CASE UNCHANGED <<run, verdict>>
  BY <1>1 DEF Named, Starting
<1>2. ASSUME NEW w \in Workers, Elsewhere(w) PROVE Named' /\ Starting'
  BY <1>2 DEF Elsewhere, Others, Named, Starting
<1>3. ASSUME NEW w \in Workers, NEW m \in Missions, Begins(w, m) PROVE Named' /\ Starting'
  BY <1>3, GateAssumption DEF Begins, Others, Asked, Named, Starting
<1>4. ASSUME NEW w \in Workers, NEW m \in Missions, Answers(w, m) PROVE Named' /\ Starting'
  <2>1. \A v \in Workers \ {w} : run[v].mission # m
    BY <1>4, GateAssumption DEF Answers, Asked, Starting
  <2>2. run'[w].op = "idle" /\ run'[w].mission = "none"
    BY <1>4 DEF Answers, Idle
  <2>3. \A v \in Workers : run[v].mission \in Missions \cup {"none"}
    BY DEF TypeOK
  <2>. QED BY <1>4, <2>1, <2>2, <2>3 DEF Answers, Others, Named, Starting
<1>5. RequestStep => UNCHANGED <<run, verdict>>
  BY DEF RequestStep, Decide, ExpireOld, FileRequest, gate
<1>. QED
  BY <1>1, <1>2, <1>3, <1>4, <1>5, HooksAreElsewhere, HandlersAreElsewhere, StartsAre
  DEF Next, vars

--------------------------------------------------------------------------------
(* What becomes of the requests.                                               *)

\* An old request stays whose it was; it is not undecided again, and it is
\* approved only as one that was granted.
Kept(i) ==
  /\ requests'[i].by = requests[i].by
  /\ requests'[i].status = "pending" => requests[i].status = "pending"
  /\ requests[i].granted => requests'[i].granted
  /\ requests'[i].status = "approved" => requests'[i].granted

Decisions == Len(requests') = Len(requests) /\ \A i \in DOMAIN requests : Kept(i)
Files(by) == requests' = Append(requests, NewRequest(by))

\* Every approved request is one that was granted.
ApprovedAreGranted ==
  \A i \in DOMAIN requests : requests[i].status = "approved" => requests[i].granted

Granted == \E i \in DOMAIN requests : requests[i].granted

\* A hook, a handler and the officers do not move what starts a mission.
NotStarting(w) == UNCHANGED run \/ (Others(w) /\ run[w].op # "start" /\ run'[w].op # "start")

LEMMA HooksDoNotStart ==
  ASSUME TypeOK, NEW w \in Workers, HookStep(w) \/ HandlerStep(w)
  PROVE  NotStarting(w) /\ UNCHANGED <<gate, requests>>
<1>. USE DEF gate
<1>0. Others(w)
  BY HooksAreElsewhere, HandlersAreElsewhere DEF Elsewhere
<1>1. ASSUME NEW op \in scope.lifecycle, BeginHook(w, op)
      PROVE  NotStarting(w) /\ UNCHANGED <<gate, requests>>
  <2>1. op \in Hooks
    BY ScopeIs DEF TypeOK
  <2>2. run[w].op = "idle" /\ run'[w].op = op
    BY <1>1 DEF BeginHook, Idle, TypeOK
  <2>. QED BY <1>0, <1>1, <2>1, <2>2 DEF BeginHook, NotStarting, Hooks
<1>2. ASSUME NEW m \in Missions, BeginCompleted(w, m)
      PROVE  NotStarting(w) /\ UNCHANGED <<gate, requests>>
  BY <1>0, <1>2 DEF BeginCompleted, NotStarting, Idle, TypeOK
<1>3. CASE Statement(w) \/ Tell(w)
  BY <1>0, <1>3 DEF Statement, Tell, NotStarting, GoTo, Free, Idle, Hooks, TypeOK
<1>4. CASE Recalculate(w)
  <2>1. UNCHANGED run \/ \E a : run' = [run EXCEPT ![w] = a] /\ a.op = "risk"
    <3>1. PICK a : a = [op |-> "risk", at |-> "write", mission |-> "none",
                        tier |-> agent.tier, engine |-> memory[w]]
      OBVIOUS
    <3>2. UNCHANGED run \/ run' = [run EXCEPT ![w] = a]
      BY <1>4, <3>1 DEF Recalculate, Idle
    <3>3. a.op = "risk"
      BY <3>1
    <3>. QED BY <3>2, <3>3
  <2>2. run \in [Workers -> Activity] /\ (~ UNCHANGED run => run[w] = Idle)
    BY <1>4 DEF TypeOK, Activity, Ops, Places, Recalculate
  <2>. QED BY <1>0, <1>4, <2>1, <2>2 DEF Recalculate, NotStarting, Idle
<1>5. CASE WriteRisk(w) \/ RiskFails(w) \/ Alert(w) \/ AlertFails(w)
  BY <1>0, <1>5 DEF WriteRisk, RiskFails, Alert, AlertFails, At, NotStarting, GoTo, Free,
     Idle, TypeOK
<1>6. CASE (\E t \in scope.risks : Assess(w, t)) \/ \E c \in scope.checks : CheckCompliance(w, c)
  BY <1>6 DEF Assess, CheckCompliance, NotStarting
<1>. QED
  BY <1>1, <1>2, <1>3, <1>4, <1>5, <1>6 DEF HookStep, HandlerStep

LEMMA OfficersDecide ==
  ASSUME TypeOK, ApprovedAreGranted, RequestStep
  PROVE  UNCHANGED <<gate, run>> /\ (Decisions \/ Files("officer"))
<1>1. requests \in Seq(Request)
  BY DEF TypeOK, Request
<1>2. ASSUME NEW i \in DOMAIN requests, NEW s \in Statuses, Decide(i, s) PROVE Decisions
  <2>1. PICK g \in BOOLEAN : g = (requests[i].granted \/ s = "approved")
    OBVIOUS
  <2>2. requests' = [requests EXCEPT ![i].status = s, ![i].granted = g]
    BY <1>2, <2>1 DEF Decide
  <2>3. requests[i] \in Request
    BY <1>1
  <2>4. PICK r \in Request : /\ r = [requests[i] EXCEPT !.status = s, !.granted = g]
                             /\ r.by = requests[i].by /\ r.status = s /\ (r.granted <=> g)
    <3>1. PICK r : r = [requests[i] EXCEPT !.status = s, !.granted = g]
      OBVIOUS
    <3>2. r \in Request
      BY <2>3, <3>1 DEF Request
    <3>3. r.by = requests[i].by /\ r.status = s
      BY <2>3, <3>1 DEF Request
    <3>4. r.granted = g
      BY <2>3, <3>1 DEF Request
    <3>. QED BY <3>1, <3>2, <3>3, <3>4
  <2>5. requests' = [requests EXCEPT ![i] = r]
    BY <2>2, <2>4
  <2>6. s # "pending" /\ (requests[i].granted => g) /\ (s = "approved" => g)
    BY <1>2, <2>1 DEF Decide
  <2>7. Len(requests') = Len(requests)
    BY <1>1, <2>5
  <2>8. ASSUME NEW j \in DOMAIN requests PROVE Kept(j)
    BY <1>1, <2>4, <2>5, <2>6 DEF Kept, ApprovedAreGranted
  <2>. QED BY <2>7, <2>8 DEF Decisions
<1>3. ASSUME NEW S \in SUBSET DOMAIN requests, ExpireOld(S) PROVE Decisions
  <2>1. \A r \in Request : /\ [r EXCEPT !.status = "expired"].by = r.by
                           /\ [r EXCEPT !.status = "expired"].status = "expired"
                           /\ [r EXCEPT !.status = "expired"].granted = r.granted
    BY DEF Request
  <2>2. requests' = [i \in DOMAIN requests |->
          IF i \in S THEN [requests[i] EXCEPT !.status = "expired"] ELSE requests[i]]
    BY <1>3 DEF ExpireOld
  <2>3. Len(requests') = Len(requests)
    BY <1>1, <2>2
  <2>4. ASSUME NEW j \in DOMAIN requests PROVE Kept(j)
    BY <1>1, <2>1, <2>2 DEF Kept, ApprovedAreGranted
  <2>. QED BY <2>3, <2>4 DEF Decisions
<1>4. UNCHANGED <<gate, run>> /\ (FileRequest => Files("officer"))
  BY DEF RequestStep, Decide, ExpireOld, FileRequest, Files
<1>. QED BY <1>2, <1>3, <1>4 DEF RequestStep

\* In a start, one statement files a request, and it is the last before the block.
LEMMA StartsFile ==
  ASSUME TypeOK, NEW w \in Workers, StartStep(w)
  PROVE  \/ UNCHANGED requests
         \/ Files(w) /\ At(w, "start", "request") /\ ~At(w, "start", "request")'
<1>1. CASE CreateRequest(w)
  BY <1>1 DEF CreateRequest, Files, GoTo, At, TypeOK
<1>2. CASE StartFails(w)
  BY <1>2 DEF StartFails, AnswerOnError, Answer, Files, Free, Idle, At, TypeOK
<1>3. CASE LookForApproved(w) \/ LookForPending(w) \/ AuditBlocked(w) \/ AuditStarted(w)
  BY <1>3 DEF LookForApproved, LookForPending, AuditBlocked, AuditStarted
<1>4. CASE \E m \in scope.missions : Start(w, m) \/ ReadFails(w, m)
  BY <1>4 DEF Start, ReadFails
<1>. QED BY <1>1, <1>2, <1>3, <1>4 DEF StartStep

LEMMA FiledIs ==
  ASSUME TypeOK, NEW by \in Workers \cup {"officer"}, Files(by)
  PROVE  \E k : /\ DOMAIN requests' = DOMAIN requests \cup {k} /\ k \notin DOMAIN requests
                /\ \A i \in DOMAIN requests : requests'[i] = requests[i]
                /\ requests'[k].status = "pending" /\ requests'[k].by = by
<1>1. requests \in Seq(Request)
  BY DEF TypeOK, Request
<1>2. PICK r \in Request : r = NewRequest(by) /\ r.status = "pending" /\ r.by = by
  <2>1. NewRequest(by) \in Request
    BY DEF NewRequest, Request, Statuses
  <2>2. NewRequest(by).status = "pending" /\ NewRequest(by).by = by
    BY DEF NewRequest
  <2>. QED BY <2>1, <2>2
<1>3. requests' = Append(requests, r)
  BY <1>2 DEF Files
<1>4. PICK n \in Nat : n = Len(requests) /\ DOMAIN requests = 1 .. n
  BY <1>1
<1>5. DOMAIN requests' = 1 .. n + 1 /\ requests'[n + 1] = r
  BY <1>1, <1>3, <1>4
<1>6. \A i \in 1 .. n : requests'[i] = requests[i]
  BY <1>1, <1>3, <1>4
<1>7. 1 .. n + 1 = (1 .. n) \cup {n + 1} /\ n + 1 \notin 1 .. n
  OBVIOUS
<1>. QED BY <1>2, <1>4, <1>5, <1>6, <1>7

\* Decisions leave the table as long as it was.
LEMMA DecidedIs ==
  ASSUME TypeOK, TypeOK', Decisions
  PROVE  DOMAIN requests' = DOMAIN requests
BY DEF Decisions, TypeOK, Request

LEMMA ApprovedStep ==
  ASSUME TypeOK, TypeOK', ApprovedAreGranted, [Next]_vars
  PROVE  ApprovedAreGranted' /\ (Granted => Granted')
<1>1. CASE UNCHANGED requests
  BY <1>1 DEF ApprovedAreGranted, Granted
<1>2. CASE Decisions
  BY <1>2, DecidedIs DEF Decisions, Kept, ApprovedAreGranted, Granted
<1>3. ASSUME NEW by \in Workers \cup {"officer"}, Files(by)
      PROVE  ApprovedAreGranted' /\ (Granted => Granted')
  <2>1. PICK k : /\ DOMAIN requests' = DOMAIN requests \cup {k}
                 /\ \A i \in DOMAIN requests : requests'[i] = requests[i]
                 /\ requests'[k].status = "pending"
    BY <1>3, FiledIs
  <2>2. ApprovedAreGranted'
    BY <2>1 DEF ApprovedAreGranted
  <2>3. Granted => Granted'
    BY <2>1 DEF Granted
  <2>. QED BY <2>2, <2>3
<1>. QED
  BY <1>1, <1>2, <1>3, HooksDoNotStart, OfficersDecide, StartsFile DEF Next, vars

--------------------------------------------------------------------------------
(* The undecided requests.                                                     *)

\* A process that is about to file a request has none undecided: another process
\* may have filed its own since this one looked.
NoneOfItsOwn ==
  \A w \in Workers : At(w, "start", "request") =>
    \A i \in DOMAIN requests : ~(requests[i].status = "pending" /\ requests[i].by = w)

\* No step of w but its look for an undecided request goes to filing one.
LEMMA LooksFirst ==
  ASSUME TypeOK, NEW w \in Workers, HookStep(w) \/ StartStep(w) \/ HandlerStep(w)
  PROVE  /\ Others(w)
         /\ At(w, "start", "request")' =>
              \/ At(w, "start", "request")
              \/ WithStatus("pending") = {} /\ UNCHANGED requests
<1>1. CASE HookStep(w) \/ HandlerStep(w)
  BY <1>1, HooksDoNotStart DEF NotStarting, At, Others
<1>2. ASSUME NEW m \in Missions, Start(w, m)
      PROVE  Others(w) /\ ~At(w, "start", "request")'
  <2>1. CASE agent.known
    <3>1. PICK at : run' = [run EXCEPT ![w] =
                      [Idle EXCEPT !.op = "start", !.mission = m, !.at = at]]
                    /\ at \in {"block", "approved", "clear"}
      BY <1>2, <2>1 DEF Start
    <3>2. PICK a : a = [Idle EXCEPT !.op = "start", !.mission = m, !.at = at]
      OBVIOUS
    <3>3. run' = [run EXCEPT ![w] = a]
      BY <3>1, <3>2
    <3>4. a.at # "request"
      BY <3>1, <3>2 DEF Idle
    <3>. QED BY <3>3, <3>4 DEF At, Others, TypeOK
  <2>2. CASE ~ agent.known
    BY <1>2, <2>2 DEF Start, Answer, Free, Idle, At, Others, TypeOK
  <2>. QED BY <2>1, <2>2
<1>3. ASSUME NEW m \in Missions, ReadFails(w, m)
      PROVE  Others(w) /\ ~At(w, "start", "request")'
  BY <1>3 DEF ReadFails, AnswerOnError, Answer, Free, Idle, At, Others, TypeOK
<1>4. CASE LookForApproved(w) \/ CreateRequest(w) \/ AuditBlocked(w) \/ AuditStarted(w)
           \/ StartFails(w)
  <2>1. (\E at : at # "request" /\ GoTo(w, at)) \/ Free(w)
    BY <1>4 DEF LookForApproved, CreateRequest, AuditBlocked, AuditStarted, StartFails,
       AnswerOnError, Answer
  <2>. QED BY <2>1 DEF GoTo, Free, Idle, At, Others, TypeOK
<1>5. CASE LookForPending(w)
  BY <1>5 DEF LookForPending, Answer, GoTo, Free, Idle, At, Others, TypeOK
<1>6. scope.missions \subseteq Missions
  BY ScopeIs DEF TypeOK
<1>. QED BY <1>1, <1>2, <1>3, <1>4, <1>5, <1>6 DEF StartStep

LEMMA RequestsStep ==
  ASSUME TypeOK, TypeOK', ApprovedAreGranted, NoneOfItsOwn, OnePendingPerWorker, [Next]_vars
  PROVE  NoneOfItsOwn' /\ OnePendingPerWorker'
<1>. USE DEF Pending, WithStatus, NoneOfItsOwn, OnePendingPerWorker
<1>1. CASE UNCHANGED vars
  BY <1>1 DEF vars, At
<1>2. CASE RequestStep
  <2>1. UNCHANGED run
    BY <1>2, OfficersDecide
  <2>2. CASE Decisions
    <3>1. /\ DOMAIN requests' = DOMAIN requests
          /\ \A i \in DOMAIN requests :
               /\ requests'[i].by = requests[i].by
               /\ requests'[i].status = "pending" => requests[i].status = "pending"
      BY <2>2, DecidedIs DEF Decisions, Kept
    <3>2. NoneOfItsOwn'
      BY <2>1, <3>1 DEF At
    <3>3. OnePendingPerWorker'
      BY <3>1
    <3>. QED BY <3>2, <3>3
  <2>3. CASE Files("officer")
    <3>1. PICK k : /\ DOMAIN requests' = DOMAIN requests \cup {k}
                   /\ \A i \in DOMAIN requests : requests'[i] = requests[i]
                   /\ requests'[k].by = "officer"
      BY <2>3, FiledIs
    <3>2. NoneOfItsOwn'
      BY <2>1, <3>1, GateAssumption DEF At
    <3>3. OnePendingPerWorker'
      BY <3>1, GateAssumption
    <3>. QED BY <3>2, <3>3
  <2>. QED BY <1>2, <2>2, <2>3, OfficersDecide
<1>3. ASSUME NEW w \in Workers, HookStep(w) \/ StartStep(w) \/ HandlerStep(w)
      PROVE  NoneOfItsOwn' /\ OnePendingPerWorker'
  <2>1. \A v \in Workers \ {w} :
          At(v, "start", "request")' <=> At(v, "start", "request")
    BY <1>3, LooksFirst DEF Others, At
  <2>2. CASE UNCHANGED requests
    BY <1>3, <2>1, <2>2, LooksFirst
  <2>3. CASE Files(w) /\ At(w, "start", "request") /\ ~At(w, "start", "request")'
    <3>1. PICK k : /\ DOMAIN requests' = DOMAIN requests \cup {k}
                   /\ k \notin DOMAIN requests
                   /\ \A i \in DOMAIN requests : requests'[i] = requests[i]
                   /\ requests'[k].status = "pending" /\ requests'[k].by = w
      BY <2>3, FiledIs
    <3>2. NoneOfItsOwn'
      BY <2>1, <2>3, <3>1
    <3>3. OnePendingPerWorker'
      BY <2>3, <3>1
    <3>. QED BY <3>2, <3>3
  <2>. QED BY <1>3, <2>2, <2>3, HooksDoNotStart, StartsFile
<1>. QED BY <1>1, <1>2, <1>3 DEF Next

--------------------------------------------------------------------------------
(* The tier that is stored and the missions that start.                        *)

\* The tier of the row is what tier_map makes of the engine's.
TierStands == agent.source # "none" => agent.tier = DbTier(agent.source)

\* A mission nobody asked about was decided on nothing.
Unread == \A m \in Missions : ~Asked(m) => basis[m] = "unknown"

\* Past the gate, a mission of a "high" agent has its approval.
ClearIsGranted ==
  \A w \in Workers : At(w, "start", "clear") /\ basis[run[w].mission] = "high" => Granted

\* The two parts of GateHolds.
HighIsGranted ==
  \A m \in Missions :
    verdict[m] = "allowed" /\ m \notin erred /\ basis[m] = "high" => Granted
StartedIsAllowed == \A m \in Missions : "started" \in starts[m] => verdict[m] = "allowed"

GateParts == Unread /\ ClearIsGranted /\ HighIsGranted /\ StartedIsAllowed

LEMMA GateMeans == HighIsGranted /\ StartedIsAllowed => GateHolds
  BY DEF GateHolds, NeedsApproval, HighIsGranted, StartedIsAllowed, Granted

LEMMA TierStep ==
  ASSUME TypeOK, TierStands, [Next]_vars
  PROVE  TierStands'
<1>1. CASE UNCHANGED agent
  BY <1>1 DEF TierStands
<1>2. ASSUME NEW w \in Workers, WriteTier(w) PROVE TierStands'
  <2>1. PICK t, e : t = DbTier(e) /\ e = run[w].engine
    OBVIOUS
  <2>2. \/ agent' = [agent EXCEPT !.tier = t, !.source = e]
        \/ agent' = [agent EXCEPT !.tier = agent.tier, !.source = agent.source]
    BY <1>2, <2>1 DEF WriteTier
  <2>3. agent \in Row
    BY DEF TypeOK
  <2>. QED BY <2>1, <2>2, <2>3 DEF TierStands, Row
<1>3. ASSUME NEW w \in Workers, Write(w) \/ \E c \in scope.checks : CheckCompliance(w, c)
      PROVE  TierStands'
  <2>1. agent'.tier = agent.tier /\ agent'.source = agent.source
    BY <1>3 DEF Write, CheckCompliance, TypeOK, Row
  <2>. QED BY <2>1 DEF TierStands
<1>4. ASSUME NEW w \in Workers, HookStep(w) PROVE UNCHANGED agent \/ Write(w)
  BY <1>4 DEF HookStep, BeginHook, BeginCompleted, Statement, Tell
<1>5. ASSUME NEW w \in Workers, StartStep(w) PROVE UNCHANGED agent
  BY <1>5 DEF StartStep, Start, ReadFails, LookForApproved, LookForPending, CreateRequest,
     AuditBlocked, AuditStarted, StartFails
<1>6. ASSUME NEW w \in Workers, HandlerStep(w)
      PROVE  \/ UNCHANGED agent \/ WriteTier(w)
             \/ \E c \in scope.checks : CheckCompliance(w, c)
  BY <1>6 DEF HandlerStep, Assess, Recalculate, WriteRisk, RiskFails, Alert, AlertFails
<1>7. ASSUME RequestStep PROVE UNCHANGED agent
  BY <1>7 DEF RequestStep, Decide, ExpireOld, FileRequest
<1>. QED BY <1>1, <1>2, <1>3, <1>4, <1>5, <1>6, <1>7 DEF Next, vars

LEMMA Unmoved ==
  ASSUME TypeOK, Named, Named', GateParts, UNCHANGED gate, Granted => Granted',
         UNCHANGED run \/ \E w \in Workers : NotStarting(w)
  PROVE  GateParts'
<1>. USE DEF gate
<1>1. \A v \in Workers : /\ At(v, "start", "clear")' => At(v, "start", "clear")
                         /\ run'[v].mission = run[v].mission
  BY DEF NotStarting, Others, At, Named
<1>2. Unread'
  BY <1>1 DEF GateParts, Unread, Asked
<1>3. ClearIsGranted'
  BY <1>1 DEF GateParts, ClearIsGranted
<1>4. HighIsGranted' /\ StartedIsAllowed'
  BY DEF GateParts, HighIsGranted, StartedIsAllowed
<1>. QED BY <1>2, <1>3, <1>4 DEF GateParts

\* A process goes on inside on_mission_started.
LEMMA Within ==
  ASSUME TypeOK, GateParts, UNCHANGED gate, Granted => Granted',
         NEW w \in Workers, NEW at \in Places, GoTo(w, at), at = "clear" => Granted
  PROVE  GateParts'
<1>. USE DEF gate
<1>1. \A v \in Workers : /\ At(v, "start", "clear")' => At(v, "start", "clear") \/ Granted
                         /\ run'[v].mission = run[v].mission
  BY DEF GoTo, At, TypeOK
<1>2. Unread'
  BY <1>1 DEF GateParts, Unread, Asked
<1>3. ClearIsGranted'
  BY <1>1 DEF GateParts, ClearIsGranted
<1>4. HighIsGranted' /\ StartedIsAllowed'
  BY DEF GateParts, HighIsGranted, StartedIsAllowed
<1>. QED BY <1>2, <1>3, <1>4 DEF GateParts

\* A process answers for a mission.
LEMMA Answered ==
  ASSUME TypeOK, Named, Starting, GateParts, NEW w \in Workers, NEW m \in Missions,
         Answers(w, m), m = run[w].mission \/ run[w] = Idle, verdict'[m] # "none",
         UNCHANGED basis, erred \subseteq erred', Granted => Granted',
         verdict'[m] = "allowed" => m \in erred' \/ basis[m] # "high" \/ Granted,
         \A n \in Missions \ {m} : starts'[n] = starts[n],
         "started" \in starts'[m] => "started" \in starts[m] \/ verdict'[m] = "allowed"
  PROVE  GateParts'
<1>1. verdict[m] = "none"
  BY GateAssumption DEF Answers, Asked, Starting
<1>2. \A v \in Workers \ {w} : run'[v] = run[v]
  BY DEF Answers, Others
<1>3. run'[w] = Idle /\ \A n \in Missions \ {m} : verdict'[n] = verdict[n]
  BY DEF Answers
<1>4. Unread'
  <2>. SUFFICES ASSUME NEW n \in Missions, ~Asked(n)' PROVE basis[n] = "unknown"
    BY DEF Unread
  <2>1. n # m /\ verdict[n] = "none"
    BY <1>3 DEF Asked
  <2>2. \A v \in Workers \ {w} : run[v].mission # n
    BY <1>2 DEF Asked
  <2>3. run[w].mission # n
    BY <2>1, GateAssumption DEF Idle
  <2>. QED BY <2>1, <2>2, <2>3 DEF GateParts, Unread, Asked
<1>5. ClearIsGranted'
  BY <1>2, <1>3 DEF GateParts, ClearIsGranted, At, Idle
<1>6. HighIsGranted'
  BY <1>3 DEF GateParts, HighIsGranted
<1>7. StartedIsAllowed'
  BY <1>1, <1>3 DEF GateParts, StartedIsAllowed
<1>. QED BY <1>4, <1>5, <1>6, <1>7 DEF GateParts

LEMMA GateStarts ==
  ASSUME TypeOK, TypeOK', Named, Starting, TierStands, ApprovedAreGranted, GateParts,
         Granted => Granted', NEW w \in Workers, StartStep(w)
  PROVE  GateParts'
<1>. USE DEF gate
<1>0. run[w].op = "start" => run[w].mission \in Missions
  BY DEF Named, TypeOK
<1>1. ASSUME NEW m \in Missions, Start(w, m) PROVE GateParts'
  <2>1. ~Asked(m) /\ run[w] = Idle /\ UNCHANGED <<starts, erred>>
    BY <1>1 DEF Start
  <2>2. CASE ~ agent.known
    <3>1. UNCHANGED basis /\ Answer(w, m, "allowed")
      BY <1>1, <2>2 DEF Start
    <3>2. basis[m] # "high"
      BY <2>1 DEF GateParts, Unread
    <3>. QED BY <2>1, <3>1, <3>2, AnswerIs, Answered
  <2>3. CASE agent.known
    <3>1. basis' = [basis EXCEPT ![m] = agent.source] /\ UNCHANGED verdict
      BY <1>1, <2>3 DEF Start
    <3>2. PICK at : /\ run' = [run EXCEPT ![w] =
                         [Idle EXCEPT !.op = "start", !.mission = m, !.at = at]]
                    /\ at = "clear" => agent.tier \notin Gated
      <4>1. PICK at : at = CASE agent.compliance = "non_compliant" -> "block"
                             [] agent.tier \in Gated -> "approved"
                             [] OTHER -> "clear"
        OBVIOUS
      <4>2. run' = [run EXCEPT ![w] =
                      [Idle EXCEPT !.op = "start", !.mission = m, !.at = at]]
        BY <1>1, <2>3, <4>1 DEF Start
      <4>3. at = "clear" => agent.tier \notin Gated
        BY <4>1
      <4>. QED BY <4>2, <4>3
    <3>3. at = "clear" => agent.source # "high"
      BY <3>2 DEF TierStands, DbTier, Gated, RowTiers
    <3>4. PICK a : a = [Idle EXCEPT !.op = "start", !.mission = m, !.at = at]
      OBVIOUS
    <3>5. a.mission = m /\ a.at = at
      BY <3>4 DEF Idle
    <3>6. run'[w] = a /\ \A v \in Workers \ {w} : run'[v] = run[v]
      BY <3>2, <3>4 DEF TypeOK
    <3>7. /\ basis'[m] = agent.source /\ verdict[m] = "none"
          /\ \A n \in Missions \ {m} : basis'[n] = basis[n]
          /\ \A v \in Workers : run[v].mission # m
      BY <2>1, <3>1 DEF TypeOK, Asked
    <3>8. Unread'
      <4>. SUFFICES ASSUME NEW n \in Missions, ~Asked(n)' PROVE basis'[n] = "unknown"
        BY DEF Unread
      <4>1. n # m /\ verdict[n] = "none" /\ \A v \in Workers \ {w} : run[v].mission # n
        BY <3>1, <3>5, <3>6 DEF Asked
      <4>2. run[w].mission # n
        BY <2>1, GateAssumption DEF Idle
      <4>. QED BY <3>7, <4>1, <4>2 DEF GateParts, Unread, Asked
    <3>9. ClearIsGranted'
      <4>. SUFFICES ASSUME NEW v \in Workers, At(v, "start", "clear")',
                           basis'[run'[v].mission] = "high"
                    PROVE  Granted'
        BY DEF ClearIsGranted
      <4>1. v # w
        BY <3>3, <3>5, <3>6, <3>7 DEF At
      <4>2. run[v].mission \in Missions \ {m}
        BY <3>6, <3>7, <4>1 DEF At, Named, TypeOK
      <4>. QED BY <3>6, <3>7, <4>1, <4>2 DEF GateParts, ClearIsGranted, At
    <3>10. HighIsGranted'
      BY <2>1, <3>1, <3>7 DEF GateParts, HighIsGranted
    <3>11. StartedIsAllowed'
      BY <2>1, <3>1 DEF GateParts, StartedIsAllowed
    <3>. QED BY <3>8, <3>9, <3>10, <3>11 DEF GateParts
  <2>. QED BY <2>2, <2>3
<1>2. ASSUME NEW m \in Missions, ReadFails(w, m) PROVE GateParts'
  <2>1. /\ ~Asked(m) /\ run[w] = Idle /\ UNCHANGED <<starts, basis>>
        /\ Answer(w, m, "allowed") /\ m \in erred' /\ erred \subseteq erred'
    BY <1>2 DEF ReadFails, AnswerOnError
  <2>. QED BY <2>1, AnswerIs, Answered
<1>3. CASE LookForApproved(w)
  <2>1. WithStatus("approved") # {} => Granted
    BY DEF ApprovedAreGranted, WithStatus, Granted
  <2>. QED BY <1>3, <2>1, Within DEF LookForApproved, Places
<1>4. CASE LookForPending(w)
  <2>1. CASE WithStatus("pending") = {}
    BY <1>4, <2>1, Within DEF LookForPending, Places
  <2>2. CASE WithStatus("pending") # {}
    <3>1. /\ UNCHANGED <<starts, basis, erred>> /\ run[w].mission \in Missions
          /\ Answer(w, run[w].mission, "blocked")
      BY <1>0, <1>4, <2>2 DEF LookForPending, At
    <3>. QED BY <3>1, AnswerIs, Answered
  <2>. QED BY <2>1, <2>2
<1>5. CASE CreateRequest(w)
  BY <1>5, Within DEF CreateRequest, Places
<1>6. CASE AuditBlocked(w)
  <2>1. /\ UNCHANGED <<basis, erred>> /\ run[w].mission \in Missions
        /\ Answer(w, run[w].mission, "blocked")
        /\ starts' = [starts EXCEPT ![run[w].mission] = @ \cup {"blocked"}]
    BY <1>0, <1>6 DEF AuditBlocked, At
  <2>2. /\ \A n \in Missions \ {run[w].mission} : starts'[n] = starts[n]
        /\ "started" \in starts'[run[w].mission] => "started" \in starts[run[w].mission]
    BY <2>1 DEF TypeOK
  <2>. QED BY <2>1, <2>2, AnswerIs, Answered
<1>7. CASE AuditStarted(w)
  <2>1. /\ UNCHANGED <<basis, erred>> /\ run[w].mission \in Missions
        /\ Answer(w, run[w].mission, "allowed") /\ At(w, "start", "clear")
        /\ starts' = [starts EXCEPT ![run[w].mission] = @ \cup {"started"}]
    BY <1>0, <1>7 DEF AuditStarted, At
  <2>2. \A n \in Missions \ {run[w].mission} : starts'[n] = starts[n]
    BY <2>1 DEF TypeOK
  <2>3. basis[run[w].mission] # "high" \/ Granted
    BY <2>1 DEF GateParts, ClearIsGranted
  <2>. QED BY <2>1, <2>2, <2>3, AnswerIs, Answered
<1>8. CASE StartFails(w)
  <2>1. /\ UNCHANGED basis /\ run[w].mission \in Missions
        /\ Answer(w, run[w].mission, "allowed")
        /\ run[w].mission \in erred' /\ erred \subseteq erred'
    BY <1>0, <1>8 DEF StartFails, AnswerOnError
  <2>2. UNCHANGED starts \/ \E b : starts' = [starts EXCEPT ![run[w].mission] = @ \cup {b}]
    BY <1>8 DEF StartFails
  <2>3. \A n \in Missions \ {run[w].mission} : starts'[n] = starts[n]
    BY <2>2 DEF TypeOK
  <2>. QED BY <2>1, <2>3, AnswerIs, Answered
<1>. QED
  BY <1>1, <1>2, <1>3, <1>4, <1>5, <1>6, <1>7, <1>8, ScopeIs DEF StartStep, TypeOK

LEMMA GateStep ==
  ASSUME TypeOK, TypeOK', Named, Named', Starting, TierStands, ApprovedAreGranted, GateParts,
         [Next]_vars
  PROVE  GateParts'
<1>1. Granted => Granted'
  BY ApprovedStep
<1>2. CASE UNCHANGED vars
  BY <1>1, <1>2, Unmoved DEF vars, gate
<1>3. ASSUME NEW w \in Workers, HookStep(w) \/ HandlerStep(w) PROVE GateParts'
  BY <1>1, <1>3, HooksDoNotStart, Unmoved
<1>4. CASE RequestStep
  BY <1>1, <1>4, OfficersDecide, Unmoved
<1>. QED BY <1>1, <1>2, <1>3, <1>4, GateStarts DEF Next

--------------------------------------------------------------------------------
(* Alerts.                                                                     *)

LEMMA AlertersAreFinite == IsFiniteSet(AboutToAlert) /\ Cardinality(AboutToAlert) \in Nat
<1>1. AboutToAlert \subseteq Workers
  BY DEF AboutToAlert
<1>. QED BY <1>1, GateAssumption, FS_Subset, FS_CardinalityType

\* A step of w that has nothing to do with alerts.
LEMMA NoAlert ==
  ASSUME TypeOK, TypeOK', EscalationIsAlerted, NEW w \in Workers, Others(w),
         ~At(w, "risk", "alert"), ~At(w, "risk", "alert")', alerts' = alerts,
         \/ raised' = raised /\ faults' >= faults
         \/ raised' <= raised + 1 /\ faults' = faults + 1
  PROVE  EscalationIsAlerted'
<1>1. AboutToAlert' = AboutToAlert
  BY DEF AboutToAlert, Others, At
<1>2. Cardinality(AboutToAlert) \in Nat
  BY AlertersAreFinite
<1>3. /\ raised \in Nat /\ alerts \in Nat /\ faults \in Nat
      /\ raised' \in Nat /\ faults' \in Nat
  BY ScopeIs DEF TypeOK
<1>. QED BY <1>1, <1>2, <1>3 DEF EscalationIsAlerted

\* The step that takes w away from its alert publishes it or fails.
LEMMA AlertEnds ==
  ASSUME TypeOK, EscalationIsAlerted, NEW w \in Workers, At(w, "risk", "alert"), Free(w),
         UNCHANGED raised,
         \/ alerts' = alerts + 1 /\ faults' = faults
         \/ alerts' = alerts /\ faults' = faults + 1
  PROVE  EscalationIsAlerted'
<1>1. AboutToAlert' = AboutToAlert \ {w} /\ w \in AboutToAlert
  BY DEF AboutToAlert, At, Free, Idle, TypeOK
<1>2. Cardinality(AboutToAlert') = Cardinality(AboutToAlert) - 1
  BY <1>1, AlertersAreFinite, FS_RemoveElement
<1>3. raised \in Nat /\ alerts \in Nat /\ faults \in Nat /\ Cardinality(AboutToAlert) \in Nat
  BY AlertersAreFinite, ScopeIs DEF TypeOK
<1>. QED BY <1>2, <1>3 DEF EscalationIsAlerted

\* The step that raises the tier goes to its alert.
LEMMA AlertBegins ==
  ASSUME TypeOK, EscalationIsAlerted, NEW w \in Workers, At(w, "risk", "write"),
         GoTo(w, "alert"), raised' \in Nat, raised' <= raised + 1, UNCHANGED <<alerts, faults>>
  PROVE  EscalationIsAlerted'
<1>1. AboutToAlert' = AboutToAlert \cup {w} /\ w \notin AboutToAlert
  BY DEF AboutToAlert, At, GoTo, TypeOK
<1>2. Cardinality(AboutToAlert') = Cardinality(AboutToAlert) + 1
  BY <1>1, AlertersAreFinite, FS_AddElement
<1>3. raised \in Nat /\ alerts \in Nat /\ faults \in Nat /\ Cardinality(AboutToAlert) \in Nat
  BY AlertersAreFinite, ScopeIs DEF TypeOK
<1>. QED BY <1>2, <1>3 DEF EscalationIsAlerted

\* A write raises the tier at most once, and only by what escalates.
LEMMA RaisesOnce ==
  ASSUME TypeOK, NEW w \in Workers, WriteTier(w)
  PROVE  raised' <= raised + 1 /\ (raised' # raised => Escalates(w))
<1>1. raised \in Nat
  BY DEF TypeOK
<1>. QED BY <1>1 DEF WriteTier, Escalates

LEMMA AlertStep ==
  ASSUME TypeOK, TypeOK', Named, EscalationIsAlerted, [Next]_vars
  PROVE  EscalationIsAlerted'
<1>0. raised \in Nat /\ alerts \in Nat /\ faults \in Nat /\ Cardinality(AboutToAlert) \in Nat
  BY AlertersAreFinite, ScopeIs DEF TypeOK
<1>1. CASE UNCHANGED <<run, raised, alerts, faults>>
  BY <1>1 DEF EscalationIsAlerted, AboutToAlert, At
<1>2. ASSUME NEW w \in Workers, HookStep(w) PROVE EscalationIsAlerted'
  <2>1. Others(w)
    BY <1>2, HooksAreElsewhere DEF Elsewhere
  <2>2. run[w].op # "risk" /\ run'[w].op # "risk"
    <3>1. ASSUME NEW op \in scope.lifecycle, BeginHook(w, op)
          PROVE  run[w].op # "risk" /\ run'[w].op # "risk"
      <4>1. op \in Hooks
        BY ScopeIs DEF TypeOK
      <4>2. run[w].op = "idle" /\ run'[w].op = op
        BY <3>1 DEF BeginHook, Idle, TypeOK
      <4>. QED BY <4>1, <4>2 DEF Hooks
    <3>2. ASSUME NEW m \in Missions, BeginCompleted(w, m)
          PROVE  run[w].op # "risk" /\ run'[w].op # "risk"
      BY <3>2 DEF BeginCompleted, Idle, TypeOK
    <3>3. CASE Statement(w) \/ Tell(w)
      BY <3>3 DEF Statement, Tell, GoTo, Free, Idle, Hooks, TypeOK
    <3>. QED BY <1>2, <3>1, <3>2, <3>3 DEF HookStep
  <2>3. UNCHANGED <<raised, alerts>> /\ (faults' = faults \/ faults' = faults + 1)
    BY <1>2 DEF HookStep, BeginHook, BeginCompleted, Statement, Tell, Fault, risk
  <2>. QED BY <1>0, <2>1, <2>2, <2>3, NoAlert DEF At
<1>3. ASSUME NEW w \in Workers, StartStep(w) PROVE EscalationIsAlerted'
  <2>1. Others(w)
    BY <1>3, LooksFirst
  <2>2. run[w].op # "risk" /\ run'[w].op # "risk"
    <3>1. ASSUME NEW m \in Missions, Start(w, m)
          PROVE  run[w].op = "idle" /\ run'[w].op # "risk"
      <4>1. run[w].op = "idle" /\ ~Asked(m)
        BY <3>1 DEF Start, Idle
      <4>2. Begins(w, m) \/ Answers(w, m)
        BY <3>1, StartIs
      <4>. QED BY <4>1, <4>2 DEF Begins, Answers, Idle
    <3>2. ASSUME NEW m \in Missions, ReadFails(w, m)
          PROVE  run[w].op = "idle" /\ run'[w].op # "risk"
      BY <3>2 DEF ReadFails, AnswerOnError, Answer, Free, Idle, TypeOK
    <3>3. CASE LookForApproved(w) \/ LookForPending(w) \/ CreateRequest(w) \/ AuditBlocked(w)
               \/ AuditStarted(w) \/ StartFails(w)
      <4>1. run[w].op = "start" /\ ((\E at : GoTo(w, at)) \/ Free(w))
        BY <3>3 DEF LookForApproved, LookForPending, CreateRequest, AuditBlocked, AuditStarted,
           StartFails, AnswerOnError, Answer, At
      <4>. QED BY <4>1 DEF GoTo, Free, Idle, TypeOK
    <3>4. scope.missions \subseteq Missions
      BY ScopeIs DEF TypeOK
    <3>. QED BY <1>3, <3>1, <3>2, <3>3, <3>4 DEF StartStep
  <2>3. UNCHANGED <<raised, alerts>> /\ (faults' = faults \/ faults' = faults + 1)
    BY <1>3 DEF StartStep, Start, ReadFails, LookForApproved, LookForPending,
       CreateRequest, AuditBlocked, AuditStarted, StartFails, Fault, risk
  <2>. QED BY <1>0, <2>1, <2>2, <2>3, NoAlert DEF At
<1>4. ASSUME NEW w \in Workers, HandlerStep(w) PROVE EscalationIsAlerted'
  <2>1. Others(w)
    BY <1>4, HandlersAreElsewhere DEF Elsewhere
  <2>2. CASE (\E t \in scope.risks : Assess(w, t))
             \/ \E c \in scope.checks : CheckCompliance(w, c)
    BY <1>1, <2>2 DEF Assess, CheckCompliance, risk
  <2>3. CASE Recalculate(w)
    <3>1. PICK a : a = [op |-> "risk", at |-> "write", mission |-> "none",
                        tier |-> agent.tier, engine |-> memory[w]]
      OBVIOUS
    <3>2. UNCHANGED run \/ run' = [run EXCEPT ![w] = a]
      BY <2>3, <3>1 DEF Recalculate, Idle
    <3>3. run[w].at # "alert" /\ run'[w].at # "alert"
      BY <2>3, <3>1, <3>2 DEF Recalculate, Idle, TypeOK
    <3>4. UNCHANGED <<raised, alerts, faults>>
      BY <2>3 DEF Recalculate
    <3>. QED BY <1>0, <2>1, <3>3, <3>4, NoAlert DEF At
  <2>4. CASE WriteRisk(w)
    <3>1. /\ At(w, "risk", "write") /\ WriteTier(w) /\ UNCHANGED <<alerts, faults>>
          /\ IF Escalates(w) THEN GoTo(w, "alert") ELSE Free(w)
      BY <2>4 DEF WriteRisk
    <3>2. CASE Escalates(w)
      BY <3>1, <3>2, RaisesOnce, AlertBegins DEF TypeOK
    <3>3. CASE ~ Escalates(w)
      <4>1. UNCHANGED raised
        BY <3>1, <3>3, RaisesOnce
      <4>2. ~At(w, "risk", "alert") /\ ~At(w, "risk", "alert")'
        BY <3>1, <3>3 DEF At, Free, Idle, TypeOK
      <4>. QED BY <1>0, <2>1, <3>1, <4>1, <4>2, NoAlert
    <3>. QED BY <3>2, <3>3
  <2>5. CASE RiskFails(w)
    <3>1. /\ At(w, "risk", "write") /\ faults' = faults + 1 /\ alerts' = alerts /\ Free(w)
          /\ WriteTier(w) \/ UNCHANGED raised
      BY <2>5 DEF RiskFails, Fault
    <3>2. raised' <= raised + 1
      BY <1>0, <3>1, RaisesOnce
    <3>3. ~At(w, "risk", "alert") /\ ~At(w, "risk", "alert")'
      BY <3>1 DEF At, Free, Idle, TypeOK
    <3>. QED BY <2>1, <3>1, <3>2, <3>3, NoAlert
  <2>6. CASE Alert(w) \/ AlertFails(w)
    BY <2>6, AlertEnds DEF Alert, AlertFails, Fault, risk
  <2>. QED BY <1>4, <2>2, <2>3, <2>4, <2>5, <2>6 DEF HandlerStep
<1>5. RequestStep => UNCHANGED <<run, raised, alerts, faults>>
  BY DEF RequestStep, Decide, ExpireOld, FileRequest, risk
<1>. QED BY <1>1, <1>2, <1>3, <1>4, <1>5 DEF Next, vars

--------------------------------------------------------------------------------
(* The theorems.                                                               *)

GateInv ==
  /\ TypeOK /\ Named /\ Starting
  /\ TierStands /\ ApprovedAreGranted /\ GateParts
  /\ NoneOfItsOwn /\ OnePendingPerWorker
  /\ EscalationIsAlerted

LEMMA GateInit == Init => GateInv
<1>. SUFFICES ASSUME Init PROVE GateInv
  OBVIOUS
<1>1. TypeOK
  BY InitTypes
<1>2. Named /\ Starting
  BY DEF Init, Idle, Named, Starting
<1>3. TierStands /\ ApprovedAreGranted /\ NoneOfItsOwn /\ OnePendingPerWorker
  BY DEF Init, NoRow, TierStands, ApprovedAreGranted, NoneOfItsOwn, OnePendingPerWorker
<1>4. GateParts
  BY DEF Init, Idle, At, GateParts, Unread, ClearIsGranted, HighIsGranted, StartedIsAllowed
<1>5. EscalationIsAlerted
  BY AlertersAreFinite DEF Init, EscalationIsAlerted
<1>. QED BY <1>1, <1>2, <1>3, <1>4, <1>5 DEF GateInv

LEMMA GateInvStep == GateInv /\ [Next]_vars => GateInv'
<1>. SUFFICES ASSUME GateInv, [Next]_vars PROVE GateInv'
  OBVIOUS
<1>1. TypeOK'
  BY TypesStep DEF GateInv
<1>2. Named' /\ Starting'
  BY StartingStep DEF GateInv
<1>3. TierStands'
  BY TierStep DEF GateInv
<1>4. ApprovedAreGranted'
  BY <1>1, ApprovedStep DEF GateInv
<1>5. NoneOfItsOwn' /\ OnePendingPerWorker'
  BY <1>1, RequestsStep DEF GateInv
<1>6. GateParts'
  BY <1>1, <1>2, GateStep DEF GateInv
<1>7. EscalationIsAlerted'
  BY <1>1, AlertStep DEF GateInv
<1>. QED BY <1>1, <1>2, <1>3, <1>4, <1>5, <1>6, <1>7 DEF GateInv

LEMMA GateInvHolds == Spec => []GateInv
BY GateInit, GateInvStep, PTL DEF Spec

\* The row, the requests, the registries and the processes keep their types: the
\* tier that is stored is one of the row's, whatever the engine calls it.
THEOREM GateTypes == Spec => []TypeOK
<1>1. GateInv => TypeOK
  BY DEF GateInv
<1>. QED BY <1>1, GateInvHolds, PTL

\* With any number of processes that look for an undecided request and file one in
\* separate statements, and officers who decide, expire and file requests, no process
\* has two undecided requests of its own (on_mission_started and ApprovalRepository).
THEOREM OneRequestEach == Spec => []OnePendingPerWorker
<1>1. GateInv => OnePendingPerWorker
  BY DEF GateInv
<1>. QED BY <1>1, GateInvHolds, PTL

\* The assessment, the tier that handle_risk_recalculation stores and the gate of
\* on_mission_started agree for the tier "high", however the handlers, the starts and
\* the decisions interleave: such a mission starts without an exception only after an
\* approval, and one that was held back is never audited as started.
THEOREM HighIsHeldBack == Spec => []GateHolds
<1>1. GateInv => GateHolds
  BY GateMeans DEF GateInv, GateParts
<1>. QED BY <1>1, GateInvHolds, PTL

\* However stale the row that a handler read when it writes its tier, every rise to
\* a gated tier has an alert, or a process about to publish it, or a statement that
\* failed (handle_risk_recalculation).
THEOREM RisesAreAlerted == Spec => []EscalationIsAlerted
<1>1. GateInv => EscalationIsAlerted
  BY DEF GateInv
<1>. QED BY <1>1, GateInvHolds, PTL

================================================================================
