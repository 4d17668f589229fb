--------------------------- MODULE ToolCompliance ---------------------------
(* The compliance engine that judges each call of a tool: its rules
   (agents/compliance/rules.py) in the order of their registration
   (registry.py), the engine that stops at the first that blocks (engine.py),
   the sliding window in memory behind the rule of rates (rate_limiter.py) and
   the wrapper that agents run their tools through (compliance_wrapper.py).

   An evaluation suspends nowhere, so it is one step; the wrapper is a
   coroutine, and its evaluations happen inside the running event loop. The
   tests and the documentation call the engine outside one. A call is a record
   of what the rules look at. Time is in seconds. A list of times is a set of
   stamps: a time, and a number among those of the same time.               *)
EXTENDS Integers, FiniteSets, SequencesExt

CONSTANTS Rules,    \* names of the rule classes that are registered
          Calls,    \* calls of one agent
          Limit,    \* RATE_LIMITS of a limited tool
          Moments   \* seconds at which something happens

RuleNames == {"tool_permission", "data_access", "rate_limit", "cost_limit", "data_privacy",
              "approval_required", "tenant_isolation", "agent_inventory", "tool_inventory"}
AssetStates == {"absent", "other", "inactive", "active"}
Tools == {"web_search", "calculator", "python_executor", "file_reader", "file_writer",
          "database_query", "api_caller"}
Defaults == <<"tool_permission", "data_access", "rate_limit">>

\* What the values of the constants satisfy.
ComplianceAssumption ==
  /\ Rules \subseteq RuleNames /\ ToSet(Defaults) \subseteq Rules
  /\ Calls \subseteq [type : {"researcher", "analyst", "developer", "other"}, tool : Tools,
                      justified : BOOLEAN, private : BOOLEAN, foreign : BOOLEAN,
                      agentAsset : AssetStates, toolAsset : AssetStates]
  /\ Limit \in Nat \ {0} /\ Moments \subseteq Nat /\ 0 \in Moments

VARIABLES
  now,       \* the time
  registry,  \* ComplianceRegistry._rules
  windows,   \* per limited tool, the calls in its window
  passed,    \* history: per limited tool, when the rule of rates was part of
             \* an evaluation that allowed the call
  answer     \* how the last call through the wrapper ended

vars == <<now, registry, windows, passed, answer>>

LimitedTools == {"web_search", "python_executor"}

Permissions ==
  [researcher |-> {"web_search", "calculator"}, analyst |-> {"calculator", "python_executor"},
   developer |-> {"python_executor", "file_reader", "file_writer"}, other |-> {}]

ToolPermission(call) == call.tool \in Permissions[call.type]
DataAccess(call) == call.tool \in {"file_reader", "database_query"} => call.justified
DataPrivacy(call) == ~call.private

(* The rule does not look at the requests that were approved. *)
ApprovalRequired(call) == call.tool \notin {"file_writer", "database_query", "api_caller"}
TenantIsolation(call) ==
  call.tool \in {"file_reader", "file_writer", "database_query"} => ~call.foreign
AgentInventory(call) == call.agentAsset = "active"
ToolInventory(call) == call.toolAsset = "active"

(* The rules that only look at the call. *)
Allows(rule, call) ==
  CASE rule = "tool_permission" -> ToolPermission(call)
    [] rule = "data_access" -> DataAccess(call)
    [] rule = "data_privacy" -> DataPrivacy(call)
    [] rule = "approval_required" -> ApprovalRequired(call)
    [] rule = "tenant_isolation" -> TenantIsolation(call)
    [] rule = "agent_inventory" -> AgentInventory(call)
    [] rule = "tool_inventory" -> ToolInventory(call)

Init ==
  /\ now = 0
  /\ registry = <<>>
  /\ windows = [t \in LimitedTools |-> {}]
  /\ passed = [t \in LimitedTools |-> {}]
  /\ answer = "none"

(* popleft while the oldest is out of the window. *)
Window(times) == {x \in times : x.at >= now - 60}
Stamp(times) == [at |-> now, number |-> 1 + Cardinality({x \in times : x.at = now})]

(* The limiter in memory: counts, and records the call if it passes. *)
CheckWindow(times) ==
  LET kept == Window(times)
  IN IF Cardinality(kept) < Limit
     THEN [verdict |-> "allowed", window |-> kept \cup {Stamp(kept)}]
     ELSE [verdict |-> "blocked", window |-> kept]

(* The rule drives the limiter with run_until_complete, which raises inside a
   running loop, whatever the tool. *)
RateLimit(call, inLoop, window) ==
  CASE inLoop -> [verdict |-> "raised", window |-> window]
    [] ~inLoop /\ call.tool \in LimitedTools -> CheckWindow(window)
    [] OTHER -> [verdict |-> "allowed", window |-> window]

(* The check of the cost is a coroutine function: the engine looks for the
   fields of a result on a coroutine. *)
Check(rule, call, inLoop, window) ==
  CASE rule = "rate_limit" -> RateLimit(call, inLoop, window)
    [] rule = "cost_limit" -> [verdict |-> "raised", window |-> window]
    [] OTHER -> [verdict |-> IF Allows(rule, call) THEN "allowed" ELSE "blocked",
                 window |-> window]

WindowOf(call) == IF call.tool \in LimitedTools THEN windows[call.tool] ELSE {}

\* Mutant: the verdict is the one of the last rule.
LastRuleDecides(call, inLoop) ==
  LET after[n \in 0..Len(registry)] ==
        IF n = 0 THEN [verdict |-> "allowed", window |-> WindowOf(call)]
        ELSE Check(registry[n], call, inLoop, after[n - 1].window)
  IN after[Len(registry)]

(* The first rule that blocks, or raises, ends the evaluation. *)
Evaluate(call, inLoop) ==
  LET after[n \in 0..Len(registry)] ==
        IF n = 0 THEN [verdict |-> "allowed", window |-> WindowOf(call)]
        ELSE IF after[n - 1].verdict = "allowed"
        THEN Check(registry[n], call, inLoop, after[n - 1].window)
        ELSE after[n - 1]
  IN after[Len(registry)]

(* What the rule of rates let through, as part of an evaluation that allowed. *)
PassedBy(call, s) ==
  IF s.verdict = "allowed" /\ Contains(registry, "rate_limit")
  THEN [passed EXCEPT ![call.tool] = Window(@) \cup {Stamp(windows[call.tool] \cup @)}] ELSE passed

\* Mutant: the calls that pass are not recorded in the window.
Unrecorded(call, s) ==
  /\ UNCHANGED windows
  /\ passed' = IF call.tool \in LimitedTools THEN PassedBy(call, s) ELSE passed

(* What an evaluation leaves in the windows: a call that a later rule blocks
   keeps its slot. *)
Recorded(call, s) ==
  IF call.tool \in LimitedTools
  THEN windows' = [windows EXCEPT ![call.tool] = s.window] /\ passed' = PassedBy(call, s)
  ELSE UNCHANGED <<windows, passed>>

Register(rule) ==
  /\ ~Contains(registry, rule)
  /\ registry' = Append(registry, rule)
  /\ UNCHANGED <<now, windows, passed, answer>>

Clear ==
  /\ registry # <<>>
  /\ registry' = <<>>
  /\ UNCHANGED <<now, windows, passed, answer>>

(* A new engine registers the default rules if there are none at all. *)
CreateEngine ==
  /\ registry = <<>>
  /\ registry' = Defaults
  /\ UNCHANGED <<now, windows, passed, answer>>

(* The engine called outside an event loop. *)
EvaluateAlone(call) ==
  /\ Recorded(call, Evaluate(call, FALSE))
  /\ UNCHANGED <<now, registry, answer>>

(* The tool may fail; the wrapper turns that into an answer. Nothing catches
   what the evaluation raises. *)
ExecuteToolWithCompliance(call) ==
  LET s == Evaluate(call, TRUE)
  IN /\ answer' \in (IF s.verdict = "allowed" THEN {"ran", "failed"} ELSE {s.verdict})
     /\ Recorded(call, s)
     /\ UNCHANGED <<now, registry>>

(* RateLimitRule.reset forgets the windows of the agent and the tool. *)
Reset(tool) ==
  /\ windows[tool] # {}
  /\ windows' = [windows EXCEPT ![tool] = {}]
  /\ passed' = [passed EXCEPT ![tool] = {}]
  /\ UNCHANGED <<now, registry, answer>>

Tick ==
  /\ \E t \in Moments : t > now /\ now' = t
  /\ UNCHANGED <<registry, windows, passed, answer>>

Next ==
  \/ \E rule \in Rules : Register(rule)
  \/ Clear
  \/ CreateEngine
  \/ \E call \in Calls : EvaluateAlone(call) \/ ExecuteToolWithCompliance(call)
  \/ \E tool \in LimitedTools : Reset(tool)
  \/ Tick

Spec == Init /\ [][Next]_vars

(***************************************************************************)
(* Properties                                                              *)
(***************************************************************************)
TypeOK ==
  /\ now \in Moments
  /\ registry \in Seq(Rules) /\ IsInjective(registry)
  /\ {windows, passed} \subseteq [LimitedTools -> SUBSET [at : Moments, number : Nat]]
  /\ answer \in {"none", "ran", "failed", "blocked", "raised"}

(* In whatever order rules were registered, a call is allowed exactly if each
   of them alone would allow it: no rule hides another, and stopping at the
   first one that blocks loses nothing but the slots of the rest. *)
VerdictIsTheConjunction ==
  \A call \in Calls, inLoop \in BOOLEAN :
    Evaluate(call, inLoop).verdict = "allowed" <=>
      \A i \in DOMAIN registry :
        Check(registry[i], call, inLoop, WindowOf(call)).verdict = "allowed"

(* While calls are judged, blocked by later rules, and windows are reset, no
   minute sees more evaluations that the rule of rates let through than the
   limit of the tool. *)
ToolLimitHolds ==
  \A t \in LimitedTools :
    Cardinality(Window(passed[t])) <= Limit
=============================================================================
