------------------------------ MODULE Policies ------------------------------
(* Policies over operations on assets: the manager that keeps them
   (agents/compliance/policy_engine.py), the evaluator with its cache of
   verdicts (policy_evaluator.py) and the endpoints of both
   (api/routes/policies.py).

   Manager and evaluator are singletons of one process and no handler suspends,
   so each endpoint is one step. Policies made through the endpoints are never
   immutable. A value that a condition compares is a record with its kind:
   "num" (v an integer), "text" (v an integer that orders the texts), "set" (v
   a set of texts), "pair" (v two texts or two numbers) or "none". Time is in
   seconds and passes between steps.                                        *)
EXTENDS Integers, FiniteSets, SequencesExt

CONSTANTS Ids,          \* identifiers of policies
          Definitions,  \* conditions, actions, asset types and priority of policies
          Demands,       \* what is made of templates: template, asset types, priority
          Conditions,    \* the conditions of the definitions, and those nested in them
          Contexts,     \* evaluation contexts; "key" is asset, operation and user
          Moments       \* seconds at which something happens

AssetTypes == {"agent", "tool"}

\* What the values of the constants satisfy.
PoliciesAssumption ==
  /\ Moments \subseteq Nat /\ 0 \in Moments
  /\ \A d \in Definitions \cup Demands : d.appliesTo \subseteq AssetTypes /\ d.priority \in Int
  /\ Definitions # {} /\ \A d \in Definitions : ToSet(d.conditions) \subseteq Conditions
  /\ \A c \in Conditions : ToSet(c.negated) \cup ToSet(c.ors) \cup ToSet(c.ands) \subseteq Conditions
  /\ \A c \in Contexts : c.type \in AssetTypes

VARIABLES
  now,      \* the time
  policies, \* per identifier: status, definition and whether it was enforced
  order,    \* identifiers in the order of their creation
  cache     \* _eval_cache: the results of evaluations with their time

vars == <<now, policies, order, cache>>

Keys == {c.key : c \in Contexts}
Statuses == {"draft", "active", "deprecated"}
NoDefinition == CHOOSE d \in Definitions : TRUE
Absent == [status |-> "absent", definition |-> NoDefinition, enforced |-> FALSE]
Deleted == [Absent EXCEPT !.status = "deleted"]
NoResult == [at |-> -1]

Init ==
  /\ now = 0
  /\ policies = [p \in Ids |-> Absent]
  /\ order = <<>>
  /\ cache = [k \in Keys |-> NoResult]

Definition(p) == policies[p].definition
Active(p) == policies[p].status = "active"
Exists(p) == policies[p].status \in Statuses

(***************************************************************************)
(* Templates                                                               *)
(***************************************************************************)
(* Texts are numbers: tags and states by name, times of the day by hour. *)
Text(n) == [kind |-> "text", v |-> n]
Pii == 1
Production == 2
Phi == 3
Waiting == 4
RiskyTiers == [kind |-> "set", v |-> {5, 6}]
BusinessHours == [kind |-> "pair", of |-> "text", v |-> <<8, 18>>]

Condition(type, operator, value) ==
  [type |-> type, operator |-> operator, value |-> value,
   negated |-> <<>>, ors |-> <<>>, ands |-> <<>>]
Tagged(tag) == Condition("asset_tag", "contains", Text(tag))
Risky == Condition("risk_tier", "in", RiskyTiers)
Action(type) == [type |-> type]

(* The level and the role a template asks for are parameters nobody reads: each
   of them requires the level three that _execute_actions falls back to. *)
Approval == [type |-> "require_approval", level |-> 3]

Templates ==
  [gdpr |-> [conditions |-> <<Tagged(Pii)>>, actions |-> <<Approval, Action("log_event")>>],
   hipaa |-> [conditions |-> <<Tagged(Phi)>>, actions |-> <<Action("deny"), Action("send_alert")>>],
   deployment |->
     [conditions |-> <<Tagged(Production), Condition("asset_status", "equals", Text(Waiting))>>,
      actions |-> <<Approval>>],
   high_risk |-> [conditions |-> <<Risky>>, actions |-> <<Approval>>],
   business_hours |->
     [conditions |-> <<Condition("time_of_day", "not_between", BusinessHours), Risky>>,
      actions |-> <<Action("deny")>>]]

AllConditions == Conditions \cup UNION {ToSet(Templates[t].conditions) : t \in DOMAIN Templates}

(* The policy has conditions and actions of the template. *)
Instantiate(demand) ==
  [conditions |-> Templates[demand.template].conditions,
   actions |-> Templates[demand.template].actions,
   appliesTo |-> demand.appliesTo, priority |-> demand.priority]

(***************************************************************************)
(* Conditions                                                              *)
(***************************************************************************)
(* Comparisons of what is no number are false, and so are containment in what
   is no collection and membership in what is none; their negations are true. *)
EvaluateOperator(operator, actual, expected) ==
  LET numbers == actual.kind = "num" /\ expected.kind = "num"
      contains == actual.kind = "set" /\ expected.v \in actual.v
      in == expected.kind = "set" /\ actual.v \in expected.v
      between == /\ expected.kind = "pair" /\ actual.kind = expected.of
                 /\ expected.v[1] <= actual.v /\ actual.v <= expected.v[2]
  IN CASE operator = "equals" -> actual = expected
       [] operator = "not_equals" -> actual # expected
       [] operator = "contains" -> contains
       [] operator = "not_contains" -> ~contains
       [] operator = "in" -> in
       [] operator = "not_in" -> ~in
       [] operator = "greater_than" -> numbers /\ actual.v > expected.v
       [] operator = "less_than" -> numbers /\ actual.v < expected.v
       [] operator = "greater_equal" -> numbers /\ actual.v >= expected.v
       [] operator = "less_equal" -> numbers /\ actual.v <= expected.v
       [] operator = "between" -> between
       [] operator = "not_between" -> ~between

(* A condition on the risk of the asset asks the engine for a method that it
   does not have. *)
Raises(condition) == condition.type \in {"risk_score", "risk_tier"}
ContextValue(condition, context) == context.values[condition.type]

Holds(condition, context) ==
  IF Raises(condition) THEN "raised"
  ELSE IF EvaluateOperator(condition.operator, ContextValue(condition, context), condition.value)
       THEN "yes" ELSE "no"

(* From the left, as any() and all() do: the first answer that is not "go on"
   ends the search. *)
Search(answers, goOn) ==
  LET ends == SelectSeq(answers, LAMBDA x : x # goOn)
  IN IF ends = <<>> THEN goOn ELSE ends[1]

(* A negated condition hides the condition that carries it; alternatives hide
   the conjuncts beside them. *)
EvaluateCondition(condition, context) ==
  LET answer[c \in AllConditions] ==
        LET main == Holds(c, context)
            negated == answer[c.negated[1]]
            answers(list) == [i \in DOMAIN list |-> answer[list[i]]]
        IN IF c.negated # <<>>
           THEN CASE negated = "yes" -> "no" [] negated = "no" -> "yes" [] OTHER -> "raised"
           ELSE IF c.ors # <<>>
           THEN IF main = "no" THEN Search(answers(c.ors), "no") ELSE main
           ELSE IF main = "yes" THEN Search(answers(c.ands), "yes") ELSE main
  IN answer[condition]

EvaluateConditions(conditions, context) ==
  Search([i \in DOMAIN conditions |-> EvaluateCondition(conditions[i], context)], "yes")

(***************************************************************************)
(* Evaluation                                                              *)
(***************************************************************************)
(* A denial stands whatever follows; of several required levels the last one
   stays; "allow" and "escalate" do nothing. *)
ExecuteActions(result, actions) ==
  LET approvals == SelectSeq(actions, LAMBDA a : a.type = "require_approval")
  IN [result EXCEPT
        !.allowed = @ /\ \A i \in DOMAIN actions : actions[i].type # "deny",
        !.authority = IF approvals = <<>> THEN @ ELSE Last(approvals).level,
        !.actions = @ \o actions]

(* The applicable active policies: higher priorities first, then older ones. *)
ListPolicies(type) ==
  LET applicable == SelectSeq(order, LAMBDA p :
        Active(p) /\ (Definition(p).appliesTo = {} \/ type \in Definition(p).appliesTo))
      position(p) == CHOOSE i \in DOMAIN applicable : applicable[i] = p
  IN SortSeq(applicable, LAMBDA p, q :
       \/ Definition(p).priority > Definition(q).priority
       \/ Definition(p).priority = Definition(q).priority /\ position(p) < position(q))

(* One policy after the other; the first condition that raises ends it all.
   "active" is a history field: the policies that were active. *)
Judged(context) ==
  LET Judge(result, p) ==
        LET match == EvaluateConditions(Definition(p).conditions, context)
        IN IF result.raised THEN result
           ELSE IF match = "raised" THEN [result EXCEPT !.raised = TRUE]
           ELSE IF match = "no" THEN result
           ELSE ExecuteActions([result EXCEPT !.matched = @ \cup {p}], Definition(p).actions)
  IN FoldLeft(Judge, [allowed |-> TRUE, authority |-> 0, actions |-> <<>>, raised |-> FALSE,
                      matched |-> {}], ListPolicies(context.type))

Evaluation(context) ==
  [result |-> Judged(context), at |-> now, active |-> {p \in Ids : Active(p)}]

Fresh(key) == cache[key] # NoResult /\ now - cache[key].at < 300

(***************************************************************************)
(* The manager                                                             *)
(***************************************************************************)
(* A new policy is a draft. *)
Add(p, d) ==
  /\ policies[p].status = "absent"
  /\ policies' = [policies EXCEPT ![p] = [status |-> "draft", definition |-> d, enforced |-> FALSE]]
  /\ order' = Append(order, p)

Update(p, policy) ==
  /\ Exists(p)
  /\ policies' = [policies EXCEPT ![p] = policy]
  /\ UNCHANGED order

\* Mutant: a deleted policy stays in the order.
RemoveKeepingOrder(p) ==
  /\ Exists(p)
  /\ policies' = [policies EXCEPT ![p] = Deleted]
  /\ UNCHANGED order

(* Identifiers are never used again. *)
Delete(p) ==
  /\ Exists(p)
  /\ policies' = [policies EXCEPT ![p] = Deleted]
  /\ order' = SelectSeq(order, LAMBDA q : q # p)

(***************************************************************************)
(* The endpoints                                                           *)
(***************************************************************************)
CreatePolicy(p, d) == Add(p, d) /\ UNCHANGED <<now, cache>>

CreateFromTemplate(p, demand) == Add(p, Instantiate(demand)) /\ UNCHANGED <<now, cache>>

(* The cache keeps what the policy said before; neither does a deletion reach it. *)
UpdatePolicy(p, d) ==
  /\ Update(p, [policies[p] EXCEPT !.definition = d])
  /\ UNCHANGED <<now, cache>>

DeletePolicy(p) == Delete(p) /\ UNCHANGED <<now, cache>>

\* Mutant: the cache is kept when a policy becomes active.
KeepCache(p, status) ==
  /\ Update(p, [policies[p] EXCEPT !.status = status])
  /\ UNCHANGED <<now, cache>>

(* activate_policy and deactivate_policy, with the clear_cache of the endpoint. *)
SetStatus(p, status) ==
  /\ Update(p, [policies[p] EXCEPT !.status = status])
  /\ cache' = [k \in Keys |-> NoResult]
  /\ UNCHANGED now

ActivatePolicy(p) == SetStatus(p, "active")
DeactivatePolicy(p) == SetStatus(p, "deprecated")

(* A fresh result is answered as it is; else the policies are evaluated, the
   ones that match count as enforced, also if a later one raises. *)
Evaluate(context) ==
  /\ ~Fresh(context.key)
  /\ LET result == Judged(context)
     IN /\ policies' = [p \in Ids |-> IF p \in result.matched
                                      THEN [policies[p] EXCEPT !.enforced = TRUE] ELSE policies[p]]
        /\ cache' = IF result.raised THEN cache
                    ELSE [cache EXCEPT ![context.key] = Evaluation(context)]
  /\ UNCHANGED <<now, order>>

Tick ==
  /\ \E t \in Moments : t > now /\ now' = t
  /\ UNCHANGED <<policies, order, cache>>

Next ==
  \/ \E p \in Ids, d \in Definitions : CreatePolicy(p, d) \/ UpdatePolicy(p, d)
  \/ \E p \in Ids, demand \in Demands : CreateFromTemplate(p, demand)
  \/ \E p \in Ids : DeletePolicy(p) \/ ActivatePolicy(p) \/ DeactivatePolicy(p)
  \/ \E c \in Contexts : Evaluate(c)
  \/ Tick

Spec == Init /\ [][Next]_vars

Answer(context) == IF Fresh(context.key) THEN cache[context.key] ELSE Evaluation(context)

(* Pairs that detect_policy_conflicts reports. *)
Does(p, type) == \E i \in DOMAIN Definition(p).actions : Definition(p).actions[i].type = type
Conflicts ==
  {pair \in Ids \X Ids :
     LET p == pair[1] q == pair[2]
     IN /\ p # q /\ Active(p) /\ Active(q)
        /\ Definition(p).appliesTo = Definition(q).appliesTo
        /\ Does(p, "deny") /\ Does(q, "allow")}

(***************************************************************************)
(* Properties                                                              *)
(***************************************************************************)
TypeOK ==
  /\ now \in Moments
  /\ policies \in [Ids -> [status : Statuses \cup {"absent", "deleted"},
                           definition : Definitions \cup {Instantiate(o) : o \in Demands},
                           enforced : BOOLEAN]]
  /\ ToSet(order) = {p \in Ids : Exists(p)} /\ IsInjective(order)
  /\ \A k \in Keys : cache[k] = NoResult \/ (cache[k].at \in Moments /\ ~cache[k].result.raised)

(* No answer, cached or fresh, forgets an activation or a deactivation: it was
   judged by the policies that are active, and by none but deleted ones
   besides. *)
AnswersFollowActivations ==
  \A c \in Contexts :
    LET active == Answer(c).active
    IN {p \in active : Exists(p)} = {p \in Ids : Active(p)}
=============================================================================
