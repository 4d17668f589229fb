----------------------------- MODULE Reasoning -----------------------------
(* A task of an agent that reasons (ResearcherAgent, AnalystAgent and
   DeveloperAgent of agents/implementations/researcher_agent.py) and the graph
   it reasons along (agents/workflows/reasoning_graph.py): the planner lists
   steps, then each is executed and reflected upon, and the adapter goes on to
   the next one or has the same one executed again.

   A language model may answer anything or raise at every node. LangGraph ends a
   run with an exception once it went through a number of nodes.             *)
EXTENDS Integers

CONSTANTS MaxPlan,         \* longest plan a model answers
          RecursionLimit   \* of LangGraph, 25 unless configured

\* What the values of the constants satisfy.
ReasoningAssumption == {MaxPlan, RecursionLimit} \subseteq Nat

\* What a task asks for: a research of some depth, an analysis, code, or what the
\* agent refuses: a research of nothing, a kind of task it does not know.
Jobs == {"shallow", "deep", "analysis", "debug", "generate", "review", "unknown"}
Reasoned == {"deep", "analysis", "debug"}

VARIABLES
  job,         \* the task
  node,        \* where it is
  plan,        \* number of steps in the plan
  step,        \* current_step, counted from 0
  results,     \* steps with a result
  iterations,  \* iteration_count
  visited,     \* nodes the graph went through
  reply,       \* what the task answers: success and whether with a final answer
  broken       \* history: whether a model, a tool or the search failed

vars == <<job, node, plan, step, results, iterations, visited, reply, broken>>

ReasoningInit ==
  /\ job = "none" /\ node = "idle" /\ reply = "none" /\ broken = FALSE
  /\ plan = 0 /\ step = 0 /\ results = {} /\ iterations = 0 /\ visited = 0

(* The limits the three agents give their workflows. *)
MaxIterations == IF job = "deep" THEN 7 ELSE 5

(* execute: what is done first. *)
Execute(j) ==
  /\ node = "idle"
  /\ job' = j
  /\ node' = CASE j \in {"shallow", "deep"} -> "search"
               [] j \in Reasoned \ {"deep"} -> "planner"
               [] j \in {"generate", "review"} -> "model"
               [] j = "unknown" -> "done"
  /\ reply' = IF j = "unknown" THEN "failure" ELSE "none"
  /\ UNCHANGED <<plan, step, results, iterations, visited, broken>>

(* Whatever fails on the way is caught by execute. *)
Fails ==
  /\ node \notin {"idle", "done"} /\ (node = "executor" => step < plan)
  /\ node' = "done" /\ reply' = "failure" /\ broken' = TRUE
  /\ UNCHANGED <<job, plan, step, results, iterations, visited>>

Search ==
  /\ node = "search"
  /\ node' = IF job = "deep" THEN "planner" ELSE "model"
  /\ UNCHANGED <<job, plan, step, results, iterations, visited, reply, broken>>

(* A single question; code that was generated is run afterwards, and a run that
   fails or is not allowed is a success too.                                 *)
AskModel ==
  /\ node = "model"
  /\ node' = IF job = "generate" THEN "tool" ELSE "done"
  /\ reply' = IF job = "generate" THEN "none" ELSE "success"
  /\ UNCHANGED <<job, plan, step, results, iterations, visited, broken>>

RunCode ==
  /\ node = "tool"
  /\ node' = "done" /\ reply' = "success"
  /\ UNCHANGED <<job, plan, step, results, iterations, visited, broken>>

(* The graph goes on to another node, unless it went through too many. *)
GoTo(next) ==
  IF visited + 1 < RecursionLimit
  THEN /\ visited' = visited + 1 /\ node' = next /\ UNCHANGED reply
  ELSE /\ visited' = visited + 1 /\ node' = "done" /\ reply' = "failure"

(* The lines of the answer that begin with a number. *)
PlanNode(n) ==
  /\ node = "planner"
  /\ plan' = n /\ step' = 0 /\ iterations' = 0
  /\ GoTo("executor")
  /\ UNCHANGED <<job, results, broken>>

(* Past the plan, which only an empty one has the graph be, there is no result. *)
ExecuteNode ==
  /\ node = "executor"
  /\ results' = IF step >= plan THEN results ELSE results \cup {step}
  /\ GoTo("reflector")
  /\ UNCHANGED <<job, plan, step, iterations, broken>>

\* Mutant: the last step is taken to be the one after it.
ContinuesPastPlan(count) == step < plan /\ count < MaxIterations

(* _should_continue *)
Continues(count) == step < plan - 1 /\ count < MaxIterations

(* Without a result the reflector raises. *)
ReflectNode ==
  /\ node = "reflector"
  /\ IF step \in results
     THEN /\ iterations' = iterations + 1
          /\ GoTo(IF Continues(iterations + 1) THEN "adapter" ELSE "finalizer")
     ELSE node' = "done" /\ reply' = "failure" /\ UNCHANGED <<iterations, visited>>
  /\ UNCHANGED <<job, plan, step, results, broken>>

(* RETRY keeps the step; NEXT_STEP, REVISE_PLAN and everything else goes on. *)
AdaptNode(decision) ==
  /\ node = "adapter"
  /\ step' = IF decision = "retry" THEN step ELSE step + 1
  /\ GoTo("executor")
  /\ UNCHANGED <<job, plan, results, iterations, broken>>

FinalizeNode ==
  /\ node = "finalizer"
  /\ visited' = visited + 1
  /\ node' = "done" /\ reply' = "success"
  /\ UNCHANGED <<job, plan, step, results, iterations, broken>>

(* The agent takes its next task: a run starts from a state of its own. *)
Again ==
  /\ node = "done"
  /\ job' = "none" /\ node' = "idle" /\ reply' = "none" /\ broken' = FALSE
  /\ plan' = 0 /\ step' = 0 /\ results' = {} /\ iterations' = 0 /\ visited' = 0

ReasoningNext ==
  \/ \E j \in Jobs : Execute(j)
  \/ \E n \in 0..MaxPlan : PlanNode(n)
  \/ \E d \in {"next", "retry"} : AdaptNode(d)
  \/ Fails \/ Search \/ AskModel \/ RunCode
  \/ ExecuteNode \/ ReflectNode \/ FinalizeNode \/ Again

ReasoningSpec == ReasoningInit /\ [][ReasoningNext]_vars

(***************************************************************************)
(* Properties                                                              *)
(***************************************************************************)
ReasoningTypeOK ==
  /\ job \in Jobs \cup {"none"} /\ reply \in {"none", "success", "failure"}
  /\ node \in {"idle", "search", "model", "tool", "planner", "executor", "reflector", "adapter",
               "finalizer", "done"}
  /\ plan \in 0..MaxPlan /\ iterations \in 0..7 /\ visited \in 0..RecursionLimit
  /\ results \subseteq 0..plan /\ broken \in BOOLEAN /\ step \in 0..plan

(* A task fails only for a model, a tool or a search that failed, a plan
   without steps or a task that is refused: however often steps are executed
   again, the graph never ends in the limit of LangGraph, nor past its plan. The
   steps that have results are a prefix of the plan that ends at the current one,
   and an answer that was reasoned about is of the whole plan or has used up the
   iterations.                                                                *)
TasksAreAnswered ==
  /\ reply = "failure" => broken \/ job = "unknown" \/ (job \in Reasoned /\ plan = 0)
  /\ results = 0..(step - 1) \/ results = 0..step
  /\ reply = "success" /\ plan > 0
       => results = 0..step /\ (step = plan - 1 \/ iterations = MaxIterations)
=============================================================================
