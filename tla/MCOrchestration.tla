----------------------------- MODULE MCOrchestration ------------------------------
(***************************************************************************)
(* The scheduler and the workforce coordinator for TLC, side by side: a    *)
(* behaviour is one of Scheduler or of Workforce, chosen at the start, and *)
(* the variables of the other stay as they begin.  Both are checked for    *)
(* liveness: no symmetry.                                                  *)
(***************************************************************************)
EXTENDS Scheduler

CONSTANTS
  Parts,                                 \* the parts that are checked
  MaxSubs, Roles, MaxRetries, Statuses   \* of Workforce

VARIABLES part,
  status, deps, sub, tries, result, context, wave, ended, cost, final, succeeded

workVars == <<status, deps, sub, tries, result, context, wave, ended, cost, final, succeeded>>

W == INSTANCE Workforce

ASSUME PartsAssumption == W!WorkforceAssumption

InitAll == part \in Parts /\ Init /\ W!Init

NextAll ==
  \/ part = "scheduler" /\ Next /\ UNCHANGED <<part, workVars>>
  \/ part = "workforce" /\ W!Next /\ UNCHANGED <<part, vars>>

SpecAll == InitAll /\ [][NextAll]_<<part, vars, workVars>>

\* The fairness of FairSpec in both modules.
FairSpecAll ==
  /\ SpecAll
  /\ \A t \in Tasks : WF_vars(part = "scheduler" /\ Proceed(t))
  /\ WF_workVars(part = "workforce" /\ W!Coordinate)
  /\ \A s \in 1 .. MaxSubs : WF_workVars(part = "workforce" /\ s \in W!Subs /\ W!Work(s))

\* What the executor answers: in the mocks of the tests, and in MissionExecutor.
Expected == {"COMPLETED", "FAILED"}
Actual == {"completed", "failed"}

--------------------------------------------------------------------------------
\* Every variable of the two components keeps its type.
TypesOK == part \in Parts /\ TypeOK /\ W!TypeOK

\* A sub-mission begins when all it depends on is over, with their results and
\* nothing of one beside it; and only one that names itself, or needs such a one,
\* is ever skipped, whatever the waves, their answers and their retries.
WavesFollowDependencies == W!SeesItsDependencies /\ W!SkipsOnlyKnots

\* A run of the coordinator ends, also one whose missions all fail or whose plan
\* is circular.
RunEnds == part = "workforce" => W!RunEnds

\* What the docstring of _execute_sub_mission says: "Execute a single
\* sub-mission, with retry on failure".
RetriesOnlyFailures == W!RetriesOnlyFailures
================================================================================
