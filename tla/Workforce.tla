-------------------------------- MODULE Workforce --------------------------------
(***************************************************************************)
(* One run of WorkforceCoordinator                                         *)
(* (backend/orchestration/workforce_coordinator.py).                       *)
(*                                                                         *)
(* The commander's model answers with sub-missions and the indices they    *)
(* depend on; the coordinator dispatches the ready ones in waves, waits    *)
(* with gather for the whole wave, and dispatches the next.  The sub-      *)
(* missions of a wave are tasks of their own, each with its retries.       *)
(*                                                                         *)
(* The executor's answer is its status and whether it has any output.  The *)
(* statuses are a constant: tests answer "COMPLETED", MissionExecutor      *)
(* answers "completed" (backend/models/domain/mission.py).  Events are     *)
(* emitted with their errors swallowed and are left out; so are the texts. *)
(***************************************************************************)
EXTENDS Integers, FiniteSets

CONSTANTS
  MaxSubs,     \* bound on the sub-missions of a plan
  Roles,       \* how many roles the caller asked for
  MaxRetries,  \* max_retries of a SubMission
  Statuses     \* what the executor answers

\* What the values of the constants satisfy.
WorkforceAssumption ==
  /\ MaxSubs \in Nat /\ Roles \in 0 .. MaxSubs /\ MaxRetries \in Nat
  /\ Statuses \subseteq {"COMPLETED", "SUCCESS", "completed", "FAILED", "failed"}

VARIABLES
  status,     \* status of the run
  deps,       \* the resolved depends_on of each sub-mission
  sub,        \* status of each sub-mission
  tries,      \* retry_count of each
  result,     \* each has a result that is not empty
  context,    \* the sub-missions whose results each was given
  wave,       \* the sub-missions in flight
  ended,      \* completed_ids
  cost,       \* cost of the run, in missions
  final,      \* what final_output is made of: "nothing", "one" or "several"
  succeeded   \* history: sub-missions of which a mission has completed

run == <<status, deps, wave, ended, final>>
own == <<sub, tries, result, context, cost, succeeded>>
vars == <<run, own>>

Subs == DOMAIN deps
Begun == {"running", "retrying", "completed", "failed"}
Over == {"completed", "failed"}

TypeOK ==
  /\ status \in {"planning", "running", "aggregating", "completed",
                 "partially_failed", "failed"}
  /\ \E n \in 0 .. MaxSubs : deps \in [1 .. n -> SUBSET (1 .. n)]
  /\ sub \in [Subs -> {"pending", "skipped"} \cup Begun]
  /\ tries \in [Subs -> 0 .. MaxRetries + 1]
  /\ \A s \in Subs : sub[s] = "failed" <=> tries[s] = MaxRetries + 1
  /\ result \in [Subs -> BOOLEAN] /\ context \in [Subs -> SUBSET Subs]
  /\ wave \subseteq Subs /\ ended \subseteq Subs /\ wave \cap ended = {}
  /\ cost = Cardinality({s \in Subs : sub[s] = "completed"})

Init ==
  /\ status = "planning"
  /\ deps = << >> /\ sub = << >> /\ tries = << >> /\ result = << >> /\ context = << >>
  /\ wave = {} /\ ended = {} /\ cost = 0 /\ final = "nothing" /\ succeeded = {}

--------------------------------------------------------------------------------
(* Planning. *)

\* Mutant: all ids are known before the first dependency is looked up.
ResolvesForward(i, raw) == raw

\* The indices among raw that have an id when sub-mission i is built: the ones
\* before it, and its own.
Resolves(i, raw) == raw \cap 1 .. i

Plans(n, raw) ==
  /\ deps' = [i \in 1 .. n |-> Resolves(i, raw[i])]
  /\ sub' = [i \in 1 .. n |-> "pending"] /\ tries' = [i \in 1 .. n |-> 0]
  /\ result' = [i \in 1 .. n |-> FALSE] /\ context' = [i \in 1 .. n |-> {}]
  /\ status' = "running"
  /\ UNCHANGED <<wave, ended, cost, final, succeeded>>

\* The model's plan, whatever indices it names.
PlanByModel ==
  /\ status = "planning"
  /\ \E n \in 0 .. MaxSubs : \E raw \in [1 .. n -> SUBSET (1 .. n)] : Plans(n, raw)

\* The model failed, or its answer is no JSON.
PlanByDefault ==
  /\ status = "planning"
  /\ Plans(Roles, [i \in 1 .. Roles |-> {}])

\* There is no model, or the answer has not the form of a plan.
PlanFails ==
  /\ status = "planning" /\ status' = "failed"
  /\ UNCHANGED <<deps, wave, ended, final, own>>

--------------------------------------------------------------------------------
(* Execution. *)

Pending == Subs \ ended

\* Mutant: one dependency is enough.
ReadyOnAny == {s \in Pending : deps[s] = {} \/ deps[s] \cap ended # {}}

Ready == {s \in Pending : deps[s] \subseteq ended}

\* The results are put together before any of the wave begins.
Dispatch ==
  /\ status = "running" /\ wave = {} /\ Ready # {}
  /\ wave' = Ready
  /\ context' = [s \in Subs |->
       IF s \in Ready THEN {e \in ended : result[e]} ELSE context[s]]
  /\ UNCHANGED <<status, deps, ended, final, sub, tries, result, cost, succeeded>>

\* Nothing is ready: the loop is left.
Skip ==
  /\ status = "running" /\ wave = {} /\ Ready = {} /\ Pending # {}
  /\ sub' = [s \in Subs |-> IF s \in Pending THEN "skipped" ELSE sub[s]]
  /\ status' = "aggregating"
  /\ UNCHANGED <<deps, wave, ended, final, tries, result, context, cost, succeeded>>

Finish ==
  /\ status = "running" /\ wave = {} /\ Pending = {}
  /\ status' = "aggregating"
  /\ UNCHANGED <<deps, wave, ended, final, own>>

Begin(s) ==
  /\ s \in wave /\ sub[s] = "pending"
  /\ sub' = [sub EXCEPT ![s] = "running"]
  /\ UNCHANGED <<run, tries, result, context, cost, succeeded>>

\* sub_mission.result, of which only an output that is not empty is used.
KeepsResult(s, output) == result' = [result EXCEPT ![s] = output]

Succeeds(s) ==
  \E answer \in Statuses \cap {"COMPLETED", "SUCCESS"}, output \in BOOLEAN :
    /\ sub' = [sub EXCEPT ![s] = "completed"]
    /\ KeepsResult(s, output)
    /\ cost' = cost + 1
    /\ succeeded' = succeeded \cup {s}
    /\ UNCHANGED <<tries, context>>

\* Mutant: an attempt that raised is not counted.
RetriesForever(s) ==
  /\ sub' = [sub EXCEPT ![s] = IF @ = "running" THEN "retrying" ELSE "running"]
  /\ UNCHANGED <<tries, result, context, cost>>

\* Mutant: one attempt too many.
RetriesOnceMore(s) ==
  /\ tries' = [tries EXCEPT ![s] = @ + 1]
  /\ sub' = [sub EXCEPT ![s] = IF tries'[s] <= MaxRetries + 1 THEN "retrying" ELSE "failed"]
  /\ UNCHANGED <<result, context, cost>>

\* Any other answer, or an exception.
Retries(s) ==
  /\ tries' = [tries EXCEPT ![s] = @ + 1]
  /\ sub' = [sub EXCEPT ![s] = IF tries'[s] <= MaxRetries THEN "retrying" ELSE "failed"]
  /\ UNCHANGED <<result, context, cost>>

\* execute_mission answers or raises; a task in its sleep wakes up first.
Attempt(s) ==
  /\ s \in wave /\ sub[s] \in {"running", "retrying"}
  /\ \/ Succeeds(s)
     \/ /\ Retries(s)
        /\ \/ "completed" \in Statuses /\ succeeded' = succeeded \cup {s}
           \/ UNCHANGED succeeded
  /\ UNCHANGED run

\* Mutant: gather returns at the first exception that leaves a task.
EndWaveAtFailure ==
  /\ wave # {}
  /\ (\A s \in wave : sub[s] \in Over) \/ (\E s \in wave : sub[s] = "failed")
  /\ ended' = ended \cup wave /\ wave' = {}
  /\ UNCHANGED <<status, deps, final, own>>

\* gather returns when the last task of the wave has.
EndWave ==
  /\ wave # {} /\ \A s \in wave : sub[s] \in Over
  /\ ended' = ended \cup wave /\ wave' = {}
  /\ UNCHANGED <<status, deps, final, own>>

--------------------------------------------------------------------------------
(* Aggregation. *)

Usable == {s \in Subs : sub[s] = "completed" /\ result[s]}
Failed == {s \in Subs : sub[s] = "failed"}

Aggregate ==
  /\ status = "aggregating"
  /\ final' = CASE Usable = {} -> "nothing"
                [] Cardinality(Usable) = 1 -> "one"
                [] OTHER -> "several"
  /\ status' = CASE Failed = {} -> "completed"
                 [] Failed # {} /\ Failed # Subs -> "partially_failed"
                 [] OTHER -> "failed"
  /\ UNCHANGED <<deps, wave, ended, own>>

\* get_llm raises for several results.
AggregateFails ==
  /\ status = "aggregating" /\ Cardinality(Usable) > 1
  /\ status' = "failed"
  /\ UNCHANGED <<deps, wave, ended, final, own>>

--------------------------------------------------------------------------------
Coordinate ==
  \/ PlanByModel \/ PlanByDefault \/ PlanFails
  \/ Dispatch \/ Skip \/ Finish \/ EndWave \/ Aggregate \/ AggregateFails

Work(s) == Begin(s) \/ Attempt(s)

Next == Coordinate \/ \E s \in 1 .. MaxSubs : s \in Subs /\ Work(s)

Spec == Init /\ [][Next]_vars

\* Every await returns: models answer or raise, and missions end.
FairSpec ==
  Spec /\ WF_vars(Coordinate) /\ \A s \in 1 .. MaxSubs : WF_vars(s \in Subs /\ Work(s))

--------------------------------------------------------------------------------
(* s is a sub-mission that names itself, or needs one that does, directly or  *)
(* through others: whatever set holds s and all its members depend on, it     *)
(* holds one that names itself.                                               *)
Knotted(s) ==
  \A S \in SUBSET Subs :
    s \in S /\ (\A m \in S : deps[m] \subseteq S) => \E m \in S : m \in deps[m]

(* A sub-mission begins when all it depends on is over, and is given the      *)
(* result of each of these that has one, but nothing of a sub-mission that    *)
(* runs beside it, whatever the waves, their answers and their retries.       *)
SeesItsDependencies ==
  \A s \in Subs : sub[s] \in Begun =>
    /\ \A d \in deps[s] : sub[d] \in Over
    /\ \A d \in deps[s] : sub[d] = "completed" /\ result[d] => d \in context[s]
    /\ context[s] \cap wave = {}

(* Only a sub-mission that names itself, or needs one that does, is skipped: *)
(* a plan of the model cannot tie any other knot, and failures do not skip.  *)
SkipsOnlyKnots == \A s \in Subs : sub[s] = "skipped" => Knotted(s)

(* A run ends, also one whose missions all fail or whose plan is circular.   *)
RunEnds == <>(status \in {"completed", "partially_failed", "failed"})

(* What the docstring of _execute_sub_mission says: "Execute a single        *)
(* sub-mission, with retry on failure": one whose mission has completed is   *)
(* not tried again.                                                          *)
RetriesOnlyFailures == \A s \in succeeded : sub[s] = "completed"
================================================================================
