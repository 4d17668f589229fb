------------------------------ MODULE Missions -----------------------------
(* The missions of the REST API (api/routes/missions_v45.py) and the executor
   that carries one out and keeps its state in Redis
   (orchestration/mission_executor.py).

   A mission runs as a background task after its request was answered. Every
   await may raise, and what Redis was asked for may have been done although the
   answer was lost. The task of a mission ends with its process.             *)
EXTENDS Integers

CONSTANTS Ids,       \* missions that are asked for, each with an id of its own
          MaxSteps   \* longest plan a model answers

\* What the values of the constants satisfy.
MissionsAssumption == MaxSteps \in Nat

Absent == [status |-> "absent", cost |-> 0, output |-> 0]

VARIABLES
  accepted,  \* missions that were answered "accepted"
  tasks,     \* the running task of each mission: where it is, its steps, those
             \* charged in this run and those answered, and its mission_state
  kept,      \* the state of each mission in Redis
  listed,    \* the set of the tenant's missions in Redis
  charged,   \* history: credits taken for each mission
  shaken     \* history: missions whose process died or whose writes did not all succeed

vars == <<accepted, tasks, kept, listed, charged, shaken>>

NoTask == [pc |-> "none", steps |-> 0, total |-> 0, outputs |-> 0, state |-> Absent]

MissionsInit ==
  /\ accepted = {} /\ listed = {} /\ shaken = {}
  /\ tasks = [m \in Ids |-> NoTask]
  /\ kept = [m \in Ids |-> Absent]
  /\ charged = [m \in Ids |-> 0]

(* create_mission: the answer comes before anything is kept. *)
CreateMission(m) ==
  /\ m \notin accepted
  /\ accepted' = accepted \cup {m}
  /\ tasks' = [tasks EXCEPT ![m] = [NoTask EXCEPT !.pc = "begin",
                 !.state = [Absent EXCEPT !.status = "planning"]]]
  /\ UNCHANGED <<kept, listed, charged, shaken>>

At(m, pc) == tasks[m].pc = pc

(* _save_mission_state: the state and the set of the tenant change together, or
   it raises, before that or after it.                                       *)
Save(m, state, next, onFailure) ==
  \E outcome \in {"done", "lost", "answer lost"} :
    /\ kept' = IF outcome = "lost" THEN kept ELSE [kept EXCEPT ![m] = state]
    /\ listed' = IF outcome = "lost" THEN listed ELSE listed \cup {m}
    /\ tasks' = [tasks EXCEPT ![m] = [@ EXCEPT !.state = state,
                   !.pc = IF outcome = "done" THEN next ELSE onFailure]]
    /\ shaken' = IF outcome = "done" THEN shaken ELSE shaken \cup {m}
    /\ UNCHANGED <<accepted, charged>>

SaveBegin(m) == At(m, "begin") /\ Save(m, tasks[m].state, "plan", "failing")

Plan(m, k) ==
  /\ At(m, "plan")
  /\ tasks' = [tasks EXCEPT ![m].steps = k, ![m].pc = "planned"]
  /\ UNCHANGED <<accepted, kept, listed, charged, shaken>>

AfterStep(m) == IF tasks[m].outputs = tasks[m].steps THEN "finish" ELSE "charge"

SavePlan(m) == At(m, "planned") /\ Save(m, tasks[m].state, AfterStep(m), "failing")

(* A credit for the step; an exception may come with the credit already taken. *)
Charge(m) ==
  /\ At(m, "charge")
  /\ \E taken, raises \in BOOLEAN :
       /\ ~taken => raises
       /\ charged' = IF taken THEN [charged EXCEPT ![m] = @ + 1] ELSE charged
       /\ tasks' = [tasks EXCEPT ![m] =
                      IF raises THEN [@ EXCEPT !.pc = "failing"]
                      ELSE [@ EXCEPT !.total = tasks[m].total + 1, !.pc = "call"]]
  /\ UNCHANGED <<accepted, kept, listed, shaken>>

(* The model answers the step. *)
CallModel(m) ==
  /\ At(m, "call")
  /\ tasks' = [tasks EXCEPT ![m].outputs = @ + 1, ![m].pc = "step"]
  /\ UNCHANGED <<accepted, kept, listed, charged, shaken>>

(* A model that raises, for the plan or a step. *)
ModelFails(m) ==
  /\ At(m, "plan") \/ At(m, "call")
  /\ tasks' = [tasks EXCEPT ![m].pc = "failing"]
  /\ UNCHANGED <<accepted, kept, listed, charged, shaken>>

\* Mutant: the cost of a step is not part of the state that is saved with it.
CostLater(t) == [t.state EXCEPT !.status = "executing"]

(* The state after a step. *)
AfterCharge(t) == [t.state EXCEPT !.status = "executing", !.cost = t.total]

SaveStep(m) ==
  At(m, "step") /\ Save(m, AfterCharge(tasks[m]), AfterStep(m), "failing")

\* Mutant: the output is left out of the state that a mission ends with.
WithoutOutput(t) == [t.state EXCEPT !.status = "completed"]

Completed(t) == [t.state EXCEPT !.status = "completed", !.output = t.outputs]

SaveCompleted(m) == At(m, "finish") /\ Save(m, Completed(tasks[m]), "done", "failing")

(* Whatever raised, the mission is kept as failed with what else is in its state,
   also over a completion whose answer was lost; if that raises too, the
   exception leaves the task.                                                *)
SaveFailed(m) ==
  At(m, "failing") /\ Save(m, [tasks[m].state EXCEPT !.status = "failed"], "done", "raised")

(* All tasks are lost; nobody takes up a mission again. *)
Crash ==
  /\ \E m \in Ids : tasks[m].pc \notin {"none", "done", "raised"}
  /\ tasks' = [m \in Ids |-> IF tasks[m].pc \in {"none", "done", "raised"} THEN tasks[m]
                             ELSE [tasks[m] EXCEPT !.pc = "raised"]]
  /\ shaken' = shaken \cup {m \in Ids : tasks[m].pc \notin {"none", "done", "raised"}}
  /\ UNCHANGED <<accepted, kept, listed, charged>>

(* Thirty days after the last write the state expires; the set does not. *)
Expire(m) ==
  /\ tasks[m].pc \in {"done", "raised"} /\ kept[m] # Absent
  /\ kept' = [kept EXCEPT ![m] = Absent]
  /\ UNCHANGED <<accepted, tasks, listed, charged, shaken>>

MissionsNext ==
  \/ \E m \in Ids :
       \/ CreateMission(m) \/ SaveBegin(m) \/ SavePlan(m) \/ Charge(m) \/ CallModel(m)
       \/ ModelFails(m) \/ SaveStep(m) \/ SaveCompleted(m) \/ SaveFailed(m) \/ Expire(m)
       \/ \E k \in 0..MaxSteps : Plan(m, k)
  \/ Crash

MissionsSpec == MissionsInit /\ [][MissionsNext]_vars

(* What the routes answer: a state that is kept. *)
Visible == {m \in listed : kept[m] # Absent}

(***************************************************************************)
(* Properties                                                              *)
(***************************************************************************)
States ==
  [status : {"absent", "planning", "executing", "completed", "failed"}, cost : 0..MaxSteps,
   output : 0..MaxSteps]

MissionsTypeOK ==
  /\ accepted \subseteq Ids /\ listed \subseteq accepted /\ shaken \subseteq accepted
  /\ kept \in [Ids -> States] /\ charged \in [Ids -> 0..MaxSteps]
  /\ \A m \in Ids : tasks[m].state \in States /\ tasks[m].steps \in 0..MaxSteps

(* The state that is kept of a mission accounts for all credits but at most the
   one of the step under way or of the step that failed, and never for more; a
   mission kept as completed has an output for every step and paid for each; and
   a mission that is over is kept as completed or failed, unless its process
   died or Redis failed.                                                     *)
CostsAreTrue ==
  \A m \in Ids :
    /\ kept[m] # Absent => charged[m] - kept[m].cost \in {0, 1}
    /\ kept[m].status = "completed"
         => kept[m].output = tasks[m].steps /\ kept[m].cost = charged[m]
    /\ tasks[m].pc \in {"done", "raised"} /\ m \notin shaken
         => kept[m].status \in {"absent", "completed", "failed"}
=============================================================================
