---------------------------------- MODULE Saga ----------------------------------
(***************************************************************************)
(* SagaOrchestrator (backend/core/saga/saga_orchestrator.py): one saga, from*)
(* create_saga through add_step to the end of execute.                     *)
(*                                                                         *)
(* execute is one coroutine.  It gives up control only where it awaits, so *)
(* one action here is one await with the code that runs up to the next.  pc*)
(* names what is being awaited: an event being appended to the event store *)
(* (pc is the event's type without its "saga." prefix), a step's action or *)
(* a compensation.                                                         *)
(*                                                                         *)
(* Rules the actions translate:                                            *)
(*  - an exception inside execute's try runs its except clause, which      *)
(*    compensates again from current_step; an exception inside that clause *)
(*    reaches the caller, as does a failing append of saga.started, which  *)
(*    is outside the try;                                                  *)
(*  - step.completed is appended inside _execute_step's own try and        *)
(*    step.compensation.completed inside _compensate_step's: when those    *)
(*    appends raise, the step fails (or its compensation is reported as    *)
(*    failed) although its action (its compensation) has been carried out; *)
(*  - a failing compensation is reported and otherwise ignored;            *)
(*  - asyncio.CancelledError is no Exception: no clause catches it, and    *)
(*    sagas live in memory only, so a cancelled task or a stopped process  *)
(*    leaves the saga where it was.                                        *)
(***************************************************************************)
EXTENDS Integers

CONSTANTS
  MaxSteps,   \* bound on the steps a caller adds
  Faults      \* which parts of the environment may fail, a subset of FaultKinds

\* "store": EventStore.append may raise; "action": a step's action may raise;
\* "compensation": a compensation may raise; "partial": what raises, or is
\* cancelled, may already have had its effect; "cancel": the task running
\* execute may be cancelled (or its process stopped) at an await.
FaultKinds == {"store", "action", "compensation", "partial", "cancel"}

ASSUME SagaAssumption == MaxSteps \in Nat /\ Faults \subseteq FaultKinds

VARIABLES
  n,            \* len(saga.steps)
  compensable,  \* the steps added with a compensation
  status,       \* saga.status
  step,         \* step.status of each step
  current,      \* saga.current_step
  cursor,       \* where _compensate's loop stands: steps below it are left
  handler,      \* execute is in its except clause
  pc,           \* what the coroutine awaits
  effect,       \* what the outside world holds of each step
  undos,        \* how often each step's compensation has been called
  result,       \* how execute ended: "none" while it has not
  request       \* whose saga it is, with the arguments of that saga's execute

\* The orchestrator does not look at request: only the sagas built on it do.
vars == <<n, compensable, status, step, current, cursor, handler, pc, effect,
          undos, result>>

Slots == 0 .. MaxSteps - 1
Steps == 0 .. n - 1

SagaStatus == {"pending", "running", "completed", "compensating", "compensated",
               "failed"}
StepStatus == {"pending", "running", "completed", "failed", "compensating",
               "compensated"}
Outcome == {"none", "true", "false", "raised", "cancelled"}

\* Appends whose exception is caught by execute's except clause.
GuardedEvents == {"step.started", "step.failed", "compensation.started",
                  "step.compensation.started", "step.compensation.failed",
                  "compensation.completed", "completed", "compensated", "failed"}
Events == GuardedEvents
            \cup {"started", "step.completed", "step.compensation.completed"}
PC == Events \cup {"defining", "action", "compensation", "done"}

TypeOK ==
  /\ n \in 0 .. MaxSteps
  /\ compensable \in SUBSET Steps
  /\ status \in SagaStatus
  /\ step \in [Slots -> StepStatus]
  /\ current \in Nat
  /\ cursor \in Nat
  /\ handler \in BOOLEAN
  /\ pc \in PC
  /\ effect \in [Slots -> {"none", "applied", "undone"}]
  /\ undos \in [Slots -> Nat]
  /\ result \in Outcome

Init ==
  /\ n = 0
  /\ compensable = {}
  /\ status = "pending"
  /\ step = [i \in Slots |-> "pending"]
  /\ current = 0
  /\ cursor = 0
  /\ handler = FALSE
  /\ pc = "defining"
  /\ effect = [i \in Slots |-> "none"]
  /\ undos = [i \in Slots |-> 0]
  /\ result = "none"

--------------------------------------------------------------------------------
(* Pieces of control shared by several actions. *)

plan == <<n, compensable>>
world == <<effect, undos>>

Finish(r) == pc' = "done" /\ result' = r

\* The head of execute's loop at index i, or what follows the loop.
EnterStep(i) ==
  \/ /\ i < n
     /\ current' = i
     /\ step' = [step EXCEPT ![i] = "running"]
     /\ pc' = "step.started"
     /\ UNCHANGED status
  \/ /\ i >= n
     /\ status' = "completed"
     /\ pc' = "completed"
     /\ UNCHANGED <<current, step>>

\* Mutant: _compensate starts one step too low.
SkipsLastCompleted ==
  /\ status' = "compensating"
  /\ cursor' = IF current = 0 THEN 0 ELSE current - 1
  /\ pc' = "compensation.started"

\* The first line of _compensate(saga, saga.current_step).
BeginCompensation ==
  /\ status' = "compensating"
  /\ cursor' = current
  /\ pc' = "compensation.started"

Undoable == {i \in 0 .. cursor - 1 : step[i] = "completed" /\ i \in compensable}

\* The head of _compensate's loop: the next completed step with a compensation,
\* downwards, or what follows the loop.
NextUndo ==
  \/ \E i \in Undoable :
       /\ \A j \in Undoable : j <= i
       /\ step' = [step EXCEPT ![i] = "compensating"]
       /\ cursor' = i
       /\ pc' = "step.compensation.started"
  \/ /\ Undoable = {}
     /\ pc' = "compensation.completed"
     /\ UNCHANGED <<step, cursor>>

\* An exception that reaches execute: its except clause, or the caller when
\* that clause is what raised.
Raise ==
  \/ /\ ~handler
     /\ handler' = TRUE
     /\ BeginCompensation
     /\ UNCHANGED result
  \/ /\ handler
     /\ Finish("raised")
     /\ UNCHANGED <<handler, status, cursor>>

--------------------------------------------------------------------------------
(* create_saga (Init), add_step, and the call of execute. *)

\* Mutant: the compensation is filed under the index after the step's.
FilesUnderNextIndex(c) ==
  /\ pc = "defining" /\ n < MaxSteps
  /\ n' = n + 1
  /\ compensable' = IF c THEN compensable \cup {n + 1} ELSE compensable
  /\ UNCHANGED <<status, step, current, cursor, handler, pc, world, result>>

AddStep(c) ==
  /\ pc = "defining" /\ n < MaxSteps
  /\ n' = n + 1
  /\ compensable' = IF c THEN compensable \cup {n} ELSE compensable
  /\ UNCHANGED <<status, step, current, cursor, handler, pc, world, result>>

Execute ==
  /\ pc = "defining"
  /\ status' = "running"
  /\ pc' = "started"
  /\ UNCHANGED <<plan, step, current, cursor, handler, world, result>>

StartedAppended ==
  /\ pc = "started"
  /\ EnterStep(0)
  /\ UNCHANGED <<plan, cursor, handler, world, result>>

StartedLost ==
  /\ pc = "started" /\ "store" \in Faults
  /\ Finish("raised")
  /\ UNCHANGED <<plan, status, step, current, cursor, handler, world>>

--------------------------------------------------------------------------------
(* _execute_step *)

StepStartedAppended ==
  /\ pc = "step.started"
  /\ pc' = "action"
  /\ UNCHANGED <<plan, status, step, current, cursor, handler, world, result>>

ActionReturns ==
  /\ pc = "action"
  /\ effect' = [effect EXCEPT ![current] = "applied"]
  /\ step' = [step EXCEPT ![current] = "completed"]
  /\ pc' = "step.completed"
  /\ UNCHANGED <<plan, status, current, cursor, handler, undos, result>>

ActionRaises ==
  /\ pc = "action" /\ "action" \in Faults
  /\ \/ UNCHANGED effect
     \/ "partial" \in Faults /\ effect' = [effect EXCEPT ![current] = "applied"]
  /\ step' = [step EXCEPT ![current] = "failed"]
  /\ pc' = "step.failed"
  /\ UNCHANGED <<plan, status, current, cursor, handler, undos, result>>

StepCompletedAppended ==
  /\ pc = "step.completed"
  /\ EnterStep(current + 1)
  /\ UNCHANGED <<plan, cursor, handler, world, result>>

StepCompletedLost ==
  /\ pc = "step.completed" /\ "store" \in Faults
  /\ step' = [step EXCEPT ![current] = "failed"]
  /\ pc' = "step.failed"
  /\ UNCHANGED <<plan, status, current, cursor, handler, world, result>>

\* Mutant: execute does not look at what _execute_step returned.
IgnoresStepFailure ==
  /\ pc = "step.failed"
  /\ EnterStep(current + 1)
  /\ UNCHANGED <<plan, cursor, handler, world, result>>

\* Mutant: the saga is declared compensated without calling _compensate.
ForgetsToCompensate ==
  /\ pc = "step.failed"
  /\ status' = "compensated"
  /\ pc' = "compensated"
  /\ UNCHANGED <<plan, step, current, cursor, handler, world, result>>

StepFailedAppended ==
  /\ pc = "step.failed"
  /\ BeginCompensation
  /\ UNCHANGED <<plan, step, current, handler, world, result>>

--------------------------------------------------------------------------------
(* _compensate and _compensate_step *)

CompensationStartedAppended ==
  /\ pc = "compensation.started"
  /\ NextUndo
  /\ UNCHANGED <<plan, status, current, handler, world, result>>

StepCompensationStartedAppended ==
  /\ pc = "step.compensation.started"
  /\ pc' = "compensation"
  /\ UNCHANGED <<plan, status, step, current, cursor, handler, world, result>>

\* Mutant: the step is marked compensated only once its event is stored.
LeavesStepCompleted ==
  /\ pc = "compensation"
  /\ effect' = [effect EXCEPT ![cursor] = "undone"]
  /\ undos' = [undos EXCEPT ![cursor] = @ + 1]
  /\ step' = [step EXCEPT ![cursor] = "completed"]
  /\ pc' = "step.compensation.completed"
  /\ UNCHANGED <<plan, status, current, cursor, handler, result>>

CompensationReturns ==
  /\ pc = "compensation"
  /\ effect' = [effect EXCEPT ![cursor] = "undone"]
  /\ undos' = [undos EXCEPT ![cursor] = @ + 1]
  /\ step' = [step EXCEPT ![cursor] = "compensated"]
  /\ pc' = "step.compensation.completed"
  /\ UNCHANGED <<plan, status, current, cursor, handler, result>>

\* Mutant: a compensation that raised is marked compensated all the same.
MarksFailureCompensated ==
  /\ pc = "compensation" /\ "compensation" \in Faults
  /\ UNCHANGED effect
  /\ undos' = [undos EXCEPT ![cursor] = @ + 1]
  /\ step' = [step EXCEPT ![cursor] = "compensated"]
  /\ pc' = "step.compensation.failed"
  /\ UNCHANGED <<plan, status, current, cursor, handler, result>>

\* Mutant: a compensation that raised is put back to be tried again.
RetriesCompensation ==
  /\ pc = "compensation" /\ "compensation" \in Faults
  /\ UNCHANGED effect
  /\ undos' = undos
  /\ step' = [step EXCEPT ![cursor] = "completed"]
  /\ cursor' = cursor + 1
  /\ pc' = "step.compensation.failed"
  /\ UNCHANGED <<plan, status, current, handler, result>>

CompensationRaises ==
  /\ pc = "compensation" /\ "compensation" \in Faults
  /\ \/ UNCHANGED effect
     \/ "partial" \in Faults /\ effect' = [effect EXCEPT ![cursor] = "undone"]
  /\ undos' = [undos EXCEPT ![cursor] = @ + 1]
  /\ pc' = "step.compensation.failed"
  /\ UNCHANGED <<plan, status, step, current, cursor, handler, result>>

StepCompensationCompletedLost ==
  /\ pc = "step.compensation.completed" /\ "store" \in Faults
  /\ pc' = "step.compensation.failed"
  /\ UNCHANGED <<plan, status, step, current, cursor, handler, world, result>>

StepCompensationEndAppended ==
  /\ pc \in {"step.compensation.completed", "step.compensation.failed"}
  /\ NextUndo
  /\ UNCHANGED <<plan, status, current, handler, world, result>>

\* Back in execute: the try ends COMPENSATED, the except clause FAILED.
CompensationCompletedAppended ==
  /\ pc = "compensation.completed"
  /\ status' = IF handler THEN "failed" ELSE "compensated"
  /\ pc' = status'
  /\ UNCHANGED <<plan, step, current, cursor, handler, world, result>>

--------------------------------------------------------------------------------
(* The end of execute, and the exceptions it does and does not catch. *)

CompletedAppended ==
  /\ pc = "completed"
  /\ Finish("true")
  /\ UNCHANGED <<plan, status, step, current, cursor, handler, world>>

RolledBackAppended ==
  /\ pc \in {"compensated", "failed"}
  /\ Finish("false")
  /\ UNCHANGED <<plan, status, step, current, cursor, handler, world>>

GuardedAppendLost ==
  /\ pc \in GuardedEvents /\ "store" \in Faults
  /\ Raise
  /\ UNCHANGED <<plan, step, current, world>>

Cancel ==
  /\ pc \notin {"defining", "done"} /\ "cancel" \in Faults
  /\ \/ UNCHANGED effect
     \/ /\ "partial" \in Faults /\ pc = "action"
        /\ effect' = [effect EXCEPT ![current] = "applied"]
     \/ /\ "partial" \in Faults /\ pc = "compensation"
        /\ effect' = [effect EXCEPT ![cursor] = "undone"]
  /\ Finish("cancelled")
  /\ UNCHANGED <<plan, status, step, current, cursor, handler, undos>>

\* The coroutine, once execute has been called.
Run ==
  \/ StartedAppended \/ StartedLost
  \/ StepStartedAppended \/ ActionReturns \/ ActionRaises
  \/ StepCompletedAppended \/ StepCompletedLost \/ StepFailedAppended
  \/ CompensationStartedAppended \/ StepCompensationStartedAppended
  \/ CompensationReturns \/ CompensationRaises
  \/ StepCompensationCompletedLost \/ StepCompensationEndAppended
  \/ CompensationCompletedAppended
  \/ CompletedAppended \/ RolledBackAppended \/ GuardedAppendLost

Next ==
  \/ \E c \in BOOLEAN : AddStep(c)
  \/ Execute
  \/ Run
  \/ Cancel

Spec == Init /\ [][Next]_vars

\* Every append, action and compensation that is awaited ends, one way or the
\* other; the caller need not call execute, and nothing need be cancelled.
FairSpec == Spec /\ WF_vars(Run)

--------------------------------------------------------------------------------
(* For the sagas built on the orchestrator, which say what steps the caller    *)
(* adds and what carrying out or undoing step i does to the caller's own data: *)
(* the ones of BusinessSagas.                                                  *)

\* A saga whose caller adds the given number of steps, those in c with a
\* compensation, and then executes it.
AddsSteps(number, c) ==
  \/ n < number /\ AddStep(n \in c)
  \/ n = number /\ Execute

\* The step of the orchestrator lets the action of step i take effect, or its
\* compensation.
TakesEffect(i) == effect[i] = "none" /\ effect'[i] = "applied"
IsUndone(i) == effect[i] # "undone" /\ effect'[i] = "undone"

--------------------------------------------------------------------------------
(* Properties. *)

\* A compensation is called at most once, and only for a step that has one,
\* although execute's except clause runs _compensate a second time over the
\* same steps when the first run, or the append after it, raised.
CompensatedOnce ==
  \A i \in Slots : undos[i] <= IF i \in compensable THEN 1 ELSE 0

\* What _compensate reads can be trusted: a step is COMPLETED only while its
\* effect is in place and COMPENSATED only when it has been undone, whichever
\* append, action or compensation failed before.
StepStatusTruthful ==
  \A i \in Slots :
    /\ step[i] = "completed" => effect[i] = "applied"
    /\ step[i] = "compensated" => effect[i] = "undone"
    /\ step[i] = "pending" => effect[i] = "none"

\* execute returns True only when every step is done, none of them undone.
TrueMeansAllApplied ==
  result = "true" =>
    /\ status = "completed"
    /\ \A i \in Steps : step[i] = "completed" /\ effect[i] = "applied" /\ undos[i] = 0

\* When execute returned False, an effect that was neither undone nor marked
\* is impossible: what is left in place belongs to a step without compensation,
\* to one marked FAILED or stuck in COMPENSATING, or, when appending
\* saga.completed raised, to the last step of a FAILED saga.
LeftoversAreMarked ==
  result = "false" =>
    \A i \in compensable :
      effect[i] = "applied" =>
        \/ step[i] \in {"failed", "compensating"}
        \/ status = "failed" /\ step[i] = "completed" /\ i = n - 1

\* A step is started only by a running saga, with every earlier step completed
\* and its effect in place: nothing moves forward after a failure.
StartsInOrder ==
  [][\A i \in Slots :
       step[i] # "running" /\ step'[i] = "running" =>
         /\ status = "running"
         /\ \A j \in 0 .. i - 1 : step[j] = "completed" /\ effect[j] = "applied"]_vars

\* Once called, execute ends, whichever of its awaits raise: a failure while
\* compensating starts at most one more pass.
ExecuteEnds == status = "running" ~> result # "none"

\* The abstract saga, seen through what execute knows.
Decision ==
  CASE result = "true" -> "committed"
    [] result = "false" -> "aborted"
    [] OTHER -> IF status \in {"compensating", "compensated", "failed"}
                THEN "aborting" ELSE "open"

Promise == INSTANCE SagaPromise WITH decision <- Decision

\* With an event store and compensations that do not fail, and actions that
\* fail without effect or not at all, execute keeps the promise of a saga.
KeepsPromise == Promise!Spec
================================================================================
