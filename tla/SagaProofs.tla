------------------------------ MODULE SagaProofs ------------------------------
(***************************************************************************)
(* Proofs about Saga, for any number of steps and any set of faults, and   *)
(* about the sagas of the business on top of it (BusinessSagas), for any   *)
(* estimate and any number of model calls.                                 *)
(***************************************************************************)
EXTENDS BusinessSagas, TLAPS

ForwardPC == {"started", "step.started", "action", "step.completed", "step.failed"}
StepPC == ForwardPC \ {"started"}
UndoPC == {"step.compensation.started", "compensation"}
BackPC == UndoPC \cup {"compensation.started", "step.compensation.completed",
                       "step.compensation.failed", "compensation.completed"}

\* pc, status, handler and result agree.
ControlInv ==
  /\ pc = "defining" => status = "pending"
  /\ pc \in ForwardPC => status = "running"
  /\ pc \in BackPC => status = "compensating"
  /\ pc \in {"completed", "compensated", "failed"} => status = pc
  /\ pc \in ForwardPC \cup {"defining", "completed", "compensated"} => ~handler
  /\ pc = "failed" => handler
  /\ pc # "done" => result = "none"
  /\ result = "true" => status = "completed"
  /\ result = "false" => status \in {"compensated", "failed"}

\* How far the steps have come while the saga moves forward.
ForwardInv ==
  /\ pc \in {"defining", "started"} =>
       current = 0 /\ \A i \in Slots : step[i] = "pending"
  /\ pc \in StepPC =>
       /\ current < n
       /\ \A j \in Slots : j < current => step[j] = "completed"
       /\ \A j \in Slots : j > current => step[j] = "pending"
  /\ pc \in {"step.started", "action"} => step[current] = "running"
  /\ pc = "step.completed" => step[current] = "completed"
  /\ pc = "step.failed" => step[current] = "failed"
  /\ pc = "completed" => n = 0 \/ current = n - 1
  /\ status = "completed" => \A i \in Steps : step[i] = "completed"

\* No compensation has been called for a step that may still be compensated.
UndoInv ==
  /\ pc \in UndoPC =>
       /\ cursor \in compensable /\ cursor < current
       /\ step[cursor] = "compensating" /\ undos[cursor] = 0
  /\ pc \in BackPC => cursor <= current
  /\ \A i \in Slots : step[i] \notin {"compensating", "compensated"} => undos[i] = 0

\* Which completed steps _compensate still has before it.
LeftoverInv ==
  /\ result # "cancelled" =>
       \A i \in Slots : effect[i] = "applied" =>
                          step[i] \in {"completed", "failed", "compensating"}
  /\ pc \in BackPC =>
       \A i \in compensable :
         step[i] = "completed" => i < cursor \/ (handler /\ i = n - 1)
  /\ pc = "compensation.completed" =>
       \A i \in compensable : i < cursor => step[i] # "completed"
  /\ status = "compensated" => \A i \in compensable : step[i] # "completed"
  /\ status = "failed" => \A i \in compensable : step[i] = "completed" => i = n - 1

IInv ==
  /\ TypeOK /\ ControlInv /\ ForwardInv
  /\ CompensatedOnce /\ StepStatusTruthful
  /\ UndoInv /\ LeftoverInv

--------------------------------------------------------------------------------
(* Type correctness: TypeOK is inductive by itself. *)

\* No action of the orchestrator leaves the variables' types.
LEMMA TypeStep == TypeOK /\ [Next]_vars => TypeOK'
<1> SUFFICES ASSUME TypeOK, [Next]_vars
             PROVE  TypeOK'
  OBVIOUS
<1> USE SagaAssumption DEF TypeOK, Slots, Steps, plan, world, SagaStatus,
        StepStatus, Outcome, PC, Events, GuardedEvents
<1>1. ASSUME NEW i \in Nat
      PROVE  [undos EXCEPT ![i] = @ + 1] \in [Slots -> Nat]
  <2>1. CASE i \in Slots
    BY <2>1
  <2>2. CASE i \notin Slots
    BY <2>2
  <2>3. QED  BY <2>1, <2>2
<1>2. ASSUME NEW c \in BOOLEAN, AddStep(c)
      PROVE  TypeOK'
  BY <1>2 DEF AddStep
<1>3. CASE StartedAppended
  BY <1>3 DEF StartedAppended, EnterStep
<1>4. CASE StartedLost
  BY <1>4 DEF StartedLost, Finish
<1>5. CASE StepStartedAppended
  BY <1>5 DEF StepStartedAppended
<1>6. CASE ActionReturns
  BY <1>6 DEF ActionReturns
<1>7. CASE ActionRaises
  BY <1>7 DEF ActionRaises
<1>8. CASE StepCompletedAppended
  BY <1>8 DEF StepCompletedAppended, EnterStep
<1>9. CASE StepCompletedLost
  BY <1>9 DEF StepCompletedLost
<1>10. CASE StepFailedAppended
  BY <1>10 DEF StepFailedAppended, BeginCompensation
<1>11. CASE CompensationStartedAppended
  <2>1. ASSUME NEW i \in Undoable, step' = [step EXCEPT ![i] = "compensating"], cursor' = i,
               pc' = "step.compensation.started"
        PROVE  TypeOK'
    BY <1>11, <2>1 DEF CompensationStartedAppended, Undoable
  <2>2. CASE pc' = "compensation.completed" /\ UNCHANGED <<step, cursor>>
    BY <1>11, <2>2 DEF CompensationStartedAppended
  <2>. QED BY <1>11, <2>1, <2>2 DEF CompensationStartedAppended, NextUndo
<1>12. CASE StepCompensationStartedAppended
  BY <1>12 DEF StepCompensationStartedAppended
<1>13. CASE CompensationReturns
  BY <1>13, <1>1 DEF CompensationReturns
<1>14. CASE CompensationRaises
  BY <1>14, <1>1 DEF CompensationRaises
<1>15. CASE StepCompensationCompletedLost
  BY <1>15 DEF StepCompensationCompletedLost
<1>16. CASE StepCompensationEndAppended
  BY <1>16 DEF StepCompensationEndAppended, NextUndo, Undoable
<1>17. CASE CompensationCompletedAppended
  BY <1>17 DEF CompensationCompletedAppended
<1>18. CASE CompletedAppended
  BY <1>18 DEF CompletedAppended, Finish
<1>19. CASE RolledBackAppended
  BY <1>19 DEF RolledBackAppended, Finish
<1>20. CASE GuardedAppendLost
  BY <1>20 DEF GuardedAppendLost, Raise, BeginCompensation, Finish, GuardedEvents
<1>21. CASE Cancel
  BY <1>21 DEF Cancel, Finish
<1>22. CASE Execute
  BY <1>22 DEF Execute
<1>23. CASE UNCHANGED vars
  BY <1>23 DEF vars
<1>24. QED
  BY <1>2, <1>3, <1>4, <1>5, <1>6, <1>7, <1>8, <1>9, <1>10, <1>11, <1>12,
     <1>13, <1>14, <1>15, <1>16, <1>17, <1>18, <1>19, <1>20, <1>21, <1>22,
     <1>23
     DEF Next, Run

\* Every variable keeps its type (the shape of a SagaDefinition and its steps).
THEOREM TypeCorrect == Spec => []TypeOK
<1>1. Init => TypeOK
  <2> SUFFICES ASSUME Init
               PROVE  TypeOK
    OBVIOUS
  <2> USE SagaAssumption DEF Init, Slots
  <2>1. n \in 0 .. MaxSteps /\ compensable \in SUBSET Steps
    BY DEF Steps
  <2>2. /\ step \in [Slots -> StepStatus]
        /\ effect \in [Slots -> {"none", "applied", "undone"}]
        /\ undos \in [Slots -> Nat]
    BY DEF StepStatus
  <2>3. /\ status \in SagaStatus /\ pc \in PC /\ result \in Outcome
        /\ current \in Nat /\ cursor \in Nat /\ handler \in BOOLEAN
    BY DEF SagaStatus, PC, Outcome
  <2>4. QED
    BY <2>1, <2>2, <2>3 DEF TypeOK
<1>2. QED
  BY <1>1, TypeStep, PTL DEF Spec

--------------------------------------------------------------------------------
(* The inductive invariant. *)

\* Every action of the orchestrator preserves IInv.
LEMMA InvStep == IInv /\ [Next]_vars => IInv'
<1> SUFFICES ASSUME IInv, [Next]_vars
             PROVE  IInv'
  OBVIOUS
<1>t. TypeOK'
  BY TypeStep DEF IInv
<1> USE <1>t, SagaAssumption DEF IInv, TypeOK, Slots, Steps, plan, world,
        ForwardPC, StepPC, UndoPC, BackPC
<1>1. ASSUME NEW c \in BOOLEAN, AddStep(c)
      PROVE  IInv'
  BY <1>1 DEF AddStep, ControlInv, ForwardInv, CompensatedOnce,
     StepStatusTruthful, UndoInv, LeftoverInv
<1>2. CASE StartedAppended
  <2>1. ControlInv'
    BY <1>2 DEF StartedAppended, EnterStep, ControlInv, ForwardInv, CompensatedOnce,
       StepStatusTruthful, UndoInv, LeftoverInv
  <2>2. ForwardInv'
    BY <1>2 DEF StartedAppended, EnterStep, ControlInv, ForwardInv, CompensatedOnce,
       StepStatusTruthful, UndoInv, LeftoverInv
  <2>3. CompensatedOnce'
    BY <1>2 DEF StartedAppended, EnterStep, ControlInv, ForwardInv, CompensatedOnce,
       StepStatusTruthful, UndoInv, LeftoverInv
  <2>4. StepStatusTruthful'
    BY <1>2 DEF StartedAppended, EnterStep, ControlInv, ForwardInv, CompensatedOnce,
       StepStatusTruthful, UndoInv, LeftoverInv
  <2>5. UndoInv'
    BY <1>2 DEF StartedAppended, EnterStep, ControlInv, ForwardInv, CompensatedOnce,
       StepStatusTruthful, UndoInv, LeftoverInv
  <2>6. LeftoverInv'
    BY <1>2 DEF StartedAppended, EnterStep, ControlInv, ForwardInv, CompensatedOnce,
       StepStatusTruthful, UndoInv, LeftoverInv
  <2>7. QED
    BY <2>1, <2>2, <2>3, <2>4, <2>5, <2>6
<1>3. CASE StartedLost
  BY <1>3 DEF StartedLost, Finish, ControlInv, ForwardInv, CompensatedOnce,
     StepStatusTruthful, UndoInv, LeftoverInv
<1>4. CASE StepStartedAppended
  BY <1>4 DEF StepStartedAppended, ControlInv, ForwardInv, CompensatedOnce,
     StepStatusTruthful, UndoInv, LeftoverInv
<1>5. CASE ActionReturns
  BY <1>5 DEF ActionReturns, ControlInv, ForwardInv, CompensatedOnce,
     StepStatusTruthful, UndoInv, LeftoverInv
<1>6. CASE ActionRaises
  BY <1>6 DEF ActionRaises, ControlInv, ForwardInv, CompensatedOnce,
     StepStatusTruthful, UndoInv, LeftoverInv
<1>7. CASE StepCompletedAppended
  <2>1. ControlInv'
    BY <1>7 DEF StepCompletedAppended, EnterStep, ControlInv, ForwardInv,
       CompensatedOnce, StepStatusTruthful, UndoInv, LeftoverInv
  <2>2. ForwardInv'
    BY <1>7 DEF StepCompletedAppended, EnterStep, ControlInv, ForwardInv,
       CompensatedOnce, StepStatusTruthful, UndoInv, LeftoverInv
  <2>3. CompensatedOnce'
    BY <1>7 DEF StepCompletedAppended, EnterStep, ControlInv, ForwardInv,
       CompensatedOnce, StepStatusTruthful, UndoInv, LeftoverInv
  <2>4. StepStatusTruthful'
    BY <1>7 DEF StepCompletedAppended, EnterStep, ControlInv, ForwardInv,
       CompensatedOnce, StepStatusTruthful, UndoInv, LeftoverInv
  <2>5. UndoInv'
    BY <1>7 DEF StepCompletedAppended, EnterStep, ControlInv, ForwardInv,
       CompensatedOnce, StepStatusTruthful, UndoInv, LeftoverInv
  <2>6. LeftoverInv'
    BY <1>7 DEF StepCompletedAppended, EnterStep, ControlInv, ForwardInv,
       CompensatedOnce, StepStatusTruthful, UndoInv, LeftoverInv
  <2>7. QED
    BY <2>1, <2>2, <2>3, <2>4, <2>5, <2>6
<1>8. CASE StepCompletedLost
  BY <1>8 DEF StepCompletedLost, ControlInv, ForwardInv, CompensatedOnce,
     StepStatusTruthful, UndoInv, LeftoverInv
<1>9. CASE StepFailedAppended
  <2>1. ControlInv'
    BY <1>9 DEF StepFailedAppended, BeginCompensation, ControlInv, ForwardInv,
       CompensatedOnce, StepStatusTruthful, UndoInv, LeftoverInv
  <2>2. ForwardInv'
    BY <1>9 DEF StepFailedAppended, BeginCompensation, ControlInv, ForwardInv,
       CompensatedOnce, StepStatusTruthful, UndoInv, LeftoverInv
  <2>3. CompensatedOnce'
    BY <1>9 DEF StepFailedAppended, BeginCompensation, ControlInv, ForwardInv,
       CompensatedOnce, StepStatusTruthful, UndoInv, LeftoverInv
  <2>4. StepStatusTruthful'
    BY <1>9 DEF StepFailedAppended, BeginCompensation, ControlInv, ForwardInv,
       CompensatedOnce, StepStatusTruthful, UndoInv, LeftoverInv
  <2>5. UndoInv'
    BY <1>9 DEF StepFailedAppended, BeginCompensation, ControlInv, ForwardInv,
       CompensatedOnce, StepStatusTruthful, UndoInv, LeftoverInv
  <2>6. LeftoverInv'
    BY <1>9 DEF StepFailedAppended, BeginCompensation, ControlInv, ForwardInv,
       CompensatedOnce, StepStatusTruthful, UndoInv, LeftoverInv
  <2>7. QED
    BY <2>1, <2>2, <2>3, <2>4, <2>5, <2>6
<1>10. CASE CompensationStartedAppended
  <2>1. ControlInv'
    BY <1>10 DEF CompensationStartedAppended, NextUndo, Undoable, ControlInv,
       ForwardInv, CompensatedOnce, StepStatusTruthful, UndoInv, LeftoverInv
  <2>2. ForwardInv'
    BY <1>10 DEF CompensationStartedAppended, NextUndo, Undoable, ControlInv,
       ForwardInv, CompensatedOnce, StepStatusTruthful, UndoInv, LeftoverInv
  <2>3. CompensatedOnce'
    BY <1>10 DEF CompensationStartedAppended, NextUndo, Undoable, ControlInv,
       ForwardInv, CompensatedOnce, StepStatusTruthful, UndoInv, LeftoverInv
  <2>4. StepStatusTruthful'
    BY <1>10 DEF CompensationStartedAppended, NextUndo, Undoable, ControlInv,
       ForwardInv, CompensatedOnce, StepStatusTruthful, UndoInv, LeftoverInv
  <2>5. UndoInv'
    BY <1>10 DEF CompensationStartedAppended, NextUndo, Undoable, ControlInv,
       ForwardInv, CompensatedOnce, StepStatusTruthful, UndoInv, LeftoverInv
  <2>6. LeftoverInv'
    <3>1. CASE Undoable = {} /\ pc' = "compensation.completed"
               /\ UNCHANGED <<step, cursor>>
      <4>1. \A i \in compensable : i \in 0 .. cursor - 1 => step'[i] # "completed"
        BY <3>1 DEF Undoable
      <4>2. QED
        BY <1>10, <3>1, <4>1 DEF CompensationStartedAppended, ControlInv,
           UndoInv, LeftoverInv
    <3>2. ASSUME NEW i \in Undoable,
                 \A j \in Undoable : j <= i,
                 step' = [step EXCEPT ![i] = "compensating"],
                 cursor' = i,
                 pc' = "step.compensation.started"
          PROVE  LeftoverInv'
      <4>1. /\ i \in Slots /\ i \in compensable /\ step[i] = "completed"
            /\ \A j \in compensable : j < cursor /\ step[j] = "completed" => j <= i
        BY <3>2 DEF Undoable
      <4>2. status' = "compensating" /\ pc' = "step.compensation.started"
        BY <1>10, <3>2 DEF CompensationStartedAppended, ControlInv
      <4>3. \A j \in compensable' :
              step'[j] = "completed" => j < cursor' \/ (handler' /\ j = n' - 1)
        BY <1>10, <3>2, <4>1 DEF CompensationStartedAppended, LeftoverInv
      <4>4. QED
        BY <1>10, <3>2, <4>1, <4>2, <4>3 DEF CompensationStartedAppended, LeftoverInv
    <3>3. QED
      BY <1>10, <3>1, <3>2 DEF CompensationStartedAppended, NextUndo
  <2>7. QED
    BY <2>1, <2>2, <2>3, <2>4, <2>5, <2>6
<1>11. CASE StepCompensationStartedAppended
  BY <1>11 DEF StepCompensationStartedAppended, ControlInv, ForwardInv,
     CompensatedOnce, StepStatusTruthful, UndoInv, LeftoverInv
<1>12. CASE CompensationReturns
  BY <1>12 DEF CompensationReturns, ControlInv, ForwardInv, CompensatedOnce,
     StepStatusTruthful, UndoInv, LeftoverInv
<1>13. CASE CompensationRaises
  BY <1>13 DEF CompensationRaises, ControlInv, ForwardInv, CompensatedOnce,
     StepStatusTruthful, UndoInv, LeftoverInv
<1>14. CASE StepCompensationCompletedLost
  BY <1>14 DEF StepCompensationCompletedLost, ControlInv, ForwardInv, CompensatedOnce,
     StepStatusTruthful, UndoInv, LeftoverInv
<1>15. CASE StepCompensationEndAppended
  <2>1. ControlInv'
    BY <1>15 DEF StepCompensationEndAppended, NextUndo, Undoable, ControlInv,
       ForwardInv, CompensatedOnce, StepStatusTruthful, UndoInv, LeftoverInv
  <2>2. ForwardInv'
    BY <1>15 DEF StepCompensationEndAppended, NextUndo, Undoable, ControlInv,
       ForwardInv, CompensatedOnce, StepStatusTruthful, UndoInv, LeftoverInv
  <2>3. CompensatedOnce'
    BY <1>15 DEF StepCompensationEndAppended, NextUndo, Undoable, ControlInv,
       ForwardInv, CompensatedOnce, StepStatusTruthful, UndoInv, LeftoverInv
  <2>4. StepStatusTruthful'
    BY <1>15 DEF StepCompensationEndAppended, NextUndo, Undoable, ControlInv,
       ForwardInv, CompensatedOnce, StepStatusTruthful, UndoInv, LeftoverInv
  <2>5. UndoInv'
    BY <1>15 DEF StepCompensationEndAppended, NextUndo, Undoable, ControlInv,
       ForwardInv, CompensatedOnce, StepStatusTruthful, UndoInv, LeftoverInv
  <2>6. LeftoverInv'
    <3>1. CASE Undoable = {} /\ pc' = "compensation.completed"
               /\ UNCHANGED <<step, cursor>>
      <4>1. \A i \in compensable : i \in 0 .. cursor - 1 => step'[i] # "completed"
        BY <3>1 DEF Undoable
      <4>2. QED
        BY <1>15, <3>1, <4>1 DEF StepCompensationEndAppended, ControlInv,
           UndoInv, LeftoverInv
    <3>2. ASSUME NEW i \in Undoable,
                 \A j \in Undoable : j <= i,
                 step' = [step EXCEPT ![i] = "compensating"],
                 cursor' = i,
                 pc' = "step.compensation.started"
          PROVE  LeftoverInv'
      <4>1. /\ i \in Slots /\ i \in compensable /\ step[i] = "completed"
            /\ \A j \in compensable : j < cursor /\ step[j] = "completed" => j <= i
        BY <3>2 DEF Undoable
      <4>2. status' = "compensating" /\ pc' = "step.compensation.started"
        BY <1>15, <3>2 DEF StepCompensationEndAppended, ControlInv
      <4>3. \A j \in compensable' :
              step'[j] = "completed" => j < cursor' \/ (handler' /\ j = n' - 1)
        BY <1>15, <3>2, <4>1 DEF StepCompensationEndAppended, LeftoverInv
      <4>4. QED
        BY <1>15, <3>2, <4>1, <4>2, <4>3 DEF StepCompensationEndAppended, LeftoverInv
    <3>3. QED
      BY <1>15, <3>1, <3>2 DEF StepCompensationEndAppended, NextUndo
  <2>7. QED
    BY <2>1, <2>2, <2>3, <2>4, <2>5, <2>6
<1>16. CASE CompensationCompletedAppended
  BY <1>16 DEF CompensationCompletedAppended, ControlInv, ForwardInv, CompensatedOnce,
     StepStatusTruthful, UndoInv, LeftoverInv
<1>17. CASE CompletedAppended
  BY <1>17 DEF CompletedAppended, Finish, ControlInv, ForwardInv, CompensatedOnce,
     StepStatusTruthful, UndoInv, LeftoverInv
<1>18. CASE RolledBackAppended
  BY <1>18 DEF RolledBackAppended, Finish, ControlInv, ForwardInv, CompensatedOnce,
     StepStatusTruthful, UndoInv, LeftoverInv
<1>19. CASE GuardedAppendLost
  <2>1. ControlInv'
    BY <1>19 DEF GuardedAppendLost, Raise, BeginCompensation, Finish, GuardedEvents,
       ControlInv, ForwardInv, CompensatedOnce, StepStatusTruthful, UndoInv,
       LeftoverInv
  <2>2. ForwardInv'
    BY <1>19 DEF GuardedAppendLost, Raise, BeginCompensation, Finish, GuardedEvents,
       ControlInv, ForwardInv, CompensatedOnce, StepStatusTruthful, UndoInv,
       LeftoverInv
  <2>3. CompensatedOnce'
    BY <1>19 DEF GuardedAppendLost, Raise, BeginCompensation, Finish, GuardedEvents,
       ControlInv, ForwardInv, CompensatedOnce, StepStatusTruthful, UndoInv,
       LeftoverInv
  <2>4. StepStatusTruthful'
    BY <1>19 DEF GuardedAppendLost, Raise, BeginCompensation, Finish, GuardedEvents,
       ControlInv, ForwardInv, CompensatedOnce, StepStatusTruthful, UndoInv,
       LeftoverInv
  <2>5. UndoInv'
    BY <1>19 DEF GuardedAppendLost, Raise, BeginCompensation, Finish, GuardedEvents,
       ControlInv, ForwardInv, CompensatedOnce, StepStatusTruthful, UndoInv,
       LeftoverInv
  <2>6. LeftoverInv'
    BY <1>19 DEF GuardedAppendLost, Raise, BeginCompensation, Finish, GuardedEvents,
       ControlInv, ForwardInv, CompensatedOnce, StepStatusTruthful, UndoInv,
       LeftoverInv
  <2>7. QED
    BY <2>1, <2>2, <2>3, <2>4, <2>5, <2>6
<1>20. CASE Cancel
  BY <1>20 DEF Cancel, Finish, ControlInv, ForwardInv, CompensatedOnce,
     StepStatusTruthful, UndoInv, LeftoverInv
<1>21. CASE Execute
  BY <1>21 DEF Execute, ControlInv, ForwardInv, CompensatedOnce, StepStatusTruthful,
     UndoInv, LeftoverInv
<1>22. CASE UNCHANGED vars
  BY <1>22 DEF vars, ControlInv, ForwardInv, CompensatedOnce, StepStatusTruthful, UndoInv,
     LeftoverInv
<1>23. QED
  BY <1>1, <1>2, <1>3, <1>4, <1>5, <1>6, <1>7, <1>8, <1>9, <1>10, <1>11,
     <1>12, <1>13, <1>14, <1>15, <1>16, <1>17, <1>18, <1>19, <1>20, <1>21,
     <1>22
     DEF Next, Run

\* IInv holds in every reachable state.
THEOREM Invariance == Spec => []IInv
<1>1. Init /\ TypeOK => IInv
  BY SagaAssumption DEF Init, IInv, TypeOK, Slots, Steps, ForwardPC, StepPC,
     UndoPC, BackPC, ControlInv, ForwardInv, CompensatedOnce,
     StepStatusTruthful, UndoInv, LeftoverInv
<1>2. QED
  BY <1>1, TypeCorrect, InvStep, PTL DEF Spec

--------------------------------------------------------------------------------
(* What follows for the saga's caller. *)

\* No compensation is called twice, nor one that does not exist, although the
\* except clause of execute runs _compensate again.
THEOREM CompensatesOnce == Spec => []CompensatedOnce
<1>1. IInv => CompensatedOnce
  BY DEF IInv
<1>2. QED
  BY <1>1, Invariance, PTL

\* The step statuses _compensate relies on say what happened outside.
THEOREM StatusesAreTruthful == Spec => []StepStatusTruthful
<1>1. IInv => StepStatusTruthful
  BY DEF IInv
<1>2. QED
  BY <1>1, Invariance, PTL

LEMMA TrueIsAllApplied == IInv => TrueMeansAllApplied
BY SagaAssumption DEF IInv, TypeOK, Slots, Steps, TrueMeansAllApplied, ControlInv,
   ForwardInv, StepStatusTruthful, UndoInv

\* A True from execute: every step done, none undone.
THEOREM TrueIsTrue == Spec => []TrueMeansAllApplied
BY TrueIsAllApplied, Invariance, PTL

LEMMA MarkedIfLeft == IInv => LeftoversAreMarked
BY SagaAssumption DEF IInv, TypeOK, Slots, Steps, LeftoversAreMarked, ControlInv,
   LeftoverInv

\* A False from execute: whatever compensable effect is left can be found by the
\* status of its step.
THEOREM LeftoversCanBeFound == Spec => []LeftoversAreMarked
BY MarkedIfLeft, Invariance, PTL

\* Steps start in order, and none after the saga has turned back.
THEOREM StartingInOrder == Spec => StartsInOrder
<1> DEFINE InOrder == \A i \in Slots :
                        step[i] # "running" /\ step'[i] = "running" =>
                          /\ status = "running"
                          /\ \A j \in 0 .. i - 1 :
                               step[j] = "completed" /\ effect[j] = "applied"
<1>1. IInv /\ [Next]_vars => [InOrder]_vars
  <2> SUFFICES ASSUME IInv, Next
               PROVE  InOrder
    OBVIOUS
  <2> USE SagaAssumption DEF IInv, TypeOK, Slots, Steps, plan, world, ControlInv,
          ForwardInv, StepStatusTruthful, ForwardPC, StepPC
  <2>1. CASE StartedAppended
    BY <2>1 DEF StartedAppended, EnterStep
  <2>2. CASE StepCompletedAppended
    BY <2>2 DEF StepCompletedAppended, EnterStep
  <2>3. CASE CompensationStartedAppended \/ StepCompensationEndAppended
    BY <2>3 DEF CompensationStartedAppended, StepCompensationEndAppended, NextUndo,
       Undoable
  <2>4. ASSUME \/ \E i \in Slots, s \in StepStatus \ {"running"} :
                    step' = [step EXCEPT ![i] = s]
               \/ UNCHANGED step
        PROVE  InOrder
    BY <2>4
  <2>5. QED
    BY <2>1, <2>2, <2>3, <2>4 DEF Next, Run, StepStatus, UndoPC, UndoInv, Execute,
       AddStep, StartedLost, StepStartedAppended, ActionReturns, ActionRaises,
       StepCompletedLost, StepFailedAppended, StepCompensationStartedAppended,
       CompensationReturns, CompensationRaises, StepCompensationCompletedLost,
       CompensationCompletedAppended, CompletedAppended, RolledBackAppended,
       GuardedAppendLost, Cancel
<1>2. QED
  BY <1>1, Invariance, PTL DEF Spec, StartsInOrder

--------------------------------------------------------------------------------
(* Refinement: with a reliable environment, a saga keeps its promise. *)

\* The store and the compensations do not fail, actions fail cleanly.
Reliable == Faults \subseteq {"action"}

\* What reliability adds to IInv: an effect in place belongs to a completed step
\* or to the one whose compensation is being called.
ReliableInv ==
  /\ ~handler
  /\ result \in {"none", "true", "false"}
  /\ \A i \in Slots :
       /\ step[i] = "running" => effect[i] = "none"
       /\ effect[i] = "applied" =>
            \/ step[i] = "completed"
            \/ pc \in UndoPC /\ i = cursor
  /\ pc \in UndoPC => effect[cursor] = "applied"

\* With a reliable environment every action preserves ReliableInv.
LEMMA ReliableStep ==
  ASSUME Reliable, IInv, ReliableInv, [Next]_vars
  PROVE  ReliableInv'
<1> USE SagaAssumption DEF Reliable, IInv, ReliableInv, TypeOK, Slots, Steps, plan,
        world, UndoPC, StepStatusTruthful
<1>1. ASSUME NEW c \in BOOLEAN, AddStep(c)
      PROVE  ReliableInv'
  BY <1>1 DEF AddStep
<1>2. CASE StartedAppended \/ StepCompletedAppended
  BY <1>2 DEF StartedAppended, StepCompletedAppended, EnterStep, ForwardInv,
     ForwardPC, StepPC
<1>3. CASE CompensationStartedAppended \/ StepCompensationEndAppended
  BY <1>3 DEF CompensationStartedAppended, StepCompensationEndAppended, NextUndo,
     Undoable
<1>4. CASE Execute \/ StepStartedAppended \/ ActionReturns \/ ActionRaises
           \/ StepFailedAppended
  BY <1>4 DEF Execute, StepStartedAppended, ActionReturns, ActionRaises,
     StepFailedAppended, BeginCompensation, ForwardInv, ForwardPC, StepPC
<1>5. CASE StepCompensationStartedAppended \/ CompensationCompletedAppended
           \/ CompletedAppended \/ RolledBackAppended
  BY <1>5 DEF StepCompensationStartedAppended, CompensationCompletedAppended,
     CompletedAppended, RolledBackAppended, Finish
<1>6. CASE CompensationReturns
  <2>1. cursor \in Slots /\ step[cursor] = "compensating"
    BY <1>6 DEF CompensationReturns, UndoInv
  <2>2. QED
    BY <1>6, <2>1 DEF CompensationReturns
<1>7. CASE StartedLost \/ StepCompletedLost \/ CompensationRaises
           \/ StepCompensationCompletedLost \/ GuardedAppendLost \/ Cancel
  BY <1>7 DEF StartedLost, StepCompletedLost, CompensationRaises,
     StepCompensationCompletedLost, GuardedAppendLost, Cancel
<1>8. CASE UNCHANGED vars
  BY <1>8 DEF vars
<1>9. QED
  BY <1>1, <1>2, <1>3, <1>4, <1>5, <1>6, <1>7, <1>8 DEF Next, Run

\* Every action is a step of the abstract saga, or leaves what it shows alone.
LEMMA PromiseStep ==
  ASSUME Reliable, IInv, ReliableInv, ReliableInv', [Next]_vars
  PROVE  [Promise!Next]_(Promise!vars)
<1> USE SagaAssumption DEF Reliable, IInv, ReliableInv, TypeOK, Slots, Steps, plan,
        world, UndoPC, Promise!vars, Decision, Promise!Slots
<1>1. ASSUME NEW c \in BOOLEAN, AddStep(c)
      PROVE  Promise!Plan(c)
  BY <1>1 DEF AddStep, Promise!Plan, ControlInv, ForwardInv, StepStatusTruthful
<1>2. CASE ActionReturns
  <2>1. Promise!Apply(current)
    BY <1>2 DEF ActionReturns, Promise!Apply, ControlInv, ForwardInv, ForwardPC,
       StepPC, StepStatusTruthful
  <2>2. current \in Slots
    BY <1>2 DEF ActionReturns, ForwardInv, ForwardPC, StepPC
  <2>3. QED
    BY <2>1, <2>2 DEF Promise!Next
<1>3. CASE CompletedAppended
  <2>1. Promise!Commit
    BY <1>3 DEF CompletedAppended, Finish, Promise!Commit, ControlInv, ForwardInv,
       StepStatusTruthful
  <2>2. QED
    BY <2>1 DEF Promise!Next
<1>4. CASE StepFailedAppended
  <2>1. Promise!TurnAround
    BY <1>4 DEF StepFailedAppended, BeginCompensation, Promise!TurnAround,
       ControlInv, ForwardPC
  <2>2. QED
    BY <2>1 DEF Promise!Next
<1>5. CASE CompensationReturns
  <2>1. cursor \in compensable /\ cursor \in Slots
    BY <1>5 DEF CompensationReturns, UndoInv
  <2>2. ASSUME NEW j \in compensable, j > cursor
        PROVE  effect[j] # "applied"
    BY <1>5, <2>2 DEF CompensationReturns, LeftoverInv, BackPC
  <2>3. Promise!Undo(cursor)
    BY <1>5, <2>1, <2>2 DEF CompensationReturns, Promise!Undo, ControlInv, BackPC
  <2>4. QED
    BY <2>1, <2>3 DEF Promise!Next
<1>6. CASE RolledBackAppended
  <2>1. Promise!ReportRollback
    BY <1>6 DEF RolledBackAppended, Finish, Promise!ReportRollback, ControlInv,
       LeftoverInv
  <2>2. QED
    BY <2>1 DEF Promise!Next
<1>7. CASE Execute \/ StartedAppended \/ StepStartedAppended \/ ActionRaises
           \/ StepCompletedAppended
  BY <1>7 DEF Execute, StartedAppended, StepStartedAppended, ActionRaises,
     StepCompletedAppended, EnterStep, ControlInv, ForwardPC
<1>8. CASE CompensationStartedAppended \/ StepCompensationStartedAppended
           \/ StepCompensationEndAppended \/ CompensationCompletedAppended
  BY <1>8 DEF CompensationStartedAppended, StepCompensationStartedAppended,
     StepCompensationEndAppended, CompensationCompletedAppended, NextUndo,
     ControlInv, BackPC
<1>9. CASE StartedLost \/ StepCompletedLost \/ CompensationRaises
           \/ StepCompensationCompletedLost \/ GuardedAppendLost \/ Cancel
  BY <1>9 DEF StartedLost, StepCompletedLost, CompensationRaises,
     StepCompensationCompletedLost, GuardedAppendLost, Cancel
<1>10. CASE UNCHANGED vars
  BY <1>10 DEF vars
<1>11. QED
  BY <1>1, <1>2, <1>3, <1>4, <1>5, <1>6, <1>7, <1>8, <1>9, <1>10
     DEF Next, Run, Promise!Next

\* Sagas of any length whose environment is reliable keep SagaPromise: effects in
\* order, one turn, undone in reverse, and an honest answer.
THEOREM PromiseKept ==
  ASSUME Reliable
  PROVE  Spec => KeepsPromise
<1>1. Init => Promise!Init
  BY DEF Init, Promise!Init, Decision, Slots, Promise!Slots
<1>2. Init => ReliableInv
  BY DEF Init, ReliableInv, Slots, UndoPC
<1>3. IInv /\ ReliableInv /\ [Next]_vars => ReliableInv'
  BY ReliableStep
<1>4. IInv /\ ReliableInv /\ ReliableInv' /\ [Next]_vars
        => [Promise!Next]_(Promise!vars)
  BY PromiseStep
<1>5. QED
  BY <1>1, <1>2, <1>3, <1>4, Invariance, PTL DEF Spec, KeepsPromise, Promise!Spec
--------------------------------------------------------------------------------
(* What happens outside, step by step: the order the sagas built on the        *)
(* orchestrator rely on.                                                       *)

\* An action that is awaited has had no effect and a compensation that is awaited
\* finds the effect in place; effects come about in order, each after those of the
\* earlier steps, and are undone in the opposite order: what was undone has no
\* completed step with a compensation above it, but for the last of a saga whose
\* final event was lost.
AwaitedInv ==
  /\ pc \in {"step.started", "action"} => effect[current] = "none"
  /\ pc \in StepPC => effect[current] # "undone"
  /\ pc \in UndoPC => /\ effect[cursor] = "applied"
                      /\ \A i \in Slots : i < cursor => effect[i] # "undone"
EffectsInOrder ==
  \A i \in Slots :
    effect[i] # "none" => i < n /\ \A j \in Slots : j < i => effect[j] # "none"
UndoneInOrder ==
  \A i \in Slots :
    effect[i] = "undone" =>
      /\ i \in compensable
      /\ \A j \in compensable : j > i /\ step[j] = "completed" => j = n - 1

CurrentInv == current < n \/ current = 0

EffectInv == CurrentInv /\ AwaitedInv /\ EffectsInOrder /\ UndoneInOrder

\* The action of step i takes effect, every earlier one having done so.
Happens(i) ==
  /\ i < n /\ effect[i] = "none" /\ effect' = [effect EXCEPT ![i] = "applied"]
  /\ \A j \in Slots : /\ j < i => effect[j] = "applied"
                      /\ j > i => effect[j] = "none"

\* The compensation of step i does, none of an earlier one having done so.
IsReverted(i) ==
  /\ i \in compensable /\ effect[i] = "applied"
  /\ effect' = [effect EXCEPT ![i] = "undone"]
  /\ \A j \in Slots : j < i => effect[j] # "undone"

LEMMA WhatHappens ==
  ASSUME IInv, EffectInv, Run \/ Cancel
  PROVE  \/ UNCHANGED effect
         \/ \E i \in Slots : pc = "action" /\ i = current /\ Happens(i)
         \/ \E i \in Slots : pc = "compensation" /\ i = cursor /\ IsReverted(i)
<1>. USE SagaAssumption DEF IInv, TypeOK, Slots, Steps
<1>1. CASE pc = "action"
  <2>1. /\ current \in Slots /\ current < n /\ effect[current] = "none"
        /\ \A j \in Slots : /\ j < current => effect[j] = "applied"
                            /\ j > current => effect[j] = "none"
    BY <1>1 DEF ForwardInv, StepPC, ForwardPC, EffectInv, AwaitedInv,
       StepStatusTruthful
  <2>2. UNCHANGED effect \/ effect' = [effect EXCEPT ![current] = "applied"]
    BY <1>1 DEF Run, Cancel, StartedAppended, StartedLost, StepStartedAppended, ActionReturns,
       ActionRaises, StepCompletedAppended, StepCompletedLost, StepFailedAppended,
       CompensationStartedAppended, StepCompensationStartedAppended, CompensationReturns,
       CompensationRaises, StepCompensationCompletedLost, StepCompensationEndAppended,
       CompensationCompletedAppended, CompletedAppended, RolledBackAppended,
       GuardedAppendLost, world
  <2>. QED BY <1>1, <2>1, <2>2 DEF Happens
<1>2. CASE pc = "compensation"
  <2>1. /\ cursor \in Slots /\ cursor \in compensable /\ effect[cursor] = "applied"
        /\ \A j \in Slots : j < cursor => effect[j] # "undone"
    BY <1>2 DEF UndoInv, UndoPC, EffectInv, AwaitedInv
  <2>2. UNCHANGED effect \/ effect' = [effect EXCEPT ![cursor] = "undone"]
    BY <1>2 DEF Run, Cancel, StartedAppended, StartedLost, StepStartedAppended, ActionReturns,
       ActionRaises, StepCompletedAppended, StepCompletedLost, StepFailedAppended,
       CompensationStartedAppended, StepCompensationStartedAppended, CompensationReturns,
       CompensationRaises, StepCompensationCompletedLost, StepCompensationEndAppended,
       CompensationCompletedAppended, CompletedAppended, RolledBackAppended,
       GuardedAppendLost, world
  <2>. QED BY <1>2, <2>1, <2>2 DEF IsReverted
<1>3. CASE pc \notin {"action", "compensation"}
  BY <1>3 DEF Run, Cancel, StartedAppended, StartedLost, StepStartedAppended, ActionReturns,
     ActionRaises, StepCompletedAppended, StepCompletedLost, StepFailedAppended,
     CompensationStartedAppended, StepCompensationStartedAppended, CompensationReturns,
     CompensationRaises, StepCompensationCompletedLost, StepCompensationEndAppended,
     CompensationCompletedAppended, CompletedAppended, RolledBackAppended,
     GuardedAppendLost, world
<1>. QED BY <1>1, <1>2, <1>3

LEMMA EffectStep ==
  ASSUME IInv, IInv', EffectInv, [Next]_vars
  PROVE  EffectInv'
<1>. USE SagaAssumption DEF IInv, TypeOK, Slots, Steps, plan, world, ForwardPC, StepPC, UndoPC
<1>c. CurrentInv'
  BY DEF Next, Run, vars, EffectInv, CurrentInv, Execute, AddStep, StartedAppended,
     StartedLost, StepStartedAppended, ActionReturns, ActionRaises, StepCompletedAppended,
     StepCompletedLost, StepFailedAppended, CompensationStartedAppended,
     StepCompensationStartedAppended, CompensationReturns, CompensationRaises,
     StepCompensationCompletedLost, StepCompensationEndAppended,
     CompensationCompletedAppended, CompletedAppended, RolledBackAppended,
     GuardedAppendLost, Cancel, EnterStep
<1>1. CASE UNCHANGED vars
  BY <1>1 DEF vars, EffectInv, CurrentInv, AwaitedInv, EffectsInOrder, UndoneInOrder
<1>2. CASE Execute \/ \E c \in BOOLEAN : AddStep(c)
  <2>1. \A i \in Slots : effect[i] = "none"
    BY <1>2 DEF Execute, AddStep, ForwardInv, StepStatusTruthful
  <2>. QED
    BY <1>c, <1>2, <2>1 DEF Execute, AddStep, EffectInv, AwaitedInv, EffectsInOrder, UndoneInOrder
<1>3. ASSUME UNCHANGED <<effect, n, compensable>>,
             \A i \in Slots : step'[i] = "completed" => step[i] = "completed"
      PROVE  EffectsInOrder' /\ UndoneInOrder'
  BY <1>3 DEF EffectInv, EffectsInOrder, UndoneInOrder
<1>4. CASE StartedAppended \/ StepCompletedAppended
  <2>1. PICK i \in Nat : /\ EnterStep(i)
                         /\ \A j \in Slots : j >= i => effect[j] = "none"
    BY <1>4 DEF StartedAppended, StepCompletedAppended, ForwardInv, StepStatusTruthful
  <2>2. UNCHANGED <<plan, world>>
    BY <1>4 DEF StartedAppended, StepCompletedAppended
  <2>3. CASE i < n
    <3>1. /\ current' = i /\ step' = [step EXCEPT ![i] = "running"] /\ pc' = "step.started"
          /\ i \in Slots
      BY <2>1, <2>3 DEF EnterStep
    <3>2. AwaitedInv'
      BY <2>1, <2>2, <3>1 DEF AwaitedInv
    <3>. QED BY <1>c, <1>3, <2>2, <3>1, <3>2 DEF EffectInv
  <2>4. CASE ~(i < n)
    <3>1. pc' = "completed" /\ UNCHANGED step
      BY <2>1, <2>4 DEF EnterStep
    <3>. QED BY <1>c, <1>3, <2>2, <3>1 DEF EffectInv, AwaitedInv
  <2>. QED BY <2>3, <2>4
<1>5. CASE StepStartedAppended
  BY <1>c, <1>3, <1>5 DEF StepStartedAppended, EffectInv, AwaitedInv
<1>6. CASE StepCompletedLost
  <2>1. step' = [step EXCEPT ![current] = "failed"] /\ UNCHANGED <<plan, world, current>>
        /\ pc = "step.completed" /\ pc' = "step.failed"
    BY <1>6 DEF StepCompletedLost
  <2>. QED BY <1>c, <1>3, <2>1 DEF EffectInv, AwaitedInv
<1>7. CASE StepFailedAppended
  BY <1>c, <1>3, <1>7 DEF StepFailedAppended, BeginCompensation, EffectInv, AwaitedInv
<1>8. CASE ActionReturns \/ ActionRaises
  <2>1. /\ pc = "action" /\ UNCHANGED <<plan, current>> /\ current \in Slots /\ current < n
        /\ pc' \in {"step.completed", "step.failed"}
        /\ effect' = effect \/ effect' = [effect EXCEPT ![current] = "applied"]
    BY <1>8 DEF ActionReturns, ActionRaises, ForwardInv
  <2>2. \A j \in Slots : /\ j < current => effect[j] = "applied"
                         /\ j > current => effect[j] = "none"
    BY <2>1 DEF ForwardInv, StepStatusTruthful
  <2>3. effect[current] = "none"
    BY <2>1 DEF EffectInv, AwaitedInv
  <2>4. AwaitedInv'
    BY <2>1, <2>3 DEF AwaitedInv
  <2>5. EffectsInOrder'
    BY <2>1, <2>2, <2>3 DEF EffectsInOrder
  <2>6. UndoneInOrder'
    <3>1. \A i \in Slots : effect[i] # "undone"
      <4>. SUFFICES ASSUME NEW i \in Slots PROVE effect[i] # "undone"
        OBVIOUS
      <4>. i < current \/ i = current \/ i > current
        BY <2>1
      <4>. QED BY <2>2, <2>3
    <3>2. \A i \in Slots : effect'[i] # "undone"
      BY <2>1, <3>1
    <3>. QED BY <3>2 DEF UndoneInOrder
  <2>. QED BY <1>c, <2>4, <2>5, <2>6 DEF EffectInv
<1>9. CASE CompensationReturns \/ CompensationRaises
  <2>1. /\ pc = "compensation" /\ UNCHANGED <<plan, cursor, current>>
        /\ cursor \in Slots /\ cursor \in compensable /\ cursor < n
        /\ pc' \in {"step.compensation.completed", "step.compensation.failed"}
        /\ effect' = effect \/ effect' = [effect EXCEPT ![cursor] = "undone"]
        /\ \A i \in Slots : step'[i] = "completed" => step[i] = "completed"
    BY <1>9 DEF CompensationReturns, CompensationRaises, UndoInv
  <2>2. effect[cursor] = "applied"
    BY <2>1 DEF EffectInv, AwaitedInv
  <2>3. \A j \in compensable : j > cursor /\ step[j] = "completed" => j = n - 1
    BY <2>1 DEF LeftoverInv, BackPC
  <2>4. AwaitedInv'
    BY <2>1 DEF AwaitedInv
  <2>5. EffectsInOrder'
    BY <2>1, <2>2 DEF EffectInv, EffectsInOrder
  <2>6. UndoneInOrder'
    BY <2>1, <2>3 DEF EffectInv, UndoneInOrder
  <2>. QED BY <1>c, <2>4, <2>5, <2>6 DEF EffectInv
<1>10. CASE CompensationStartedAppended \/ StepCompensationEndAppended
  <2>1. NextUndo /\ UNCHANGED <<plan, world, current>> /\ cursor <= current
    BY <1>10 DEF CompensationStartedAppended, StepCompensationEndAppended, UndoInv, BackPC
  <2>2. CASE Undoable = {} /\ pc' = "compensation.completed" /\ UNCHANGED <<step, cursor>>
    BY <1>c, <1>3, <2>1, <2>2 DEF EffectInv, AwaitedInv
  <2>3. ASSUME NEW i \in Undoable, step' = [step EXCEPT ![i] = "compensating"],
               cursor' = i, pc' = "step.compensation.started"
        PROVE  EffectInv'
    <3>1. i \in Slots /\ i \in compensable /\ step[i] = "completed" /\ i < cursor
      BY <2>3 DEF Undoable
    <3>2. effect[i] = "applied" /\ i < n - 1
      BY <2>1, <3>1 DEF StepStatusTruthful, EffectInv, CurrentInv
    <3>3. \A j \in Slots : j < i => effect[j] # "undone"
      BY <3>1, <3>2 DEF EffectInv, UndoneInOrder
    <3>4. AwaitedInv'
      BY <2>1, <2>3, <3>1, <3>2, <3>3 DEF AwaitedInv
    <3>. QED BY <1>c, <1>3, <2>1, <2>3, <3>4 DEF EffectInv
  <2>. QED BY <2>1, <2>2, <2>3 DEF NextUndo
<1>11. CASE \/ StartedLost \/ StepCompensationStartedAppended \/ StepCompensationCompletedLost
            \/ CompensationCompletedAppended \/ CompletedAppended \/ RolledBackAppended
  <2>1. UNCHANGED <<step, plan, world, cursor>> /\ pc' \notin StepPC
        /\ (pc' \in UndoPC => pc \in UndoPC)
    BY <1>11 DEF StartedLost, StepCompensationStartedAppended, StepCompensationCompletedLost,
       CompensationCompletedAppended, CompletedAppended, RolledBackAppended, Finish
  <2>. QED BY <1>c, <1>3, <2>1 DEF EffectInv, AwaitedInv
<1>12. CASE GuardedAppendLost
  <2>1. UNCHANGED <<step, plan, world>> /\ pc' \in {"compensation.started", "done"}
    BY <1>12 DEF GuardedAppendLost, Raise, BeginCompensation, Finish
  <2>. QED BY <1>c, <1>3, <2>1 DEF EffectInv, AwaitedInv
<1>13. CASE Cancel
  <2>1. UNCHANGED <<step, plan>> /\ pc' = "done"
    BY <1>13 DEF Cancel, Finish
  <2>2. AwaitedInv'
    BY <2>1 DEF AwaitedInv
  <2>3. CASE UNCHANGED effect
    BY <1>c, <1>3, <2>1, <2>2, <2>3 DEF EffectInv
  <2>4. ASSUME NEW i \in Slots, Happens(i)
        PROVE  EffectsInOrder' /\ UndoneInOrder'
    <3>1. EffectsInOrder'
      BY <2>1, <2>4 DEF Happens, EffectsInOrder
    <3>2. UndoneInOrder'
      BY <2>1, <2>4 DEF Happens, UndoneInOrder
    <3>. QED BY <3>1, <3>2
  <2>5. ASSUME NEW i \in Slots, pc = "compensation", i = cursor, IsReverted(i)
        PROVE  EffectsInOrder' /\ UndoneInOrder'
    <3>1. \A j \in compensable : j > i /\ step[j] = "completed" => j = n - 1
      BY <2>5 DEF LeftoverInv, BackPC
    <3>2. /\ i \in compensable /\ effect[i] = "applied"
          /\ effect' = [effect EXCEPT ![i] = "undone"]
      BY <2>5 DEF IsReverted
    <3>3. EffectsInOrder'
      BY <2>1, <3>2 DEF EffectInv, EffectsInOrder
    <3>4. UndoneInOrder'
      BY <2>1, <3>1, <3>2 DEF EffectInv, UndoneInOrder
    <3>. QED BY <3>3, <3>4
  <2>. QED BY <1>c, <1>13, <2>2, <2>3, <2>4, <2>5, WhatHappens DEF EffectInv
<1>. QED
  BY <1>1, <1>2, <1>4, <1>5, <1>6, <1>7, <1>8, <1>9, <1>10, <1>11, <1>12, <1>13
  DEF Next, Run

--------------------------------------------------------------------------------
(* The sagas of the business.                                                  *)

\* Whatever the saga, its steps are the orchestrator's.
LEMMA BusinessIsSaga == [BusinessNext]_bvars => [Next]_vars
<1>1. Define => Next
  <2>1. ASSUME NEW number, NEW c, AddsSteps(number, c) PROVE Next
    <3>1. n \in c /\ AddStep(n \in c) => AddStep(TRUE)
      BY DEF AddStep
    <3>2. n \notin c /\ AddStep(n \in c) => AddStep(FALSE)
      BY DEF AddStep
    <3>3. AddStep(TRUE) \/ AddStep(FALSE) \/ Execute
      BY <2>1, <3>1, <3>2 DEF AddsSteps
    <3>. QED BY <3>3 DEF Next
  <2>2. AddsAnySteps => Next
    BY DEF AddsAnySteps, Next
  <2>. QED BY <2>1, <2>2 DEF Define, DefineMission, DefineCampaign, DefineDeal, DealSteps
<1>. QED BY <1>1 DEF BusinessNext, Next, bvars

\* A step of the orchestrator comes with what it does outside.
LEMMA OutsideIs ==
  ASSUME IInv, EffectInv, Run \/ Cancel, Outside
  PROVE  \/ UNCHANGED <<effect, accounts, campaign, books>>
         \/ \E i \in Slots : Happens(i) /\ Perform(i)
         \/ \E i \in Slots : IsReverted(i) /\ Compensate(i)
<1>. effect \in [Slots -> {"none", "applied", "undone"}]
  BY DEF IInv, TypeOK
<1>1. CASE UNCHANGED effect
  BY <1>1 DEF Outside, TakesEffect, IsUndone
<1>2. ASSUME NEW i \in Slots, Happens(i) PROVE Perform(i)
  <2>1. effect[i] = "none" /\ effect' = [effect EXCEPT ![i] = "applied"]
    BY <1>2 DEF Happens
  <2>2. effect' # effect /\ \A j \in Slots : ~IsUndone(j) /\ (TakesEffect(j) => j = i)
    BY <2>1 DEF TakesEffect, IsUndone
  <2>. QED BY <2>2 DEF Outside
<1>3. ASSUME NEW i \in Slots, IsReverted(i) PROVE Compensate(i)
  <2>1. effect[i] = "applied" /\ effect' = [effect EXCEPT ![i] = "undone"]
    BY <1>3 DEF IsReverted
  <2>2. effect' # effect /\ \A j \in Slots : ~TakesEffect(j) /\ (IsUndone(j) => j = i)
    BY <2>1 DEF TakesEffect, IsUndone
  <2>. QED BY <2>2 DEF Outside
<1>. QED BY <1>1, <1>2, <1>3, WhatHappens

LEMMA RunKeepsPlan ==
  ASSUME IInv, Run \/ Cancel
  PROVE  UNCHANGED plan /\ pc # "defining" /\ pc' # "defining"
  BY DEF Run, Cancel, StartedAppended, StartedLost, StepStartedAppended, ActionReturns,
     ActionRaises, StepCompletedAppended, StepCompletedLost, StepFailedAppended,
     CompensationStartedAppended, StepCompensationStartedAppended, CompensationReturns,
     CompensationRaises, StepCompensationCompletedLost, StepCompensationEndAppended,
     CompensationCompletedAppended, CompletedAppended, RolledBackAppended,
     GuardedAppendLost, EnterStep, BeginCompensation, NextUndo, Finish, Raise, GuardedEvents, plan

\* The steps a caller has added so far, all of them once execute is called.
Sized(number, c) ==
  /\ n <= number /\ compensable = {i \in c : i < n}
  /\ pc # "defining" => n = number
SizeInv ==
  /\ request.saga = "mission" => Sized(4, 0 .. 3)
  /\ request.saga = "campaign" => Sized(IF request.asked THEN 5 ELSE 4, 0 .. 4)
  /\ request.saga = "deal" =>
       Sized(7, {QualifyLead, CreateOpportunity, GenerateProposal, SendOutreach, CloseDeal})

LEMMA SizedStep ==
  ASSUME IInv, NEW number \in Nat, NEW c \in SUBSET Nat, Sized(number, c),
         AddsSteps(number, c) \/ UNCHANGED vars \/ Run \/ Cancel
  PROVE  Sized(number, c)'
<1>0. n \in Nat
  BY DEF IInv, TypeOK
<1>1. CASE n < number /\ AddStep(n \in c)
  <2>1. n' = n + 1 /\ pc' = "defining" /\ pc = "defining"
    BY <1>1 DEF AddStep
  <2>2. compensable' = IF n \in c THEN compensable \cup {n} ELSE compensable
    BY <1>1 DEF AddStep
  <2>3. compensable' = {i \in c : i < n + 1}
    <3>1. compensable = {i \in c : i < n}
      BY DEF Sized
    <3>2. \A i \in c : i < n + 1 <=> i < n \/ i = n
      BY <1>0
    <3>3. CASE n \in c
      BY <2>2, <3>1, <3>2, <3>3
    <3>4. CASE n \notin c
      BY <2>2, <3>1, <3>2, <3>4
    <3>. QED BY <3>3, <3>4
  <2>. QED BY <1>0, <1>1, <2>1, <2>3 DEF Sized
<1>2. CASE n = number /\ Execute
  BY <1>2 DEF Execute, Sized, plan
<1>3. CASE Run \/ Cancel
  BY <1>3, RunKeepsPlan DEF Sized, plan
<1>. QED BY <1>1, <1>2, <1>3 DEF AddsSteps, Sized, vars

LEMMA SizeStep ==
  ASSUME IInv, SizeInv, [BusinessNext]_bvars
  PROVE  SizeInv' /\ UNCHANGED request
<1>. USE DEF QualifyLead, CreateOpportunity, GenerateProposal, SendOutreach, CloseDeal
<1>1. UNCHANGED request
  BY DEF BusinessNext, Define, Outside, bvars
<1>2. CASE Define
  BY <1>1, <1>2, SizedStep DEF Define, DefineMission, DefineCampaign, DefineDeal, DealSteps,
     SizeInv
<1>3. CASE Run \/ Cancel \/ UNCHANGED vars
  BY <1>1, <1>3, SizedStep DEF SizeInv
<1>. QED BY <1>1, <1>2, <1>3 DEF BusinessNext, bvars

--------------------------------------------------------------------------------
(* The accounts of a mission. *)

\* The agent has been charged what the steps in place and the steps undone say:
\* the estimate while the reservation stands, the difference while the settlement
\* does; the compensation of the settlement gives the cost back.
Settled ==
  CASE effect[DeductCost] = "none" -> 0
    [] effect[DeductCost] = "applied" -> cost - request.estimated
    [] effect[DeductCost] = "undone" -> 0 - request.estimated
Reserved == IF effect[Reserve] = "applied" THEN request.estimated ELSE 0

AccountsInv ==
  IF request.saga = "mission" THEN paid = Reserved + Settled ELSE cost = 0 /\ paid = 0

LEMMA RequestIs ==
  ASSUME request \in Requests
  PROVE  /\ request.saga \in {"mission", "campaign", "deal", "other"}
         /\ request.saga = "mission" => request.estimated \in Nat
         /\ request.saga = "campaign" => /\ request.asked \in BOOLEAN /\ request.last \in BOOLEAN
                                         /\ request.tool \in BOOLEAN
BY MissionAssumption DEF Requests, MissionRequests, CampaignRequests, DealRequests,
   OtherRequests

LEMMA AccountsStep ==
  ASSUME BusinessTypeOK, IInv, EffectInv, AccountsInv, UNCHANGED request,
         [BusinessNext]_bvars
  PROVE  AccountsInv' /\ MissionTypeOK'
<1>. USE DEF Reserve, ExecuteMission, RecordResult, DeductCost
<1>0. /\ effect \in [Slots -> {"none", "applied", "undone"}]
      /\ Reserve \in Slots /\ ExecuteMission \in Slots /\ DeductCost \in Slots
      /\ cost \in Int /\ paid \in Int /\ MissionTypeOK /\ MaxCalls \in Nat
  BY SagaAssumption, MissionAssumption DEF BusinessTypeOK, TypeOK, Slots, MissionTypeOK
<1>1. CASE UNCHANGED <<effect, accounts>>
  BY <1>1 DEF accounts, AccountsInv, Reserved, Settled, BusinessTypeOK, MissionTypeOK
<1>2. CASE request.saga # "mission"
  <2>1. UNCHANGED accounts
    BY <1>2, OutsideIs DEF BusinessNext, Define, Outside, Perform, Compensate, bvars
  <2>. QED BY <1>2, <2>1 DEF accounts, AccountsInv, BusinessTypeOK, MissionTypeOK
<1>3. CASE request.saga = "mission"
  <2>0. request.estimated \in Nat
    BY <1>3, RequestIs DEF BusinessTypeOK
  <2>1. ASSUME NEW i \in Slots, Happens(i), PerformMission(i)
        PROVE  AccountsInv' /\ MissionTypeOK'
    <3>1. /\ effect[i] = "none" /\ effect' = [effect EXCEPT ![i] = "applied"]
          /\ \A j \in Slots : j > i => effect[j] = "none"
      BY <2>1 DEF Happens
    <3>2. CASE i = Reserve
      BY <1>0, <1>3, <2>0, <2>1, <3>1, <3>2 DEF PerformMission, Charge, AccountsInv, Reserved,
         Settled, MissionTypeOK
    <3>3. CASE i = ExecuteMission
      BY <1>0, <1>3, <2>0, <2>1, <3>1, <3>3 DEF PerformMission, RunsMission, AccountsInv,
         Reserved, Settled, MissionTypeOK
    <3>4. CASE i = RecordResult
      BY <1>0, <1>3, <2>1, <3>1, <3>4 DEF PerformMission, accounts, AccountsInv, Reserved,
         Settled, MissionTypeOK
    <3>5. CASE i = DeductCost
      BY <1>0, <1>3, <2>0, <2>1, <3>1, <3>5 DEF PerformMission, SettlesDifference, Charge,
         Reward, AccountsInv, Reserved, Settled, MissionTypeOK
    <3>. QED BY <2>1, <3>2, <3>3, <3>4, <3>5 DEF PerformMission
  <2>2. ASSUME NEW i \in Slots, IsReverted(i), CompensateMission(i)
        PROVE  AccountsInv' /\ MissionTypeOK'
    <3>1. effect[i] = "applied" /\ effect' = [effect EXCEPT ![i] = "undone"]
      BY <2>2 DEF IsReverted
    <3>2. CASE i = Reserve
      BY <1>0, <1>3, <2>0, <2>2, <3>1, <3>2 DEF CompensateMission, ReleasesReservation, Reward,
         AccountsInv, Reserved, Settled, MissionTypeOK
    <3>3. CASE i \in {ExecuteMission, RecordResult}
      BY <1>0, <1>3, <2>2, <3>1, <3>3 DEF CompensateMission, accounts, AccountsInv, Reserved,
         Settled, MissionTypeOK
    <3>4. CASE i = DeductCost
      BY <1>0, <1>3, <2>0, <2>2, <3>1, <3>4 DEF CompensateMission, Reward, AccountsInv,
         Reserved, Settled, MissionTypeOK
    <3>. QED BY <2>2, <3>2, <3>3, <3>4 DEF CompensateMission
  <2>3. Define => UNCHANGED <<effect, accounts>>
    BY <1>3 DEF Define, DefineMission, AddsSteps, AddStep, Execute, world
  <2>. QED
    BY <1>1, <1>3, <2>1, <2>2, <2>3, OutsideIs DEF BusinessNext, bvars, vars, Perform,
       Compensate
<1>. QED BY <1>2, <1>3

--------------------------------------------------------------------------------
(* The draft, the platform and the events of a campaign. *)

\* What is on the platform and in the log tells which steps took effect and which
\* were undone; a post that was rejected does not get past its validation.
CampaignInv ==
  IF request.saga = "campaign"
  THEN /\ post = "none" <=> effect[Post] = "none"
       /\ "published" \in log <=> effect[Record] # "none"
       /\ "compensated" \in log <=> effect[Record] = "undone"
       /\ "scheduled" \in log <=> effect[ScheduleNext] # "none" /\ ~ request.last
       /\ "cancelled" \in log <=> effect[ScheduleNext] = "undone" /\ ~ request.last
       /\ AnswerKey = "result" /\ request.verdict = "rejected" =>
            effect[Validate] = "none" /\ post = "none"
  ELSE post = "none" /\ log = {}

\* When step i takes effect or is undone, the others stay as they are.
LEMMA OthersStay ==
  ASSUME effect \in [Slots -> {"none", "applied", "undone"}], NEW i \in Slots, NEW v,
         effect' = [effect EXCEPT ![i] = v]
  PROVE  effect'[i] = v /\ \A j \in Slots \ {i} : effect'[j] = effect[j]
OBVIOUS

LEMMA CampaignStep ==
  ASSUME BusinessTypeOK, IInv, EffectInv, CampaignInv, UNCHANGED request,
         [BusinessNext]_bvars
  PROVE  CampaignInv' /\ CampaignTypeOK'
<1>. USE DEF Draft, Validate, Post, Record, ScheduleNext
<1>0. /\ effect \in [Slots -> {"none", "applied", "undone"}]
      /\ {0, 1, 2, 3, 4} \subseteq Slots
      /\ CampaignTypeOK
  BY SagaAssumption, CampaignAssumption DEF BusinessTypeOK, TypeOK, Slots
<1>1. CASE UNCHANGED <<effect, campaign>>
  BY <1>0, <1>1 DEF campaign, CampaignInv, CampaignTypeOK
<1>2. CASE request.saga # "campaign"
  <2>1. UNCHANGED campaign
    BY <1>2, OutsideIs DEF BusinessNext, Define, Outside, Perform, Compensate, bvars
  <2>. QED BY <1>0, <1>2, <2>1 DEF campaign, CampaignInv, CampaignTypeOK
<1>3. CASE request.saga = "campaign"
  <2>1. ASSUME NEW i \in Slots, Happens(i), PerformCampaign(i)
        PROVE  CampaignInv' /\ CampaignTypeOK'
    <3>1. /\ effect[i] = "none" /\ effect'[i] = "applied"
          /\ \A j \in Slots \ {i} : effect'[j] = effect[j]
          /\ \A j \in Slots : j < i => effect[j] = "applied"
      BY <1>0, <2>1, OthersStay DEF Happens
    <3>2. CASE i = Draft
      <4>1. draft' \in {"empty", "text"} /\ UNCHANGED <<post, log>>
        BY <2>1, <3>2 DEF PerformCampaign, DraftsContent
      <4>2. \A j \in {1, 2, 3, 4} : effect'[j] = effect[j]
        BY <1>0, <3>1, <3>2
      <4>. QED BY <1>0, <1>3, <4>1, <4>2 DEF CampaignInv, CampaignTypeOK
    <3>3. CASE i = Validate
      <4>1. /\ UNCHANGED <<draft, post, log>>
            /\ AnswerKey = "result" => request.verdict # "rejected"
        BY <2>1, <3>3 DEF PerformCampaign, ValidatesContent, campaign
      <4>2. \A j \in {2, 3, 4} : effect'[j] = effect[j]
        BY <1>0, <3>1, <3>3
      <4>. QED BY <1>0, <1>3, <4>1, <4>2 DEF CampaignInv, CampaignTypeOK
    <3>4. CASE i = Post
      <4>1. effect[Validate] = "applied"
        BY <1>0, <3>1, <3>4
      <4>2. post' \in {"simulated", "empty", "text"} /\ UNCHANGED <<draft, log>>
        BY <1>0, <2>1, <3>4 DEF PerformCampaign, PostsContent, CampaignTypeOK
      <4>3. effect'[2] = "applied" /\ \A j \in {1, 3, 4} : effect'[j] = effect[j]
        BY <1>0, <3>1, <3>4
      <4>. QED BY <1>0, <1>3, <4>1, <4>2, <4>3 DEF CampaignInv, CampaignTypeOK
    <3>5. CASE i = Record
      <4>1. log' = log \cup {"published"} /\ UNCHANGED <<draft, post>>
        BY <2>1, <3>5 DEF PerformCampaign, Appends
      <4>2. /\ effect[3] = "none" /\ effect'[3] = "applied"
            /\ \A j \in {1, 2, 4} : effect'[j] = effect[j]
        BY <1>0, <3>1, <3>5
      <4>. QED BY <1>0, <1>3, <4>1, <4>2 DEF CampaignInv, CampaignTypeOK
    <3>6. CASE i = ScheduleNext
      <4>1. /\ UNCHANGED <<draft, post>>
            /\ \/ ~ request.last /\ log' = log \cup {"scheduled"}
               \/ request.last /\ log' = log
        BY <2>1, <3>6 DEF PerformCampaign, SchedulesNext, Appends, campaign
      <4>2. /\ effect[4] = "none" /\ effect'[4] = "applied"
            /\ \A j \in {1, 2, 3} : effect'[j] = effect[j]
        BY <1>0, <3>1, <3>6
      <4>. QED BY <1>0, <1>3, <4>1, <4>2 DEF CampaignInv, CampaignTypeOK
    <3>. QED BY <2>1, <3>2, <3>3, <3>4, <3>5, <3>6 DEF PerformCampaign
  <2>2. ASSUME NEW i \in Slots, IsReverted(i), CompensateCampaign(i)
        PROVE  CampaignInv' /\ CampaignTypeOK'
    <3>1. /\ effect[i] = "applied" /\ effect'[i] = "undone"
          /\ \A j \in Slots \ {i} : effect'[j] = effect[j]
      BY <1>0, <2>2, OthersStay DEF IsReverted
    <3>2. CASE i \in {Draft, Validate, Post}
      <4>1. UNCHANGED <<draft, post, log>>
        BY <2>2, <3>2 DEF CompensateCampaign, DeletesPost, campaign
      <4>2. \A j \in {1, 2} : effect'[j] = "none" <=> effect[j] = "none"
        BY <1>0, <3>1
      <4>3. effect'[3] = effect[3] /\ effect'[4] = effect[4]
        BY <1>0, <3>1, <3>2
      <4>. QED BY <1>0, <1>3, <4>1, <4>2, <4>3 DEF CampaignInv, CampaignTypeOK
    <3>3. CASE i = Record
      <4>1. log' = log \cup {"compensated"} /\ UNCHANGED <<draft, post>>
        BY <2>2, <3>3 DEF CompensateCampaign, Appends
      <4>2. /\ effect[3] = "applied" /\ effect'[3] = "undone"
            /\ \A j \in {1, 2, 4} : effect'[j] = effect[j]
        BY <1>0, <3>1, <3>3
      <4>. QED BY <1>0, <1>3, <4>1, <4>2 DEF CampaignInv, CampaignTypeOK
    <3>4. CASE i = ScheduleNext
      <4>1. /\ UNCHANGED <<draft, post>>
            /\ \/ "scheduled" \in log /\ log' = log \cup {"cancelled"}
               \/ "scheduled" \notin log /\ log' = log
        BY <2>2, <3>4 DEF CompensateCampaign, Appends, campaign
      <4>2. /\ effect[4] = "applied" /\ effect'[4] = "undone"
            /\ \A j \in {1, 2, 3} : effect'[j] = effect[j]
        BY <1>0, <3>1, <3>4
      <4>. QED BY <1>0, <1>3, <4>1, <4>2 DEF CampaignInv, CampaignTypeOK
    <3>. QED BY <2>2, <3>2, <3>3, <3>4 DEF CompensateCampaign
  <2>3. Define => UNCHANGED <<effect, campaign>>
    BY <1>3 DEF Define, DefineCampaign, AddsSteps, AddStep, Execute, world
  <2>. QED
    BY <1>1, <1>3, <2>1, <2>2, <2>3, OutsideIs DEF BusinessNext, bvars, vars, Perform,
       Compensate
<1>. QED BY <1>2, <1>3

--------------------------------------------------------------------------------
(* The books of a deal. *)

\* What is known of the opportunity, the proposal and the deal, from the steps that
\* took effect: a compensation has the last word, a reopened opportunity included.
BooksInv ==
  IF request.saga = "deal"
  THEN /\ ~ request.qualifies => effect[QualifyLead] = "none"
       /\ effect[CreateOpportunity] = "none" => opportunity = "none"
       /\ effect[CreateOpportunity] = "undone" => opportunity = "cancelled"
       /\ effect[GenerateProposal] = "none" => proposal = "none"
       /\ effect[GenerateProposal] = "undone" => proposal = "cancelled"
       /\ effect[CloseDeal] = "none" => deal = "none"
       /\ effect[RecordRevenue] = "none" => ~ revenue
  ELSE opportunity = "none" /\ proposal = "none" /\ deal = "none" /\ ~ revenue

LEMMA BooksStep ==
  ASSUME BusinessTypeOK, IInv, EffectInv, BooksInv, UNCHANGED request, [BusinessNext]_bvars
  PROVE  BooksInv' /\ DealTypeOK'
<1>. USE DEF QualifyLead, CreateOpportunity, GenerateProposal, SendOutreach, RecordResponse,
         CloseDeal, RecordRevenue
<1>0. /\ effect \in [Slots -> {"none", "applied", "undone"}]
      /\ {0, 1, 2, 3, 4, 5, 6} \subseteq Slots
      /\ DealTypeOK
  BY SagaAssumption, DealAssumption DEF BusinessTypeOK, TypeOK, Slots
<1>1. CASE UNCHANGED <<effect, books>>
  BY <1>0, <1>1 DEF books, BooksInv, DealTypeOK
<1>2. CASE request.saga # "deal"
  <2>1. UNCHANGED books
    BY <1>2, OutsideIs DEF BusinessNext, Define, Outside, Perform, Compensate, bvars
  <2>. QED BY <1>0, <1>2, <2>1 DEF books, BooksInv, DealTypeOK
<1>3. CASE request.saga = "deal"
  <2>1. ASSUME NEW i \in Slots, Happens(i), PerformDeal(i)
        PROVE  BooksInv' /\ DealTypeOK'
    <3>1. /\ effect[i] = "none" /\ effect' = [effect EXCEPT ![i] = "applied"]
          /\ \A j \in Slots : j < i => effect[j] = "applied"
      BY <2>1 DEF Happens
    <3>2. CASE i = QualifyLead
      BY <1>0, <1>3, <2>1, <3>1, <3>2 DEF PerformDeal, QualifiesLead, LeadIs, BooksInv, DealTypeOK
    <3>3. CASE i \in {CreateOpportunity, GenerateProposal}
      BY <1>0, <1>3, <2>1, <3>1, <3>3 DEF PerformDeal, OpportunityIs, ProposalIs, BooksInv,
         DealTypeOK
    <3>4. CASE i \in {SendOutreach, RecordResponse}
      BY <1>0, <1>3, <2>1, <3>1, <3>4 DEF PerformDeal, ProposalIs, books, BooksInv, DealTypeOK
    <3>5. CASE i = CloseDeal
      BY <1>0, <1>3, <2>1, <3>1, <3>5 DEF PerformDeal, ClosesDeal, BooksInv, DealTypeOK
    <3>6. CASE i = RecordRevenue
      <4>1. RecordsRevenue /\ \A j \in {0, 1, 2, 5} : effect'[j] = effect[j]
        BY <1>0, <2>1, <3>1, <3>6 DEF PerformDeal
      <4>2. effect'[6] = "applied"
        BY <1>0, <3>1, <3>6
      <4>. QED BY <1>0, <1>3, <4>1, <4>2 DEF RecordsRevenue, BooksInv, DealTypeOK
    <3>. QED BY <2>1, <3>2, <3>3, <3>4, <3>5, <3>6 DEF PerformDeal
  <2>2. ASSUME NEW i \in Slots, IsReverted(i), CompensateDeal(i)
        PROVE  BooksInv' /\ DealTypeOK'
    <3>1. /\ effect[i] = "applied" /\ effect' = [effect EXCEPT ![i] = "undone"]
          /\ \A j \in Slots : j < i => effect[j] # "undone"
      BY <2>2 DEF IsReverted
    <3>2. CASE i \in {QualifyLead, CreateOpportunity, GenerateProposal, SendOutreach}
      BY <1>0, <1>3, <2>2, <3>1, <3>2 DEF CompensateDeal, LeadIs, OpportunityIs, ProposalIs,
         books, BooksInv, DealTypeOK
    <3>3. CASE i = CloseDeal
      <4>1. effect[CreateOpportunity] = "applied"
        BY <1>0, <3>1, <3>3 DEF EffectInv, EffectsInOrder
      <4>. QED BY <1>0, <1>3, <2>2, <3>1, <3>3, <4>1 DEF CompensateDeal, OpportunityIs, BooksInv,
             DealTypeOK
    <3>. QED BY <2>2, <3>2, <3>3 DEF CompensateDeal
  <2>3. Define => UNCHANGED <<effect, books>>
    BY <1>3 DEF Define, DefineDeal, DealSteps, AddsSteps, AddStep, Execute, world
  <2>. QED
    BY <1>1, <1>3, <2>1, <2>2, <2>3, OutsideIs DEF BusinessNext, bvars, vars, Perform,
       Compensate
<1>. QED BY <1>2, <1>3

--------------------------------------------------------------------------------
(* What the sagas of the business answer and leave. *)

BusinessInv ==
  /\ BusinessTypeOK /\ IInv /\ EffectInv /\ SizeInv
  /\ AccountsInv /\ CampaignInv /\ BooksInv

LEMMA BusinessInvHolds == BusinessSpec => []BusinessInv
<1>. USE DEF Reserve, ExecuteMission, RecordResult, DeductCost, Post, Record, ScheduleNext,
         Validate, QualifyLead, CreateOpportunity, GenerateProposal, CloseDeal, RecordRevenue
<1>1. BusinessInit => Init
  BY DEF BusinessInit
<1>2. BusinessInit /\ IInv => BusinessInv
  <2>. SUFFICES ASSUME BusinessInit, IInv PROVE BusinessInv
    OBVIOUS
  <2>1. BusinessTypeOK
    <3>1. TypeOK /\ request \in Requests
      BY DEF BusinessInit, IInv
    <3>2. MissionTypeOK
      BY MissionAssumption DEF BusinessInit, MissionInit, MissionTypeOK
    <3>3. CampaignTypeOK /\ DealTypeOK
      BY DEF BusinessInit, CampaignInit, DealInit, CampaignTypeOK, DealTypeOK
    <3>. QED BY <3>1, <3>2, <3>3 DEF BusinessTypeOK
  <2>2. EffectInv
    BY DEF BusinessInit, Init, EffectInv, CurrentInv, AwaitedInv, EffectsInOrder,
       UndoneInOrder, StepPC, ForwardPC, UndoPC
  <2>3. SizeInv
    <3>1. ASSUME NEW number \in Nat, NEW c \in SUBSET Nat PROVE Sized(number, c)
      <4>1. n = 0 /\ compensable = {} /\ pc = "defining"
        BY DEF BusinessInit, Init
      <4>2. \A i \in c : ~(i < n)
        BY <4>1
      <4>3. {i \in c : i < n} = {}
        BY <4>2, Zenon
      <4>4. n <= number
        BY <4>1
      <4>. QED BY <4>1, <4>3, <4>4 DEF Sized
    <3>. QED BY <3>1 DEF SizeInv, SendOutreach
  <2>4. AccountsInv /\ CampaignInv /\ BooksInv
    <3>1. {0, 1, 2, 3, 4, 5, 6} \subseteq Slots
      BY SagaAssumption, DealAssumption DEF Slots
    <3>. QED BY <3>1 DEF BusinessInit, Init, MissionInit, CampaignInit, DealInit, AccountsInv,
           Reserved, Settled, CampaignInv, BooksInv
  <2>. QED BY <2>1, <2>2, <2>3, <2>4 DEF BusinessInv
<1>3. BusinessInv /\ IInv' /\ [BusinessNext]_bvars => BusinessInv'
  <2>. SUFFICES ASSUME BusinessInv, IInv', [BusinessNext]_bvars PROVE BusinessInv'
    OBVIOUS
  <2>1. EffectInv'
    BY BusinessIsSaga, EffectStep DEF BusinessInv
  <2>2. SizeInv' /\ UNCHANGED request
    BY SizeStep DEF BusinessInv
  <2>3. AccountsInv' /\ MissionTypeOK'
    BY <2>2, AccountsStep DEF BusinessInv
  <2>4. CampaignInv' /\ CampaignTypeOK'
    BY <2>2, CampaignStep DEF BusinessInv
  <2>5. BooksInv' /\ DealTypeOK'
    BY <2>2, BooksStep DEF BusinessInv
  <2>6. BusinessTypeOK'
    BY <2>2, <2>3, <2>4, <2>5 DEF BusinessInv, BusinessTypeOK, IInv
  <2>. QED BY <2>1, <2>2, <2>3, <2>4, <2>5, <2>6 DEF BusinessInv
<1>4. BusinessSpec => []IInv
  BY <1>1, BusinessIsSaga, Invariance, PTL DEF BusinessSpec, Spec
<1>. QED BY <1>2, <1>3, <1>4, PTL DEF BusinessSpec

\* The orchestrator, the accounts, the campaign and the books keep their types,
\* whichever saga runs: its cost is never more than the calls that were charged.
THEOREM BusinessTypes == BusinessSpec => []BusinessTypeOK
<1>1. BusinessInv => BusinessTypeOK
  BY DEF BusinessInv
<1>. QED BY <1>1, BusinessInvHolds, PTL

\* Whatever fails, is lost or is cancelled, and whatever the mission was estimated
\* at and came to: a True means the agent paid its cost, a False after the release
\* of the reservation that it paid nothing (MissionExecutionSaga).
THEOREM ChargesHold == BusinessSpec => []ChargesAddUp
<1>. USE DEF Reserve, DeductCost
<1>1. BusinessInv => ChargesAddUp
  <2>. SUFFICES ASSUME BusinessInv PROVE ChargesAddUp
    OBVIOUS
  <2>0. /\ Reserve \in Slots /\ DeductCost \in Slots /\ paid \in Int /\ cost \in Int
        /\ request.saga = "mission" => request.estimated \in Nat
    BY SagaAssumption, MissionAssumption, RequestIs DEF BusinessInv, BusinessTypeOK,
       MissionTypeOK, Slots
  <2>1. TruePaysTheCost
    <3>. SUFFICES ASSUME result = "true", request.saga = "mission" PROVE paid = cost
      BY DEF BusinessInv, AccountsInv, TruePaysTheCost
    <3>1. n = 4
      BY DEF BusinessInv, IInv, ControlInv, SizeInv, Sized
    <3>2. TrueMeansAllApplied
      BY TrueIsAllApplied DEF BusinessInv
    <3>3. effect[Reserve] = "applied" /\ effect[DeductCost] = "applied"
      BY <3>1, <3>2 DEF TrueMeansAllApplied, Steps
    <3>. QED BY <2>0, <3>3 DEF BusinessInv, AccountsInv, Reserved, Settled
  <2>2. ReleasedMeansFree
    <3>1. step[Reserve] = "compensated" => effect[Reserve] = "undone"
      BY <2>0 DEF BusinessInv, IInv, StepStatusTruthful
    <3>. QED BY <2>0, <3>1 DEF BusinessInv, AccountsInv, Reserved, Settled, ReleasedMeansFree
  <2>. QED BY <2>1, <2>2 DEF ChargesAddUp
<1>. QED BY <1>1, BusinessInvHolds, PTL

\* However the posting or the deal fails, and wherever the executor puts the
\* guardian's verdict: the events of the campaign tell what is on the platform, and
\* a lead that came to nothing is closed with what was opened for it
\* (SocialMediaPostingSaga, DealClosingSaga).
THEOREM EventsHold == BusinessSpec => [](EventsAreTrue /\ DisqualifiedLeadIsClosed)
<1>. USE DEF Post, Record, ScheduleNext, Validate, QualifyLead, CreateOpportunity,
         GenerateProposal, SendOutreach, CloseDeal, RecordRevenue
<1>0. {0, 1, 2, 3, 4, 5, 6} \subseteq Slots
  BY SagaAssumption, DealAssumption DEF Slots
<1>1. BusinessInv => EventsAreTrue /\ DisqualifiedLeadIsClosed
  <2>. SUFFICES ASSUME BusinessInv PROVE EventsAreTrue /\ DisqualifiedLeadIsClosed
    OBVIOUS
  <2>0. effect \in [Slots -> {"none", "applied", "undone"}]
    BY DEF BusinessInv, IInv, TypeOK
  <2>1. EventsAreTrue
    <3>1. CASE request.saga # "campaign"
      BY <3>1 DEF BusinessInv, CampaignInv, EventsAreTrue
    <3>2. CASE request.saga = "campaign"
      <4>1. \A i, j \in Slots : i < j /\ effect[j] # "none" => effect[i] # "none"
        BY DEF BusinessInv, EffectInv, EffectsInOrder
      <4>2. /\ effect[ScheduleNext] # "none" => effect[Record] # "none"
            /\ effect[Record] # "none" => effect[Post] # "none"
        BY <1>0, <4>1
      <4>3. ASSUME result = "true"
            PROVE  log = {"published"} \cup
                           {e \in {"scheduled"} : request.asked /\ ~ request.last}
        <5>1. n = IF request.asked THEN 5 ELSE 4
          BY <3>2, <4>3 DEF BusinessInv, IInv, ControlInv, SizeInv, Sized
        <5>2. \A i \in Steps : effect[i] = "applied"
          BY <4>3, TrueIsAllApplied DEF BusinessInv, TrueMeansAllApplied
        <5>3. effect[Record] = "applied"
          BY <5>1, <5>2 DEF Steps
        <5>4. IF request.asked THEN effect[ScheduleNext] = "applied"
                               ELSE effect[ScheduleNext] = "none"
          BY <1>0, <5>1, <5>2 DEF Steps, BusinessInv, EffectInv, EffectsInOrder
        <5>5. log \subseteq {"published", "compensated", "scheduled", "cancelled"}
          BY DEF BusinessInv, BusinessTypeOK, CampaignTypeOK
        <5>6. /\ "published" \in log /\ "compensated" \notin log /\ "cancelled" \notin log
              /\ "scheduled" \in log <=> request.asked /\ ~ request.last
          BY <3>2, <5>3, <5>4 DEF BusinessInv, CampaignInv
        <5>. QED BY <5>5, <5>6
      <4>. QED BY <3>2, <4>2, <4>3 DEF BusinessInv, CampaignInv, EventsAreTrue
    <3>. QED BY <3>1, <3>2
  <2>2. DisqualifiedLeadIsClosed
    <3>1. CASE request.saga # "deal"
      BY <3>1 DEF BusinessInv, BooksInv, DisqualifiedLeadIsClosed
    <3>2. CASE request.saga = "deal"
      <4>1. \A i, j \in Slots : i < j /\ effect[j] # "none" => effect[i] # "none"
        BY DEF BusinessInv, EffectInv, EffectsInOrder
      <4>2. ~ request.qualifies =>
              opportunity = "none" /\ proposal = "none" /\ deal = "none" /\ ~ revenue
        BY <1>0, <3>2, <4>1 DEF BusinessInv, BooksInv
      <4>3. ASSUME result = "false", NEW i \in {CreateOpportunity, GenerateProposal},
                   effect[i] = "applied"
            PROVE  step[i] \in {"failed", "compensating"}
        <5>1. i \in compensable /\ i # n - 1
          BY <3>2, <4>3 DEF BusinessInv, IInv, ControlInv, SizeInv, Sized
        <5>. QED BY <1>0, <4>3, <5>1, MarkedIfLeft DEF BusinessInv, LeftoversAreMarked
      <4>4. effect[CreateOpportunity] \in {"none", "applied", "undone"}
            /\ effect[GenerateProposal] \in {"none", "applied", "undone"}
        BY <1>0, <2>0
      <4>. QED BY <3>2, <4>2, <4>3, <4>4 DEF BusinessInv, BooksInv, DisqualifiedLeadIsClosed
    <3>. QED BY <3>1, <3>2
  <2>. QED BY <2>1, <2>2
<1>. QED BY <1>1, BusinessInvHolds, PTL

\* If the executor put its answer where the posting saga reads it, then nothing the
\* guardian rejects would be on the platform either (_validate_content_action reads
\* "result"; for the key the executor does use, see the run that violates it).
THEOREM RecordsHold ==
  ASSUME AnswerKey = "result"
  PROVE  BusinessSpec => []RecordsAreTrue
<1>1. BusinessInv => RejectedNeverPosted
  BY DEF BusinessInv, CampaignInv, RejectedNeverPosted, Post, Validate
<1>2. RejectedNeverPosted /\ EventsAreTrue /\ DisqualifiedLeadIsClosed => RecordsAreTrue
  BY DEF RecordsAreTrue
<1>. QED BY <1>1, <1>2, EventsHold, BusinessInvHolds, PTL

================================================================================
