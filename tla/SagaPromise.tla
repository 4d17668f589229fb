------------------------------ MODULE SagaPromise ------------------------------
(***************************************************************************)
(* What a saga promises its caller, without saying how: the effects of the *)
(* steps are applied in order; either all of them stay and the caller is   *)
(* told so, or the saga turns around once, undoes the compensable effects  *)
(* in reverse order, and reports a rollback only when none of them is left.*)
(* Saga.tla is shown to implement this when the event store and the        *)
(* compensations are reliable.                                             *)
(***************************************************************************)
EXTENDS Integers

CONSTANT MaxSteps   \* bound on the steps a caller adds

VARIABLES
  n,            \* number of steps added so far
  compensable,  \* the steps that have a compensation
  effect,       \* what the outside world holds of each step
  decision      \* "open", "aborting", "committed" or "aborted"

vars == <<n, compensable, effect, decision>>

Slots == 0 .. MaxSteps - 1

Init ==
  /\ n = 0
  /\ compensable = {}
  /\ effect = [i \in Slots |-> "none"]
  /\ decision = "open"

\* The caller extends the plan before anything has happened.
Plan(c) ==
  /\ decision = "open" /\ n < MaxSteps
  /\ \A i \in Slots : effect[i] = "none"
  /\ n' = n + 1
  /\ compensable' = IF c THEN compensable \cup {n} ELSE compensable
  /\ UNCHANGED <<effect, decision>>

\* The next effect of the plan takes place.
Apply(i) ==
  /\ decision = "open" /\ i < n
  /\ effect[i] = "none"
  /\ \A j \in 0 .. i - 1 : effect[j] = "applied"
  /\ effect' = [effect EXCEPT ![i] = "applied"]
  /\ UNCHANGED <<n, compensable, decision>>

Commit ==
  /\ decision = "open"
  /\ \A i \in 0 .. n - 1 : effect[i] = "applied"
  /\ decision' = "committed"
  /\ UNCHANGED <<n, compensable, effect>>

TurnAround ==
  /\ decision = "open"
  /\ decision' = "aborting"
  /\ UNCHANGED <<n, compensable, effect>>

\* Undo the latest compensable effect that is still in place.
Undo(i) ==
  /\ decision = "aborting"
  /\ i \in compensable /\ effect[i] = "applied"
  /\ \A j \in compensable : j > i => effect[j] # "applied"
  /\ effect' = [effect EXCEPT ![i] = "undone"]
  /\ UNCHANGED <<n, compensable, decision>>

ReportRollback ==
  /\ decision = "aborting"
  /\ \A i \in compensable : effect[i] # "applied"
  /\ decision' = "aborted"
  /\ UNCHANGED <<n, compensable, effect>>

Next ==
  \/ \E c \in BOOLEAN : Plan(c)
  \/ \E i \in Slots : Apply(i) \/ Undo(i)
  \/ Commit \/ TurnAround \/ ReportRollback

Spec == Init /\ [][Next]_vars
================================================================================
