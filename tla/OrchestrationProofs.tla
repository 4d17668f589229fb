--------------------------- MODULE OrchestrationProofs ---------------------------
(***************************************************************************)
(* Proofs about Scheduler, for any jobs, any number of overlapping tasks,  *)
(* any caps and any bounds: the count of a job against its cap and its     *)
(* runs, its timer against its row, and the types.  Then about Workforce,  *)
(* for plans of any size: what a sub-mission has seen when it begins, and  *)
(* which are skipped.  Last about the two side by side.                    *)
(***************************************************************************)
EXTENDS MCOrchestration, FiniteSetTheorems, WellFoundedInduction, TLAPS

--------------------------------------------------------------------------------
(* The counts of Scheduler.                                                    *)

RowState == [at : {"new", "there", "gone"}, active : BOOLEAN, cap : Nat,
             count : Nat, last : {"none", "running", "success", "failed"}]

Places == Changing \cup {"recap", "load", "mark", "run", "report"}
Work == [at : Places, job : Jobs, timed : BOOLEAN, count : Nat,
         result : {"none", "success", "failed"}]

Shape ==
  /\ row \in [Jobs -> RowState]
  /\ task \in [Tasks -> {Idle} \cup Work]
  /\ marked \in [Jobs -> Nat] /\ allowed \in [Jobs -> Nat]
  /\ overlapped \in [Jobs -> BOOLEAN]

\* Before a job is created nothing works on it.
FreshInv ==
  /\ \A j \in Jobs : j \in registered => row[j].at # "new"
  /\ \A j \in Jobs : row[j].at = "new" => row[j].count = 0
  /\ \A t \in Tasks : task[t] # Idle => row[task[t].job].at # "new"

\* A trigger that is about to enter its run has read a count below a cap.
CapInv ==
  /\ \A j \in Jobs : row[j].at = "there" => row[j].cap <= allowed[j]
  /\ \A t \in Tasks : At(t, "mark") => task[t].count < allowed[task[t].job]

\* What it has read is what the row still says, unless another one was about to.
ReadInv ==
  \A t \in Tasks : At(t, "mark") =>
    /\ task[t].count <= marked[task[t].job]
    /\ task[t].count = row[task[t].job].count \/ overlapped[task[t].job]
    /\ \A o \in Tasks \ {t} :
         At(o, "mark") /\ task[o].job = task[t].job => overlapped[task[t].job]

IInv == Shape /\ FreshInv /\ CapInv /\ ReadInv /\ CountWithinCap /\ CountIsTheRuns

--------------------------------------------------------------------------------
(* A step that changes only where one task stands, and does not bring it to    *)
(* "mark", and changes no count and no cap.                                    *)
Harmless ==
  /\ Shape'
  /\ \A j \in Jobs :
       /\ row'[j].count = row[j].count /\ row'[j].cap = row[j].cap
       /\ row'[j].at = row[j].at \/ row'[j].at = "gone"
  /\ \A t \in Tasks : task'[t] = Idle \/ (At(t, "mark")' /\ task'[t] = task[t])
                        \/ (~ At(t, "mark")' /\ row[task'[t].job].at # "new")
  /\ \A j \in Jobs : j \in registered' => j \in registered \/ row[j].at # "new"
  /\ marked' = marked /\ allowed' = allowed /\ overlapped' = overlapped

\* Such a step preserves everything the counts depend on.
LEMMA HarmlessStep ==
  ASSUME IInv, Harmless
  PROVE  IInv'
<1> USE DEF IInv, Harmless, Idle, At
<1>1. Shape'
  OBVIOUS
<1>2. FreshInv'
  <2>1. \A j \in Jobs : row'[j].at = "new" => row[j].at = "new"
    OBVIOUS
  <2>2. \A j \in Jobs : row'[j].at = "new" => row'[j].count = 0
    BY <2>1 DEF FreshInv
  <2>3. \A j \in Jobs : j \in registered' => row'[j].at # "new"
    BY <2>1 DEF FreshInv
  <2>4. ASSUME NEW t \in Tasks, task'[t] # Idle
        PROVE  row'[task'[t].job].at # "new"
    <3>1. task'[t].job \in Jobs
      BY <1>1, <2>4 DEF Shape, Work
    <3>2. row[task'[t].job].at # "new"
      BY <2>4 DEF FreshInv
    <3>3. QED
      BY <2>1, <3>1, <3>2
  <2>5. QED
    BY <2>2, <2>3, <2>4 DEF FreshInv
<1>3. CapInv'
  BY DEF CapInv, Shape, RowState, Work
<1>4. ReadInv'
  BY DEF ReadInv, Shape, RowState, Work
<1>5. CountWithinCap' /\ CountIsTheRuns'
  BY DEF CountWithinCap, CountIsTheRuns, Shape
<1>6. QED
  BY <1>1, <1>2, <1>3, <1>4, <1>5

\* A task that has begun and goes on keeps its job.
LEMMA GoesOn ==
  ASSUME Shape, NEW t \in Tasks, task[t] # Idle, NEW where \in Places, Goes(t, where)
  PROVE  /\ task' \in [Tasks -> {Idle} \cup Work]
         /\ task'[t].at = where /\ task'[t].job = task[t].job
         /\ \A o \in Tasks \ {t} : task'[o] = task[o]
<1>1. task[t] \in Work
  BY DEF Shape
<1>2. [task[t] EXCEPT !.at = where] \in Work
  BY <1>1 DEF Work
<1>3. task' = [task EXCEPT ![t] = [task[t] EXCEPT !.at = where]]
  BY DEF Goes, Shape
<1>4. QED
  BY <1>1, <1>2, <1>3 DEF Shape, Work

\* A task that begins is fresh.
LEMMA Begins ==
  ASSUME Shape, NEW t \in Tasks, NEW j \in Jobs, NEW where \in Places,
         NEW timed \in BOOLEAN, Begin(t, j, where, timed)
  PROVE  /\ task' \in [Tasks -> {Idle} \cup Work]
         /\ task'[t].at = where /\ task'[t].job = j
         /\ \A o \in Tasks \ {t} : task'[o] = task[o]
  BY DEF Begin, Shape, Work

\* A row that is updated without its count and its cap keeps them.
LEMMA UpdatesRow ==
  ASSUME Shape, NEW j \in Jobs, NEW new \in RowState, new.count = row[j].count,
         new.cap = row[j].cap, new.at = row[j].at, Updates(j, new)
  PROVE  /\ row' \in [Jobs -> RowState]
         /\ \A i \in Jobs : /\ row'[i].count = row[i].count /\ row'[i].cap = row[i].cap
                             /\ row'[i].at = row[i].at
  BY DEF Updates, Shape, There

\* The lookups, updates, registrations, failures and restarts are such steps.
LEMMA ManyAreHarmless ==
  ASSUME IInv, NEW t \in Tasks, NEW j \in Jobs,
         \/ \E op \in {"pause", "resume", "delete", "recap", "load"} : Lookup(t, j, op)
         \/ Fire(t, j) \/ Pause(t) \/ Resume(t) \/ Delete(t) \/ Erase(t)
         \/ Schedule(t) \/ Unschedule(t) \/ LoadCapped(t) \/ LoadNothing(t)
         \/ Deactivate(t) \/ \E got \in {"success", "failed"} : RunMission(t, got)
         \/ Report(t) \/ Fail(t)
  PROVE  Harmless
<1> USE DEF IInv, bounds, history
<1>1. ASSUME NEW op \in {"pause", "resume", "delete", "recap", "load"}, Lookup(t, j, op)
      PROVE  Harmless
  <2>1. op \in Places /\ op # "mark"
    BY DEF Places, Changing
  <2>2. Begin(t, j, op, FALSE) /\ row[j].at # "new"
    BY <1>1 DEF Lookup, There
  <2>3. /\ task' \in [Tasks -> {Idle} \cup Work] /\ task'[t].at = op /\ task'[t].job = j
        /\ \A o \in Tasks \ {t} : task'[o] = task[o]
    BY <2>1, <2>2, Begins
  <2>4. UNCHANGED <<row, registered, marked, allowed, overlapped>>
    BY <1>1 DEF Lookup
  <2>5. QED
    BY <2>1, <2>2, <2>3, <2>4 DEF Harmless, FreshInv, At, Idle, Shape
<1>2. CASE Fire(t, j)
  <2>1. "load" \in Places
    BY DEF Places
  <2>2. Begin(t, j, "load", TRUE)
    BY <1>2 DEF Fire
  <2>3. /\ task' \in [Tasks -> {Idle} \cup Work] /\ task'[t].at = "load" /\ task'[t].job = j
        /\ \A o \in Tasks \ {t} : task'[o] = task[o]
    BY <2>1, <2>2, Begins
  <2>4. UNCHANGED <<row, registered, marked, allowed, overlapped>> /\ row[j].at # "new"
    BY <1>2 DEF Fire, FreshInv
  <2>5. QED
    BY <2>2, <2>3, <2>4 DEF Harmless, FreshInv, At, Idle, Shape
<1>3. ASSUME ~ At(t, "idle"), Shape', Ends(t), UNCHANGED <<row, marked, allowed, overlapped>>,
             \A i \in Jobs : i \in registered' => i \in registered \/ row[i].at # "new"
      PROVE  Harmless
  BY <1>3 DEF Harmless, Ends, Shape, FreshInv, At, Idle
<1>4. ASSUME task[t] # Idle, NEW where \in Places \ {"mark"}, Goes(t, where), Shape',
             \A i \in Jobs : /\ row'[i].count = row[i].count /\ row'[i].cap = row[i].cap
                              /\ row'[i].at = row[i].at,
             UNCHANGED <<marked, allowed, overlapped>>,
             \A i \in Jobs : i \in registered' => i \in registered
      PROVE  Harmless
  <2>1. /\ task'[t].at = where /\ task'[t].job = task[t].job
        /\ \A o \in Tasks \ {t} : task'[o] = task[o]
    BY <1>4, GoesOn
  <2>2. QED
    BY <1>4, <2>1 DEF Harmless, FreshInv, At, Idle
<1>5. /\ \A where : At(t, where) /\ where # "idle" => task[t] # Idle
      /\ task[t] # Idle => task[t] \in Work
      /\ {"unschedule", "schedule", "erase", "capped", "report"} \subseteq Places
  BY DEF At, Idle, Shape, Places, Changing
<1>6. ASSUME task[t] # Idle
      PROVE  task[t].job \in Jobs /\ row[task[t].job] \in RowState /\ task[t].at # "idle"
  BY <1>5, <1>6 DEF Shape, Work, Places, Changing
<1>7. CASE Pause(t) \/ Resume(t) \/ Deactivate(t) \/ Report(t)
  <2> DEFINE r == row[task[t].job]
  <2>1. task[t] # Idle
    BY <1>5, <1>7 DEF Pause, Resume, Deactivate, Report
  <2>2. /\ [r EXCEPT !.active = FALSE] \in RowState
        /\ [r EXCEPT !.active = TRUE] \in RowState
        /\ task[t].result \in {"success", "failed", "none"}
        /\ [r EXCEPT !.last = task[t].result] \in RowState
    BY <1>5, <1>6, <2>1 DEF RowState, Work
  <2>3. /\ row' \in [Jobs -> RowState]
        /\ \A i \in Jobs : /\ row'[i].count = row[i].count /\ row'[i].cap = row[i].cap
                            /\ row'[i].at = row[i].at
    <3>1. PICK new \in RowState :
            /\ Updates(task[t].job, new)
            /\ new.count = r.count /\ new.cap = r.cap /\ new.at = r.at
      BY <1>6, <1>7, <2>1, <2>2 DEF Pause, Resume, Deactivate, Report, RowState
    <3>2. QED
      BY <1>6, <2>1, <3>1, UpdatesRow
  <2>4. Ends(t) \/ \E where \in Places \ {"mark"} : Goes(t, where)
    BY <1>5, <1>7 DEF Pause, Resume, Deactivate, Report
  <2>5. task' \in [Tasks -> {Idle} \cup Work]
    BY <2>1, <2>4, GoesOn DEF Ends, Shape
  <2>6. UNCHANGED <<registered, marked, allowed, overlapped>>
    BY <1>7 DEF Pause, Resume, Deactivate, Report
  <2>7. Shape'
    BY <2>3, <2>5, <2>6 DEF Shape
  <2>8. CASE Ends(t)
    BY <2>3, <2>6, <2>7, <2>8 DEF Harmless, Ends, Shape, FreshInv, At, Idle
  <2>9. QED
    BY <1>4, <2>1, <2>3, <2>4, <2>6, <2>7, <2>8
<1>8. CASE Delete(t) \/ LoadCapped(t)
  <2>1. task[t] # Idle
    BY <1>5, <1>8 DEF Delete, LoadCapped
  <2>2. PICK where \in Places \ {"mark"} : Goes(t, where)
    BY <1>5, <1>8 DEF Delete, LoadCapped
  <2>3. UNCHANGED <<row, marked, allowed, overlapped>> /\ registered' \subseteq registered
    BY <1>8 DEF Delete, LoadCapped
  <2>4. Shape'
    BY <2>1, <2>2, <2>3, GoesOn DEF Shape
  <2>5. QED
    BY <1>4, <2>1, <2>2, <2>3, <2>4
<1>9. CASE Erase(t)
  <2>1. task[t] # Idle
    BY <1>5, <1>9 DEF Erase
  <2>2. row' = [row EXCEPT ![task[t].job] = [row[task[t].job] EXCEPT !.at = "gone"]]
    BY <1>9 DEF Erase, Shape
  <2>3. Shape'
    BY <1>6, <1>9, <2>1, <2>2 DEF Erase, Ends, Shape, RowState
  <2>4. QED
    BY <1>6, <1>9, <2>1, <2>2, <2>3 DEF Erase, Ends, Harmless, FreshInv, At, Idle, Shape, RowState
<1>10. CASE Schedule(t) \/ Unschedule(t) \/ LoadNothing(t)
  <2>1. Shape' /\ task[t] # Idle
    BY <1>5, <1>10 DEF Schedule, Unschedule, LoadNothing, Ends, Shape
  <2>2. QED
    BY <1>3, <1>6, <1>10, <2>1 DEF Schedule, Unschedule, LoadNothing, At, FreshInv
<1>11. ASSUME NEW got \in {"success", "failed"}, RunMission(t, got)
       PROVE  Harmless
  <2> DEFINE w == [[task[t] EXCEPT !.at = "report"] EXCEPT !.result = got]
  <2>1. task[t] # Idle
    BY <1>5, <1>11 DEF RunMission
  <2>2. w \in Work /\ w.at = "report" /\ w.job = task[t].job
    BY <1>5, <2>1 DEF Work
  <2>3. task' = [task EXCEPT ![t] = w]
    BY <1>11, <2>1 DEF RunMission, Shape
  <2>4. UNCHANGED <<row, registered, marked, allowed, overlapped>>
    BY <1>11 DEF RunMission
  <2>5. /\ Shape' /\ task'[t].at = "report" /\ task'[t].job = task[t].job
        /\ \A o \in Tasks \ {t} : task'[o] = task[o]
    BY <2>2, <2>3, <2>4 DEF Shape
  <2>6. QED
    BY <2>1, <2>4, <2>5 DEF Harmless, FreshInv, At, Idle
<1>12. CASE Fail(t)
  <2> DEFINE w == [task[t] EXCEPT !.result = "failed"]
  <2>1. task[t] # Idle
    BY <1>12 DEF Fail, Idle
  <2>2. w \in Work /\ w.at = task[t].at /\ w.job = task[t].job
    BY <1>5, <2>1 DEF Work
  <2>3. CASE Ends(t)
    <3>1. Shape'
      BY <1>12, <2>3 DEF Fail, Ends, Shape
    <3>2. QED
      BY <1>3, <1>6, <1>12, <2>1, <2>3, <3>1 DEF Fail, At
  <2>4. CASE At(t, "report") /\ task' = [task EXCEPT ![t].result = "failed"]
    <3>1. task' = [task EXCEPT ![t] = w]
      BY <2>4 DEF Shape
    <3>2. Shape' /\ task'[t] = w /\ \A o \in Tasks \ {t} : task'[o] = task[o]
      BY <1>12, <2>2, <3>1 DEF Fail, Shape
    <3>3. QED
      BY <1>12, <2>1, <2>2, <2>4, <3>2 DEF Fail, Harmless, FreshInv, At, Idle
  <2>5. QED
    BY <1>12, <2>3, <2>4 DEF Fail
<1>13. QED
  BY <1>1, <1>2, <1>7, <1>8, <1>9, <1>10, <1>11, <1>12

--------------------------------------------------------------------------------
(* The four actions that change a count or a cap, or bring a task to "mark".   *)

\* A new job has no runs, and its first cap is allowed.
LEMMA CreateStep ==
  ASSUME IInv, NEW t \in Tasks, NEW j \in Jobs, NEW cap \in Caps \cup {Unlimited},
         Create(t, j, cap)
  PROVE  IInv'
<1> USE DEF IInv, Create, Begin, Idle, At, There, bounds, history
<1>0. cap \in Nat
  BY SchedulerAssumption DEF Unlimited
<1>1. Shape'
  BY <1>0 DEF Shape, RowState, Work, Places, Changing
<1>2. FreshInv'
  BY <1>0 DEF FreshInv, Shape, RowState, Work
<1>3. CapInv'
  BY <1>0 DEF CapInv, FreshInv, Shape, RowState, Work
<1>4. ReadInv'
  BY <1>0 DEF ReadInv, FreshInv, Shape, RowState, Work
<1>5. CountWithinCap'
  BY <1>0 DEF CountWithinCap, FreshInv, Shape, RowState
<1>6. CountIsTheRuns'
  BY <1>0 DEF CountIsTheRuns, FreshInv, Shape, RowState
<1>7. QED
  BY <1>1, <1>2, <1>3, <1>4, <1>5, <1>6

\* A new max_runs never lowers the largest one.
LEMMA RecapStep ==
  ASSUME IInv, NEW t \in Tasks, NEW cap \in Caps, Recap(t, cap)
  PROVE  IInv'
<1> USE DEF IInv, Recap, Updates, Ends, Idle, At, There, bounds, history
<1>0. cap \in Nat
  BY SchedulerAssumption
<1>1. Shape'
  BY <1>0 DEF Shape, RowState, Work
<1>2. FreshInv'
  BY <1>0 DEF FreshInv, Shape, RowState, Work
<1>3. CapInv'
  BY <1>0 DEF CapInv, Shape, RowState, Work
<1>4. ReadInv'
  BY <1>0 DEF ReadInv, Shape, RowState, Work
<1>5. CountWithinCap'
  BY <1>0 DEF CountWithinCap, Shape, RowState, Work
<1>6. CountIsTheRuns'
  BY <1>0 DEF CountIsTheRuns, Shape, RowState, Work
<1>7. QED
  BY <1>1, <1>2, <1>3, <1>4, <1>5, <1>6

\* What is read is the row's count, which is below its cap.
LEMMA LoadRunStep ==
  ASSUME IInv, NEW t \in Tasks, LoadRun(t)
  PROVE  IInv'
<1> USE DEF IInv, LoadRun, Idle, At, There, bounds
<1>1. Shape'
  <2> DEFINE w == [[task[t] EXCEPT !.at = "mark"] EXCEPT !.count = row[task[t].job].count]
  <2>1. task[t] \in Work
    BY DEF Shape
  <2>2. w \in Work
    BY <2>1 DEF Shape, Work, Places, RowState
  <2>3. task' = [task EXCEPT ![t] = w]
    BY DEF Shape
  <2>4. overlapped' \in [Jobs -> BOOLEAN]
    BY DEF Shape
  <2>5. QED
    BY <2>2, <2>3, <2>4 DEF Shape
<1>2. FreshInv'
  BY DEF FreshInv, Shape, RowState, Work
<1>3. CapInv'
  BY DEF CapInv, Shape, RowState, Work
<1>4. ReadInv'
  BY DEF ReadInv, CountIsTheRuns, Shape, RowState, Work, On
<1>5. CountWithinCap' /\ CountIsTheRuns'
  BY DEF CountWithinCap, CountIsTheRuns, Shape, RowState, Work
<1>6. QED
  BY <1>1, <1>2, <1>3, <1>4, <1>5

\* The row says one more than was read.
LEMMA MarkStep ==
  ASSUME IInv, NEW t \in Tasks, Mark(t)
  PROVE  IInv'
<1> USE DEF IInv, Mark, Updates, Goes, Ends, Idle, At, There, bounds
<1> DEFINE j == task[t].job
<1>0. task[t] \in Work /\ task[t] # Idle /\ j \in Jobs /\ task[t].count \in Nat
  BY DEF Shape, Work
<1>1. Shape'
  <2> DEFINE new == [row[j] EXCEPT !.count = task[t].count + 1, !.last = "running"]
  <2>1. row[j] \in RowState /\ task[t].count + 1 \in Nat
    BY <1>0 DEF Shape
  <2>2. new \in RowState
    BY <2>1 DEF RowState
  <2>3. row' = row \/ row' = [row EXCEPT ![j] = new]
    BY DEF Shape
  <2>4. row' \in [Jobs -> RowState]
    BY <1>0, <2>2, <2>3 DEF Shape
  <2>5. task' \in [Tasks -> {Idle} \cup Work]
    BY <1>0, GoesOn DEF Shape, Places
  <2>6. marked' \in [Jobs -> Nat]
    BY <1>0 DEF Shape
  <2>7. QED
    BY <2>4, <2>5, <2>6 DEF Shape
<1>2. FreshInv'
  <2>1. /\ \A i \in Jobs : row'[i].at = row[i].at /\ (i # j => row'[i] = row[i])
        /\ row[j].at # "new"
    BY <1>0 DEF Shape, RowState, FreshInv
  <2>2. \A o \in Tasks : task'[o] # Idle => task[o] # Idle /\ task'[o].job = task[o].job
    BY <1>0 DEF Shape, Work
  <2>3. \A o \in Tasks : task[o] # Idle => task[o].job \in Jobs
    BY DEF Shape, Work
  <2>4. QED
    BY <2>1, <2>2, <2>3 DEF FreshInv
<1>3. CapInv'
  BY DEF CapInv, Shape, RowState, Work
<1>4. ReadInv'
  BY DEF ReadInv, Shape, RowState, Work
<1>5. CountWithinCap'
  BY DEF CountWithinCap, CapInv, Shape, RowState, Work
<1>6. CountIsTheRuns'
  BY DEF CountIsTheRuns, ReadInv, Shape, RowState, Work
<1>7. QED
  BY <1>1, <1>2, <1>3, <1>4, <1>5, <1>6

--------------------------------------------------------------------------------
LEMMA InitIInv == Init => IInv
<1> USE SchedulerAssumption DEF Init, NoRow, Idle, At, There
<1> SUFFICES ASSUME Init
             PROVE  IInv
  OBVIOUS
<1>1. Shape
  BY DEF Shape, RowState
<1>2. FreshInv /\ CapInv /\ ReadInv
  BY DEF FreshInv, CapInv, ReadInv
<1>3. CountWithinCap /\ CountIsTheRuns
  BY DEF CountWithinCap, CountIsTheRuns
<1>4. QED
  BY <1>1, <1>2, <1>3 DEF IInv

LEMMA IInvStep == IInv /\ [Next]_vars => IInv'
<1> SUFFICES ASSUME IInv, [Next]_vars
             PROVE  IInv'
  OBVIOUS
<1>1. ASSUME NEW t \in Tasks, NEW j \in Jobs,
             \/ \E op \in {"pause", "resume", "delete", "recap", "load"} : Lookup(t, j, op)
             \/ Fire(t, j)
      PROVE  IInv'
  BY <1>1, ManyAreHarmless, HarmlessStep
<1>2. ASSUME NEW t \in Tasks, NEW j \in Jobs, NEW cap \in Caps \cup {Unlimited},
             Create(t, j, cap)
      PROVE  IInv'
  BY <1>2, CreateStep
<1>3. ASSUME NEW t \in Tasks, NEW cap \in Caps, Recap(t, cap)
      PROVE  IInv'
  BY <1>3, RecapStep
<1>4. ASSUME NEW t \in Tasks, LoadRun(t)
      PROVE  IInv'
  BY <1>4, LoadRunStep
<1>5. ASSUME NEW t \in Tasks, Mark(t)
      PROVE  IInv'
  BY <1>5, MarkStep
<1>6. ASSUME NEW t \in Tasks,
             \/ Pause(t) \/ Resume(t) \/ Delete(t) \/ Erase(t)
             \/ Schedule(t) \/ Unschedule(t) \/ LoadCapped(t) \/ LoadNothing(t)
             \/ Deactivate(t) \/ \E got \in {"success", "failed"} : RunMission(t, got)
             \/ Report(t) \/ Fail(t)
      PROVE  IInv'
  <2>1. task[t] # Idle
    BY <1>6 DEF Pause, Resume, Delete, Erase, Schedule, Unschedule, LoadCapped,
       LoadNothing, Deactivate, RunMission, Report, Fail, At, Idle
  <2>2. task[t].job \in Jobs
    BY <2>1 DEF IInv, Shape, Work
  <2>3. QED
    BY <1>6, <2>2, ManyAreHarmless, HarmlessStep
<1>7. CASE Restart
  <2>1. Harmless
    BY <1>7 DEF Restart, Reloaded, There, IInv, Harmless, Shape, Idle, At
  <2>2. QED
    BY <2>1, HarmlessStep
<1>8. CASE UNCHANGED vars
  <2>1. UNCHANGED <<row, registered, task, marked, allowed, overlapped>>
    BY <1>8 DEF vars, history
  <2>2. QED
    BY <2>1 DEF IInv, Shape, FreshInv, CapInv, ReadInv, CountWithinCap, CountIsTheRuns, At
<1>9. QED
  BY <1>1, <1>2, <1>3, <1>4, <1>5, <1>6, <1>7, <1>8 DEF Next, Proceed

--------------------------------------------------------------------------------
(* run_count never exceeds the largest max_runs the job has had, although it   *)
(* is read and written back across a suspension (SchedulerService._trigger_job).*)
THEOREM CountStaysWithinCap == Spec => []CountWithinCap
<1>1. IInv => CountWithinCap
  BY DEF IInv
<1>2. QED
  BY InitIInv, IInvStep, <1>1, PTL DEF Spec

(* run_count is the number of runs _trigger_job has entered, or less if two    *)
(* triggers of the job overlapped.                                             *)
THEOREM CountsWithoutOverlap == Spec => []CountIsTheRuns
<1>1. IInv => CountIsTheRuns
  BY DEF IInv
<1>2. QED
  BY InitIInv, IInvStep, <1>1, PTL DEF Spec

--------------------------------------------------------------------------------
(* The registrations.                                                          *)

Agrees(j) == j \in registered <=> There(j) /\ row[j].active

\* t is about to change the registration of j.
Changes(t, j) == task[t] # Idle /\ task[t].job = j /\ task[t].at \in Changing

\* What the task that changes the registration of j relies on where it stands: it
\* is to bring row and registration together, or has yet to part them.
StandsRight(t, j) ==
  /\ At(t, "resume") \/ At(t, "schedule") => There(j)
  /\ task[t].at \in {"pause", "resume", "delete", "capped"} => Agrees(j)
  /\ At(t, "schedule") => row[j].active
  /\ At(t, "unschedule") => ~ (There(j) /\ row[j].active)
  /\ At(t, "erase") => j \notin registered

\* A job that is not disturbed is changed by one task at most, which stands right.
Settles(j) ==
  ~ disturbed[j] =>
    /\ \A t, o \in Tasks : Changes(t, j) /\ Changes(o, j) => t = o
    /\ (\A t \in Tasks : ~ Changes(t, j)) => Agrees(j)
    /\ \A t \in Tasks : Changes(t, j) => StandsRight(t, j)

SettlesInv == disturbed \in [Jobs -> BOOLEAN] /\ \A j \in Jobs : Settles(j)

\* Only t moves.
Moves(t) == \A o \in Tasks \ {t} : task'[o] = task[o]

\* The row and the registration of j stay as they are, in what SettlesInv reads.
Keeps(j) ==
  /\ row'[j].at = row[j].at /\ row'[j].active = row[j].active
  /\ j \in registered' <=> j \in registered

\* A step of a task that changes no registration leaves Settles(j).
LEMMA Bystander ==
  ASSUME NEW t \in Tasks, NEW j \in Jobs, Settles(j), Moves(t), Keeps(j),
         ~ Changes(t, j), ~ Changes(t, j)', disturbed'[j] = disturbed[j]
  PROVE  Settles(j)'
<1>1. \A o \in Tasks : Changes(o, j)' = Changes(o, j)
  BY DEF Moves, Changes
<1>2. Agrees(j)' = Agrees(j)
  BY DEF Keeps, Agrees, There
<1>3. \A o \in Tasks : Changes(o, j) => task'[o] = task[o]
  BY DEF Moves
<1>4. \A o \in Tasks : Changes(o, j) => StandsRight(o, j)' = StandsRight(o, j)
  BY <1>2, <1>3 DEF Keeps, StandsRight, At, There
<1>5. QED
  BY <1>1, <1>2, <1>4 DEF Settles

\* A task begins to change j: it disturbs the one that was at it.
LEMMA Joins ==
  ASSUME NEW t \in Tasks, NEW j \in Jobs, Settles(j), Moves(t), ~ Changes(t, j),
         disturbed'[j] = (disturbed[j] \/ \E o \in Tasks \ {t} : Changes(o, j)),
         Agrees(j) => StandsRight(t, j)', Changes(t, j)'
  PROVE  Settles(j)'
<1>1. \A o \in Tasks \ {t} : Changes(o, j)' = Changes(o, j)
  BY DEF Moves, Changes
<1>2. QED
  BY <1>1 DEF Settles

\* The one task that changes j goes on or ends.
LEMMA GoesOnChanging ==
  ASSUME NEW t \in Tasks, NEW j \in Jobs, Settles(j), Moves(t), Changes(t, j),
         disturbed[j] => disturbed'[j],
         ~ disturbed'[j] /\ StandsRight(t, j) =>
           IF Changes(t, j)' THEN StandsRight(t, j)' ELSE Agrees(j)'
  PROVE  Settles(j)'
<1>1. \A o \in Tasks \ {t} : Changes(o, j)' = Changes(o, j)
  BY DEF Moves, Changes
<1>2. QED
  BY <1>1 DEF Settles

LEMMA ChangersAre ==
  ASSUME NEW j
  PROVE  Changers(j) = {t \in Tasks : Changes(t, j)}
  BY DEF Changers, On, Changes

\* Where a task stands after it began, went on or ended.
LEMMA Moved ==
  ASSUME Shape, NEW t \in Tasks
  PROVE  /\ \A j \in Jobs, where \in Places, timed \in BOOLEAN :
              Begin(t, j, where, timed) =>
                Moves(t) /\ task'[t] # Idle /\ task'[t].at = where /\ task'[t].job = j
         /\ \A where \in Places : task[t] # Idle /\ Goes(t, where) =>
              Moves(t) /\ task'[t] # Idle /\ task'[t].at = where
                /\ task'[t].job = task[t].job
         /\ Ends(t) => Moves(t) /\ task'[t] = Idle
<1>1. ASSUME NEW j \in Jobs, NEW where \in Places, NEW timed \in BOOLEAN,
             Begin(t, j, where, timed)
      PROVE  Moves(t) /\ task'[t] # Idle /\ task'[t].at = where /\ task'[t].job = j
  <2>1. task'[t].at = where /\ task'[t].job = j /\ Moves(t)
    BY <1>1, Begins DEF Moves
  <2>2. QED
    BY <2>1 DEF Idle, Places, Changing
<1>2. ASSUME NEW where \in Places, task[t] # Idle, Goes(t, where)
      PROVE  Moves(t) /\ task'[t] # Idle /\ task'[t].at = where
               /\ task'[t].job = task[t].job
  <2>1. task'[t].at = where /\ task'[t].job = task[t].job /\ Moves(t)
    BY <1>2, GoesOn DEF Moves
  <2>2. QED
    BY <2>1 DEF Idle, Places, Changing
<1>3. Ends(t) => Moves(t) /\ task'[t] = Idle
  BY DEF Ends, Moves, Shape
<1>4. QED
  BY <1>1, <1>2, <1>3

\* create_job, on a row nobody works on.
LEMMA CreateSettles ==
  ASSUME IInv, SettlesInv, NEW t \in Tasks, NEW j \in Jobs,
         NEW cap \in Caps \cup {Unlimited}, Create(t, j, cap)
  PROVE  SettlesInv'
<1>1. /\ row' = [row EXCEPT ![j] = [at |-> "there", active |-> TRUE, cap |-> cap,
                                    count |-> 0, last |-> "none"]]
      /\ row[j].at = "new" /\ At(t, "idle")
      /\ Begin(t, j, "schedule", FALSE) /\ UNCHANGED <<registered, disturbed>>
  BY DEF Create
<1>2. Moves(t) /\ task'[t] # Idle /\ task'[t].at = "schedule" /\ task'[t].job = j
  BY <1>1, Moved DEF IInv, Places, Changing
<1>3. \A i \in Jobs : ~ Changes(t, i)
  BY <1>1 DEF At, Changes, Changing
<1>4. \A o \in Tasks : ~ Changes(o, j)
  BY <1>1 DEF IInv, FreshInv, Changes
<1>5. row'[j].at = "there" /\ row'[j].active
  BY <1>1 DEF IInv, Shape
<1>6. Settles(j)'
  <2>1. Changes(t, j)' /\ StandsRight(t, j)'
    BY <1>2, <1>5 DEF Changes, Changing, StandsRight, At, There
  <2>2. disturbed'[j] = (disturbed[j] \/ \E o \in Tasks \ {t} : Changes(o, j))
    BY <1>1, <1>4 DEF SettlesInv
  <2>3. QED
    BY <1>2, <1>3, <2>1, <2>2, Joins DEF SettlesInv
<1>7. ASSUME NEW i \in Jobs \ {j}
      PROVE  Settles(i)'
  <2>1. Keeps(i) /\ ~ Changes(t, i)'
    BY <1>1, <1>2 DEF Keeps, Changes, IInv, Shape
  <2>2. QED
    BY <1>1, <1>2, <1>3, <2>1, Bystander DEF SettlesInv
<1>8. QED
  BY <1>1, <1>6, <1>7 DEF SettlesInv

\* pause_job, resume_job and delete_job find the row; so does a trigger that finds
\* its job at the cap.
LEMMA BeginsToChange ==
  ASSUME IInv, SettlesInv, NEW t \in Tasks, NEW j \in Jobs,
         \/ \E op \in {"pause", "resume", "delete"} : Lookup(t, j, op)
         \/ task[t] # Idle /\ task[t].job = j /\ LoadCapped(t)
  PROVE  SettlesInv'
<1>1. \A i \in Jobs : ~ Changes(t, i)
  BY DEF Lookup, LoadCapped, At, Changes, Changing
<1>2. PICK op \in {"pause", "resume", "delete", "capped"} :
        Moves(t) /\ task'[t] # Idle /\ task'[t].at = op /\ task'[t].job = j
  <2>1. \A op \in {"pause", "resume", "delete", "capped"} : op \in Places
    BY DEF Places, Changing
  <2>2. CASE \E op \in {"pause", "resume", "delete"} : Lookup(t, j, op)
    BY <2>1, <2>2, Moved DEF Lookup, IInv
  <2>3. CASE task[t] # Idle /\ task[t].job = j /\ LoadCapped(t)
    BY <2>1, <2>3, Moved DEF LoadCapped, IInv
  <2>4. QED
    BY <2>2, <2>3
<1>3. There(j) /\ UNCHANGED <<row, registered>>
  BY DEF Lookup, LoadCapped
<1>4. disturbed' = [disturbed EXCEPT ![j] = @ \/ Changers(j) \ {t} # {}]
  BY DEF Lookup, LoadCapped, NotesChange, Changing
<1>5. Settles(j)'
  <2>1. Changers(j) \ {t} # {} <=> \E o \in Tasks \ {t} : Changes(o, j)
    BY ChangersAre
  <2>2. disturbed'[j] = (disturbed[j] \/ \E o \in Tasks \ {t} : Changes(o, j))
    BY <1>4, <2>1 DEF SettlesInv
  <2>3. Changes(t, j)' /\ (Agrees(j) => StandsRight(t, j)')
    BY <1>2, <1>3 DEF Changes, Changing, StandsRight, At, There, Agrees
  <2>4. QED
    BY <1>1, <1>2, <2>2, <2>3, Joins DEF SettlesInv
<1>6. ASSUME NEW i \in Jobs \ {j}
      PROVE  Settles(i)'
  <2>1. Keeps(i) /\ ~ Changes(t, i)' /\ disturbed'[i] = disturbed[i]
    BY <1>2, <1>3, <1>4 DEF Keeps, Changes, SettlesInv
  <2>2. QED
    BY <1>1, <1>2, <2>1, Bystander DEF SettlesInv
<1>7. disturbed' \in [Jobs -> BOOLEAN]
  BY <1>4 DEF SettlesInv
<1>8. QED
  BY <1>5, <1>6, <1>7 DEF SettlesInv

\* What begins to change a registration goes through with it.
LEMMA GoesThrough ==
  ASSUME IInv, SettlesInv, NEW t \in Tasks,
         \/ Pause(t) \/ Resume(t) \/ Delete(t) \/ Erase(t)
         \/ Schedule(t) \/ Unschedule(t) \/ Deactivate(t)
  PROVE  SettlesInv'
<1>1. task[t] # Idle /\ task[t].at \in Changing
  <2>1. task[t].at \in Changing
    BY DEF Pause, Resume, Delete, Erase, Schedule, Unschedule, Deactivate, At, Changing
  <2>2. QED
    BY <2>1 DEF Idle, Changing
<1>2. PICK j \in Jobs : j = task[t].job
  BY <1>1 DEF IInv, Shape, Work
<1>3. Changes(t, j) /\ row \in [Jobs -> RowState]
  BY <1>1, <1>2 DEF Changes, IInv, Shape
<1>4. disturbed' = disturbed
  BY DEF Pause, Resume, Delete, Erase, Schedule, Unschedule, Deactivate, history
<1>5. ASSUME Ends(t)
      PROVE  Moves(t) /\ task'[t] = Idle /\ ~ Changes(t, j)'
  BY <1>5, Moved DEF IInv, Changes
<1>6. ASSUME NEW where \in {"schedule", "unschedule", "erase"}, Goes(t, where)
      PROVE  Moves(t) /\ task'[t].at = where /\ task'[t].job = j /\ Changes(t, j)'
  <2>1. where \in Places
    BY DEF Places, Changing
  <2>2. QED
    BY <1>1, <1>2, <1>6, <2>1, Moved DEF IInv, Changes, Changing
<1>7. /\ Moves(t) /\ (task'[t] = Idle \/ task'[t].job = j)
  <2>1. Ends(t) \/ \E where \in {"schedule", "unschedule", "erase"} : Goes(t, where)
    BY DEF Pause, Resume, Delete, Erase, Schedule, Unschedule, Deactivate
  <2>2. QED
    BY <1>5, <1>6, <2>1
<1>8. Settles(j)'
  <2>1. SUFFICES ASSUME StandsRight(t, j)
                 PROVE  IF Changes(t, j)' THEN StandsRight(t, j)' ELSE Agrees(j)'
    BY <1>3, <1>4, <1>7, GoesOnChanging DEF SettlesInv
  <2>2. CASE Pause(t)
    <3>1. ~ (There(j)' /\ row'[j].active)
      BY <1>2, <1>3, <2>2 DEF Pause, Updates, There, RowState
    <3>2. QED
      BY <1>6, <2>2, <3>1 DEF Pause, StandsRight, At, There
  <2>3. CASE Resume(t)
    <3>1. There(j)' /\ row'[j].active
      BY <1>2, <1>3, <2>1, <2>3 DEF Resume, Updates, There, RowState, StandsRight
    <3>2. QED
      BY <1>6, <2>3, <3>1 DEF Resume, StandsRight, At, There
  <2>4. CASE Delete(t)
    BY <1>2, <1>6, <2>4 DEF Delete, StandsRight, At
  <2>5. CASE Erase(t)
    BY <1>2, <1>3, <1>5, <2>1, <2>5 DEF Erase, StandsRight, Agrees, There, RowState
  <2>6. CASE Schedule(t)
    BY <1>2, <1>5, <2>1, <2>6 DEF Schedule, StandsRight, Agrees, There, At
  <2>7. CASE Unschedule(t)
    BY <1>2, <1>5, <2>1, <2>7 DEF Unschedule, StandsRight, Agrees, There, At
  <2>8. CASE Deactivate(t) /\ There(j)
    <3>1. ~ row'[j].active
      BY <1>2, <1>3, <2>8 DEF Deactivate, Updates, RowState
    <3>2. QED
      BY <1>2, <1>6, <2>8, <3>1 DEF Deactivate, StandsRight, At, There
  <2>9. CASE Deactivate(t) /\ ~ There(j)
    BY <1>2, <1>5, <2>1, <2>9 DEF Deactivate, Updates, StandsRight, Agrees, There, At
  <2>10. QED
    BY <2>2, <2>3, <2>4, <2>5, <2>6, <2>7, <2>8, <2>9
<1>9. ASSUME NEW i \in Jobs \ {j}
      PROVE  Settles(i)'
  <2>1. ~ Changes(t, i) /\ ~ Changes(t, i)'
    BY <1>2, <1>7 DEF Changes
  <2>2. Keeps(i)
    BY <1>2, <1>3 DEF Keeps, Pause, Resume, Delete, Erase, Schedule, Unschedule,
       Deactivate, Updates
  <2>3. QED
    BY <1>4, <1>7, <2>1, <2>2, Bystander DEF SettlesInv
<1>10. QED
  BY <1>4, <1>8, <1>9 DEF SettlesInv

\* A trigger below the cap, an update of max_runs and a lookup change no
\* registration.
LEMMA ManyAreBystanders ==
  ASSUME IInv, SettlesInv, NEW t \in Tasks,
         \/ \E j \in Jobs : Lookup(t, j, "recap") \/ Lookup(t, j, "load") \/ Fire(t, j)
         \/ \E cap \in Caps : Recap(t, cap)
         \/ LoadRun(t) \/ LoadNothing(t) \/ Mark(t)
         \/ \E got \in {"success", "failed"} : RunMission(t, got)
         \/ Report(t)
  PROVE  SettlesInv'
<1>1. task[t].at \notin Changing
  BY DEF Lookup, Fire, Recap, LoadRun, LoadNothing, Mark, RunMission, Report, At, Changing
<1>2. disturbed' = disturbed /\ registered' = registered
  BY DEF Lookup, Fire, Recap, LoadRun, LoadNothing, Mark, RunMission, Report, history,
     Changing
<1>3. ASSUME task[t] # Idle, NEW new, Updates(task[t].job, new), NEW i \in Jobs,
             new.at = row[task[t].job].at, new.active = row[task[t].job].active
      PROVE  Keeps(i)
  BY <1>2, <1>3 DEF Keeps, Updates, IInv, Shape
<1>4. ASSUME ~ At(t, "idle")
      PROVE  task[t] # Idle /\ task[t] \in Work /\ row[task[t].job] \in RowState
  BY <1>4 DEF At, Idle, IInv, Shape, Work
<1>5. ASSUME NEW i \in Jobs
      PROVE  Keeps(i)
  <2>1. CASE UNCHANGED row
    BY <1>2, <2>1 DEF Keeps
  <2>2. ASSUME NEW cap \in Caps, Recap(t, cap)
        PROVE  Keeps(i)
    BY <1>3, <1>4, <2>2 DEF Recap, RowState, At
  <2>3. CASE Mark(t)
    <3>1. PICK old : old = row[task[t].job]
      OBVIOUS
    <3>2. PICK new : new = [old EXCEPT !.count = task[t].count + 1, !.last = "running"]
      OBVIOUS
    <3>3. task[t] # Idle /\ old \in RowState
      BY <1>4, <2>3, <3>1 DEF Mark, At
    <3>4. new.at = old.at /\ new.active = old.active
      BY <3>2, <3>3 DEF RowState
    <3>5. Updates(task[t].job, new)
      BY <2>3, <3>1, <3>2 DEF Mark
    <3>6. QED
      BY <1>3, <3>1, <3>3, <3>4, <3>5
  <2>4. CASE Report(t)
    BY <1>3, <1>4, <2>4 DEF Report, RowState, At
  <2>5. QED
    BY <2>1, <2>2, <2>3, <2>4 DEF Lookup, Fire, LoadRun, LoadNothing, RunMission
<1>6. Moves(t) /\ (task'[t] # Idle => task'[t].at \notin Changing)
  <2>1. CASE Ends(t)
    BY <2>1, Moved DEF IInv
  <2>2. CASE Mark(t) /\ Goes(t, "run")
    <3>1. "run" \in Places /\ "run" \notin Changing
      BY DEF Places, Changing
    <3>2. QED
      BY <1>4, <2>2, <3>1, Moved DEF Mark, IInv, At
  <2>3. ASSUME NEW j \in Jobs,
               Lookup(t, j, "recap") \/ Lookup(t, j, "load") \/ Fire(t, j)
        PROVE  Moves(t) /\ (task'[t] # Idle => task'[t].at \notin Changing)
    <3>1. {"recap", "load"} \subseteq Places /\ {"recap", "load"} \cap Changing = {}
      BY DEF Places, Changing
    <3>2. QED
      BY <2>3, <3>1, Moved DEF Lookup, Fire, IInv
  <2>4. CASE LoadRun(t) \/ \E got \in {"success", "failed"} : RunMission(t, got)
    BY <1>4, <2>4 DEF LoadRun, RunMission, IInv, Shape, Work, Moves, Changing, At
  <2>5. QED
    BY <2>1, <2>2, <2>3, <2>4 DEF Recap, LoadNothing, Mark, Report
<1>7. ASSUME NEW i \in Jobs
      PROVE  Settles(i)'
  BY <1>1, <1>2, <1>5, <1>6, Bystander DEF SettlesInv, Changes
<1>8. QED
  BY <1>2, <1>7 DEF SettlesInv

\* A deletion that fails after the registration has gone disturbs its job; whatever
\* else fails has not parted row and registration.
LEMMA FailSettles ==
  ASSUME IInv, SettlesInv, NEW t \in Tasks, Fail(t)
  PROVE  SettlesInv'
<1>1. task[t] # Idle /\ UNCHANGED <<row, registered>>
  BY DEF Fail, Idle
<1>2. PICK j \in Jobs : j = task[t].job
  BY <1>1 DEF IInv, Shape, Work
<1>3. disturbed' = [disturbed EXCEPT ![j] = @ \/ At(t, "erase")]
  BY <1>2 DEF Fail
<1>4. /\ disturbed' \in [Jobs -> BOOLEAN]
      /\ disturbed'[j] = (disturbed[j] \/ At(t, "erase"))
      /\ \A i \in Jobs \ {j} : disturbed'[i] = disturbed[i]
  BY <1>3 DEF SettlesInv
<1>5. \/ Moves(t) /\ task'[t] = Idle
      \/ /\ Moves(t) /\ At(t, "report")
         /\ task'[t].at = task[t].at /\ task'[t].job = task[t].job
  <2>1. CASE Ends(t)
    BY <2>1, Moved DEF IInv
  <2>2. CASE At(t, "report") /\ task' = [task EXCEPT ![t].result = "failed"]
    <3>1. task[t] \in Work /\ task \in [Tasks -> {Idle} \cup Work]
      BY <1>1 DEF IInv, Shape
    <3>2. QED
      BY <2>2, <3>1 DEF Moves, Work
  <2>3. QED
    BY <2>1, <2>2 DEF Fail
<1>6. \A i \in Jobs : Keeps(i)
  BY <1>1 DEF Keeps
<1>7. \A i \in Jobs : ~ Changes(t, i)'
  BY <1>5 DEF Changes, At, Changing
<1>8. CASE task[t].at \in Changing
  <2>1. Changes(t, j) /\ task[t].at \in {"pause", "resume", "capped", "erase"}
    BY <1>1, <1>2, <1>8 DEF Changes, Changing, Fail
  <2>2. ~ disturbed'[j] /\ StandsRight(t, j) => Agrees(j)'
    BY <1>1, <1>4, <2>1 DEF StandsRight, Agrees, There, At
  <2>3. Settles(j)'
    BY <1>4, <1>5, <1>7, <2>1, <2>2, GoesOnChanging DEF SettlesInv
  <2>4. \A i \in Jobs \ {j} : ~ Changes(t, i)
    BY <1>2 DEF Changes
  <2>5. \A i \in Jobs \ {j} : Settles(i)'
    BY <1>4, <1>5, <1>6, <1>7, <2>4, Bystander DEF SettlesInv
  <2>6. QED
    BY <1>4, <2>3, <2>5 DEF SettlesInv
<1>9. CASE task[t].at \notin Changing
  <2>1. \A i \in Jobs : ~ Changes(t, i) /\ disturbed'[i] = disturbed[i]
    BY <1>4, <1>9 DEF Changes, Changing, At, SettlesInv
  <2>2. QED
    BY <1>4, <1>5, <1>6, <1>7, <2>1, Bystander DEF SettlesInv
<1>10. QED
  BY <1>8, <1>9

LEMMA SettlesStep ==
  ASSUME IInv, SettlesInv, [Next]_vars
  PROVE  SettlesInv'
<1>1. ASSUME NEW t \in Tasks, NEW j \in Jobs, NEW cap \in Caps \cup {Unlimited},
             Create(t, j, cap)
      PROVE  SettlesInv'
  BY <1>1, CreateSettles
<1>2. ASSUME NEW t \in Tasks, NEW j \in Jobs,
             \E op \in {"pause", "resume", "delete"} : Lookup(t, j, op)
      PROVE  SettlesInv'
  BY <1>2, BeginsToChange
<1>3. ASSUME NEW t \in Tasks, LoadCapped(t)
      PROVE  SettlesInv'
  <2>1. task[t] # Idle /\ task[t].job \in Jobs
    BY <1>3 DEF LoadCapped, At, Idle, IInv, Shape, Work
  <2>2. QED
    BY <1>3, <2>1, BeginsToChange
<1>4. ASSUME NEW t \in Tasks,
             \/ Pause(t) \/ Resume(t) \/ Delete(t) \/ Erase(t)
             \/ Schedule(t) \/ Unschedule(t) \/ Deactivate(t)
      PROVE  SettlesInv'
  BY <1>4, GoesThrough
<1>5. ASSUME NEW t \in Tasks,
             \/ \E j \in Jobs : Lookup(t, j, "recap") \/ Lookup(t, j, "load") \/ Fire(t, j)
             \/ \E cap \in Caps : Recap(t, cap)
             \/ LoadRun(t) \/ LoadNothing(t) \/ Mark(t)
             \/ \E got \in {"success", "failed"} : RunMission(t, got)
             \/ Report(t)
      PROVE  SettlesInv'
  BY <1>5, ManyAreBystanders
<1>6. ASSUME NEW t \in Tasks, Fail(t)
      PROVE  SettlesInv'
  BY <1>6, FailSettles
<1>7. CASE Restart
  <2>1. \A t \in Tasks : task'[t] = Idle
    BY <1>7 DEF Restart
  <2>2. \A j \in Jobs : Agrees(j)' /\ \A t \in Tasks : ~ Changes(t, j)'
    BY <1>7, <2>1 DEF Restart, Reloaded, Agrees, There, Changes
  <2>3. disturbed' \in [Jobs -> BOOLEAN]
    BY <1>7 DEF Restart
  <2>4. QED
    BY <2>2, <2>3 DEF SettlesInv, Settles
<1>8. CASE UNCHANGED vars
  BY <1>8 DEF vars, history, SettlesInv, Settles, Changes, StandsRight, Agrees, There, At
<1>9. QED
  BY <1>1, <1>2, <1>3, <1>4, <1>5, <1>6, <1>7, <1>8 DEF Next, Proceed

(* When nothing is under way for a job, its timer is set exactly if the row is *)
(* there and active, unless two operations on the registration overlapped or a *)
(* deletion failed half way since the process started (SchedulerService).      *)
THEOREM SettledTimersAgree == Spec => []SettledJobsAgree
<1>1. Init => SettlesInv
  BY DEF Init, NoRow, SettlesInv, Settles, Changes, Agrees, There
<1>2. SettlesInv => SettledJobsAgree
  <2>1. SUFFICES ASSUME SettlesInv, NEW j \in Jobs, ~ disturbed[j], Changers(j) = {}
                 PROVE  Agrees(j)
    BY DEF SettledJobsAgree, Agrees
  <2>2. \A t \in Tasks : ~ Changes(t, j)
    BY <2>1, ChangersAre
  <2>3. QED
    BY <2>1, <2>2 DEF SettlesInv, Settles
<1>3. QED
  BY InitIInv, IInvStep, SettlesStep, <1>1, <1>2, PTL DEF Spec

--------------------------------------------------------------------------------
(* The types, with their bounds.                                               *)

\* The triggers of j that have yet to enter a run in its row.
Entering(j) == {t \in Tasks : task[t] # Idle /\ task[t].job = j /\ task[t].at \in {"load", "mark"}}

\* Each run that is entered was a trigger.
Budget(j) ==
  IsFiniteSet(Entering(j)) /\ marked[j] + Cardinality(Entering(j)) <= triggers

\* A timer does not overtake itself.
OneTimer ==
  \A t, o \in Tasks :
    t # o /\ task[t] # Idle /\ task[o] # Idle /\ task[t].job = task[o].job
      => ~ (task[t].timed /\ task[o].timed)

TypeInv ==
  /\ triggers \in 0 .. MaxTriggers
  /\ registered \subseteq Jobs
  /\ \A j \in Jobs : row[j].cap \in Caps \cup {0, Unlimited} /\ Budget(j)
  /\ OneTimer

\* A task that goes on keeps its job, and enters a run only if it was to.
Carries(t) ==
  task'[t] # Idle =>
    /\ task[t] # Idle
    /\ task'[t].job = task[t].job /\ task'[t].timed = task[t].timed
    /\ task'[t].at \in {"load", "mark"} => task[t].at \in {"load", "mark"}

\* No task begins and none enters a run.
LEMMA CarriesOn ==
  ASSUME Shape, TypeInv, \A t \in Tasks : Carries(t),
         registered' \subseteq Jobs, UNCHANGED <<marked, triggers>>,
         \A j \in Jobs : row'[j].cap \in Caps \cup {0, Unlimited}
  PROVE  TypeInv'
<1>1. ASSUME NEW j \in Jobs
      PROVE  Budget(j)'
  <2>1. Entering(j)' \subseteq Entering(j)
    BY DEF Entering, Carries
  <2>2. IsFiniteSet(Entering(j)') /\ Cardinality(Entering(j)') <= Cardinality(Entering(j))
    BY <2>1, FS_Subset DEF TypeInv, Budget
  <2>3. Cardinality(Entering(j)') \in Nat /\ Cardinality(Entering(j)) \in Nat
    BY <2>2, FS_CardinalityType DEF TypeInv, Budget
  <2>4. QED
    BY <2>2, <2>3 DEF TypeInv, Budget, Shape
<1>2. OneTimer'
  BY DEF TypeInv, OneTimer, Carries
<1>3. QED
  BY <1>1, <1>2 DEF TypeInv

\* A task begins, as a trigger or as another operation.
LEMMA BeginsTyped ==
  ASSUME IInv, TypeInv, NEW t \in Tasks, NEW j \in Jobs, NEW where \in Places,
         NEW timed \in BOOLEAN, At(t, "idle"), Begin(t, j, where, timed),
         UNCHANGED <<registered, marked>>,
         timed => \A o \in On(j) : ~ task[o].timed,
         \A i \in Jobs : row'[i].cap \in Caps \cup {0, Unlimited},
         IF where = "load" THEN triggers < MaxTriggers /\ triggers' = triggers + 1
                           ELSE where # "mark" /\ triggers' = triggers
  PROVE  TypeInv'
<1>1. /\ task'[t].at = where /\ task'[t].job = j /\ task'[t].timed = timed
      /\ \A o \in Tasks \ {t} : task'[o] = task[o]
  BY DEF Begin, IInv, Shape
<1>2. task[t] = Idle
  BY DEF IInv, Shape, Work, Places, Changing, At
<1>3. triggers' \in 0 .. MaxTriggers
  BY SchedulerAssumption DEF TypeInv
<1>4. ASSUME NEW i \in Jobs
      PROVE  Budget(i)'
  <2>0. /\ IsFiniteSet(Entering(i)) /\ Cardinality(Entering(i)) \in Nat
        /\ marked[i] \in Nat /\ marked' = marked /\ triggers \in Nat
        /\ marked[i] + Cardinality(Entering(i)) <= triggers
    BY FS_CardinalityType DEF TypeInv, Budget, IInv, Shape
  <2>1. t \notin Entering(i)
    BY <1>2 DEF Entering
  <2>2. CASE where = "load" /\ i = j
    <3>1. Entering(i)' \subseteq Entering(i) \cup {t}
      BY <1>1 DEF Entering
    <3>2. IsFiniteSet(Entering(i) \cup {t})
          /\ Cardinality(Entering(i) \cup {t}) = Cardinality(Entering(i)) + 1
      BY <2>0, <2>1, FS_AddElement
    <3>3. IsFiniteSet(Entering(i)')
          /\ Cardinality(Entering(i)') <= Cardinality(Entering(i) \cup {t})
      BY <3>1, <3>2, FS_Subset
    <3>4. Cardinality(Entering(i)') \in Nat
      BY <3>3, FS_CardinalityType
    <3>5. QED
      BY <2>0, <2>2, <3>2, <3>3, <3>4 DEF Budget
  <2>3. CASE ~ (where = "load" /\ i = j)
    <3>1. Entering(i)' \subseteq Entering(i)
      BY <1>1, <2>3 DEF Entering
    <3>2. IsFiniteSet(Entering(i)')
          /\ Cardinality(Entering(i)') <= Cardinality(Entering(i))
      BY <2>0, <3>1, FS_Subset
    <3>3. Cardinality(Entering(i)') \in Nat /\ triggers' >= triggers /\ triggers' \in Nat
      BY <1>3, <2>0, <3>2, FS_CardinalityType
    <3>4. QED
      BY <2>0, <3>2, <3>3 DEF Budget
  <2>4. QED
    BY <2>2, <2>3
<1>5. OneTimer'
  <2>1. \A o \in Tasks \ {t} : task[o] # Idle /\ task[o].job = j => o \in On(j)
    BY DEF On
  <2>2. QED
    BY <1>1, <2>1 DEF TypeInv, OneTimer
<1>6. QED
  BY <1>3, <1>4, <1>5 DEF TypeInv

\* A trigger enters its run.
LEMMA MarkTyped ==
  ASSUME IInv, TypeInv, NEW t \in Tasks, Mark(t)
  PROVE  TypeInv'
<1>1. PICK j \in Jobs : task[t] # Idle /\ task[t] \in Work /\ j = task[t].job
  BY DEF Mark, At, Idle, IInv, Shape, Work
<1>2. /\ \A o \in Tasks \ {t} : task'[o] = task[o]
      /\ task'[t] = Idle \/ /\ task'[t].at = "run" /\ task'[t].job = j
                            /\ task'[t].timed = task[t].timed
  <2>1. CASE Goes(t, "run")
    BY <1>1, <2>1 DEF Goes, IInv, Shape, Work
  <2>2. CASE Ends(t)
    BY <2>2 DEF Ends, IInv, Shape
  <2>3. QED
    BY <2>1, <2>2 DEF Mark
<1>3. /\ UNCHANGED <<registered, triggers>>
      /\ marked' = [marked EXCEPT ![j] = IF There(j) THEN @ + 1 ELSE @]
  BY <1>1 DEF Mark, bounds
<1>4. ASSUME NEW i \in Jobs
      PROVE  row'[i].cap \in Caps \cup {0, Unlimited}
  BY <1>1 DEF Mark, Updates, TypeInv, IInv, Shape, RowState
<1>5. ASSUME NEW i \in Jobs
      PROVE  Budget(i)'
  <2>0. /\ IsFiniteSet(Entering(i)) /\ Cardinality(Entering(i)) \in Nat
        /\ marked[i] \in Nat /\ triggers \in Nat
        /\ marked[i] + Cardinality(Entering(i)) <= triggers
    BY FS_CardinalityType DEF TypeInv, Budget, IInv, Shape
  <2>1. CASE i = j
    <3>1. t \in Entering(j) /\ Entering(j)' \subseteq Entering(j) \ {t}
      BY <1>1, <1>2 DEF Entering, Mark, At
    <3>2. IsFiniteSet(Entering(j) \ {t})
          /\ Cardinality(Entering(j) \ {t}) = Cardinality(Entering(j)) - 1
      BY <2>0, <2>1, <3>1, FS_RemoveElement
    <3>3. IsFiniteSet(Entering(j)')
          /\ Cardinality(Entering(j)') <= Cardinality(Entering(j) \ {t})
      BY <3>1, <3>2, FS_Subset
    <3>4. Cardinality(Entering(j)') \in Nat
      BY <3>3, FS_CardinalityType
    <3>5. marked'[j] <= marked[j] + 1 /\ marked'[j] \in Nat
      BY <1>3, <2>0, <2>1 DEF IInv, Shape
    <3>6. QED
      BY <1>3, <2>0, <2>1, <3>2, <3>3, <3>4, <3>5 DEF Budget
  <2>2. CASE i # j
    <3>1. Entering(i)' \subseteq Entering(i) /\ marked'[i] = marked[i]
      BY <1>1, <1>2, <1>3, <2>2 DEF Entering, IInv, Shape
    <3>2. IsFiniteSet(Entering(i)')
          /\ Cardinality(Entering(i)') <= Cardinality(Entering(i))
      BY <2>0, <3>1, FS_Subset
    <3>3. Cardinality(Entering(i)') \in Nat
      BY <3>2, FS_CardinalityType
    <3>4. QED
      BY <1>3, <2>0, <3>1, <3>2, <3>3 DEF Budget
  <2>3. QED
    BY <2>1, <2>2
<1>6. OneTimer'
  BY <1>1, <1>2 DEF TypeInv, OneTimer
<1>7. QED
  BY <1>3, <1>4, <1>5, <1>6 DEF TypeInv

LEMMA TypesStep ==
  ASSUME IInv, TypeInv, [Next]_vars
  PROVE  TypeInv'
<1>1. ASSUME NEW t \in Tasks, NEW j \in Jobs, NEW cap \in Caps \cup {Unlimited},
             Create(t, j, cap)
      PROVE  TypeInv'
  <2>1. "schedule" \in Places
    BY DEF Places, Changing
  <2>2. \A i \in Jobs : row'[i].cap \in Caps \cup {0, Unlimited}
    BY <1>1 DEF Create, IInv, Shape, RowState, TypeInv
  <2>3. QED
    BY <1>1, <2>1, <2>2, BeginsTyped DEF Create, bounds
<1>2. ASSUME NEW t \in Tasks, NEW j \in Jobs,
             NEW op \in {"pause", "resume", "delete", "recap", "load"}, Lookup(t, j, op)
      PROVE  TypeInv'
  <2>1. op \in Places
    BY DEF Places, Changing
  <2>2. \A i \in Jobs : row'[i].cap \in Caps \cup {0, Unlimited}
    BY <1>2 DEF Lookup, TypeInv
  <2>3. QED
    BY <1>2, <2>1, <2>2, BeginsTyped DEF Lookup
<1>3. ASSUME NEW t \in Tasks, NEW j \in Jobs, Fire(t, j)
      PROVE  TypeInv'
  <2>1. "load" \in Places
    BY DEF Places
  <2>2. \A i \in Jobs : row'[i].cap \in Caps \cup {0, Unlimited}
    BY <1>3 DEF Fire, TypeInv
  <2>3. QED
    BY <1>3, <2>1, <2>2, BeginsTyped DEF Fire, history
<1>4. ASSUME NEW t \in Tasks, Mark(t)
      PROVE  TypeInv'
  BY <1>4, MarkTyped
<1>5. ASSUME NEW t \in Tasks,
             \/ Pause(t) \/ Resume(t) \/ Delete(t) \/ Erase(t) \/ Schedule(t)
             \/ Unschedule(t) \/ (\E cap \in Caps : Recap(t, cap)) \/ LoadRun(t)
             \/ LoadCapped(t) \/ LoadNothing(t) \/ Deactivate(t)
             \/ (\E got \in {"success", "failed"} : RunMission(t, got))
             \/ Report(t) \/ Fail(t)
      PROVE  TypeInv'
  <2>1. PICK j \in Jobs : task[t] # Idle /\ task[t] \in Work /\ j = task[t].job
    <3>1. ~ At(t, "idle")
      BY <1>5 DEF Pause, Resume, Delete, Erase, Schedule, Unschedule, Recap, LoadRun,
         LoadCapped, LoadNothing, Deactivate, RunMission, Report, Fail, At
    <3>2. task[t] # Idle /\ task[t] \in Work
      BY <3>1 DEF At, Idle, IInv, Shape
    <3>3. QED
      BY <3>2 DEF Work
  <2>2. UNCHANGED <<marked, triggers>> /\ registered' \subseteq Jobs
    BY <1>5, <2>1 DEF Pause, Resume, Delete, Erase, Schedule, Unschedule, Recap, LoadRun,
       LoadCapped, LoadNothing, Deactivate, RunMission, Report, Fail, bounds, history,
       TypeInv
  <2>3. ASSUME NEW i \in Jobs
        PROVE  row'[i].cap \in Caps \cup {0, Unlimited}
    <3>1. CASE UNCHANGED row
      BY <3>1 DEF TypeInv
    <3>2. CASE Erase(t)
      BY <2>1, <3>2 DEF Erase, TypeInv, IInv, Shape, RowState
    <3>3. ASSUME NEW cap \in Caps, Recap(t, cap)
          PROVE  row'[i].cap \in Caps \cup {0, Unlimited}
      BY <2>1, <3>3 DEF Recap, Updates, TypeInv, IInv, Shape, RowState
    <3>4. CASE Pause(t) \/ Resume(t) \/ Deactivate(t) \/ Report(t)
      <4>1. PICK new : Updates(j, new) /\ new.cap = row[j].cap
        BY <2>1, <3>4 DEF Pause, Resume, Deactivate, Report, IInv, Shape, RowState
      <4>2. QED
        BY <4>1 DEF Updates, TypeInv, IInv, Shape
    <3>5. QED
      BY <1>5, <3>1, <3>2, <3>3, <3>4 DEF Delete, Schedule, Unschedule, LoadRun,
         LoadCapped, LoadNothing, RunMission, Fail
  <2>4. /\ \A o \in Tasks \ {t} : task'[o] = task[o]
        /\ Carries(t)
    <3>1. CASE Ends(t)
      BY <3>1 DEF Ends, IInv, Shape, Carries
    <3>2. ASSUME NEW where \in Changing, Goes(t, where)
          PROVE  /\ \A o \in Tasks \ {t} : task'[o] = task[o]
                 /\ Carries(t)
      BY <2>1, <3>2 DEF Goes, IInv, Shape, Work, Carries, Changing
    <3>3. CASE LoadRun(t)
      BY <2>1, <3>3 DEF LoadRun, IInv, Shape, Work, Carries, At
    <3>4. ASSUME NEW got, RunMission(t, got)
          PROVE  /\ \A o \in Tasks \ {t} : task'[o] = task[o]
                 /\ Carries(t)
      BY <2>1, <3>4 DEF RunMission, IInv, Shape, Work, Carries, At
    <3>5. CASE task' = [task EXCEPT ![t].result = "failed"]
      BY <2>1, <3>5 DEF IInv, Shape, Work, Carries
    <3>6. QED
      BY <1>5, <3>1, <3>2, <3>3, <3>4, <3>5 DEF Pause, Resume, Delete, Erase, Schedule,
         Unschedule, Recap, LoadCapped, LoadNothing, Deactivate, Report, Fail, Changing
  <2>5. \A o \in Tasks : Carries(o)
    BY <2>4 DEF Carries
  <2>6. QED
    BY <2>2, <2>3, <2>5, CarriesOn DEF IInv
<1>6. CASE Restart
  <2>1. \A o \in Tasks : Carries(o)
    BY <1>6 DEF Restart, Carries
  <2>2. /\ UNCHANGED <<marked, triggers>> /\ registered' \subseteq Jobs
        /\ \A i \in Jobs : row'[i].cap \in Caps \cup {0, Unlimited}
    BY <1>6 DEF Restart, Reloaded, TypeInv
  <2>3. QED
    BY <2>1, <2>2, CarriesOn DEF IInv
<1>7. CASE UNCHANGED vars
  <2>1. /\ \A o \in Tasks : Carries(o)
        /\ UNCHANGED <<marked, triggers>> /\ registered' \subseteq Jobs
        /\ \A i \in Jobs : row'[i].cap \in Caps \cup {0, Unlimited}
    BY <1>7 DEF vars, bounds, history, Carries, TypeInv
  <2>2. QED
    BY <2>1, CarriesOn DEF IInv
<1>8. QED
  BY <1>1, <1>2, <1>3, <1>4, <1>5, <1>6, <1>7 DEF Next, Proceed

LEMMA InitTypes == Init => TypeInv
<1> SUFFICES ASSUME Init
             PROVE  TypeInv
  OBVIOUS
<1>1. ASSUME NEW j \in Jobs
      PROVE  Budget(j)
  <2>1. Entering(j) = {}
    BY DEF Init, Entering
  <2>2. QED
    BY <2>1, FS_EmptySet DEF Init, Budget
<1>2. QED
  BY <1>1, SchedulerAssumption DEF Init, NoRow, TypeInv, OneTimer

LEMMA TypesFollow ==
  ASSUME IInv, TypeInv
  PROVE  TypeOK
<1>1. ASSUME NEW j \in Jobs
      PROVE  marked[j] \in 0 .. MaxTriggers /\ row[j].count \in 0 .. MaxTriggers
  <2>1. Cardinality(Entering(j)) \in Nat
    BY FS_CardinalityType DEF TypeInv, Budget
  <2>2. marked[j] \in Nat /\ row[j].count \in Nat /\ row[j].count <= marked[j]
    BY DEF IInv, Shape, RowState, CountIsTheRuns
  <2>3. QED
    BY <2>1, <2>2, SchedulerAssumption DEF TypeInv, Budget
<1>2. row \in [Jobs -> [at : {"new", "there", "gone"}, active : BOOLEAN,
                        cap : Caps \cup {0, Unlimited}, count : 0 .. MaxTriggers,
                        last : {"none", "running", "success", "failed"}]]
  BY <1>1 DEF IInv, Shape, RowState, TypeInv
<1>3. ASSUME NEW t \in Tasks, task[t] # Idle
      PROVE  /\ task[t].at \in Changing \cup {"recap", "load", "mark", "run", "report"}
             /\ task[t].job \in Jobs /\ row[task[t].job].at # "new"
  BY <1>3 DEF IInv, Shape, Work, Places, FreshInv
<1>4. QED
  BY <1>1, <1>2, <1>3 DEF TypeOK, TypeInv, OneTimer

--------------------------------------------------------------------------------
(* The run of a workforce, Workforce.                                          *)

\* The dependencies are resolved before the sub-mission they belong to.
PlanIs == \E k \in 0 .. MaxSubs : deps \in [1 .. k -> SUBSET (1 .. k)]
LooksBack == \A s \in W!Subs : \A d \in deps[s] : d <= s

\* The sub-missions, apart from the number of those completed.
WorkShape ==
  /\ status \in {"planning", "running", "aggregating", "completed",
                 "partially_failed", "failed"}
  /\ PlanIs
  /\ sub \in [W!Subs -> {"pending", "skipped"} \cup W!Begun]
  /\ tries \in [W!Subs -> 0 .. MaxRetries + 1]
  /\ result \in [W!Subs -> BOOLEAN] /\ context \in [W!Subs -> SUBSET W!Subs]
  /\ wave \subseteq W!Subs /\ ended \subseteq W!Subs

\* What has begun is in the wave or over; a wave runs only while the run does.
WaveInv ==
  /\ wave \cap ended = {}
  /\ status # "running" => wave = {}
  /\ status = "planning" => W!Subs = {}
  /\ \A s \in W!Subs : sub[s] \in W!Begun => s \in wave \cup ended
  /\ \A s \in ended : sub[s] \in W!Over
  /\ \A s \in wave : sub[s] \in {"pending"} \cup W!Begun
  /\ \A s \in W!Subs : sub[s] = "skipped" =>
       W!Knotted(s) /\ status \notin {"planning", "running"}

\* Each was dispatched when what it depends on was over, with its results.
GivenInv ==
  \A s \in wave \cup ended :
    /\ deps[s] \subseteq ended
    /\ context[s] \subseteq ended
    /\ \A d \in deps[s] : result[d] => d \in context[s]

TriedInv == \A s \in W!Subs : sub[s] = "failed" <=> tries[s] = MaxRetries + 1
CostInv == cost = Cardinality({s \in W!Subs : sub[s] = "completed"})

WorkInv == WorkShape /\ LooksBack /\ WaveInv /\ GivenInv /\ TriedInv /\ CostInv

\* What of the invariant depends on the plan alone.
LEMMA PlanStays ==
  ASSUME deps' = deps
  PROVE  /\ W!Subs' = W!Subs /\ PlanIs' = PlanIs /\ LooksBack' = LooksBack
         /\ \A s : W!Knotted(s)' <=> W!Knotted(s)
  BY DEF W!Subs, PlanIs, LooksBack, W!Knotted

LEMMA SubsAre ==
  ASSUME PlanIs
  PROVE  /\ W!Subs \subseteq Nat /\ IsFiniteSet(W!Subs)
         /\ deps \in [W!Subs -> SUBSET W!Subs]
<1>1. PICK k \in 0 .. MaxSubs : deps \in [1 .. k -> SUBSET (1 .. k)]
  BY DEF PlanIs
<1>2. W!Subs = 1 .. k /\ k \in Int /\ 1 \in Int
  BY <1>1, PartsAssumption DEF W!Subs, W!WorkforceAssumption
<1>3. QED
  BY <1>1, <1>2, FS_Interval

\* The plan of the model, or the default one.
LEMMA PlansStep ==
  ASSUME WorkInv, status = "planning", NEW k \in 0 .. MaxSubs,
         NEW raw \in [1 .. k -> SUBSET (1 .. k)], W!Plans(k, raw)
  PROVE  WorkInv'
<1> USE PartsAssumption DEF W!WorkforceAssumption, WorkInv
<1>1. /\ deps' = [i \in 1 .. k |-> raw[i] \cap 1 .. i] /\ W!Subs' = 1 .. k
      /\ \A i \in 1 .. k : deps'[i] \in SUBSET (1 .. k)
  BY DEF W!Plans, W!Resolves, W!Subs
<1>2. wave' = {} /\ ended' = {} /\ cost' = cost /\ cost = 0 /\ status' = "running"
  <2>1. W!Subs = {}
    BY DEF WaveInv
  <2>2. {s \in W!Subs : sub[s] = "completed"} = {}
    BY <2>1
  <2>3. QED
    BY <2>1, <2>2, FS_EmptySet DEF W!Plans, WaveInv, WorkShape, CostInv
<1>3. /\ sub' = [i \in 1 .. k |-> "pending"] /\ tries' = [i \in 1 .. k |-> 0]
      /\ result' = [i \in 1 .. k |-> FALSE] /\ context' = [i \in 1 .. k |-> {}]
  BY DEF W!Plans
<1>4. WorkShape'
  BY <1>1, <1>2, <1>3 DEF WorkShape, PlanIs
<1>5. LooksBack'
  BY <1>1 DEF LooksBack
<1>6. WaveInv' /\ GivenInv' /\ TriedInv'
  BY <1>1, <1>2, <1>3 DEF WaveInv, GivenInv, TriedInv, W!Begun
<1>7. CostInv'
  <2>1. {s \in W!Subs : sub[s] = "completed"}' = {}
    BY <1>1, <1>3
  <2>2. QED
    BY <1>2, <2>1, FS_EmptySet DEF CostInv
<1>8. QED
  BY <1>4, <1>5, <1>6, <1>7

\* A wave is dispatched with what is over.
LEMMA DispatchStep ==
  ASSUME WorkInv, W!Dispatch
  PROVE  WorkInv'
<1> USE DEF WorkInv
<1>1. /\ deps' = deps /\ UNCHANGED <<status, ended, sub, tries, result, cost>>
      /\ wave = {} /\ status = "running" /\ wave' = W!Ready
      /\ context' = [s \in W!Subs |->
           IF s \in W!Ready THEN {e \in ended : result[e]} ELSE context[s]]
  BY DEF W!Dispatch
<1>2. /\ W!Subs' = W!Subs /\ PlanIs' /\ LooksBack'
      /\ \A s : W!Knotted(s)' <=> W!Knotted(s)
  BY <1>1, PlanStays DEF WorkShape
<1>3. /\ W!Ready \subseteq W!Subs /\ W!Ready \cap ended = {}
      /\ \A s \in W!Ready : deps[s] \subseteq ended
  BY DEF W!Ready, W!Pending
<1>4. ended \subseteq W!Subs
  BY DEF WorkShape
<1>5. WorkShape'
  <2>1. {e \in ended : result[e]} \in SUBSET W!Subs
    BY <1>4
  <2>2. context' \in [W!Subs -> SUBSET W!Subs]
    BY <1>1, <2>1 DEF WorkShape
  <2>3. QED
    BY <1>1, <1>2, <1>3, <2>2 DEF WorkShape
<1>6. WaveInv'
  <2>1. \A s \in W!Ready : sub[s] \notin W!Begun
    BY <1>1, <1>3 DEF WaveInv
  <2>2. \A s \in W!Ready : sub[s] # "skipped"
    BY <1>1, <1>3 DEF WaveInv
  <2>3. QED
    BY <1>1, <1>2, <1>3, <2>1, <2>2 DEF WaveInv, WorkShape
<1>7. GivenInv'
  <2>1. \A s \in W!Ready : context'[s] = {e \in ended : result[e]}
    BY <1>1, <1>3
  <2>2. \A s \in ended : context'[s] = context[s]
    BY <1>1, <1>3, <1>4
  <2>3. QED
    BY <1>1, <1>3, <2>1, <2>2 DEF GivenInv
<1>8. TriedInv' /\ CostInv'
  BY <1>1, <1>2 DEF TriedInv, CostInv
<1>9. QED
  BY <1>2, <1>5, <1>6, <1>7, <1>8

\* A set of numbers has a least one (what induction over them comes down to).
LEMMA LeastOf ==
  ASSUME NEW S, S \subseteq Nat, S # {}
  PROVE  \E m \in S : \A x \in S : m <= x
<1> DEFINE Less == OpToRel(<, Nat)
<1>1. PICK m \in S : \A x \in S : <<x, m>> \notin Less
  <2> HIDE DEF Less
  <2>1. IsWellFoundedOn(Less, Nat)
    BY NatLessThanWellFounded DEF Less
  <2>2. QED
    BY <2>1, WFMin
<1>2. \A x \in S : ~ (x < m)
  BY <1>1 DEF OpToRel
<1>3. QED
  BY <1>2

\* Where nothing is ready, what is left waits for one that names itself: the first
\* of any that needed none would be ready.
LEMMA NoneReady ==
  ASSUME WorkInv, W!Ready = {}, NEW s \in W!Pending
  PROVE  W!Knotted(s)
<1>1. SUFFICES ASSUME NEW S \in SUBSET W!Subs, s \in S, \A m \in S : deps[m] \subseteq S
               PROVE  \E m \in S : m \in deps[m]
  BY DEF W!Knotted
<1>2. S \cap W!Pending # {} /\ S \cap W!Pending \subseteq Nat
  BY <1>1, SubsAre DEF WorkInv, WorkShape, W!Pending
<1>3. PICK m \in S \cap W!Pending : \A x \in S \cap W!Pending : m <= x
  BY <1>2, LeastOf
<1>4. PICK d \in deps[m] : d \notin ended
  BY <1>3 DEF W!Ready
<1>5. d \in S \cap W!Pending /\ m \in W!Subs
  BY <1>1, <1>3, <1>4 DEF W!Pending
<1>6. d <= m /\ m <= d /\ d \in Nat /\ m \in Nat
  BY <1>2, <1>3, <1>4, <1>5 DEF WorkInv, LooksBack
<1>7. QED
  BY <1>1, <1>3, <1>4, <1>6

LEMMA SkipStep ==
  ASSUME WorkInv, W!Skip
  PROVE  WorkInv'
<1> USE DEF WorkInv
<1>1. /\ deps' = deps /\ UNCHANGED <<wave, ended, tries, result, context, cost>>
      /\ wave = {} /\ status' = "aggregating" /\ W!Ready = {}
      /\ sub' = [s \in W!Subs |-> IF s \in W!Pending THEN "skipped" ELSE sub[s]]
  BY DEF W!Skip
<1>2. /\ W!Subs' = W!Subs /\ PlanIs' /\ LooksBack'
      /\ \A s : W!Knotted(s)' <=> W!Knotted(s)
  BY <1>1, PlanStays DEF WorkShape
<1>3. \A s \in W!Subs : s \in W!Pending <=> s \notin ended
  BY DEF W!Pending
<1>4. \A s \in W!Pending : sub[s] \notin W!Begun /\ s \in W!Subs
  BY <1>1, <1>3 DEF WaveInv, W!Pending
<1>5. WorkShape'
  BY <1>1, <1>2 DEF WorkShape
<1>6. WaveInv'
  <2>1. \A s \in W!Subs : sub'[s] = "skipped" => W!Knotted(s)
    BY <1>1, NoneReady DEF WaveInv
  <2>2. \A s \in W!Subs : sub'[s] \in W!Begun => s \in ended
    BY <1>1, <1>3 DEF W!Begun
  <2>3. \A s \in ended : sub'[s] = sub[s]
    BY <1>1, <1>3 DEF WorkShape
  <2>4. QED
    BY <1>1, <1>2, <2>1, <2>2, <2>3 DEF WaveInv
<1>7. GivenInv'
  BY <1>1 DEF GivenInv
<1>8. TriedInv'
  BY <1>1, <1>2, <1>4 DEF TriedInv, W!Begun
<1>9. CostInv'
  <2>1. {s \in W!Subs : sub[s] = "completed"}' = {s \in W!Subs : sub[s] = "completed"}
    BY <1>1, <1>2, <1>4 DEF W!Begun
  <2>2. QED
    BY <1>1, <2>1 DEF CostInv
<1>10. QED
  BY <1>2, <1>5, <1>6, <1>7, <1>8, <1>9

\* The status moves on, and gather returns: no sub-mission changes.
LEMMA CalmWork ==
  ASSUME WorkInv, UNCHANGED <<deps, sub, tries, result, context, cost>>,
         \/ UNCHANGED <<status, wave, ended>>
         \/ /\ wave = {} /\ status # "planning" /\ UNCHANGED <<wave, ended>>
            /\ status' \in {"aggregating", "completed", "partially_failed", "failed"}
         \/ status = "planning" /\ status' = "failed" /\ UNCHANGED <<wave, ended>>
         \/ W!EndWave
  PROVE  WorkInv'
<1> USE DEF WorkInv
<1>1. /\ W!Subs' = W!Subs /\ PlanIs' /\ LooksBack'
      /\ \A s : W!Knotted(s)' <=> W!Knotted(s)
  BY PlanStays DEF WorkShape
<1>2. /\ wave' \subseteq wave /\ ended \subseteq ended'
      /\ wave' \cup ended' = wave \cup ended
      /\ wave' \cap ended' = {}
      /\ \A s \in ended' : sub[s] \in W!Over
  BY DEF W!EndWave, WaveInv
<1>3. /\ status' # "running" => wave' = {}
      /\ status' = "planning" => status = "planning"
      /\ status' = "running" => status = "running"
      /\ status' \in {"planning", "running", "aggregating", "completed",
                       "partially_failed", "failed"}
  BY DEF W!EndWave, WaveInv, WorkShape
<1>4. WorkShape'
  BY <1>1, <1>2, <1>3 DEF WorkShape
<1>5. WaveInv'
  BY <1>1, <1>2, <1>3 DEF WaveInv
<1>6. GivenInv'
  BY <1>2 DEF GivenInv
<1>7. TriedInv' /\ CostInv'
  BY <1>1 DEF TriedInv, CostInv
<1>8. QED
  BY <1>1, <1>4, <1>5, <1>6, <1>7

\* A task of the wave begins, or an attempt of its ends.
LEMMA TaskStep ==
  ASSUME WorkInv, NEW s \in W!Subs, W!Work(s)
  PROVE  WorkInv'
<1> USE DEF WorkInv
<1>1. /\ s \in wave /\ s \notin ended
      /\ UNCHANGED <<status, deps, wave, ended, context>>
  BY DEF W!Work, W!Begin, W!Attempt, W!Succeeds, W!Retries, W!run, WaveInv
<1>2. /\ W!Subs' = W!Subs /\ PlanIs' /\ LooksBack'
      /\ \A x : W!Knotted(x)' <=> W!Knotted(x)
  BY <1>1, PlanStays DEF WorkShape
<1>3. sub[s] \in {"pending", "running", "retrying"}
  BY DEF W!Work, W!Begin, W!Attempt
<1>4. PICK new \in W!Begun : sub' = [sub EXCEPT ![s] = new]
  BY DEF W!Work, W!Begin, W!Attempt, W!Succeeds, W!Retries, W!Begun
<1>5. /\ sub'[s] = new /\ \A x \in W!Subs \ {s} : sub'[x] = sub[x]
      /\ sub' \in [W!Subs -> {"pending", "skipped"} \cup W!Begun]
  BY <1>4 DEF WorkShape
<1>6. /\ result' \in [W!Subs -> BOOLEAN]
      /\ \A x \in W!Subs \ {s} : result'[x] = result[x]
  <2>1. \A output \in BOOLEAN : W!KeepsResult(s, output) =>
          /\ result' \in [W!Subs -> BOOLEAN]
          /\ \A x \in W!Subs \ {s} : result'[x] = result[x]
    BY DEF W!KeepsResult, WorkShape
  <2>2. CASE UNCHANGED result
    BY <2>2 DEF WorkShape
  <2>3. QED
    BY <2>1, <2>2 DEF W!Work, W!Begin, W!Attempt, W!Succeeds, W!Retries
<1>7. /\ tries' \in [W!Subs -> 0 .. MaxRetries + 1]
      /\ TriedInv'
  <2>1. tries[s] \in 0 .. MaxRetries /\ MaxRetries \in Nat
    BY <1>3, PartsAssumption DEF W!WorkforceAssumption, TriedInv, WorkShape
  <2>2. CASE UNCHANGED tries /\ new # "failed"
    BY <1>2, <1>3, <1>5, <2>2 DEF TriedInv, WorkShape
  <2>3. CASE W!Retries(s)
    <3>1. tries' = [tries EXCEPT ![s] = tries[s] + 1]
      BY <2>3 DEF W!Retries, WorkShape
    <3>2. tries' \in [W!Subs -> 0 .. MaxRetries + 1] /\ tries'[s] = tries[s] + 1
          /\ \A x \in W!Subs \ {s} : tries'[x] = tries[x]
      BY <2>1, <3>1 DEF WorkShape
    <3>3. sub'[s] = IF tries'[s] <= MaxRetries THEN "retrying" ELSE "failed"
      BY <2>3 DEF W!Retries, WorkShape
    <3>4. sub'[s] = "failed" <=> tries'[s] = MaxRetries + 1
      BY <2>1, <3>2, <3>3
    <3>5. QED
      BY <1>2, <1>5, <3>2, <3>4 DEF TriedInv
  <2>4. QED
    BY <1>5, <2>2, <2>3 DEF W!Work, W!Begin, W!Attempt, W!Succeeds, WorkShape
<1>8. WorkShape'
  BY <1>1, <1>2, <1>5, <1>6, <1>7 DEF WorkShape
<1>9. WaveInv'
  <2>1. \A x \in ended : x # s /\ x \in W!Subs
    BY <1>1 DEF WorkShape
  <2>2. new \in W!Begun /\ new # "skipped"
    BY <1>4 DEF W!Begun
  <2>3. QED
    BY <1>1, <1>2, <1>5, <2>1, <2>2 DEF WaveInv, WorkShape
<1>10. GivenInv'
  BY <1>1, <1>6 DEF GivenInv, WorkShape
<1>11. CostInv'
  <2> DEFINE Done == {x \in W!Subs : sub[x] = "completed"}
  <2>1. IsFiniteSet(Done) /\ s \notin Done /\ cost = Cardinality(Done)
    BY <1>3, SubsAre, FS_Subset DEF WorkShape, CostInv
  <2>2. CASE new = "completed"
    <3>1. Done' = Done \cup {s}
      BY <1>2, <1>5, <2>2
    <3>2. cost' = cost + 1
      BY <1>5, <2>2 DEF W!Work, W!Begin, W!Attempt, W!Succeeds, W!Retries, WorkShape
    <3>3. Cardinality(Done \cup {s}) = Cardinality(Done) + 1
      BY <2>1, FS_AddElement
    <3>4. QED
      BY <2>1, <3>1, <3>2, <3>3 DEF CostInv
  <2>3. CASE new # "completed"
    <3>1. Done' = Done
      BY <1>2, <1>3, <1>5, <2>3
    <3>2. cost' = cost
      BY <1>5, <2>3 DEF W!Work, W!Begin, W!Attempt, W!Succeeds, W!Retries, WorkShape
    <3>3. QED
      BY <2>1, <3>1, <3>2 DEF CostInv
  <2>4. QED
    BY <2>2, <2>3
<1>12. QED
  BY <1>2, <1>7, <1>8, <1>9, <1>10, <1>11

LEMMA WorkStep ==
  ASSUME WorkInv, W!Next
  PROVE  WorkInv'
<1> USE PartsAssumption DEF W!WorkforceAssumption
<1>1. CASE W!PlanByModel
  BY <1>1, PlansStep DEF W!PlanByModel
<1>2. CASE W!PlanByDefault
  <2>1. Roles \in 0 .. MaxSubs /\ [i \in 1 .. Roles |-> {}] \in [1 .. Roles -> SUBSET (1 .. Roles)]
    OBVIOUS
  <2>2. QED
    BY <1>2, <2>1, PlansStep DEF W!PlanByDefault
<1>3. CASE W!PlanFails \/ W!Finish \/ W!EndWave
  BY <1>3, CalmWork DEF W!PlanFails, W!Finish, W!EndWave, W!own
<1>4. CASE W!Aggregate \/ W!AggregateFails
  <2>1. wave = {} /\ status = "aggregating"
    BY <1>4 DEF W!Aggregate, W!AggregateFails, WorkInv, WaveInv
  <2>2. status' \in {"completed", "partially_failed", "failed"}
    BY <1>4 DEF W!Aggregate, W!AggregateFails
  <2>3. UNCHANGED <<deps, sub, tries, result, context, cost, wave, ended>>
    BY <1>4 DEF W!Aggregate, W!AggregateFails, W!own
  <2>4. QED
    BY <2>1, <2>2, <2>3, CalmWork
<1>5. ASSUME NEW s \in 1 .. MaxSubs, s \in W!Subs, W!Work(s)
      PROVE  WorkInv'
  BY <1>5, TaskStep
<1>6. QED
  BY <1>1, <1>2, <1>3, <1>4, <1>5, DispatchStep, SkipStep DEF W!Next, W!Coordinate

LEMMA InitWork == W!Init => WorkInv
<1> SUFFICES ASSUME W!Init
             PROVE  WorkInv
  OBVIOUS
<1> USE PartsAssumption DEF W!WorkforceAssumption, W!Init
<1>1. deps \in [1 .. 0 -> SUBSET (1 .. 0)] /\ W!Subs = {}
  BY DEF W!Subs
<1>2. WorkShape
  BY <1>1 DEF WorkShape, PlanIs
<1>3. LooksBack /\ WaveInv /\ GivenInv /\ TriedInv
  BY <1>1 DEF LooksBack, WaveInv, GivenInv, TriedInv
<1>4. CostInv
  <2>1. {s \in W!Subs : sub[s] = "completed"} = {}
    BY <1>1
  <2>2. QED
    BY <2>1, FS_EmptySet DEF CostInv
<1>5. QED
  BY <1>2, <1>3, <1>4 DEF WorkInv

\* Workforce's own name of the operator.
LEMMA SameCardinality == \A S : W!Cardinality(S) = Cardinality(S)
  BY DEF W!Cardinality, Cardinality

LEMMA WorkMeans ==
  ASSUME WorkInv
  PROVE  W!TypeOK /\ W!SeesItsDependencies /\ W!SkipsOnlyKnots
<1> USE DEF WorkInv
<1>1. W!TypeOK
  <2>1. \E k \in 0 .. MaxSubs : deps \in [1 .. k -> SUBSET (1 .. k)]
    BY DEF WorkShape, PlanIs
  <2>2. /\ \A s \in W!Subs : sub[s] = "failed" <=> tries[s] = MaxRetries + 1
        /\ cost = Cardinality({s \in W!Subs : sub[s] = "completed"})
    BY DEF TriedInv, CostInv
  <2>3. /\ sub \in [W!Subs -> {"pending", "skipped"} \cup W!Begun]
        /\ tries \in [W!Subs -> 0 .. MaxRetries + 1]
        /\ result \in [W!Subs -> BOOLEAN] /\ context \in [W!Subs -> SUBSET W!Subs]
        /\ wave \subseteq W!Subs /\ ended \subseteq W!Subs /\ wave \cap ended = {}
        /\ status \in {"planning", "running", "aggregating", "completed",
                       "partially_failed", "failed"}
    BY DEF WorkShape, WaveInv
  <2>4. QED
    BY <2>1, <2>2, <2>3, SameCardinality DEF W!TypeOK
<1>2. W!SeesItsDependencies
  <2>1. SUFFICES ASSUME NEW s \in W!Subs, sub[s] \in W!Begun
                 PROVE  /\ \A d \in deps[s] : sub[d] \in W!Over
                        /\ \A d \in deps[s] : result[d] => d \in context[s]
                        /\ context[s] \cap wave = {}
    BY DEF W!SeesItsDependencies
  <2>2. s \in wave \cup ended
    BY <2>1 DEF WaveInv
  <2>3. QED
    BY <2>2 DEF GivenInv, WaveInv
<1>3. W!SkipsOnlyKnots
  BY DEF W!SkipsOnlyKnots, WaveInv
<1>4. QED
  BY <1>1, <1>2, <1>3

--------------------------------------------------------------------------------
(* Both, side by side.                                                         *)

\* Every job, trigger and count of SchedulerService keeps its type: a timer does
\* not overtake itself, and no run is entered that was not triggered.
THEOREM SchedulerTypes == Spec => []TypeOK
<1>1. IInv /\ TypeInv /\ [Next]_vars => (IInv /\ TypeInv)'
  BY IInvStep, TypesStep
<1>2. IInv /\ TypeInv => TypeOK
  BY TypesFollow
<1>3. QED
  BY InitIInv, InitTypes, <1>1, <1>2, PTL DEF Spec

AllInv == part \in Parts /\ IInv /\ TypeInv /\ WorkInv

LEMMA AllInvHolds == SpecAll => []AllInv
<1>1. InitAll => AllInv
  BY InitIInv, InitTypes, InitWork DEF InitAll, AllInv
<1>2. ASSUME AllInv, [NextAll]_<<part, vars, workVars>>
      PROVE  AllInv'
  <2>1. ASSUME UNCHANGED workVars
        PROVE  WorkInv'
    <3>1. UNCHANGED <<status, deps, sub, tries, result, context, wave, ended, cost>>
      BY <2>1 DEF workVars
    <3>2. QED
      BY <1>2, <3>1, CalmWork DEF AllInv
  <2>2. ASSUME UNCHANGED vars
        PROVE  IInv' /\ TypeInv'
    BY <1>2, <2>2, IInvStep, TypesStep DEF AllInv
  <2>3. CASE part = "scheduler" /\ Next /\ UNCHANGED <<part, workVars>>
    BY <1>2, <2>1, <2>3, IInvStep, TypesStep DEF AllInv
  <2>4. CASE part = "workforce" /\ W!Next /\ UNCHANGED <<part, vars>>
    BY <1>2, <2>2, <2>4, WorkStep DEF AllInv
  <2>5. CASE UNCHANGED <<part, vars, workVars>>
    BY <1>2, <2>1, <2>2, <2>5 DEF AllInv
  <2>6. QED
    BY <1>2, <2>3, <2>4, <2>5 DEF NextAll
<1>3. QED
  BY <1>1, <1>2, PTL DEF SpecAll

\* Every variable of the scheduler and of the workforce keeps its type, whichever
\* of them runs.
THEOREM OrchestrationTypes == SpecAll => []TypesOK
<1>1. AllInv => TypesOK
  BY TypesFollow, WorkMeans DEF AllInv, TypesOK
<1>2. QED
  BY <1>1, AllInvHolds, PTL

\* A sub-mission begins when all it depends on is over and has been given the
\* results of these, and none is skipped but those that wait for one that names
\* itself, for plans of any size (WorkforceCoordinator._execute_plan).
THEOREM WavesFollow == SpecAll => []WavesFollowDependencies
<1>1. AllInv => WavesFollowDependencies
  BY WorkMeans DEF AllInv, WavesFollowDependencies
<1>2. QED
  BY <1>1, AllInvHolds, PTL
================================================================================
