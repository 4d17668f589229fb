-------------------------------- MODULE Scheduler --------------------------------
(***************************************************************************)
(* SchedulerService (backend/core/scheduler/scheduler_service.py) and the  *)
(* update of a job in backend/api/routes/scheduler.py.                     *)
(*                                                                         *)
(* A job is a row of the database and, while it is active, a registration  *)
(* with APScheduler, which lives in the memory of the process.  Requests   *)
(* and timers are tasks of one event loop: between two statements of the   *)
(* database, or of the database and the scheduler, any other task may run. *)
(* get_job, remove_job and add_job of APScheduler do not suspend.          *)
(*                                                                         *)
(* A lookup for another tenant finds nothing, like one for a missing job,  *)
(* and the operation ends without a change.  Events are emitted last in    *)
(* every operation, and their errors are swallowed: they are left out.     *)
(***************************************************************************)
EXTENDS Integers

CONSTANTS
  Jobs,         \* ids, each drawn once
  Tasks,        \* slots for the tasks in flight
  Caps,         \* values of max_runs
  MaxTriggers,  \* bound on the times jobs are fired, by timers and by callers
  MaxFaults,    \* bound on the statements of the database that fail
  MaxRestarts   \* bound on stops, crashes included

ASSUME SchedulerAssumption ==
  /\ Caps \subseteq Nat \ {0}
  /\ MaxTriggers \in Nat /\ MaxFaults \in Nat /\ MaxRestarts \in Nat

VARIABLES
  row,         \* the table: [at, active, cap, count, last] per job
  registered,  \* the jobs APScheduler knows
  task,        \* each task: [at, job, timed, count, result]
  triggers, faults, restarts,
  \* history, which no guard reads
  marked,      \* how often a run of the job has been entered in its row
  allowed,     \* the largest cap the row has had
  overlapped,  \* a run was read off the row while another was to be entered
  disturbed    \* two operations on a registration overlapped, or one failed

bounds == <<triggers, faults, restarts>>
history == <<marked, allowed, overlapped, disturbed>>
vars == <<row, registered, task, bounds, history>>

Idle == [at |-> "idle"]
NoRow == [at |-> "new", active |-> FALSE, cap |-> 0, count |-> 0, last |-> "none"]

\* max_runs None: no job is fired this often.
Unlimited == MaxTriggers + 1

There(j) == row[j].at = "there"
At(t, where) == task[t].at = where
On(j) == {t \in Tasks : task[t] # Idle /\ task[t].job = j}

Changing == {"pause", "resume", "schedule", "unschedule", "delete", "erase", "capped"}

\* The tasks that are about to change the registration of j, or the row with it.
Changers(j) == {t \in On(j) : task[t].at \in Changing}

TypeOK ==
  /\ row \in [Jobs -> [at : {"new", "there", "gone"}, active : BOOLEAN,
                       cap : Caps \cup {0, Unlimited}, count : 0 .. MaxTriggers,
                       last : {"none", "running", "success", "failed"}]]
  /\ registered \subseteq Jobs
  /\ \A t \in Tasks : task[t] = Idle \/
       /\ task[t].at \in Changing \cup {"recap", "load", "mark", "run", "report"}
       /\ task[t].job \in Jobs /\ row[task[t].job].at # "new"
  /\ \A t, o \in Tasks :  \* a timer does not overtake itself
       t # o /\ Idle \notin {task[t], task[o]} /\ task[t].job = task[o].job
         => ~ (task[t].timed /\ task[o].timed)
  /\ \A j \in Jobs : marked[j] \in 0 .. MaxTriggers

Init ==
  /\ row = [j \in Jobs |-> NoRow] /\ registered = {}
  /\ task = [t \in Tasks |-> Idle]
  /\ triggers = 0 /\ faults = 0 /\ restarts = 0
  /\ marked = [j \in Jobs |-> 0] /\ allowed = [j \in Jobs |-> 0]
  /\ overlapped = [j \in Jobs |-> FALSE] /\ disturbed = [j \in Jobs |-> FALSE]

--------------------------------------------------------------------------------
(* Steps of a task. *)

Goes(t, where) == task' = [task EXCEPT ![t].at = where]
Ends(t) == task' = [task EXCEPT ![t] = Idle]

\* t begins to change the registration of j.
NotesChange(t, j) ==
  disturbed' = [disturbed EXCEPT ![j] = @ \/ Changers(j) \ {t} # {}]

\* UPDATE ... WHERE id = j, which is no error when there is no such row.
Updates(j, new) == row' = IF There(j) THEN [row EXCEPT ![j] = new] ELSE row

Begin(t, j, where, timed) ==
  task' = [task EXCEPT ![t] = [at |-> where, job |-> j, timed |-> timed,
                               count |-> 0, result |-> "none"]]

--------------------------------------------------------------------------------
(* The operations. *)

\* create_job: the row is committed, then the job is registered.
Create(t, j, cap) ==
  /\ At(t, "idle") /\ row[j].at = "new"
  /\ row' = [row EXCEPT ![j] = [at |-> "there", active |-> TRUE, cap |-> cap,
                                count |-> 0, last |-> "none"]]
  /\ allowed' = [allowed EXCEPT ![j] = cap]
  /\ Begin(t, j, "schedule", FALSE)
  /\ UNCHANGED <<registered, bounds, marked, overlapped, disturbed>>

\* The lookup with which the other operations begin.  It raises when there is
\* no such row.
Lookup(t, j, op) ==
  /\ At(t, "idle") /\ There(j)
  /\ Begin(t, j, op, FALSE)
  /\ IF op \in Changing THEN NotesChange(t, j) ELSE UNCHANGED disturbed
  /\ IF op = "load" THEN triggers < MaxTriggers /\ triggers' = triggers + 1
                    ELSE UNCHANGED triggers
  /\ UNCHANGED <<row, registered, faults, restarts, marked, allowed, overlapped>>

Pause(t) ==
  /\ At(t, "pause")
  /\ Updates(task[t].job, [row[task[t].job] EXCEPT !.active = FALSE])
  /\ Goes(t, "unschedule")
  /\ UNCHANGED <<registered, bounds, history>>

Resume(t) ==
  /\ At(t, "resume")
  /\ Updates(task[t].job, [row[task[t].job] EXCEPT !.active = TRUE])
  /\ Goes(t, "schedule")
  /\ UNCHANGED <<registered, bounds, history>>

\* delete_job takes the registration away first and then the row.
Delete(t) ==
  /\ At(t, "delete")
  /\ registered' = registered \ {task[t].job}
  /\ Goes(t, "erase")
  /\ UNCHANGED <<row, bounds, history>>

Erase(t) ==
  /\ At(t, "erase")
  /\ row' = [row EXCEPT ![task[t].job].at = "gone"]
  /\ Ends(t)
  /\ UNCHANGED <<registered, bounds, history>>

\* update_job, when the request has a max_runs.
Recap(t, cap) ==
  /\ At(t, "recap")
  /\ Updates(task[t].job, [row[task[t].job] EXCEPT !.cap = cap])
  /\ allowed' = [allowed EXCEPT ![task[t].job] = IF cap > @ THEN cap ELSE @]
  /\ Ends(t)
  /\ UNCHANGED <<registered, bounds, marked, overlapped, disturbed>>

\* _register_job, which replaces a registration that is there.  Nothing looks
\* at the row again.
Schedule(t) ==
  /\ At(t, "schedule")
  /\ registered' = registered \cup {task[t].job}
  /\ Ends(t)
  /\ UNCHANGED <<row, bounds, history>>

\* Mutant: the registration stays when the job is paused.
KeepsTimer(t) ==
  /\ At(t, "unschedule") /\ Ends(t)
  /\ UNCHANGED <<row, registered, bounds, history>>

Unschedule(t) ==
  /\ At(t, "unschedule")
  /\ registered' = registered \ {task[t].job}
  /\ Ends(t)
  /\ UNCHANGED <<row, bounds, history>>

--------------------------------------------------------------------------------
(* _trigger_job. *)

\* Mutant: a job is fired while its last run goes on.
FiresAgain(t, j) ==
  /\ At(t, "idle") /\ j \in registered /\ triggers < MaxTriggers
  /\ Begin(t, j, "load", TRUE)
  /\ triggers' = triggers + 1
  /\ UNCHANGED <<row, registered, faults, restarts, history>>

\* The timer of j fires.  By APScheduler's default a job that its timer started
\* does not run twice at a time; trigger_now does not ask APScheduler.
Fire(t, j) ==
  /\ At(t, "idle") /\ j \in registered /\ triggers < MaxTriggers
  /\ \A o \in On(j) : ~ task[o].timed
  /\ Begin(t, j, "load", TRUE)
  /\ triggers' = triggers + 1
  /\ UNCHANGED <<row, registered, faults, restarts, history>>

\* Mutant: the cap is exceeded by one.
LoadsPastCap(t) ==
  LET j == task[t].job IN
  /\ At(t, "load") /\ There(j) /\ row[j].active /\ row[j].count <= row[j].cap
  /\ task' = [task EXCEPT ![t].at = "mark", ![t].count = row[j].count]
  /\ overlapped' = [overlapped EXCEPT ![j] = @ \/ \E o \in On(j) : At(o, "mark")]
  /\ UNCHANGED <<row, registered, bounds, marked, allowed, disturbed>>

LoadRun(t) ==
  LET j == task[t].job IN
  /\ At(t, "load") /\ There(j) /\ row[j].active /\ row[j].count < row[j].cap
  /\ task' = [task EXCEPT ![t].at = "mark", ![t].count = row[j].count]
  /\ overlapped' = [overlapped EXCEPT ![j] = @ \/ \E o \in On(j) : At(o, "mark")]
  /\ UNCHANGED <<row, registered, bounds, marked, allowed, disturbed>>

LoadCapped(t) ==
  LET j == task[t].job IN
  /\ At(t, "load") /\ There(j) /\ row[j].active /\ row[j].count >= row[j].cap
  /\ Goes(t, "capped") /\ NotesChange(t, j)
  /\ UNCHANGED <<row, registered, bounds, marked, allowed, overlapped>>

\* No row, or an inactive one: the trigger returns "".
LoadNothing(t) ==
  LET j == task[t].job IN
  /\ At(t, "load") /\ (~ There(j) \/ ~ row[j].active)
  /\ Ends(t)
  /\ UNCHANGED <<row, registered, bounds, history>>

\* The commit raises StaleDataError when the row has gone.
Deactivate(t) ==
  LET j == task[t].job IN
  /\ At(t, "capped")
  /\ Updates(j, [row[j] EXCEPT !.active = FALSE])
  /\ IF There(j) THEN Goes(t, "unschedule") ELSE Ends(t)
  /\ UNCHANGED <<registered, bounds, history>>

\* The count that was read, and one more, is written to the row; the columns
\* that were not assigned stay as they are.
Mark(t) ==
  LET j == task[t].job IN
  /\ At(t, "mark")
  /\ Updates(j, [row[j] EXCEPT !.count = task[t].count + 1, !.last = "running"])
  /\ IF There(j) THEN Goes(t, "run") ELSE Ends(t)
  /\ marked' = [marked EXCEPT ![j] = IF There(j) THEN @ + 1 ELSE @]
  /\ UNCHANGED <<registered, bounds, allowed, overlapped, disturbed>>

\* execute_mission returns, whether the mission completed or failed, or raises.
RunMission(t, result) ==
  /\ At(t, "run")
  /\ task' = [task EXCEPT ![t].at = "report", ![t].result = result]
  /\ UNCHANGED <<row, registered, bounds, history>>

\* Mutant: what failed is only logged.
ReportsSuccessOnly(t) ==
  LET j == task[t].job IN
  /\ At(t, "report")
  /\ IF task[t].result = "success" THEN Updates(j, [row[j] EXCEPT !.last = "success"])
                                   ELSE UNCHANGED row
  /\ Ends(t)
  /\ UNCHANGED <<registered, bounds, history>>

\* Mutant: the object read at the start is written back, with its count.
ReportsStaleRow(t) ==
  LET j == task[t].job IN
  /\ At(t, "report")
  /\ Updates(j, [row[j] EXCEPT !.last = task[t].result, !.count = task[t].count + 1])
  /\ Ends(t)
  /\ UNCHANGED <<registered, bounds, history>>

Report(t) ==
  LET j == task[t].job IN
  /\ At(t, "report")
  /\ Updates(j, [row[j] EXCEPT !.last = task[t].result])
  /\ Ends(t)
  /\ UNCHANGED <<registered, bounds, history>>

--------------------------------------------------------------------------------
(* Failures. *)

\* A statement of the database raises, and the task with it; only the report of
\* a success is inside the try, and becomes the report of a failure.
Fail(t) ==
  /\ task[t].at \notin {"idle", "schedule", "unschedule", "delete", "run"}
  /\ faults < MaxFaults /\ faults' = faults + 1
  /\ IF At(t, "report") /\ task[t].result = "success"
       THEN task' = [task EXCEPT ![t].result = "failed"]
       ELSE Ends(t)
  /\ disturbed' = [disturbed EXCEPT ![task[t].job] = @ \/ At(t, "erase")]
  /\ UNCHANGED <<row, registered, triggers, restarts, marked, allowed, overlapped>>

\* Mutant: what is paused is registered as well.
ReloadsEveryJob == {j \in Jobs : There(j)}

\* _reload_jobs: the rows that are active.
Reloaded == {j \in Jobs : There(j) /\ row[j].active}

\* The process stops, or crashes, with all its tasks, and another one starts.
\* start runs before a request is served.
Restart ==
  /\ restarts < MaxRestarts /\ restarts' = restarts + 1
  /\ task' = [t \in Tasks |-> Idle]
  /\ registered' = Reloaded
  /\ disturbed' = [j \in Jobs |-> FALSE]
  /\ UNCHANGED <<row, triggers, faults, marked, allowed, overlapped>>

--------------------------------------------------------------------------------
Proceed(t) ==
  \/ Pause(t) \/ Resume(t) \/ Delete(t) \/ Erase(t) \/ Schedule(t) \/ Unschedule(t)
  \/ \E cap \in Caps : Recap(t, cap)
  \/ LoadRun(t) \/ LoadCapped(t) \/ LoadNothing(t) \/ Deactivate(t) \/ Mark(t)
  \/ \E result \in {"success", "failed"} : RunMission(t, result)
  \/ Report(t)

Next ==
  \/ \E t \in Tasks, j \in Jobs :
       \/ \E cap \in Caps \cup {Unlimited} : Create(t, j, cap)
       \/ \E op \in {"pause", "resume", "delete", "recap", "load"} : Lookup(t, j, op)
       \/ Fire(t, j)
  \/ \E t \in Tasks : Proceed(t) \/ Fail(t)
  \/ Restart

Spec == Init /\ [][Next]_vars

\* The event loop resumes every task that can go on, and missions end.
FairSpec == Spec /\ \A t \in Tasks : WF_vars(Proceed(t))

--------------------------------------------------------------------------------
(* When no operation on a job is under way, its timer is set exactly if the *)
(* row is there and active, unless two operations of create_job, pause_job, *)
(* resume_job, delete_job and a trigger at its cap overlapped or a deletion *)
(* failed half way since the process started.                               *)
SettledJobsAgree ==
  \A j \in Jobs :
    ~ disturbed[j] /\ Changers(j) = {} => (j \in registered <=> There(j) /\ row[j].active)

(* run_count never exceeds the runs _trigger_job has entered, and is exactly *)
(* their number as long as no two triggers overlapped between reading the    *)
(* count and writing it.                                                     *)
CountIsTheRuns ==
  \A j \in Jobs : row[j].count <= marked[j] /\ (overlapped[j] \/ row[j].count = marked[j])

(* However triggers, pauses, updates of max_runs and restarts interleave,    *)
(* run_count stays within the largest max_runs the job has had.              *)
CountWithinCap == \A j \in Jobs : row[j].count <= allowed[j]

(* A run that _trigger_job has entered is reported: last_run_status stays at *)
(* "running" only when the process was stopped or a statement of the         *)
(* database failed, whatever else was done to the job meanwhile.             *)
RunsAreReported ==
  \A j \in Jobs :
    (There(j) /\ row[j].last = "running")
      ~> (~ There(j) \/ row[j].last # "running" \/ faults > 0 \/ restarts > 0)
================================================================================
