----------------------------- MODULE AgentDesk -----------------------------
(***************************************************************************)
(* The routes of agents and workforces: rows in the database, and events   *)
(* that tasks append to the event store behind the handler's back.         *)
(*                                                                         *)
(* The deletion of an agent announces itself before it commits, and a      *)
(* database that keeps foreign keys refuses the commit as long as a member *)
(* of a workforce, removed or not, refers to the agent.                    *)
(*                                                                         *)
(* A run of a workforce is counted in its row when it starts and again, as *)
(* successful or failed, when the background task ends.  Each time a       *)
(* process reads the counter and writes it back; several processes serve   *)
(* the routes (Dockerfile.production starts four workers), and their       *)
(* transactions may interleave.                                            *)
(***************************************************************************)
EXTENDS Integers, Sequences, FiniteSets, Functions

CONSTANTS
  Agents, Workforces,
  Members,      \* identifiers of memberships
  Runs,         \* runs of workforces
  Statuses,     \* statuses a client may write
  Processes,    \* processes that serve the routes
  ForeignKeys,  \* whether the database enforces foreign keys
  MaxEvents     \* bound on the events of an agent, with the tasks that wait

\* What the values of the constants satisfy.
DeskAssumption ==
  /\ {"idle", "offline"} \subseteq Statuses /\ IsFiniteSet(Runs)
  /\ Processes \in Nat \ {0} /\ ForeignKeys \in BOOLEAN /\ MaxEvents \in Nat

VARIABLES
  agent,     \* status of an agent's row, or "none"
  born,      \* agents that have been created
  waiting,   \* tasks that will append an event
  history,   \* events of an agent in the store
  lost,      \* agents an event of which could not be stored
  member,    \* rows of memberships
  workforce, \* rows of workforces
  run,       \* where a run is
  clashed    \* workforces a counter of which was overwritten with an old value

deskVars == <<agent, born, waiting, history, lost, member, workforce, run, clashed>>

NoRow == [absent |-> TRUE]
NewRun == [phase |-> "new", workforce |-> "none", seen |-> 0, status |-> "none"]

DeskInit ==
  /\ agent = [a \in Agents |-> "none"]
  /\ born = {}
  /\ waiting = <<>>
  /\ history = [a \in Agents |-> <<>>]
  /\ lost = {}
  /\ member = [m \in Members |-> NoRow]
  /\ workforce = [w \in Workforces |-> NoRow]
  /\ run = [r \in Runs |-> NewRun]
  /\ clashed = {}

-----------------------------------------------------------------------------
(***************************************************************************)
(* Agents.                                                                 *)
(***************************************************************************)
agentVars == <<agent, born, waiting, history, lost>>
teamVars == <<member, workforce, run, clashed>>

MayAnnounce(a) == Len(waiting) + Len(history[a]) < MaxEvents
Announce(a, type) == waiting' = Append(waiting, [agent |-> a, type |-> type])

CreateAgent(a) ==
  /\ a \notin born /\ MayAnnounce(a)
  /\ born' = born \cup {a}
  /\ agent' = [agent EXCEPT ![a] = "idle"]
  /\ Announce(a, "created")
  /\ UNCHANGED <<history, lost, teamVars>>

\* update_agent, and activate_agent and deactivate_agent, which write one status.
UpdateAgent(a) ==
  /\ agent[a] # "none"
  /\ \E status \in Statuses : agent' = [agent EXCEPT ![a] = status]
  /\ UNCHANGED <<born, waiting, history, lost, teamVars>>
ActivateAgent(a) ==
  /\ agent[a] # "none" /\ agent' = [agent EXCEPT ![a] = "idle"]
  /\ UNCHANGED <<born, waiting, history, lost, teamVars>>
DeactivateAgent(a) ==
  /\ agent[a] # "none" /\ agent' = [agent EXCEPT ![a] = "offline"]
  /\ UNCHANGED <<born, waiting, history, lost, teamVars>>

\* Removed members keep their rows, and with them the reference.
Referred(a) == \E m \in Members : member[m] # NoRow /\ member[m].agent = a
Refused(a) == ForeignKeys /\ Referred(a)

\* Mutant: the row is only put offline.
DeleteSoftly(a) ==
  /\ agent[a] # "none" /\ MayAnnounce(a)
  /\ Announce(a, "deleted")
  /\ agent' = [agent EXCEPT ![a] = "offline"]
  /\ UNCHANGED <<born, history, lost, teamVars>>
DeleteAgent(a) ==
  /\ agent[a] # "none" /\ MayAnnounce(a)
  /\ Announce(a, "deleted")
  /\ agent' = IF Refused(a) THEN agent ELSE [agent EXCEPT ![a] = "none"]
  /\ UNCHANGED <<born, history, lost, teamVars>>

\* A task appends its event, or the store raises and nobody hears of it.  Tasks
\* run side by side.
AppendEvent(i) ==
  LET e == waiting[i] IN
  /\ waiting' = SubSeq(waiting, 1, i - 1) \o SubSeq(waiting, i + 1, Len(waiting))
  /\ \/ history' = [history EXCEPT ![e.agent] = Append(@, e.type)] /\ UNCHANGED lost
     \/ lost' = lost \cup {e.agent} /\ UNCHANGED history
  /\ UNCHANGED <<agent, born, teamVars>>

-----------------------------------------------------------------------------
(***************************************************************************)
(* Workforces and their members.                                           *)
(***************************************************************************)
CreateWorkforce(w) ==
  /\ workforce[w] = NoRow
  /\ workforce' = [workforce EXCEPT ![w] =
                     [active |-> TRUE, total |-> 0, successful |-> 0, failed |-> 0]]
  /\ UNCHANGED <<agentVars, member, run, clashed>>

\* delete_workforce sets the flag that update_workforce may set again.
UpdateWorkforce(w) ==
  /\ workforce[w] # NoRow
  /\ \E active \in BOOLEAN : workforce' = [workforce EXCEPT ![w].active = active]
  /\ UNCHANGED <<agentVars, member, run, clashed>>
DeleteWorkforce(w) ==
  /\ workforce[w] # NoRow
  /\ workforce' = [workforce EXCEPT ![w].active = FALSE]
  /\ UNCHANGED <<agentVars, member, run, clashed>>

AddMember(m, w, a) ==
  /\ member[m] = NoRow /\ workforce[w] # NoRow /\ agent[a] # "none"
  /\ member' = [member EXCEPT ![m] = [agent |-> a, workforce |-> w, active |-> TRUE]]
  /\ UNCHANGED <<agentVars, workforce, run, clashed>>
RemoveMember(m) ==
  /\ member[m] # NoRow
  /\ member' = [member EXCEPT ![m].active = FALSE]
  /\ UNCHANGED <<agentVars, workforce, run, clashed>>

-----------------------------------------------------------------------------
(***************************************************************************)
(* Runs.  A transaction reads a counter in one step and writes it in       *)
(* another; a process has at most one such transaction open, for its       *)
(* handlers do not await inside.                                           *)
(***************************************************************************)
Open == {r \in Runs : run[r].phase \in {"counting", "closing"}}
Free == Cardinality(Open) < Processes
At(r, phase, seen, status) ==
  run' = [run EXCEPT ![r] = [phase |-> phase, workforce |-> run[r].workforce, seen |-> seen,
                             status |-> status]]

\* run_workforce reads the row of an active workforce; without a coordinator it
\* is refused before anything is counted.
StartRun(r, w) ==
  /\ run[r].phase = "new" /\ Free
  /\ workforce[w] # NoRow /\ workforce[w].active
  /\ run' = [run EXCEPT ![r] = [phase |-> "counting", workforce |-> w,
                                seen |-> workforce[w].total, status |-> "none"]]
  /\ UNCHANGED <<agentVars, member, workforce, clashed>>

Clash(w, counter, seen) == clashed' = IF counter = seen THEN clashed ELSE clashed \cup {w}

CountStart(r) ==
  LET w == run[r].workforce IN
  /\ run[r].phase = "counting"
  /\ workforce' = [workforce EXCEPT ![w].total = run[r].seen + 1]
  /\ Clash(w, workforce[w].total, run[r].seen)
  /\ At(r, "running", 0, "none")
  /\ UNCHANGED <<agentVars, member>>

\* The counter a result goes to: anything but "completed" is a failure.
CounterOf(status) == IF status = "completed" THEN "successful" ELSE "failed"

\* The coordinator returns, and the task reads the row again.
FinishRun(r) ==
  /\ run[r].phase = "running" /\ Free
  /\ \E status \in {"completed", "failed", "partial"} :
       At(r, "closing", workforce[run[r].workforce][CounterOf(status)], status)
  /\ UNCHANGED <<agentVars, member, workforce, clashed>>

CountEnd(r) ==
  LET w == run[r].workforce
      counter == CounterOf(run[r].status)
  IN /\ run[r].phase = "closing"
     /\ workforce' = [workforce EXCEPT ![w][counter] = run[r].seen + 1]
     /\ Clash(w, workforce[w][counter], run[r].seen)
     /\ At(r, "counted", 0, run[r].status)
     /\ UNCHANGED <<agentVars, member>>

\* Mutant: a run whose coordinator raises is counted as one more failure of the
\* workforce.
CountRaised(r) ==
  /\ run[r].phase \in {"running", "closing"}
  /\ workforce' = [workforce EXCEPT ![run[r].workforce].failed = @ + 1]
  /\ At(r, "uncounted", 0, "none")
  /\ UNCHANGED <<agentVars, member, clashed>>
\* The coordinator raises, the process dies, or the second transaction fails: the
\* run stays in the total alone.
LoseRun(r) ==
  /\ run[r].phase \in {"running", "closing"}
  /\ At(r, "uncounted", 0, "none")
  /\ UNCHANGED <<agentVars, member, workforce, clashed>>

DeskNext ==
  \/ \E a \in Agents : CreateAgent(a) \/ UpdateAgent(a) \/ ActivateAgent(a)
                       \/ DeactivateAgent(a) \/ DeleteAgent(a)
  \/ \E i \in DOMAIN waiting : AppendEvent(i)
  \/ \E w \in Workforces : CreateWorkforce(w) \/ UpdateWorkforce(w) \/ DeleteWorkforce(w)
  \/ \E m \in Members : RemoveMember(m) \/ \E w \in Workforces, a \in Agents : AddMember(m, w, a)
  \/ \E r \in Runs : CountStart(r) \/ FinishRun(r) \/ CountEnd(r) \/ LoseRun(r)
  \/ \E r \in Runs, w \in Workforces : StartRun(r, w)

DeskSpec == DeskInit /\ [][DeskNext]_deskVars

-----------------------------------------------------------------------------
DeskTypeOK ==
  /\ agent \in [Agents -> Statuses \cup {"none"}]
  /\ \A a \in Agents : agent[a] # "none" => a \in born
  /\ Len(waiting) <= MaxEvents
  /\ \A r \in Runs : run[r].phase = "new" <=> run[r].workforce = "none"

\* The events of an agent say what happened to its row: one that was created and
\* lost no event has its creation in the store once the tasks are done, and one
\* that is said to be deleted is gone, unless a membership kept it.
AgentHistoryIsTrue ==
  \A a \in Agents :
    /\ a \in born \ lost /\ (\A i \in DOMAIN waiting : waiting[i].agent # a)
         => "created" \in Range(history[a])
    /\ "deleted" \in Range(history[a]) => agent[a] = "none" \/ Referred(a)

\* As long as no two processes overwrote each other's counter, a workforce has
\* counted every run that started, and every one that ended under its result;
\* runs that were lost are missing from both results.
RunsOf(w, phases) == {r \in Runs : run[r].workforce = w /\ run[r].phase \in phases}
RunsAddUp ==
  \A w \in Workforces \ clashed :
    workforce[w] # NoRow =>
      /\ workforce[w].total = Cardinality(RunsOf(w, {"running", "closing", "counted", "uncounted"}))
      /\ workforce[w].successful =
           Cardinality({r \in RunsOf(w, {"counted"}) : run[r].status = "completed"})
      /\ workforce[w].failed =
           Cardinality({r \in RunsOf(w, {"counted"}) : run[r].status # "completed"})
=============================================================================
