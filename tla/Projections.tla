------------------------------ MODULE Projections ------------------------------
(***************************************************************************)
(* The agent, mission and economy projections                              *)
(* (backend/core/event_sourcing/projections.py).                           *)
(*                                                                         *)
(* A subscriber hands each new event to the three projections, in the order*)
(* of the store.  rebuild clears a projection, awaits get_all_events, which*)
(* returns the newest Limit events, and then replays them without another  *)
(* suspension.  Nothing keeps events from being delivered, or a second     *)
(* rebuild from starting, during that await.                               *)
(*                                                                         *)
(* A projection ignores the events of the others, so a history is about one*)
(* of them, subject: only its events are appended and only it is rebuilt.  *)
(***************************************************************************)
EXTENDS Integers, Sequences, FiniteSets, SequencesExt, FiniteSetsExt

CONSTANTS
  Agents, Missions,  \* ids
  Rebuilders,        \* tasks that rebuild
  Limit,             \* get_all_events' limit
  MaxLog             \* bound on the events in the store

\* What the values of the constants satisfy.
ProjectionsAssumption ==
  /\ Limit \in Nat \ {0} /\ MaxLog \in Nat
  /\ Agents \cap Missions = {}

VARIABLES
  subject, \* the projection this history is about
  log,     \* the event store: [type, agg, other], in order of timestamp
  seen,    \* how many events have been delivered
  view,    \* the state of each projection
  task,    \* each rebuilder: [at, upto]
  failed   \* a rebuild has raised and none has begun since

vars == <<subject, log, seen, view, task, failed>>

Nobody == "nobody"
Unknown == [unknown |-> TRUE]

RelevantTo == [
  agent |-> {"agent.created", "agent.updated", "agent.deleted", "agent.activated",
             "agent.deactivated", "economy.balance_adjusted"},
  mission |-> {"mission.created", "mission.started", "mission.completed",
               "mission.failed", "mission.cancelled"},
  economy |-> {"economy.credit_earned", "economy.credit_spent",
               "economy.credit_transferred", "economy.balance_adjusted"}]

Event == [type : UNION {RelevantTo[k] : k \in DOMAIN RelevantTo},
          agg : Agents \cup Missions, other : Agents \cup {Nobody}]

AgentView == [status : {"active", "inactive", "deleted"}, deleted : BOOLEAN,
              balance : Int, version : Nat]
MissionView == [agent : Agents,
                status : {"created", "running", "completed", "failed", "cancelled"},
                version : Nat]
Entry == [delta : {-1, 1}, event : 1 .. MaxLog, running : Int]

TypeOK ==
  /\ subject \in DOMAIN RelevantTo
  /\ log \in Seq(Event) /\ Len(log) <= MaxLog /\ seen \in 0 .. Len(log)
  /\ \A a \in Agents : view.agent[a] \in AgentView \cup {Unknown}
  /\ \A m \in Missions : view.mission.byId[m] \in MissionView \cup {Unknown}
  /\ view.mission.byAgent \in [Agents -> Seq(Missions)]
  /\ view.economy.balances \in [Agents -> Int]
  /\ view.economy.ledger \in [Agents -> Seq(Entry)]
  /\ task \in [Rebuilders -> [at : {"idle", "cleared", "read"}, upto : 0 .. MaxLog]]
  /\ failed \in BOOLEAN

\* The state of a projection that has seen nothing.
Empty == [
  agent |-> [a \in Agents |-> Unknown],
  mission |-> [byId |-> [m \in Missions |-> Unknown], byAgent |-> [a \in Agents |-> <<>>]],
  economy |-> [balances |-> [a \in Agents |-> 0], ledger |-> [a \in Agents |-> <<>>]]]

Idle == [at |-> "idle", upto |-> 0]

Init ==
  /\ subject \in DOMAIN RelevantTo
  /\ log = <<>> /\ seen = 0
  /\ view = Empty
  /\ task = [r \in Rebuilders |-> Idle]
  /\ failed = FALSE

--------------------------------------------------------------------------------
(* The handlers; k is the position of the event in the store. *)

Version(k) == Cardinality({j \in 1 .. k : log[j].agg = log[k].agg})

\* Mutant: the type of the event is taken for the status.
SetStatusToType(old, status, k) == [old EXCEPT !.status = log[k].type, !.version = Version(k)]

SetStatus(old, status, k) == [old EXCEPT !.status = status, !.version = Version(k)]

\* Mutant: a created event for an agent that is known already is ignored.
AgentCreatedOnce(agents, k) ==
  IF agents[log[k].agg] # Unknown THEN agents
  ELSE [agents EXCEPT ![log[k].agg] = [status |-> "active", deleted |-> FALSE,
                                       balance |-> 1000, version |-> Version(k)]]

AgentCreated(agents, k) ==
  [agents EXCEPT ![log[k].agg] = [status |-> "active", deleted |-> FALSE,
                                  balance |-> 1000, version |-> Version(k)]]

\* Only a created event makes an agent known; it starts its view afresh.
OnAgent(agents, k) ==
  LET e == log[k]
      old == agents[e.agg]
      new == CASE e.type = "agent.updated" -> [old EXCEPT !.version = Version(k)]
               [] e.type = "agent.deleted" ->
                    [SetStatus(old, "deleted", k) EXCEPT !.deleted = TRUE]
               [] e.type = "agent.activated" -> SetStatus(old, "active", k)
               [] e.type = "agent.deactivated" -> SetStatus(old, "inactive", k)
               [] e.type = "economy.balance_adjusted" ->
                    [old EXCEPT !.balance = @ + 1, !.version = Version(k)]
  IN  IF e.type = "agent.created" THEN AgentCreated(agents, k)
      ELSE IF old = Unknown THEN agents
      ELSE [agents EXCEPT ![e.agg] = new]

\* The mission goes on its agent's list whether or not it is there already.
MissionCreated(s, k) ==
  LET e == log[k] IN
  [byId |-> [s.byId EXCEPT ![e.agg] =
               [agent |-> e.other, status |-> "created", version |-> Version(k)]],
   byAgent |-> [s.byAgent EXCEPT ![e.other] = Append(@, e.agg)]]

OnMission(s, k) ==
  LET e == log[k]
      old == s.byId[e.agg]
      status == CASE e.type = "mission.started" -> "running"
                  [] e.type = "mission.completed" -> "completed"
                  [] e.type = "mission.failed" -> "failed"
                  [] e.type = "mission.cancelled" -> "cancelled"
  IN  IF e.type = "mission.created" THEN MissionCreated(s, k)
      ELSE IF old = Unknown THEN s
      ELSE [s EXCEPT !.byId[e.agg] = SetStatus(old, status, k)]

ApplyDelta(s, a, delta, k) ==
  LET balance == s.balances[a] + delta
  IN  [balances |-> [s.balances EXCEPT ![a] = balance],
       ledger |-> [s.ledger EXCEPT ![a] =
                     Append(@, [delta |-> delta, event |-> k, running |-> balance])]]

\* Mutant: the receiver of a transfer is not credited.
OnEconomyDebitOnly(s, k) ==
  LET e == log[k] IN
  ApplyDelta(s, e.agg,
             IF e.type \in {"economy.credit_spent", "economy.credit_transferred"} THEN -1 ELSE 1, k)

\* Every amount is 1; a transfer debits the sender, then credits the receiver.
OnEconomy(s, k) ==
  LET e == log[k] IN
  CASE e.type \in {"economy.credit_earned", "economy.balance_adjusted"} ->
         ApplyDelta(s, e.agg, 1, k)
    [] e.type = "economy.credit_spent" -> ApplyDelta(s, e.agg, -1, k)
    [] e.type = "economy.credit_transferred" ->
         IF e.other = Nobody THEN ApplyDelta(s, e.agg, -1, k)
         ELSE ApplyDelta(ApplyDelta(s, e.agg, -1, k), e.other, 1, k)

\* handle_event: a projection ignores the types it has no handler for.
HandleEvent(kind, s, k) ==
  IF log[k].type \notin RelevantTo[kind] THEN s
  ELSE CASE kind = "agent" -> OnAgent(s, k)
         [] kind = "mission" -> OnMission(s, k)
         [] kind = "economy" -> OnEconomy(s, k)

\* The newest Limit of n events, replayed in order of time upon the state s.
Replay(kind, s, n) ==
  LET first == IF n > Limit THEN n - Limit + 1 ELSE 1
  IN  FoldLeft(LAMBDA x, k : HandleEvent(kind, x, k), s,
               [i \in 1 .. n - first + 1 |-> first + i - 1])

--------------------------------------------------------------------------------
(* Steps *)

\* Other components append events; aggregates are created before anything else
\* happens to them, and missions belong to an agent.
AppendEvent ==
  /\ Len(log) < MaxLog
  /\ \E type \in RelevantTo[subject], i \in Agents \cup Missions, a \in Agents \cup {Nobody} :
       /\ IF type \in RelevantTo.mission THEN i \in Missions ELSE i \in Agents
       /\ type = "mission.created" => a # Nobody
       /\ a # Nobody => type = "mission.created" \/ (type = "economy.credit_transferred" /\ a # i)
       /\ type \in {"agent.created", "mission.created"} => \A k \in DOMAIN log : log[k].agg # i
       /\ log' = Append(log, [type |-> type, agg |-> i, other |-> a])
  /\ UNCHANGED <<seen, view, task, failed>>

Deliver ==
  /\ seen < Len(log)
  /\ seen' = seen + 1
  /\ view' = [kind \in DOMAIN view |-> HandleEvent(kind, view[kind], seen + 1)]
  /\ UNCHANGED <<log, task, failed>>

Rebuild(r) ==
  /\ task[r].at = "idle"
  /\ view' = [view EXCEPT ![subject] = Empty[subject]]
  /\ task' = [task EXCEPT ![r].at = "cleared"]
  /\ failed' = FALSE
  /\ UNCHANGED <<log, seen>>

GetAllEvents(r) ==
  /\ task[r].at = "cleared"
  /\ task' = [task EXCEPT ![r] = [at |-> "read", upto |-> Len(log)]]
  /\ UNCHANGED <<log, seen, view, failed>>

\* Mutant: the replay starts afresh instead of going on from what is there.
RebuildReplaces(r) ==
  /\ task[r].at = "read"
  /\ view' = [view EXCEPT ![subject] = Replay(subject, Empty[subject], task[r].upto)]
  /\ task' = [task EXCEPT ![r] = Idle]
  /\ UNCHANGED <<log, seen, failed>>

RebuildReplays(r) ==
  /\ task[r].at = "read"
  /\ view' = [view EXCEPT ![subject] = Replay(subject, @, task[r].upto)]
  /\ task' = [task EXCEPT ![r] = Idle]
  /\ UNCHANGED <<log, seen, failed>>

\* get_all_events raises; the projection stays as it was cleared.
RebuildRaises(r) ==
  /\ task[r].at = "cleared"
  /\ failed' = TRUE
  /\ task' = [task EXCEPT ![r] = Idle]
  /\ UNCHANGED <<log, seen, view>>

Next ==
  /\ \/ AppendEvent \/ Deliver
     \/ \E r \in Rebuilders :
          Rebuild(r) \/ GetAllEvents(r) \/ RebuildReplays(r) \/ RebuildRaises(r)
  /\ UNCHANGED subject

Spec == Init /\ [][Next]_vars

--------------------------------------------------------------------------------
(* Properties. *)

Replayed(r) == task[r].at = "read" /\ task'[r].at = "idle"

\* Within the limit, the agents and the missions of the events a rebuild has read
\* come out exactly as those events make them, whatever was delivered or rebuilt
\* during its await; and each mission is on its agent's list.
RebuildsAreExact ==
  [][\A r \in Rebuilders : Replayed(r) =>
       LET agents == Replay("agent", Empty.agent, task[r].upto)
           missions == Replay("mission", Empty.mission, task[r].upto).byId
       IN  /\ subject = "agent" => \A a \in Agents :
                agents[a] # Unknown => view'.agent[a] = agents[a]
           /\ subject = "mission" => \A m \in Missions : missions[m] # Unknown =>
                /\ view'.mission.byId[m] = missions[m]
                /\ m \in ToSet(view'.mission.byAgent[missions[m].agent])]_vars

\* Within the limit, no delivered event is missing from the ledger once no
\* rebuild is under way, unless one has raised and none has begun since.
LedgerMissesNothing ==
  (subject = "economy" /\ ~ failed /\ \A r \in Rebuilders : task[r] = Idle) =>
    \A k \in 1 .. seen : log[k].type \in RelevantTo.economy =>
      \E i \in DOMAIN view.economy.ledger[log[k].agg] :
        view.economy.ledger[log[k].agg][i].event = k

\* Transfers create and destroy no credit, however often they are replayed:
\* a transfer to a known agent is in both ledgers equally often.
TransfersConserveCredit ==
  \A k \in DOMAIN log : log[k].type = "economy.credit_transferred" /\ log[k].other # Nobody =>
    LET times(a, delta) == Cardinality({i \in DOMAIN view.economy.ledger[a] :
                             /\ view.economy.ledger[a][i].event = k
                             /\ view.economy.ledger[a][i].delta = delta})
    IN  times(log[k].agg, -1) = times(log[k].other, 1)
================================================================================
