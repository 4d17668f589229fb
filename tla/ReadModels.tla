------------------------------- MODULE ReadModels -------------------------------
(***************************************************************************)
(* The CQRS commands and the two read models that answer its queries       *)
(* (backend/core/cqrs/cqrs_impl.py).                                       *)
(*                                                                         *)
(* Commands append events and touch no read model.  A read model caches one*)
(* view per aggregate.  get_by_id fills the cache on a miss, rebuild from  *)
(* the newest Limit events of the store; each of them awaits the store     *)
(* between looking at the cache and writing it, and clients do both at the *)
(* same time.  A view is built from events sorted by version.              *)
(*                                                                         *)
(* Versions follow the order of the log here: what concurrent appends do to*)
(* them is the subject of EventStore.                                      *)
(***************************************************************************)
EXTENDS Integers, Sequences, FiniteSets, SequencesExt

CONSTANTS
  Agents,    \* ids of agent aggregates
  Missions,  \* ids of mission aggregates
  Clients,   \* tasks that query and rebuild
  Limit,     \* get_all_events' limit
  MaxLog     \* bound on the events in the store

\* What the values of the constants satisfy.
ReadModelsAssumption ==
  /\ Limit \in Nat \ {0} /\ MaxLog \in Nat
  /\ Agents \cap Missions = {}

VARIABLES
  log,      \* the event store: [type, agg, data] in the order of commit
  cache,    \* both models' _cache: aggregate -> view, or NoView
  byAgent,  \* MissionReadModel._by_agent: agent -> list of missions
  task      \* each client: [at, of, seen]

vars == <<log, cache, byAgent, task>>

NoView == [absent |-> TRUE]
Nobody == "nobody"
Ids == Agents \cup Missions

AgentEvents == {"agent.created", "agent.updated", "economy.balance_adjusted"}
MissionEvents == {"mission.created", "mission.started", "mission.completed",
                  "mission.failed", "mission.cancelled"}
Event == [type : AgentEvents \cup MissionEvents, agg : Ids, agent : Agents \cup {Nobody}]

AgentView == [id : BOOLEAN, version : Nat, balance : Int]
MissionView == [agent : Agents \cup {Nobody}, version : Nat,
                status : {"", "created", "running", "completed", "failed", "cancelled"}]

Idle == [at |-> "idle", of |-> "", seen |-> 0]
Task == [at : {"idle", "get", "got", "rebuild", "rebuilt"},
         of : Ids \cup {"", "agent", "mission"}, seen : 0 .. MaxLog]

TypeOK ==
  /\ log \in Seq(Event) /\ Len(log) <= MaxLog
  /\ \A a \in Agents : cache[a] \in AgentView \cup {NoView}
  /\ \A m \in Missions : cache[m] \in MissionView \cup {NoView}
  /\ DOMAIN cache = Ids
  /\ byAgent \in [Agents -> Seq(Missions)]
  /\ task \in [Clients -> Task]

Init ==
  /\ log = <<>>
  /\ cache = [i \in Ids |-> NoView]
  /\ byAgent = [a \in Agents |-> <<>>]
  /\ task = [c \in Clients |-> Idle]

--------------------------------------------------------------------------------
(* Views *)

\* An event of an aggregate with its version, which is its rank among them.
History(i, n) ==
  LET own == SelectSeq(SubSeq(log, 1, n), LAMBDA e : e.agg = i)
  IN  [k \in 1 .. Len(own) |-> [type |-> own[k].type, agent |-> own[k].agent, version |-> k]]

\* Mutant: the events are taken as get_all_events returns them, newest first.
RecentUnsorted(i, n) ==
  LET older == IF n > Limit THEN n - Limit ELSE 0
      own == History(i, n)
  IN  Reverse(SubSeq(own, Len(History(i, older)) + 1, Len(own)))

\* What get_all_events returns of i's events, when the store held n events,
\* sorted by version.
Recent(i, n) ==
  LET older == IF n > Limit THEN n - Limit ELSE 0
      own == History(i, n)
  IN  SubSeq(own, Len(History(i, older)) + 1, Len(own))

\* AgentReadModel._build_from_events: only a created or updated event sets the
\* version, and a created event starts the view afresh.
OnAgentEvent(view, e) ==
  CASE e.type = "agent.created" -> [id |-> TRUE, version |-> e.version, balance |-> 0]
    [] e.type = "agent.updated" -> [view EXCEPT !.version = e.version]
    [] e.type = "economy.balance_adjusted" -> [view EXCEPT !.balance = @ + 1]

\* MissionReadModel._build_from_events: only a created event names the agent.
OnMissionEvent(view, e) ==
  CASE e.type = "mission.created" ->
         [status |-> "created", agent |-> e.agent, version |-> e.version]
    [] e.type = "mission.started" -> [view EXCEPT !.status = "running", !.version = e.version]
    [] e.type = "mission.completed" -> [view EXCEPT !.status = "completed", !.version = e.version]
    [] e.type = "mission.failed" -> [view EXCEPT !.status = "failed", !.version = e.version]
    [] e.type = "mission.cancelled" -> [view EXCEPT !.status = "cancelled", !.version = e.version]

Build(i, events) ==
  IF i \in Agents
  THEN FoldLeft(OnAgentEvent, [id |-> FALSE, version |-> 0, balance |-> 0], events)
  ELSE FoldLeft(OnMissionEvent, [status |-> "", agent |-> Nobody, version |-> 0], events)

--------------------------------------------------------------------------------
(* Commands *)

Emit(type, i, a) ==
  /\ Len(log) < MaxLog
  /\ log' = Append(log, [type |-> type, agg |-> i, agent |-> a])
  /\ UNCHANGED <<cache, byAgent, task>>

IsNew(i) == \A k \in DOMAIN log : log[k].agg # i

\* CreateAgentCommandHandler draws a fresh id.
CreateAgent(a) == IsNew(a) /\ Emit("agent.created", a, Nobody)
\* The other handlers do not look whether the aggregate exists.
UpdateAgent(a) == Emit("agent.updated", a, Nobody)
AdjustCredit(a) == Emit("economy.balance_adjusted", a, Nobody)
StartMission(m, a) == Emit("mission.started", m, a)
CompleteMission(m) == Emit("mission.completed", m, Nobody)

\* Mission events the models read and no command handler emits.
EmittedElsewhere(m) ==
  \/ \E a \in Agents : IsNew(m) /\ Emit("mission.created", m, a)
  \/ ~ IsNew(m) /\ (Emit("mission.failed", m, Nobody) \/ Emit("mission.cancelled", m, Nobody))

--------------------------------------------------------------------------------
(* get_by_id *)

\* A hit returns the cached view and changes nothing; a miss asks the store.
GetById(c, i) ==
  /\ task[c].at = "idle" /\ cache[i] = NoView
  /\ task' = [task EXCEPT ![c] = [at |-> "get", of |-> i, seen |-> 0]]
  /\ UNCHANGED <<log, cache, byAgent>>

GetEvents(c) ==
  /\ task[c].at = "get"
  /\ task' = [task EXCEPT ![c].at = "got", ![c].seen = Len(log)]
  /\ UNCHANGED <<log, cache, byAgent>>

\* Mutant: a mission without an agent gets a list too.
IndexesNobody(index, m, view) ==
  IF view.agent \in DOMAIN index
  THEN IF m \in ToSet(index[view.agent]) THEN index
       ELSE [index EXCEPT ![view.agent] = Append(@, m)]
  ELSE [a \in DOMAIN index \cup {Nobody} |-> IF a = Nobody THEN <<m>> ELSE index[a]]

\* A mission with a known agent is put on the agent's list, once.
Indexed(index, m, view) ==
  IF view.agent = Nobody \/ m \in ToSet(index[view.agent]) THEN index
  ELSE [index EXCEPT ![view.agent] = Append(@, m)]

CacheView(c) ==
  /\ task[c].at = "got"
  /\ LET i == task[c].of
         events == History(i, task[c].seen)
         view == Build(i, events)
     IN  \/ /\ events = <<>>
            /\ UNCHANGED <<cache, byAgent>>
         \/ /\ events # <<>>
            /\ cache' = [cache EXCEPT ![i] = view]
            /\ byAgent' = IF i \in Missions THEN Indexed(byAgent, i, view) ELSE byAgent
  /\ task' = [task EXCEPT ![c] = Idle]
  /\ UNCHANGED log

--------------------------------------------------------------------------------
(* rebuild *)

RebuildAgents(c) ==
  /\ task[c].at = "idle"
  /\ task' = [task EXCEPT ![c] = [at |-> "rebuild", of |-> "agent", seen |-> 0]]
  /\ UNCHANGED <<log, cache, byAgent>>

\* Mutant: the index survives the clearing of the cache.
RebuildMissionsKeepingIndex(c) ==
  /\ task[c].at = "idle"
  /\ cache' = [i \in Ids |-> IF i \in Missions THEN NoView ELSE cache[i]]
  /\ task' = [task EXCEPT ![c] = [at |-> "rebuild", of |-> "mission", seen |-> 0]]
  /\ UNCHANGED <<log, byAgent>>

RebuildMissions(c) ==
  /\ task[c].at = "idle"
  /\ cache' = [i \in Ids |-> IF i \in Missions THEN NoView ELSE cache[i]]
  /\ byAgent' = [a \in Agents |-> <<>>]
  /\ task' = [task EXCEPT ![c] = [at |-> "rebuild", of |-> "mission", seen |-> 0]]
  /\ UNCHANGED log

GetAllEvents(c) ==
  /\ task[c].at = "rebuild"
  /\ task' = [task EXCEPT ![c].at = "rebuilt", ![c].seen = Len(log)]
  /\ UNCHANGED <<log, cache, byAgent>>

\* Every aggregate among the events gets a new view; missions come in any order.
RebuildViews(c) ==
  /\ task[c].at = "rebuilt"
  /\ LET n == task[c].seen
         found == {i \in IF task[c].of = "agent" THEN Agents ELSE Missions :
                     Recent(i, n) # <<>>}
         view(i) == Build(i, Recent(i, n))
     IN  /\ cache' = [i \in Ids |-> IF i \in found THEN view(i) ELSE cache[i]]
         /\ \E order \in SetToAllKPermutations(found \cap Missions) :
              /\ Len(order) = Cardinality(found \cap Missions)
              /\ byAgent' = FoldLeft(LAMBDA x, m : Indexed(x, m, view(m)), byAgent, order)
  /\ task' = [task EXCEPT ![c] = Idle]
  /\ UNCHANGED log

\* A query that fails leaves what the client had done so far.
StoreRaises(c) ==
  /\ task[c].at \in {"get", "rebuild"}
  /\ task' = [task EXCEPT ![c] = Idle]
  /\ UNCHANGED <<log, cache, byAgent>>

Next ==
  \/ \E a \in Agents : CreateAgent(a) \/ UpdateAgent(a) \/ AdjustCredit(a)
  \/ \E m \in Missions : CompleteMission(m) \/ EmittedElsewhere(m)
  \/ \E m \in Missions, a \in Agents : StartMission(m, a)
  \/ \E c \in Clients :
       \/ \E i \in Ids : GetById(c, i)
       \/ GetEvents(c) \/ CacheView(c)
       \/ RebuildAgents(c) \/ RebuildMissions(c)
       \/ GetAllEvents(c) \/ RebuildViews(c) \/ StoreRaises(c)

Spec == Init /\ [][Next]_vars

--------------------------------------------------------------------------------
(* Queries that are answered without waiting for a view *)

Count(events, is(_)) == Len(SelectSeq(events, is))

\* list_missions of an agent, from the cache alone; NoStatus is no filter.
NoStatus == "any"
Matches(m, status) == cache[m] # NoView /\ status \in {NoStatus, cache[m].status}
ListMissions(a, status) == SelectSeq(byAgent[a], LAMBDA m : Matches(m, status))

\* Mutant: every event of the agent counts as an adjustment.
BalanceOfAllEvents(a) == 1000 + Len(History(a, Len(log)))

\* The balance above its start of 1000; every adjustment is of 1, and no command
\* emits what is earned or spent.
Balance(a) ==
  1000 + Count(History(a, Len(log)), LAMBDA e : e.type = "economy.balance_adjusted")

\* The newest Limit events, of one agent or of Nobody, which is no filter: the
\* agent is looked for in every event, and an event of completion names none.
Metrics(a) ==
  LET older == IF Len(log) > Limit THEN Len(log) - Limit ELSE 0
      events == SelectSeq(SubSeq(log, older + 1, Len(log)),
                          LAMBDA e : e.agg \in Missions /\ a \in {Nobody, e.agent})
      count(type) == Count(events, LAMBDA e : e.type = type)
  IN  [total |-> count("mission.started"), completed |-> count("mission.completed"),
       failed |-> count("mission.failed")]

--------------------------------------------------------------------------------
(* Properties. *)

\* While the store holds no more than Limit events: however gets and rebuilds
\* overlap, a cached view is one its aggregate really had at some time.
CacheIsSomePast ==
  \A i \in Ids : cache[i] # NoView =>
    \E n \in 0 .. Len(log) : History(i, n) # <<>> /\ cache[i] = Build(i, History(i, n))

\* The per-agent lists and the mission cache agree: a mission is listed for its
\* agent, once, exactly if it is cached with that agent and the asked status, and
\* no list keeps a mission that the cache lost.
IndexMatchesCache ==
  \A a \in Agents, s \in {NoStatus, "created", "completed"} :
    /\ IsInjective(byAgent[a])
    /\ \A m \in ToSet(byAgent[a]) : cache[m] # NoView
    /\ ToSet(ListMissions(a, s)) =
         {m \in Missions : Matches(m, s) /\ cache[m].agent = a}

\* The queries that go to the store agree with the views: a balance is the one of
\* the view its whole history makes, whoever adjusted before the creation, and
\* the missions started by each agent add up to all that were.
QueriesAgree ==
  /\ \A a \in Agents : Balance(a) = 1000 + Build(a, History(a, Len(log))).balance
  /\ Metrics(Nobody).total = MapThenSumSet(LAMBDA a : Metrics(a).total, Agents)
================================================================================
