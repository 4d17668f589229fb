----------------------------- MODULE MCEventSourcing ------------------------------
(***************************************************************************)
(* The event store, the read models and the projections for TLC.  They are *)
(* checked side by side: a behaviour is one of EventStore, of ReadModels   *)
(* or of Projections, chosen at the start, and the variables of the other  *)
(* two stay as they begin.                                                 *)
(***************************************************************************)
EXTENDS EventStore, TLC

CONSTANTS
  Parts,                      \* the parts that are checked
  Agents, Missions, Clients,  \* of ReadModels
  Known, Tasks, Rebuilders,   \* of Projections: agents and missions
  Limit, MaxLog               \* of both

VARIABLES
  part,
  log, cache, byAgent, client,                    \* of ReadModels
  subject, history, seen, view, rebuilder, failed \* of Projections

viewVars == <<log, cache, byAgent, client>>
projectionVars == <<subject, history, seen, view, rebuilder, failed>>

R == INSTANCE ReadModels WITH task <- client
P == INSTANCE Projections WITH
       Agents <- Known, Missions <- Tasks, log <- history, task <- rebuilder

ASSUME R!ReadModelsAssumption /\ P!ProjectionsAssumption

InitAll ==
  /\ part \in Parts /\ Init /\ R!Init /\ P!Init
  /\ part # "projections" => subject = "agent"

NextAll ==
  \/ part = "store" /\ Next /\ UNCHANGED <<part, viewVars, projectionVars>>
  \/ part = "views" /\ R!Next /\ UNCHANGED <<part, vars, projectionVars>>
  \/ part = "projections" /\ P!Next /\ UNCHANGED <<part, vars, viewVars>>

SpecAll == InitAll /\ [][NextAll]_<<part, vars, viewVars, projectionVars>>

Symmetry == Permutations(Writers) \cup Permutations(Clients) \cup Permutations(Rebuilders)
            \cup Permutations(Known)

--------------------------------------------------------------------------------
\* Every variable of the three components keeps its type.
TypesOK == part \in Parts /\ TypeOK /\ R!TypeOK /\ P!TypeOK

\* Within the limit of get_all_events: a cached view is one its aggregate really
\* had, and the missions listed for an agent are those cached with it, however
\* gets and rebuilds overlap; and the queries that read the store agree with it.
ViewsAreTrue == R!CacheIsSomePast /\ R!IndexMatchesCache /\ R!QueriesAgree

\* An agent or a mission of the events a rebuild has read comes out exactly as
\* those events make it, whatever was delivered or rebuilt during its await.
RebuildsAreExact == P!RebuildsAreExact

\* No delivered event is missing from the ledger once rebuilds are over, and a
\* transfer is in both ledgers equally often.
LedgerAddsUp == P!LedgerMissesNothing /\ P!TransfersConserveCredit
================================================================================
