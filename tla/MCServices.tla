------------------------------ MODULE MCServices -------------------------------
(***************************************************************************)
(* The services around the missions for TLC, side by side, as in           *)
(* MCGovernance: a behaviour is one of one part, chosen at the start, and  *)
(* the variables of the other parts stay as they begin.  Parts of one      *)
(* module with different bounds share their variables.                     *)
(***************************************************************************)
EXTENDS Integers, Sequences, FiniteSets

CONSTANTS
  Parts,                                         \* the parts that are checked
  \* The bounds of the parts that are proved about
  Subscribers, EventTypes, MaxDeliveries,                        \* Webhooks
  ApiKeys, Limits, Lifetimes, Connections, Moments, MaxPassed,   \* ApiGateway
  BufferSize, MaxPublished,
  McpCallers, Servers, Advertising, MaxStarts, MaxWritten,       \* McpClient
  Callbacks, Available, MaxConnections, MaxBusEvents,            \* EventBus
  CacheKeys, CacheMembers, Fillers, TTLs, MaxSize, Backends,     \* Caches
  CacheMoments, MaxWrites,
  Names, VaultCallers, Workers, Home, Configured,                \* Vault
  MaxStores, MaxRestarts,
  LeadIds, CampaignIds, DeskRequests, LeadScores, LeadStatuses,  \* SalesDesk
  MaxPosts, MaxDeals,
  Learners, Results, Complexities, Models, Qualities, Costs,     \* MetaLearning
  Flaws, TrendWindow, Enough, MaxOutcomes,
  DeskAgents, Workforces, Members, Runs, AgentStatuses,          \* AgentDesk
  Servings, KeysKept, MaxAgentEvents,
  Industries, Sizes, Target, MaxFound, Length,                   \* Outreach
  Holders, Priced, Tellers, Amounts, TenantKeep, AgentKeep,      \* Economy
  MaxMovements, MaxCredit,
  MaxPlan,                                                       \* Reasoning
  MissionIds, MaxSteps                                           \* Missions

VARIABLES
  part,
  \* Webhooks
  subscriptions, used, deliveries, hookTasks,
  \* ApiGateway
  time, apiKeys, buckets, passed, sockets, subscribed, activity, spoken,
  spoiled, buffer, published,
  \* McpClient
  enabled, client, processes, running, tools, callTasks, requests,
  shared,
  \* EventBus
  connected, current, connecting, connections, open, local, remote,
  inbox, heard, owed, events,
  \* LeadGeneration
  leadStep, enrich, results, leadScore, browsed, outcome,
  \* RevenuePipeline
  pipeStep, k, options, leads, qualified, opportunities, proposals,
  totals, errors,
  \* SalesDesk
  lead, deals, request, unsafe, closed, campaign, refused,
  \* Caches
  clock, source, backend, store, redis, filling, read, failed, raced,
  \* MetaLearning
  outcomes, performance, levels, configured, recorded,
  \* AgentDesk
  agent, born, waiting, history, lost, member, workforce, run, clashed,
  \* Outreach
  outreachStep, place, found, prospects, delivered, sending, summary,
  \* Economy
  account, credit, ofTenant, ofAgent, caller, asset, quoted, movements,
  topped, unrecorded, dropped,
  \* Vault
  rows, starts, calls, stored, latest, overlapped,
  \* Reasoning
  job, node, plan, step, stepResults, iterations, visited, reply, broken,
  \* Missions
  accepted, missionTasks, kept, listed, charged, shaken

hookVars == <<subscriptions, used, deliveries, hookTasks>>
gatewayVars == <<time, apiKeys, buckets, passed, sockets, subscribed, activity, spoken, spoiled, buffer,
                  published>>
clientVars == <<enabled, client, processes, running, tools, callTasks, requests, shared>>
busVars == <<connected, current, connecting, connections, open, local, remote, inbox, heard, owed, events>>
leadVars == <<leadStep, enrich, results, leadScore, browsed, outcome>>
pipeVars == <<pipeStep, k, options, leads, qualified, opportunities, proposals, totals, errors>>
deskVars == <<lead, deals, request, unsafe, closed, campaign, refused>>
cacheVars == <<clock, source, backend, store, redis, filling, read, failed, raced>>
learnVars == <<outcomes, performance, levels, configured, recorded>>
agentVars == <<agent, born, waiting, history, lost, member, workforce, run, clashed>>
outreachVars == <<outreachStep, place, found, prospects, delivered, sending, summary>>
economyVars == <<account, credit, ofTenant, ofAgent, caller, asset, quoted, movements, topped,
                 unrecorded, dropped>>
vaultVars == <<rows, starts, calls, stored, latest, overlapped>>
reasonVars == <<job, node, plan, step, stepResults, iterations, visited, reply, broken>>
missionVars == <<accepted, missionTasks, kept, listed, charged, shaken>>

(***************************************************************************)
(* The parts and their bounds                                              *)
(***************************************************************************)
WH == INSTANCE Webhooks WITH tasks <- hookTasks

GW == INSTANCE ApiGateway WITH
        now <- time, keys <- apiKeys, Keys <- ApiKeys, MaxRequests <- MaxPassed,
        MaxEvents <- MaxPublished

MC == INSTANCE McpClient WITH tasks <- callTasks, Callers <- McpCallers, MaxRequests <- MaxWritten

EB == INSTANCE EventBus WITH MaxEvents <- MaxBusEvents

LG == INSTANCE LeadGeneration WITH
        phase <- leadStep, found <- results, score <- leadScore, Urls <- {"p"},
        Playwright <- TRUE, MaxLeads <- 2, MinScore <- 50, Scores <- {40, 90}

\* The texts a model may answer: no list at all, a list under some key or in
\* prose, and the figures of a lead in every form that is understood or not.
Lists ==
  {[form |-> "raises", items |-> <<>>],
   [form |-> "keyed", items |-> <<"company", "company", "company">>],
   [form |-> "prose", items |-> <<"other", "company", "company">>],
   [form |-> "text", items |-> <<>>]}
NoNumber == -1
Assessments ==
  {[form |-> "raises", data |-> <<>>], [form |-> "text", data |-> <<>>],
   [form |-> "json", data |-> [score |-> 80, value |-> 5]],
   [form |-> "prose", data |-> [score |-> 60]],
   [form |-> "fenced", data |-> [score |-> 59, value |-> 3]],
   [form |-> "json", data |-> [score |-> NoNumber]],
   [form |-> "json", data |-> [score |-> 90, value |-> NoNumber]]}

RP == INSTANCE RevenuePipeline WITH
        phase <- pipeStep, Threshold <- 60, MaxLeads <- 3

\* The leads and the campaigns of the sales desk.
SL == INSTANCE SalesDesk WITH
        Leads <- LeadIds, Campaigns <- {}, Requests <- DeskRequests, Scores <- LeadScores,
        Statuses <- LeadStatuses, MaxPosts <- 0, ForeignKeys <- FALSE
SC == INSTANCE SalesDesk WITH
        Leads <- {}, Campaigns <- CampaignIds, Requests <- DeskRequests, Scores <- {},
        Statuses <- {}, ForeignKeys <- FALSE, MaxDeals <- 0

\* An asset with what is derived from it.
MembersOfAsset == [asset |-> <<"risk">>, risk |-> <<>>]
CA == INSTANCE Caches WITH
        now <- clock, Keys <- CacheKeys, Members <- CacheMembers, Callers <- Fillers,
        Moments <- CacheMoments

ML == INSTANCE MetaLearning WITH Agents <- Learners, Window <- TrendWindow

AD == INSTANCE AgentDesk WITH
        Agents <- DeskAgents, Statuses <- AgentStatuses, Processes <- Servings,
        ForeignKeys <- KeysKept, MaxEvents <- MaxAgentEvents

OR == INSTANCE Outreach WITH phase <- outreachStep

\* The accounts of two agents; the prices of one that has a row as an asset.
EA == INSTANCE Economy WITH
        Agents <- Holders, Registrable <- {}, Callers <- Tellers
EP == INSTANCE Economy WITH
        Agents <- Priced, Registrable <- Priced, Callers <- Tellers, MaxMovements <- 0,
        MaxCredit <- 0

\* Two workers that make up a secret each.
HomeOf == [c |-> "p", d |-> "q"]
VA == INSTANCE Vault WITH Callers <- VaultCallers, Processes <- Workers

\* With the limit that LangGraph has by itself.
RE == INSTANCE Reasoning WITH results <- stepResults, RecursionLimit <- 25

MI == INSTANCE Missions WITH tasks <- missionTasks, Ids <- MissionIds

\* What the values of the bounds satisfy.
ASSUME BoundsAssumption ==
  /\ WH!WebhooksAssumption /\ GW!GatewayAssumption /\ MC!McpAssumption /\ EB!BusAssumption
  /\ CA!CacheAssumption /\ VA!VaultAssumption
  /\ LG!LeadAssumption /\ RP!PipelineAssumption
  /\ SL!DeskAssumption /\ SC!DeskAssumption
  /\ ML!LearningAssumption /\ AD!DeskAssumption /\ OR!OutreachAssumption
  /\ EA!EconomyAssumption /\ EP!EconomyAssumption
  /\ RE!ReasoningAssumption /\ MI!MissionsAssumption

(***************************************************************************)
(* The behaviours                                                          *)
(***************************************************************************)
InitAll ==
  /\ part \in Parts
  /\ WH!Init /\ GW!Init /\ MC!Init /\ EB!Init /\ LG!LeadInit /\ RP!PipeInit
  /\ ML!LearnInit /\ AD!DeskInit /\ OR!OutreachInit /\ VA!VaultInit /\ RE!ReasoningInit
  /\ MI!MissionsInit /\ CA!CacheInit
  /\ IF part = "posts" THEN SC!DeskInit ELSE SL!DeskInit
  /\ IF part = "prices" THEN EP!EconomyInit ELSE EA!EconomyInit
  /\ part # "search" => ~enrich
  /\ part # "caches" => backend = CHOOSE b \in Backends : TRUE
  /\ part # "pipeline" => \A o \in DOMAIN options : ~options[o]

OnlyWebhooks ==
  UNCHANGED <<part, gatewayVars, clientVars, busVars, leadVars, pipeVars, deskVars,
              cacheVars, learnVars, agentVars, outreachVars, economyVars, vaultVars,
              reasonVars, missionVars>>
OnlyApiGateway ==
  UNCHANGED <<part, hookVars, clientVars, busVars, leadVars, pipeVars, deskVars, cacheVars,
              learnVars, agentVars, outreachVars, economyVars, vaultVars, reasonVars,
              missionVars>>
OnlyMcpClient ==
  UNCHANGED <<part, hookVars, gatewayVars, busVars, leadVars, pipeVars, deskVars, cacheVars,
              learnVars, agentVars, outreachVars, economyVars, vaultVars, reasonVars,
              missionVars>>
OnlyEventBus ==
  UNCHANGED <<part, hookVars, gatewayVars, clientVars, leadVars, pipeVars, deskVars,
              cacheVars, learnVars, agentVars, outreachVars, economyVars, vaultVars,
              reasonVars, missionVars>>
OnlyLeadGeneration ==
  UNCHANGED <<part, hookVars, gatewayVars, clientVars, busVars, pipeVars, deskVars,
              cacheVars, learnVars, agentVars, outreachVars, economyVars, vaultVars,
              reasonVars, missionVars>>
OnlyRevenuePipeline ==
  UNCHANGED <<part, hookVars, gatewayVars, clientVars, busVars, leadVars, deskVars,
              cacheVars, learnVars, agentVars, outreachVars, economyVars, vaultVars,
              reasonVars, missionVars>>
OnlySalesDesk ==
  UNCHANGED <<part, hookVars, gatewayVars, clientVars, busVars, leadVars, pipeVars,
              cacheVars, learnVars, agentVars, outreachVars, economyVars, vaultVars,
              reasonVars, missionVars>>
OnlyCaches ==
  UNCHANGED <<part, hookVars, gatewayVars, clientVars, busVars, leadVars, pipeVars,
              deskVars, learnVars, agentVars, outreachVars, economyVars, vaultVars,
              reasonVars, missionVars>>
OnlyMetaLearning ==
  UNCHANGED <<part, hookVars, gatewayVars, clientVars, busVars, leadVars, pipeVars,
              deskVars, cacheVars, agentVars, outreachVars, economyVars, vaultVars,
              reasonVars, missionVars>>
OnlyAgentDesk ==
  UNCHANGED <<part, hookVars, gatewayVars, clientVars, busVars, leadVars, pipeVars,
              deskVars, cacheVars, learnVars, outreachVars, economyVars, vaultVars,
              reasonVars, missionVars>>
OnlyOutreach ==
  UNCHANGED <<part, hookVars, gatewayVars, clientVars, busVars, leadVars, pipeVars,
              deskVars, cacheVars, learnVars, agentVars, economyVars, vaultVars, reasonVars,
              missionVars>>
OnlyEconomy ==
  UNCHANGED <<part, hookVars, gatewayVars, clientVars, busVars, leadVars, pipeVars,
              deskVars, cacheVars, learnVars, agentVars, outreachVars, vaultVars,
              reasonVars, missionVars>>
OnlyVault ==
  UNCHANGED <<part, hookVars, gatewayVars, clientVars, busVars, leadVars, pipeVars,
              deskVars, cacheVars, learnVars, agentVars, outreachVars, economyVars,
              reasonVars, missionVars>>
OnlyReasoning ==
  UNCHANGED <<part, hookVars, gatewayVars, clientVars, busVars, leadVars, pipeVars,
              deskVars, cacheVars, learnVars, agentVars, outreachVars, economyVars,
              vaultVars, missionVars>>
OnlyMissions ==
  UNCHANGED <<part, hookVars, gatewayVars, clientVars, busVars, leadVars, pipeVars,
              deskVars, cacheVars, learnVars, agentVars, outreachVars, economyVars,
              vaultVars, reasonVars>>

NextAll ==
  \/ part = "webhooks" /\ WH!Next /\ OnlyWebhooks
  \/ part = "gateway" /\ GW!Next /\ OnlyApiGateway
  \/ part = "mcp" /\ MC!Next /\ OnlyMcpClient
  \/ part = "bus" /\ EB!Next /\ OnlyEventBus
  \/ part = "search" /\ LG!LeadNext /\ OnlyLeadGeneration
  \/ part = "pipeline" /\ RP!PipeNext /\ OnlyRevenuePipeline
  \/ part = "leads" /\ SL!DeskNext /\ OnlySalesDesk
  \/ part = "posts" /\ SC!DeskNext /\ OnlySalesDesk
  \/ part = "caches" /\ CA!CacheNext /\ OnlyCaches
  \/ part = "learning" /\ ML!LearnNext /\ OnlyMetaLearning
  \/ part = "agents" /\ AD!DeskNext /\ OnlyAgentDesk
  \/ part = "outreach" /\ OR!OutreachNext /\ OnlyOutreach
  \/ part = "accounts" /\ EA!EconomyNext /\ OnlyEconomy
  \/ part = "prices" /\ EP!EconomyNext /\ OnlyEconomy
  \/ part = "vault" /\ VA!VaultNext /\ OnlyVault
  \/ part = "tasks" /\ RE!ReasoningNext /\ OnlyReasoning
  \/ part = "missions" /\ MI!MissionsNext /\ OnlyMissions

allVars ==
  <<part, hookVars, gatewayVars, clientVars, busVars, leadVars, pipeVars, deskVars,
    cacheVars, learnVars, agentVars, outreachVars, economyVars, vaultVars, reasonVars,
    missionVars>>

SpecAll == InitAll /\ [][NextAll]_allVars

--------------------------------------------------------------------------------
\* Every variable of the part that runs keeps its type.
TypesOK ==
  CASE part = "webhooks" -> WH!TypeOK        [] part = "gateway" -> GW!TypeOK
    [] part = "mcp" -> MC!TypeOK             [] part = "bus" -> EB!TypeOK
    [] part = "search" -> LG!LeadTypeOK      [] part = "pipeline" -> RP!PipeTypeOK
    [] part = "leads" -> SL!DeskTypeOK       [] part = "posts" -> SC!DeskTypeOK
    [] part = "caches" -> CA!CacheTypeOK     [] part = "learning" -> ML!LearnTypeOK
    [] part = "agents" -> AD!DeskTypeOK      [] part = "outreach" -> OR!OutreachTypeOK
    [] part = "accounts" -> EA!EconomyTypeOK [] part = "prices" -> EP!EconomyTypeOK
    [] part = "vault" -> VA!VaultTypeOK      [] part = "tasks" -> RE!ReasoningTypeOK
    [] part = "missions" -> MI!MissionsTypeOK

\* What is sent arrives once and at the right place, through lost answers, retries
\* and reconnections: a delivery of a webhook has one task at most, an answer of a
\* server belongs to the request of its caller, an event reaches each subscriber it
\* is owed once, and a connection that is never silent keeps its subscription; nor
\* does a key let more through in any minute than it allows.
MessagesArriveOnce ==
  /\ part = "webhooks" => WH!DeliveriesHaveOneTask
  /\ part = "mcp" => MC!OwnAnswers
  /\ part = "bus" => EB!CalledOnceEach
  /\ part = "gateway" => GW!PingsKeepAlive /\ GW!KeyLimitHolds

\* The numbers of the sales account for every lead, post and email, whatever fails
\* half-way and whichever requests overlap.
SalesAddUp ==
  /\ part = "search" => LG!CutKeepsTheBest
  /\ part = "pipeline" => RP!PipelineAddsUp
  /\ part = "leads" => SL!StatusFollowsScore
  /\ part = "posts" => SC!OverpostingIsBounded
  /\ part = "outreach" => OR!OutreachAddsUp

\* Nothing is read from a cache beyond its lifetime, nor a value that was replaced
\* but for an outage or a fill that was under way; nor is a key of the vault other
\* than the one that was stored last, unless two of its stores overlapped.
ReadsAreFresh ==
  /\ part = "caches" => CA!ReadsAreFresh
  /\ part = "vault" => VA!KeysAreTrue

\* The books about agents agree with what they did: outcomes with figures, rows with
\* events, runs with counters, balances with histories, prices with risks, the
\* answer of a task with the plan it was reasoned along, and the costs of a mission
\* with what was charged.
BooksAgree ==
  /\ part = "learning" => ML!StatsAgree
  /\ part = "agents" => AD!AgentHistoryIsTrue /\ AD!RunsAddUp
  /\ part = "accounts" => EA!AccountsAddUp
  /\ part = "prices" => EP!QuotesFollowRisk
  /\ part = "tasks" => RE!TasksAreAnswered
  /\ part = "missions" => MI!CostsAreTrue
================================================================================
