------------------------------ MODULE Economy ------------------------------
(***************************************************************************)
(* The credits of one tenant's agents (backend/economy) and the rows of    *)
(* the asset repository their prices depend on.                            *)
(*                                                                         *)
(* A charge, a reward or a top-up changes the account in one transaction   *)
(* of Redis and records it in a second one, and the caller awaits each of  *)
(* them; either may raise before or after Redis has carried it out.  Both  *)
(* histories keep the newest entries only.  An agent without an account is *)
(* shown a balance of 100 credits, and its first charge starts from 0.     *)
(* Credits bought for the tenant go to a key of their own, which no charge *)
(* reads.                                                                  *)
(*                                                                         *)
(* GovernanceEconomy only computes: it reads the row of an agent and       *)
(* quotes what its mission costs and what its compliance earns.  An agent  *)
(* that is not registered, and a database that raises, leave the base cost *)
(* and no reward.  Multipliers are in tenths.                              *)
(***************************************************************************)
EXTENDS Integers, Sequences, FiniteSets, FiniteSetsExt

CONSTANTS
  Agents,
  Registrable,   \* agents the asset repository may hold a row of
  Callers,       \* coroutines that move credits
  Amounts,       \* credits of a movement
  TenantKeep, AgentKeep,  \* entries the two histories keep: 1000 and 500
  MaxMovements,  \* bound on the movements of a behaviour
  MaxCredit      \* bound on the credits bought for the tenant

\* What the values of the constants satisfy.
EconomyAssumption ==
  /\ Registrable \subseteq Agents /\ Amounts \subseteq Nat \ {0} /\ IsFiniteSet(Callers)
  /\ AgentKeep \in Nat \ {0} /\ TenantKeep \in Nat \ {0}
  /\ MaxMovements \in Nat /\ MaxCredit \in Nat

VARIABLES
  account,    \* the hash of an agent: balance, earned and spent
  credit,     \* the tenant's own balance
  ofTenant,   \* history of the tenant, newest first
  ofAgent,    \* history of each agent, newest first
  caller,     \* what each coroutine still has to record
  asset,      \* row of the agent in the asset repository
  quoted,     \* last answer of calculate_mission_cost
  \* history, which no guard but the bound reads
  movements,  \* movements begun
  topped,     \* credits an agent was topped up with
  unrecorded, \* what was moved and never recorded
  dropped     \* what the history of an agent has dropped

books == <<account, credit, ofTenant, ofAgent, caller, movements, topped, unrecorded, dropped>>
economyVars == <<books, asset, quoted>>

NoAccount == [absent |-> TRUE]
Empty == [balance |-> 0, earned |-> 0, spent |-> 0]
Idle == [type |-> "none", agent |-> "none", amount |-> 0]
NoAsset == [absent |-> TRUE]
NoQuote == [agent |-> "none", base |-> 0, cost |-> 0, tier |-> "none", applied |-> FALSE]

Types == {"charge", "reward", "top_up"}
RiskTiers == <<"minimal", "limited", "high", "unacceptable">>
ComplianceStatuses == {"compliant", "non_compliant", "needs_review", "exempted"}

EconomyInit ==
  /\ account = [a \in Agents |-> NoAccount] /\ credit = 0
  /\ ofTenant = <<>> /\ ofAgent = [a \in Agents |-> <<>>]
  /\ caller = [c \in Callers |-> Idle]
  /\ asset = [a \in Agents |-> NoAsset] /\ quoted = NoQuote
  /\ movements = 0
  /\ topped = [a \in Agents |-> 0] /\ unrecorded = [a \in Agents |-> 0]
  /\ dropped = [a \in Agents |-> 0]

-----------------------------------------------------------------------------
(***************************************************************************)
(* Movements of credits.                                                   *)
(***************************************************************************)
HashOf(a) == IF account[a] = NoAccount THEN Empty ELSE account[a]
Signed(type, amount) == IF type = "charge" THEN -amount ELSE amount

\* Mutant: a reward is not counted as earned.
MovedOnly(hash, type, amount) ==
  [hash EXCEPT !.balance = @ + Signed(type, amount),
               !.spent = IF type = "charge" THEN @ + amount ELSE @]
Moved(hash, type, amount) ==
  [balance |-> hash.balance + Signed(type, amount),
   earned |-> hash.earned + (IF type = "reward" THEN amount ELSE 0),
   spent |-> hash.spent + (IF type = "charge" THEN amount ELSE 0)]

\* The transaction of charge, reward or top_up is carried out; its answer may
\* be lost, and then nothing records the movement.  No balance is checked.
Move(c, type, a, amount, answered) ==
  /\ caller[c] = Idle /\ movements < MaxMovements
  /\ movements' = movements + 1
  /\ account' = [account EXCEPT ![a] = Moved(HashOf(a), type, amount)]
  /\ topped' = [topped EXCEPT ![a] = IF type = "top_up" THEN @ + amount ELSE @]
  /\ caller' = IF answered
                 THEN [caller EXCEPT ![c] = [type |-> type, agent |-> a, amount |-> amount]]
                 ELSE caller
  /\ unrecorded' = IF answered THEN unrecorded
                   ELSE [unrecorded EXCEPT ![a] = @ + Signed(type, amount)]
  /\ UNCHANGED <<credit, ofTenant, ofAgent, dropped, asset, quoted>>

\* Mutant: the list is trimmed at the end that was just pushed to.
TrimmedWrongly(entry, list, keep) ==
  SubSeq(<<entry>> \o list, IF Len(list) < keep THEN 1 ELSE 2, Len(list) + 1)
Pushed(entry, list, keep) ==
  SubSeq(<<entry>> \o list, 1, IF Len(list) < keep THEN Len(list) + 1 ELSE keep)

\* Mutant: the history of the agent is left to a transaction of its own, which
\* fails.
RecordForTenant(c) ==
  LET t == caller[c]
      entry == [agent |-> t.agent, amount |-> Signed(t.type, t.amount), type |-> t.type]
  IN /\ t # Idle
     /\ ofTenant' = Pushed(entry, ofTenant, TenantKeep)
     /\ caller' = [caller EXCEPT ![c] = Idle]
     /\ UNCHANGED <<account, credit, ofAgent, dropped, movements, topped, unrecorded,
                    asset, quoted>>
\* record_transaction pushes to both histories at once, and trims them.
Record(c) ==
  LET t == caller[c]
      entry == [agent |-> t.agent, amount |-> Signed(t.type, t.amount), type |-> t.type]
      own == ofAgent[t.agent]
  IN /\ t # Idle
     /\ ofTenant' = Pushed(entry, ofTenant, TenantKeep)
     /\ ofAgent' = [ofAgent EXCEPT ![t.agent] = Pushed(entry, @, AgentKeep)]
     /\ dropped' = [dropped EXCEPT ![t.agent] =
                      IF Len(own) < AgentKeep THEN @ ELSE @ + own[Len(own)].amount]
     /\ caller' = [caller EXCEPT ![c] = Idle]
     /\ UNCHANGED <<account, credit, movements, topped, unrecorded, asset, quoted>>

\* The second transaction raises, or the coroutine is cancelled or dies with the
\* process: the movement stands.
RecordLost(c) ==
  LET t == caller[c] IN
  /\ t # Idle
  /\ unrecorded' = [unrecorded EXCEPT ![t.agent] = @ + Signed(t.type, t.amount)]
  /\ caller' = [caller EXCEPT ![c] = Idle]
  /\ UNCHANGED <<account, credit, ofTenant, ofAgent, dropped, movements, topped, asset, quoted>>

\* POST /top-up.
AddTenantCredits(amount) ==
  /\ credit + amount <= MaxCredit
  /\ credit' = credit + amount
  /\ UNCHANGED <<account, ofTenant, ofAgent, caller, movements, topped, unrecorded, dropped,
                 asset, quoted>>

-----------------------------------------------------------------------------
(***************************************************************************)
(* What is shown.                                                          *)
(***************************************************************************)
BalanceOf(a) == IF account[a] = NoAccount THEN 100 ELSE account[a].balance
Accounts == {a \in Agents : account[a] # NoAccount}
TenantStats ==
  [agents |-> Cardinality(Accounts),
   balance |-> MapThenSumSet(BalanceOf, Accounts),
   spent |-> MapThenSumSet(LAMBDA a : account[a].spent, Accounts),
   earned |-> MapThenSumSet(LAMBDA a : account[a].earned, Accounts)]

-----------------------------------------------------------------------------
(***************************************************************************)
(* Rows of the repository, and prices.                                     *)
(***************************************************************************)
CreateAsset(a) ==
  /\ a \in Registrable /\ asset[a] = NoAsset
  /\ asset' = [asset EXCEPT ![a] = [tier |-> "none", compliance |-> "none", status |-> "active"]]
  /\ UNCHANGED <<books, quoted>>
UpdateRisk(a, tier) ==
  /\ asset[a] # NoAsset /\ asset' = [asset EXCEPT ![a].tier = tier]
  /\ UNCHANGED <<books, quoted>>
UpdateCompliance(a, status) ==
  /\ asset[a] # NoAsset /\ asset' = [asset EXCEPT ![a].compliance = status]
  /\ UNCHANGED <<books, quoted>>
\* An archived asset keeps its price.
ArchiveAsset(a) ==
  /\ asset[a] # NoAsset /\ asset' = [asset EXCEPT ![a].status = "archived"]
  /\ UNCHANGED <<books, quoted>>

\* Mutant: high-risk agents have no entry, and cost the base.
MultiplierGap(tier) ==
  CASE tier = "limited" -> 12 [] tier = "unacceptable" -> 20
    [] tier \notin {"limited", "unacceptable"} -> 10
RiskMultiplier(tier) ==
  CASE tier = "limited" -> 12 [] tier = "high" -> 15 [] tier = "unacceptable" -> 20
    [] tier \notin {"limited", "high", "unacceptable"} -> 10

\* calculate_mission_cost, in tenths; the database answers or raises.
MissionCost(a, base, answers) ==
  LET applied == answers /\ asset[a] # NoAsset
      tier == IF applied THEN asset[a].tier ELSE "none"
  IN [agent |-> a, base |-> base, tier |-> tier, applied |-> applied,
      cost |-> base * (IF applied THEN RiskMultiplier(tier) ELSE 10)]

ComplianceReward(a) ==
  CASE asset[a] = NoAsset -> 0
    [] asset[a] # NoAsset /\ asset[a].compliance = "compliant" -> 10
    [] asset[a] # NoAsset /\ asset[a].compliance = "non_compliant" -> -20
    [] OTHER -> 0

\* In tenths; a type that is not listed costs 20.
ApprovalCost(type, tier) ==
  (CASE type = "deployment" -> 50 [] type = "modification" -> 30 [] type = "access" -> 10
     [] type = "escalation" -> 100 [] OTHER -> 20) * RiskMultiplier(tier)

Penalty(severity, count) ==
  (CASE severity = "low" -> 10 [] severity = "medium" -> 50 [] severity = "high" -> 100
     [] severity = "critical" -> 500 [] OTHER -> 20) * (10 + 5 * count)

\* get_pricing_summary of a registered agent.
PricingSummary(a) ==
  [multiplier |-> RiskMultiplier(asset[a].tier), reward |-> ComplianceReward(a),
   mission |-> MissionCost(a, 100, TRUE).cost,
   deployment |-> IF asset[a].tier = "none" THEN 500
                  ELSE ApprovalCost("deployment", asset[a].tier)]

Quote(a, base, answers) ==
  /\ quoted' = MissionCost(a, base, answers)
  /\ UNCHANGED <<books, asset>>

EconomyNext ==
  \/ \E c \in Callers, type \in Types, a \in Agents, amount \in Amounts, answered \in BOOLEAN :
       Move(c, type, a, amount, answered)
  \/ \E c \in Callers : Record(c) \/ RecordLost(c)
  \/ \E amount \in Amounts : AddTenantCredits(amount)
  \/ \E a \in Agents :
       \/ CreateAsset(a) \/ ArchiveAsset(a)
       \/ \E i \in DOMAIN RiskTiers : UpdateRisk(a, RiskTiers[i])
       \/ \E status \in ComplianceStatuses : UpdateCompliance(a, status)
  \/ \E a \in Registrable, base \in Amounts, answers \in BOOLEAN : Quote(a, base, answers)

EconomySpec == EconomyInit /\ [][EconomyNext]_economyVars

-----------------------------------------------------------------------------
EconomyTypeOK ==
  /\ \A a \in Agents : account[a] = NoAccount \/ account[a] \in [balance : Int, earned : Nat, spent : Nat]
  /\ Len(ofTenant) <= TenantKeep /\ \A a \in Agents : Len(ofAgent[a]) <= AgentKeep
  /\ credit \in 0 .. MaxCredit
  /\ \A c \in Callers : caller[c].type \in Types \cup {"none"}

TotalOf(f) == MapThenSumSet(LAMBDA x : f[x], DOMAIN f)
AmountOf(list) == TotalOf([i \in DOMAIN list |-> list[i].amount])
Pending(a) ==
  TotalOf([c \in Callers |->
             IF caller[c].agent = a THEN Signed(caller[c].type, caller[c].amount) ELSE 0])
\* How many of the entries up to one are of its agent.
RankOfEntry(list, i) == Cardinality({j \in 1 .. i : list[j].agent = list[i].agent})

\* However movements overlap and fail half-way: a balance is what the agent was
\* topped up with and earned, less what it spent; it is also the sum of what its
\* history shows, what the history dropped, and what was moved without being
\* recorded; and the tenant's history tells the same story of each agent, as far
\* back as both go.
AccountsAddUp ==
  /\ \A a \in Agents :
       /\ HashOf(a).balance = topped[a] + HashOf(a).earned - HashOf(a).spent
       /\ HashOf(a).balance = AmountOf(ofAgent[a]) + dropped[a] + unrecorded[a] + Pending(a)
  /\ \A i \in DOMAIN ofTenant :
       LET own == ofAgent[ofTenant[i].agent]
           rank == RankOfEntry(ofTenant, i)
       IN rank \in DOMAIN own => own[rank] = ofTenant[i]

\* Whatever was assessed before and after: a quote of the governance economy is
\* dearer than that of any lower tier and never below the base, and the summary
\* of prices, which has a figure of its own for an agent that was never rated,
\* shows the approval of a deployment at its cost.
RankOf(tier) == IF tier = "none" THEN 1 ELSE CHOOSE i \in DOMAIN RiskTiers : RiskTiers[i] = tier
QuotesFollowRisk ==
  \A a \in Agents :
    /\ quoted.agent = a =>
         /\ quoted.cost >= quoted.base * 10
         /\ quoted.applied =>
              \A i \in DOMAIN RiskTiers :
                i < RankOf(quoted.tier) => quoted.cost > quoted.base * RiskMultiplier(RiskTiers[i])
    /\ asset[a] # NoAsset =>
         PricingSummary(a).deployment = ApprovalCost("deployment", asset[a].tier)
=============================================================================
