------------------------------ MODULE BusinessSagas -------------------------------
(***************************************************************************)
(* The sagas of the business on the orchestrator that carries them out:    *)
(* one run of the mission, the posting or the deal saga, or of one that    *)
(* another caller builds from any steps, chosen at the start.  Every step  *)
(* of the orchestrator is one of Saga's actions, together with what it     *)
(* lets happen to the data of that saga.                                   *)
(***************************************************************************)
EXTENDS Saga

(***************************************************************************)
(* SocialMediaPostingSaga, one post of a campaign on top of                *)
(* SagaOrchestrator (backend/core/saga/saga_orchestrator.py).              *)
(*                                                                         *)
(* What the model and the guardian write of a post comes back through      *)
(* execute_mission, and the saga reads it under the key "result";          *)
(* MissionExecutor returns it under the key "output".                      *)
(***************************************************************************)
CONSTANT AnswerKey  \* where execute_mission's answer holds the text

ASSUME CampaignAssumption == MaxSteps >= 5 /\ AnswerKey \in {"result", "output"}

VARIABLES
  draft,    \* draft_content_result's draft
  post,     \* what is on the platform
  log       \* the campaign's events of this post

campaign == <<draft, post, log>>

\* asked: schedule_next_at was given; last: post_index + 1 >= total_posts;
\* tool: the platform has a tool, without one posts are simulated; verdict: what
\* the guardian's model says of the draft, "none" if its mission fails or its
\* answer is no JSON.
CampaignRequests ==
  [saga : {"campaign"}, asked : BOOLEAN, last : BOOLEAN, tool : BOOLEAN,
   verdict : {"approved", "rejected", "none"}]

Draft == 0
Validate == 1
Post == 2
Record == 3
ScheduleNext == 4

CampaignTypeOK ==
  /\ draft \in {"empty", "text"}
  /\ post \in {"none", "simulated", "empty", "text"}
  /\ log \subseteq {"published", "compensated", "scheduled", "cancelled"}

CampaignInit == draft = "empty" /\ post = "none" /\ log = {}

Appends(e) == log' = log \cup {e} /\ UNCHANGED <<draft, post>>

--------------------------------------------------------------------------------
(* What a step does when its action takes effect. *)

\* A mission that failed answers without a text.
DraftsContent ==
  /\ draft' \in IF AnswerKey = "result" THEN {"empty", "text"} ELSE {"empty"}
  /\ UNCHANGED <<post, log>>

\* Mutant: the verdict is logged only.
LogsVerdict == UNCHANGED campaign

\* The default, {"approved": true}, is taken when the answer has no text, and
\* when its text is no JSON; a rejection raises.
ValidatesContent ==
  /\ AnswerKey = "result" => request.verdict # "rejected"
  /\ UNCHANGED campaign

PostsContent ==
  /\ post' = IF request.tool THEN draft ELSE "simulated"
  /\ UNCHANGED <<draft, log>>

SchedulesNext ==
  \/ ~ request.last /\ Appends("scheduled")
  \/ request.last /\ UNCHANGED campaign

PerformCampaign(i) ==
  \/ i = Draft /\ DraftsContent
  \/ i = Validate /\ ValidatesContent
  \/ i = Post /\ PostsContent
  \/ i = Record /\ Appends("published")
  \/ i = ScheduleNext /\ SchedulesNext

(* What its compensation does. *)

\* _delete_post logs its intent and calls nothing.
DeletesPost == UNCHANGED campaign

\* Mutant: the post is unrecorded when it is deleted.
UnrecordsWithPost(i) ==
  \/ i \in {Draft, Validate, Record} /\ UNCHANGED campaign
  \/ i = Post /\ Appends("compensated")
  \/ i = ScheduleNext /\ "scheduled" \in log /\ Appends("cancelled")
  \/ i = ScheduleNext /\ "scheduled" \notin log /\ UNCHANGED campaign

CompensateCampaign(i) ==
  \/ i \in {Draft, Validate} /\ UNCHANGED campaign
  \/ i = Post /\ DeletesPost
  \/ i = Record /\ Appends("compensated")
  \/ i = ScheduleNext /\ "scheduled" \in log /\ Appends("cancelled")
  \/ i = ScheduleNext /\ "scheduled" \notin log /\ UNCHANGED campaign

\* The calls of add_step, the last of them only when asked for.
DefineCampaign ==
  /\ AddsSteps(IF request.asked THEN 5 ELSE 4, 0 .. 4)
  /\ UNCHANGED campaign

--------------------------------------------------------------------------------
(* Properties. *)

\* "validate_content - Guardian validates content against policy", as the
\* docstring of the class says: what the guardian rejects is never on the
\* platform, whatever else fails.
RejectedNeverPosted ==
  request.saga = "campaign" /\ request.verdict = "rejected" =>
    post \notin {"empty", "text"}

\* The campaign's events are true, whichever append, action or compensation
\* failed: a post is recorded only when it was posted or simulated, and taken
\* back only when it was recorded; a next post is scheduled only for a recorded
\* one.  When execute returned True, nothing was taken back, and the next post is
\* scheduled exactly if one was asked for and the campaign has one.
EventsAreTrue ==
  /\ "published" \in log => post # "none"
  /\ "compensated" \in log => "published" \in log
  /\ "scheduled" \in log => "published" \in log
  /\ "cancelled" \in log => "scheduled" \in log
  /\ request.saga = "campaign" /\ result = "true" =>
       log = {"published"} \cup
               {e \in {"scheduled"} : request.asked /\ ~ request.last}

(***************************************************************************)
(* DealClosingSaga, one lead from its qualification to the revenue of the  *)
(* deal, on top of SagaOrchestrator.  The saga keeps its records as events *)
(* only: what is known of a lead, an opportunity, a proposal and a deal is *)
(* the last event appended for it.  The revenue agent's model calls return *)
(* texts and a score, of which only whether the score reaches the          *)
(* threshold matters.  _send_outreach finds neither contact_email nor      *)
(* contact_linkedin in its context, where nothing puts them, so nothing is *)
(* ever sent and there is nothing to cancel.                               *)
(***************************************************************************)
ASSUME DealAssumption == MaxSteps >= 7

VARIABLES
  lead,         \* the last event of the lead
  opportunity,  \* ... of the opportunity
  proposal,     \* ... of the proposal
  deal,         \* ... of the deal
  revenue       \* revenue.recorded has been appended for the tenant

books == <<lead, opportunity, proposal, deal, revenue>>

\* qualifies: the score reaches the agent's qualification_threshold.
DealRequests == [saga : {"deal"}, qualifies : BOOLEAN]

QualifyLead == 0
CreateOpportunity == 1
GenerateProposal == 2
SendOutreach == 3
RecordResponse == 4
CloseDeal == 5
RecordRevenue == 6

DealTypeOK ==
  /\ lead \in {"none", "qualified", "disqualified"}
  /\ opportunity \in {"none", "created", "cancelled", "reopened"}
  /\ proposal \in {"none", "generated", "response_pending", "cancelled"}
  /\ deal \in {"none", "created"}
  /\ revenue \in BOOLEAN

DealInit ==
  /\ lead = "none" /\ opportunity = "none" /\ proposal = "none" /\ deal = "none"
  /\ revenue = FALSE

--------------------------------------------------------------------------------
(* The events a step or a compensation appends. *)

LeadIs(e) == lead' = e /\ UNCHANGED <<opportunity, proposal, deal, revenue>>
OpportunityIs(e) == opportunity' = e /\ UNCHANGED <<lead, proposal, deal, revenue>>
ProposalIs(e) == proposal' = e /\ UNCHANGED <<lead, opportunity, deal, revenue>>

ClosesDeal == deal' = "created" /\ UNCHANGED <<lead, opportunity, proposal, revenue>>
RecordsRevenue == revenue' = TRUE /\ UNCHANGED <<lead, opportunity, proposal, deal>>

QualifiesLead == request.qualifies /\ LeadIs("qualified")

PerformDeal(i) ==
  \/ i = QualifyLead /\ QualifiesLead
  \/ i = CreateOpportunity /\ OpportunityIs("created")
  \/ i = GenerateProposal /\ ProposalIs("generated")
  \/ i = SendOutreach /\ UNCHANGED books
  \/ i = RecordResponse /\ ProposalIs("response_pending")
  \/ i = CloseDeal /\ ClosesDeal
  \/ i = RecordRevenue /\ RecordsRevenue

CompensateDeal(i) ==
  \/ i = QualifyLead /\ LeadIs("disqualified")
  \/ i = CreateOpportunity /\ OpportunityIs("cancelled")
  \/ i = GenerateProposal /\ ProposalIs("cancelled")
  \/ i = SendOutreach /\ UNCHANGED books
  \/ i = CloseDeal /\ OpportunityIs("reopened")

\* Mutant: the opportunity's cancellation is registered with the proposal's step.
OneCompensationShort == AddsSteps(7, {QualifyLead, GenerateProposal, SendOutreach, CloseDeal})

\* The seven calls of add_step.
DealSteps ==
  AddsSteps(7, {QualifyLead, CreateOpportunity, GenerateProposal, SendOutreach, CloseDeal})

DefineDeal == DealSteps /\ UNCHANGED books

--------------------------------------------------------------------------------
(* Properties. *)

\* Nothing is opened for a lead that does not qualify; and when execute returned
\* False after disqualifying the lead, neither its opportunity nor its proposal
\* is left open, a reopened opportunity included, unless the step that opened it
\* is marked failed or stuck in compensating.
DisqualifiedLeadIsClosed ==
  /\ request.saga = "deal" /\ ~ request.qualifies =>
       opportunity = "none" /\ proposal = "none" /\ deal = "none" /\ ~ revenue
  /\ result = "false" /\ lead = "disqualified" =>
       /\ \/ opportunity \in {"none", "cancelled"}
          \/ step[CreateOpportunity] \in {"failed", "compensating"}
       /\ \/ proposal \in {"none", "cancelled"}
          \/ step[GenerateProposal] \in {"failed", "compensating"}

(***************************************************************************)
(* A mission: MissionExecutionSaga on top of SagaOrchestrator              *)
(* (backend/core/saga/saga_orchestrator.py), with the accounts it moves    *)
(* credits on (backend/economy/resource_marketplace.py).                   *)
(*                                                                         *)
(* MissionExecutor.execute_mission catches every exception and returns the *)
(* mission's state, so a mission that failed comes back like one that      *)
(* completed, with the cost counted so far; it charges the account         *)
(* "executor", one credit before each call of the model, and counts the    *)
(* credit after the call.                                                  *)
(*                                                                         *)
(* record_result and the compensations of the second and third step write  *)
(* to the mission's row in the database, swallow what goes wrong there and *)
(* move no credits: the row is left out.                                   *)
(***************************************************************************)
CONSTANTS
  Estimates,   \* estimated costs of missions
  MaxCalls     \* bound on the model calls of a mission

ASSUME MissionAssumption ==
  MaxSteps >= 4 /\ Estimates \subseteq Nat /\ MaxCalls \in Nat

VARIABLES
  cost,       \* "cost" of execute_mission_result
  paid,       \* what the agent's account has been charged, less its refunds
  spent       \* what the account "executor" has been charged

accounts == <<cost, paid, spent>>

MissionRequests == [saga : {"mission"}, estimated : Estimates]

Reserve == 0
ExecuteMission == 1
RecordResult == 2
DeductCost == 3

MissionTypeOK == cost \in 0 .. MaxCalls /\ paid \in Int /\ spent \in 0 .. MaxCalls

MissionInit == cost = 0 /\ paid = 0 /\ spent = 0

--------------------------------------------------------------------------------
(* The agent's account.  No balance is checked. *)
Charge(amount) == paid' = paid + amount
Reward(amount) == paid' = paid - amount

(* What a step does when its action takes effect. *)

\* Mutant: a call is counted before it is charged, and the charge may fail.
CountsBeforeCharging ==
  /\ spent' \in 0 .. MaxCalls
  /\ cost' \in {spent', spent' + 1}
  /\ UNCHANGED paid

\* execute_mission: the calls charged, of which a last one that failed may not
\* have been counted.
RunsMission ==
  /\ spent' \in 0 .. MaxCalls
  /\ cost' \in {spent', spent' - 1} \cap Nat
  /\ UNCHANGED paid

\* Mutant: a cost above the estimate is not charged.
SettlesOnlyRefunds ==
  /\ \/ request.estimated > cost /\ Reward(request.estimated - cost)
     \/ request.estimated <= cost /\ UNCHANGED paid
  /\ UNCHANGED <<cost, spent>>

\* _deduct_cost: the difference between estimate and cost is settled.
SettlesDifference ==
  /\ \/ request.estimated > cost /\ Reward(request.estimated - cost)
     \/ request.estimated < cost /\ Charge(cost - request.estimated)
     \/ request.estimated = cost /\ UNCHANGED paid
  /\ UNCHANGED <<cost, spent>>

PerformMission(i) ==
  \/ /\ i = Reserve
     /\ Charge(request.estimated)
     /\ UNCHANGED <<cost, spent>>
  \/ i = ExecuteMission /\ RunsMission
  \/ i = RecordResult /\ UNCHANGED accounts
  \/ i = DeductCost /\ SettlesDifference

(* What its compensation does.  Nothing gives "executor" its credits back. *)

\* Mutant: the compensation of the reservation refunds the actual cost.
RefundsActualCost ==
  /\ Reward(cost)
  /\ UNCHANGED <<cost, spent>>

ReleasesReservation ==
  /\ Reward(request.estimated)
  /\ UNCHANGED <<cost, spent>>

CompensateMission(i) ==
  \/ i = Reserve /\ ReleasesReservation
  \/ i \in {ExecuteMission, RecordResult} /\ UNCHANGED accounts
  \/ /\ i = DeductCost
     /\ Reward(cost)
     /\ UNCHANGED <<cost, spent>>

\* The four calls of add_step.
DefineMission == AddsSteps(4, 0 .. 3) /\ UNCHANGED accounts

--------------------------------------------------------------------------------
(* Properties. *)

\* However events, charges and the task fail: when execute returned True, the
\* agent has paid the cost of the mission, neither more nor less.
TruePaysTheCost == result = "true" => paid = cost

\* When execute returned False after releasing the reservation, the agent has
\* paid nothing, unless the settlement had taken effect before the failure.
ReleasedMeansFree ==
  result = "false" /\ step[Reserve] = "compensated" /\ effect[DeductCost] = "none" =>
    paid = 0

\* What execute answers about a mission and what the accounts hold agree.
ChargesAddUp == TruePaysTheCost /\ ReleasedMeansFree
(***************************************************************************)
(* One saga of any kind                                                    *)
(***************************************************************************)
CONSTANT OtherSteps   \* bound on the steps of a saga of another caller

ASSUME OtherAssumption == OtherSteps \in 0 .. MaxSteps

OtherRequests == [saga : {"other"}]
Requests == MissionRequests \cup CampaignRequests \cup DealRequests \cup OtherRequests

bvars == <<vars, request, accounts, campaign, books>>

BusinessTypeOK ==
  /\ TypeOK
  /\ request \in Requests
  /\ MissionTypeOK /\ CampaignTypeOK /\ DealTypeOK

BusinessInit ==
  /\ Init
  /\ request \in Requests
  /\ MissionInit /\ CampaignInit /\ DealInit

\* Steps with and without compensations, in any order.
AddsAnySteps ==
  \/ n < OtherSteps /\ \E c \in BOOLEAN : AddStep(c)
  \/ Execute

\* Only the data of the saga that runs changes.
Define ==
  /\ \/ request.saga = "mission" /\ DefineMission /\ UNCHANGED <<campaign, books>>
     \/ request.saga = "campaign" /\ DefineCampaign /\ UNCHANGED <<accounts, books>>
     \/ request.saga = "deal" /\ DefineDeal /\ UNCHANGED <<accounts, campaign>>
     \/ request.saga = "other" /\ AddsAnySteps /\ UNCHANGED <<accounts, campaign, books>>
  /\ UNCHANGED request

Perform(i) ==
  \/ request.saga = "mission" /\ PerformMission(i) /\ UNCHANGED <<campaign, books>>
  \/ request.saga = "campaign" /\ PerformCampaign(i) /\ UNCHANGED <<accounts, books>>
  \/ request.saga = "deal" /\ PerformDeal(i) /\ UNCHANGED <<accounts, campaign>>
  \/ request.saga = "other" /\ UNCHANGED <<accounts, campaign, books>>

Compensate(i) ==
  \/ request.saga = "mission" /\ CompensateMission(i) /\ UNCHANGED <<campaign, books>>
  \/ request.saga = "campaign" /\ CompensateCampaign(i) /\ UNCHANGED <<accounts, books>>
  \/ request.saga = "deal" /\ CompensateDeal(i) /\ UNCHANGED <<accounts, campaign>>
  \/ request.saga = "other" /\ UNCHANGED <<accounts, campaign, books>>

\* What a step of the orchestrator, or its cancellation, does outside.
Outside ==
  /\ \/ \E i \in Slots : TakesEffect(i) /\ Perform(i)
     \/ \E i \in Slots : IsUndone(i) /\ Compensate(i)
     \/ effect' = effect /\ UNCHANGED <<accounts, campaign, books>>
  /\ UNCHANGED request

BusinessNext ==
  \/ Define
  \/ Run /\ Outside
  \/ Cancel /\ Outside

BusinessSpec == BusinessInit /\ [][BusinessNext]_bvars

\* The fairness of the orchestrator, FairSpec.
FairBusinessSpec == BusinessSpec /\ WF_vars(Run)

--------------------------------------------------------------------------------
\* However a posting or a deal saga fails: nothing is posted that was rejected,
\* the events of a campaign tell what the platform holds, and the lead of a deal
\* that came to nothing is closed with what was opened for it.
RecordsAreTrue == RejectedNeverPosted /\ EventsAreTrue /\ DisqualifiedLeadIsClosed
================================================================================
