-------------------------- MODULE RevenuePipeline --------------------------
(***************************************************************************)
(* RevenueAgent.run_pipeline: discover leads, qualify each of them, write  *)
(* a proposal for each opportunity and send the proposals.  Every step     *)
(* asks the workforce coordinator, whose answer is a text that is parsed   *)
(* as JSON, searched for JSON, or given up; it may also raise.  Discovery  *)
(* swallows every error; an error about one lead or one proposal is noted  *)
(* and the run goes on with the next.                                      *)
(*                                                                         *)
(* What the coordinator answers is arbitrary here.  Scores are hundredths. *)
(***************************************************************************)
EXTENDS Integers, Sequences, FiniteSets, FiniteSetsExt, TLC

CONSTANTS
  Threshold,     \* qualification_threshold
  MaxLeads,      \* max_leads_per_run
  Lists,         \* texts the discovery may answer: [form, items]
  Assessments    \* texts a qualification may answer: [form, data]

NoNumber == -1   \* a text where a number should be

\* What the values of the constants satisfy.
PipelineAssumption == MaxLeads \in Nat \ {0} /\ Threshold \in 0 .. 100

VARIABLES
  phase,          \* the step of the run
  k,              \* the lead, opportunity or proposal the step works on
  options,        \* generate_proposals and send_outreach
  leads,          \* LeadRecord: status and score
  qualified,      \* the leads that passed, in order
  opportunities,  \* OpportunityRecord: lead, stage and estimated value
  proposals,      \* ProposalRecord: opportunity, lead it is written for, status, channel
  totals,         \* the counters of the RevenueRunResult
  errors          \* what failed: the step and the place

pipeVars == <<phase, k, options, leads, qualified, opportunities, proposals, totals, errors>>

PipeInit ==
  /\ phase = "discover" /\ k = 1
  /\ options \in [generate : BOOLEAN, send : BOOLEAN]
  /\ leads = <<>> /\ qualified = <<>> /\ opportunities = <<>> /\ proposals = <<>>
  /\ totals = [discovered |-> 0, qualified |-> 0, disqualified |-> 0, opportunities |-> 0,
               proposals |-> 0, sent |-> 0, value |-> 0]
  /\ errors = {}

-----------------------------------------------------------------------------
(***************************************************************************)
(* Reading the answers.  JSON may stand alone, in a fence or in prose; a   *)
(* list may also be the value of a key.  Anything else reads as nothing.   *)
(***************************************************************************)
ParseJsonList(reply) ==
  IF reply.form \in {"json", "fenced", "prose", "keyed"} THEN reply.items ELSE <<>>

ParseJsonObject(reply) ==
  IF reply.form \in {"json", "fenced", "prose"} THEN reply.data ELSE <<>>

Get(data, key, default) == IF key \in DOMAIN data THEN data[key] ELSE default

\* _discover_leads: the list is cut to the limit before the items that are no
\* objects are dropped.
DiscoverLeads(reply) ==
  LET items == SelectSeq(SubSeq(ParseJsonList(reply), 1, Min({MaxLeads, Len(ParseJsonList(reply))})),
                         LAMBDA item : item = "company")
  IN [i \in DOMAIN items |-> [status |-> "new", score |-> NoNumber]]

\* _qualify_lead: no score reads as 0, a score that is no number raises; a
\* value that is no number is forgotten.
Raises(reply) ==
  reply.form = "raises" \/ Get(ParseJsonObject(reply), "score", 0) = NoNumber
Assessed(reply) ==
  LET data == ParseJsonObject(reply)
  IN [score |-> Get(data, "score", 0),
      value |-> IF Get(data, "value", NoNumber) = NoNumber THEN 0 ELSE data.value]

\* _send_outreach: a proposal without an address is skipped, and nothing in the
\* pipeline gives a proposal an address.
Sent(proposal, reply) ==
  proposal.channel # "none" /\ reply \in {"COMPLETED", "SUCCESS"}

-----------------------------------------------------------------------------
Discover ==
  /\ phase = "discover"
  /\ \E reply \in Lists : leads' = DiscoverLeads(reply)
  /\ totals' = [totals EXCEPT !.discovered = Len(leads')]
  /\ phase' = "qualify"
  /\ UNCHANGED <<k, options, qualified, opportunities, proposals, errors>>

\* A lead at or above the threshold becomes an opportunity at once.
QualifyLead ==
  /\ phase = "qualify" /\ k \in DOMAIN leads
  /\ k' = k + 1
  /\ \E reply \in Assessments :
       IF Raises(reply)
       THEN /\ errors' = errors \cup {<<"qualification", k>>}
            /\ UNCHANGED <<leads, qualified, opportunities, totals>>
       ELSE LET a == Assessed(reply)
            IN IF a.score >= Threshold
               THEN /\ leads' = [leads EXCEPT ![k] = [status |-> "qualified", score |-> a.score]]
                    /\ qualified' = Append(qualified, k)
                    /\ opportunities' = Append(opportunities,
                          [lead |-> k, stage |-> "discovery", value |-> a.value])
                    /\ totals' = [totals EXCEPT !.qualified = @ + 1, !.opportunities = @ + 1,
                                                !.value = @ + a.value]
                    /\ UNCHANGED errors
               ELSE /\ leads' = [leads EXCEPT ![k] = [status |-> "disqualified", score |-> a.score]]
                    /\ totals' = [totals EXCEPT !.disqualified = @ + 1]
                    /\ UNCHANGED <<qualified, opportunities, errors>>
  /\ UNCHANGED <<phase, options, proposals>>

Qualified ==
  /\ phase = "qualify" /\ k > Len(leads)
  /\ phase' = "propose" /\ k' = 1
  /\ UNCHANGED <<options, leads, qualified, opportunities, proposals, totals, errors>>

\* Mutant: the opportunities are paired with all leads.
PairsOfAllLeads == [i \in 1 .. Min({Len(leads), Len(opportunities)}) |-> <<i, opportunities[i]>>]

\* zip(qualified, result.opportunities)
Pairs == [i \in 1 .. Min({Len(qualified), Len(opportunities)}) |-> <<qualified[i], opportunities[i]>>]

\* _generate_proposal: an unreadable answer becomes the body of the proposal.
GenerateProposal ==
  /\ phase = "propose" /\ options.generate /\ k \in DOMAIN Pairs
  /\ k' = k + 1
  /\ \/ /\ errors' = errors \cup {<<"proposal", k>>}
        /\ UNCHANGED <<opportunities, proposals, totals>>
     \/ /\ proposals' = Append(proposals, [opportunity |-> k, company |-> Pairs[k][1],
                                           status |-> "draft", channel |-> "none"])
        /\ totals' = [totals EXCEPT !.proposals = @ + 1]
        /\ opportunities' = [opportunities EXCEPT ![k].stage = "proposal"]
        /\ UNCHANGED errors
  /\ UNCHANGED <<phase, options, leads, qualified>>

Proposed ==
  /\ phase = "propose" /\ (options.generate => k > Len(Pairs))
  /\ phase' = "outreach" /\ k' = 1
  /\ UNCHANGED <<options, leads, qualified, opportunities, proposals, totals, errors>>

SendOutreach ==
  /\ phase = "outreach" /\ options.send /\ k \in DOMAIN proposals
  /\ k' = k + 1
  /\ \E reply \in {"COMPLETED", "FAILED"} :
       /\ proposals' = [proposals EXCEPT ![k].status = IF Sent(proposals[k], reply) THEN "sent" ELSE @]
       /\ totals' = [totals EXCEPT !.sent = @ + IF Sent(proposals[k], reply) THEN 1 ELSE 0]
  /\ UNCHANGED <<phase, options, leads, qualified, opportunities, errors>>

Complete ==
  /\ phase = "outreach" /\ (options.send => k > Len(proposals))
  /\ phase' = "done"
  /\ UNCHANGED <<k, options, leads, qualified, opportunities, proposals, totals, errors>>

PipeNext ==
  \/ Discover \/ QualifyLead \/ Qualified \/ GenerateProposal \/ Proposed
  \/ SendOutreach \/ Complete

PipeSpec == PipeInit /\ [][PipeNext]_pipeVars

-----------------------------------------------------------------------------
\* get_pipeline_summary: the rate in hundredths and the five best leads, a
\* lead without a score counting as 0.
Summary ==
  [rate |-> IF totals.discovered > 0 THEN (totals.qualified * 100) \div totals.discovered ELSE 0,
   top |-> SubSeq(SortSeq([i \in DOMAIN leads |-> [place |-> i, score |-> Max({leads[i].score, 0})]],
                          LAMBDA a, b : a.score > b.score),
                  1, Min({5, Len(leads)}))]

PipeTypeOK ==
  /\ phase \in {"discover", "qualify", "propose", "outreach", "done"}
  /\ Len(leads) <= MaxLeads
  /\ \A i \in DOMAIN leads : leads[i].status \in {"new", "qualified", "disqualified"}
  /\ \A i \in DOMAIN proposals : proposals[i].opportunity \in DOMAIN opportunities
  /\ Summary.rate \in 0 .. 100

FailedIn(step) == {e \in errors : e[1] = step}

\* The numbers of a run account for every lead whatever fails on the way, the
\* value of the pipeline is that of its opportunities, and every proposal is
\* written for the company its opportunity is about.
PipelineAddsUp ==
  /\ phase = "done" =>
       totals.discovered = totals.qualified + totals.disqualified
                             + Cardinality(FailedIn("qualification"))
  /\ totals.opportunities = Len(opportunities) /\ totals.qualified = Len(opportunities)
  /\ totals.value = MapThenSumSet(LAMBDA i : opportunities[i].value, DOMAIN opportunities)
  /\ \A i \in DOMAIN opportunities :
       LET lead == leads[opportunities[i].lead]
       IN lead.status = "qualified" /\ lead.score >= Threshold
  /\ \A i \in DOMAIN proposals :
       opportunities[proposals[i].opportunity].lead = proposals[i].company
  /\ \A i \in DOMAIN opportunities :
       opportunities[i].stage = "proposal" <=> \E j \in DOMAIN proposals : proposals[j].opportunity = i
=============================================================================
