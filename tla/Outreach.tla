----------------------------- MODULE Outreach ------------------------------
(***************************************************************************)
(* The direct outreach mission: it searches companies by industry and      *)
(* size, qualifies the people it finds there until it has its target, and  *)
(* then writes and sends a sequence of emails to each prospect.            *)
(*                                                                         *)
(* Reaching the target leaves the loops over people, companies and sizes,  *)
(* and the loop over industries goes on: every further industry is         *)
(* searched, up to its first company with somebody to qualify.             *)
(*                                                                         *)
(* The emails of a sequence go out one after another at once; emails_sent  *)
(* counts attempts, refused ones too, and counts a sequence that raises    *)
(* half-way not at all.                                                    *)
(***************************************************************************)
EXTENDS Integers, Sequences, FiniteSets, FiniteSetsExt

CONSTANTS
  Industries, Sizes,  \* how many industries and company sizes are searched
  Target,             \* prospects that are wanted
  MaxFound,           \* bound on the companies and on the people of a search
  Length              \* emails of a sequence; the code has 4

\* What the values of the constants satisfy.
OutreachAssumption ==
  /\ {Industries, Sizes, Target, Length} \subseteq Nat \ {0} /\ MaxFound \in Nat

VARIABLES
  phase,      \* what the mission is doing
  place,      \* the search: industry, size, companies and people still to see
  found,      \* prospects qualified in this search
  prospects,  \* the list: status of each prospect
  delivered,  \* emails of this launch that went out, by prospect
  sending,    \* the prospect and the email the launch is at
  summary     \* what the launch has counted

outreachVars == <<phase, place, found, prospects, delivered, sending, summary>>

NoPlace == [industry |-> 0, size |-> 0, companies |-> 0, people |-> 0]
NoSummary == [sequences |-> 0, emails |-> 0, errors |-> 0]

OutreachInit ==
  /\ phase = "idle" /\ place = NoPlace /\ found = 0
  /\ prospects = <<>> /\ delivered = <<>>
  /\ sending = [prospect |-> 0, email |-> 0]
  /\ summary = NoSummary

-----------------------------------------------------------------------------
(***************************************************************************)
(* build_lead_list                                                         *)
(***************************************************************************)
searchVars == <<place, found>>
launchVars == <<delivered, sending, summary>>

BuildLeadList ==
  /\ phase = "idle"
  /\ phase' = "search"
  /\ place' = [NoPlace EXCEPT !.industry = 1, !.size = 1]
  /\ found' = 0
  /\ UNCHANGED <<prospects, launchVars>>

\* Mutant: the loops are left one prospect late.
Beyond(n) == n > Target
Reached(n) == n >= Target

\* The next size, or industry, after the companies of a search.
After(p, n) ==
  IF p.size = Sizes \/ Reached(n)
  THEN [NoPlace EXCEPT !.industry = p.industry + 1, !.size = 1]
  ELSE [NoPlace EXCEPT !.industry = p.industry, !.size = p.size + 1]
\* What a company leaves when the last of its people has been seen.
Closed(p, n) == IF p.companies = 0 \/ Reached(n) THEN After(p, n) ELSE p
PhaseAt(p) == IF p.people > 0 THEN "qualify" ELSE IF p.companies > 0 THEN "company" ELSE "search"

GoTo(p) == place' = p /\ phase' = PhaseAt(p)

\* identify_target_companies; a failed search finds none, and so ends the size.
Search ==
  /\ phase = "search" /\ place.industry <= Industries
  /\ \E n \in 0 .. MaxFound :
       GoTo(IF n = 0 THEN IF place.size = Sizes \/ Reached(found)
                          THEN [place EXCEPT !.industry = @ + 1, !.size = 1]
                          ELSE [place EXCEPT !.size = @ + 1]
            ELSE [place EXCEPT !.companies = n])
  /\ UNCHANGED <<found, prospects, launchVars>>

\* identify_decision_makers
OpenCompany ==
  /\ phase = "company"
  /\ \E n \in 0 .. MaxFound :
       LET p == [place EXCEPT !.companies = @ - 1, !.people = n]
       IN GoTo(IF n = 0 THEN Closed(p, found) ELSE p)
  /\ UNCHANGED <<found, prospects, launchVars>>

\* qualify_prospect: an answer that is no JSON disqualifies, as a low score does.
Qualify ==
  /\ phase = "qualify"
  /\ \E good \in BOOLEAN :
       LET n == found + (IF good THEN 1 ELSE 0)
           p == [place EXCEPT !.people = IF Reached(n) THEN 0 ELSE @ - 1]
       IN /\ found' = n
          /\ GoTo(IF p.people = 0 THEN Closed(p, n) ELSE p)
  /\ UNCHANGED <<prospects, launchVars>>

\* A tool raises, or the model answers JSON of another form: what was found is
\* lost and the earlier list stays.
SearchRaises ==
  /\ phase \in {"search", "company", "qualify"}
  /\ phase' = "idle" /\ place' = NoPlace /\ found' = 0
  /\ UNCHANGED <<prospects, launchVars>>

ListBuilt ==
  /\ phase = "search" /\ place.industry > Industries
  /\ prospects' = [i \in 1 .. found |-> "new"]
  /\ delivered' = [i \in 1 .. found |-> 0]
  /\ phase' = "idle" /\ place' = NoPlace /\ found' = 0
  /\ summary' = NoSummary
  /\ UNCHANGED sending

-----------------------------------------------------------------------------
(***************************************************************************)
(* launch_campaign                                                         *)
(***************************************************************************)
LaunchCampaign ==
  /\ phase = "idle"
  /\ phase' = "write"
  /\ sending' = [prospect |-> 1, email |-> 1]
  /\ delivered' = [i \in DOMAIN prospects |-> 0]
  /\ summary' = NoSummary
  /\ UNCHANGED <<prospects, searchVars>>

ProspectDone(s) ==
  /\ summary' = s
  /\ sending' = [prospect |-> sending.prospect + 1, email |-> 1]
  /\ phase' = "write"

\* create_email_sequence; an answer of another form raises.
WriteSequence ==
  /\ phase = "write" /\ sending.prospect <= Len(prospects)
  /\ \/ /\ summary' = [summary EXCEPT !.sequences = @ + 1]
        /\ phase' = "send"
        /\ UNCHANGED sending
     \/ ProspectDone([summary EXCEPT !.errors = @ + 1])
  /\ UNCHANGED <<prospects, delivered, searchVars>>

\* Mutant: emails that a raising tool cut off are counted, too.
CountedAlways(s) == [s EXCEPT !.emails = @ + Length, !.errors = @ + 1]
\* A sequence that raises half-way is an error, and none of its emails counts.
CutOff(s) == [s EXCEPT !.errors = @ + 1]

\* send_campaign: the tool sends, refuses or raises; send_sequence counts its
\* results when the last of the emails was tried.
SendEmail ==
  /\ phase = "send"
  /\ \E result \in {"sent", "refused", "raises"} :
       /\ prospects' = IF result = "sent"
                       THEN [prospects EXCEPT ![sending.prospect] = "contacted"] ELSE prospects
       /\ delivered' = IF result = "sent"
                       THEN [delivered EXCEPT ![sending.prospect] = @ + 1] ELSE delivered
       /\ IF result = "raises" THEN ProspectDone(CutOff(summary))
          ELSE IF sending.email = Length
          THEN ProspectDone([summary EXCEPT !.emails = @ + Length])
          ELSE /\ sending' = [sending EXCEPT !.email = @ + 1]
               /\ UNCHANGED <<summary, phase>>
  /\ UNCHANGED searchVars

Launched ==
  /\ phase = "write" /\ sending.prospect > Len(prospects)
  /\ phase' = "idle" /\ sending' = [prospect |-> 0, email |-> 0]
  /\ UNCHANGED <<prospects, delivered, summary, searchVars>>

OutreachNext ==
  \/ BuildLeadList \/ Search \/ OpenCompany \/ Qualify \/ SearchRaises \/ ListBuilt
  \/ LaunchCampaign \/ WriteSequence \/ SendEmail \/ Launched

OutreachSpec == OutreachInit /\ [][OutreachNext]_outreachVars

-----------------------------------------------------------------------------
\* track_campaign_performance
Contacted == {i \in DOMAIN prospects : prospects[i] = "contacted"}
Delivered == MapThenSumSet(LAMBDA i : delivered[i], DOMAIN prospects)

OutreachTypeOK ==
  /\ phase \in {"idle", "search", "company", "qualify", "write", "send"}
  /\ place.companies \in 0 .. MaxFound /\ place.people \in 0 .. MaxFound
  /\ Len(delivered) = Len(prospects)
  /\ sending.email \in 0 .. Length

\* The list is longer than the target by one prospect for each industry after
\* the first, at most.  A launch that has ended accounts for every prospect, as
\* a whole sequence or as an error; what went out is no more than emails_sent
\* and the beginnings of the sequences that ended in errors, and who received
\* something is contacted.
OutreachAddsUp ==
  /\ Len(prospects) < Target + Industries
  /\ summary.emails \in {Length * n : n \in 0 .. summary.sequences}
  /\ \A i \in DOMAIN prospects : delivered[i] > 0 => i \in Contacted
  /\ phase = "write" =>
       /\ summary.emails + Length * summary.errors = Length * (sending.prospect - 1)
       /\ Delivered <= summary.emails + (Length - 1) * summary.errors
=============================================================================
