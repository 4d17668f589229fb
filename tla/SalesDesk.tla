----------------------------- MODULE SalesDesk -----------------------------
(***************************************************************************)
(* The HTTP handlers of leads, deals and campaigns, as requests that       *)
(* overlap: a handler that awaits a model or a saga works on with what it  *)
(* read before.                                                            *)
(*                                                                         *)
(* Leads and deals are rows.  A handler's database session remembers the   *)
(* row as it was loaded; its commit writes only the columns that now       *)
(* differ from what was loaded, and fails when the row is gone.  Campaigns *)
(* are dictionaries of one process.                                        *)
(*                                                                         *)
(* Scores are hundredths.  The qualification of a lead and the sagas of    *)
(* deals and posts end as they please; what they do is modelled in         *)
(* RevenuePipeline and BusinessSagas.                                      *)
(***************************************************************************)
EXTENDS Integers, FiniteSets

CONSTANTS
  Leads,         \* ids of leads that may be created
  Campaigns,     \* ids of campaigns that may be created
  Requests,      \* requests that may be in progress at once
  Scores,        \* scores a qualification may give
  Statuses,      \* statuses a client may write into a lead
  MaxPosts,      \* most posts a campaign may ask for
  ForeignKeys,   \* whether the database checks references
  MaxDeals       \* bound on the deal sagas of a behaviour

\* What the values of the constants satisfy.
DeskAssumption == ForeignKeys \in BOOLEAN /\ MaxPosts \in Nat /\ MaxDeals \in Nat

VARIABLES
  lead,      \* rows of leads: status and score
  deals,     \* deals that have a row: their lead and payment
  request,   \* what a request in progress has read: kind, subject, row
  unsafe,    \* leads somebody else wrote while a request worked on them
  closed,    \* deal sagas that succeeded
  campaign,  \* total, posts published, status
  refused    \* the code of the last request that failed

deskVars == <<lead, deals, request, unsafe, closed, campaign, refused>>

NoRow == [status |-> "absent", score |-> -1]
Deleted == [status |-> "deleted", score |-> -1]
NoCampaign == [total |-> 0, published |-> 0, status |-> "absent"]
Nothing == [kind |-> "none", subject |-> "none", row |-> NoRow, index |-> 0]

DeskInit ==
  /\ lead = [l \in Leads |-> NoRow]
  /\ deals = {}
  /\ request = [r \in Requests |-> Nothing]
  /\ unsafe = {}
  /\ closed = 0
  /\ campaign = [c \in Campaigns |-> NoCampaign]
  /\ refused = 0

Stored(l) == lead[l] \notin {NoRow, Deleted}
Begin(r, kind, subject, row, index) ==
  /\ request[r] = Nothing
  /\ request' = [request EXCEPT ![r] = [kind |-> kind, subject |-> subject, row |-> row, index |-> index]]
EndOf(r) == request' = [request EXCEPT ![r] = Nothing]
Refuse(code) == refused' = code

\* Somebody writes a lead while others are at work on it.
Overlaps(l, r) ==
  IF \E s \in Requests \ {r} : request[s].kind \in {"qualify", "deal"} /\ request[s].subject = l
  THEN {l} ELSE {}

-----------------------------------------------------------------------------
(***************************************************************************)
(* Leads.                                                                  *)
(***************************************************************************)
CreateLead(l) ==
  /\ lead[l] = NoRow
  /\ lead' = [lead EXCEPT ![l] = [status |-> "new", score |-> -1]]
  /\ UNCHANGED <<deals, request, unsafe, closed, campaign, refused>>

\* update_lead writes the fields that are given, any status among them.
UpdateLead(l) ==
  /\ Stored(l)
  /\ \E s \in Statuses : lead' = [lead EXCEPT ![l].status = s]
  /\ unsafe' = unsafe \cup {l}
  /\ UNCHANGED <<deals, request, closed, campaign, refused>>

DeleteLead(l) ==
  /\ Stored(l)
  /\ IF ForeignKeys /\ \E d \in deals : d.lead = l
     THEN Refuse(500) /\ UNCHANGED <<lead, unsafe>>
     ELSE /\ lead' = [lead EXCEPT ![l] = Deleted]
          /\ unsafe' = unsafe \cup Overlaps(l, "none")
          /\ UNCHANGED refused
  /\ UNCHANGED <<deals, request, closed, campaign>>

\* qualify_lead up to its await.
QualifyStart(r, l) ==
  /\ Stored(l)
  /\ Begin(r, "qualify", l, lead[l], 0)
  /\ UNCHANGED <<lead, deals, unsafe, closed, campaign, refused>>

Verdict(score) == IF score >= 60 THEN "qualified" ELSE "disqualified"

\* Mutant: a lead keeps the first status it was given.
WrittenOnce(row, loaded, new) ==
  [row EXCEPT !.status = IF loaded.status = "new" THEN new.status ELSE @, !.score = new.score]

\* The columns of new that differ from the row that was loaded.
Written(row, loaded, new) ==
  [row EXCEPT !.status = IF new.status # loaded.status THEN new.status ELSE @,
              !.score = IF new.score # loaded.score THEN new.score ELSE @]

\* The rest of qualify_lead: the answer, or an error, or a row that is gone.
QualifyEnd(r) ==
  LET l == request[r].subject
  IN /\ request[r].kind = "qualify"
     /\ EndOf(r)
     /\ \/ Refuse(500) /\ UNCHANGED <<lead, unsafe>>
        \/ /\ ~Stored(l) /\ Refuse(500) /\ UNCHANGED <<lead, unsafe>>
        \/ /\ Stored(l)
           /\ \E s \in Scores :
                lead' = [lead EXCEPT ![l] =
                           Written(lead[l], request[r].row, [status |-> Verdict(s), score |-> s])]
           /\ unsafe' = unsafe \cup Overlaps(l, r)
           /\ UNCHANGED refused
     /\ UNCHANGED <<deals, closed, campaign>>

-----------------------------------------------------------------------------
(***************************************************************************)
(* Deals.  The opportunity a saga names has no row, so that a database     *)
(* that checks references takes no deal.                                   *)
(***************************************************************************)
DealStart(r, l) ==
  /\ Stored(l) /\ closed < MaxDeals
  /\ Begin(r, "deal", l, lead[l], 0)
  /\ UNCHANGED <<lead, deals, unsafe, closed, campaign, refused>>

DealFails(r) ==
  /\ request[r].kind = "deal"
  /\ EndOf(r)
  /\ UNCHANGED <<lead, deals, unsafe, closed, campaign, refused>>

\* The saga closed its deal: the deal and the status of the lead are one commit.
DealCloses(r) ==
  LET l == request[r].subject
  IN /\ request[r].kind = "deal" /\ closed < MaxDeals
     /\ EndOf(r)
     /\ closed' = closed + 1
     /\ IF ForeignKeys \/ ~Stored(l)
        THEN Refuse(500) /\ UNCHANGED <<lead, deals, unsafe>>
        ELSE /\ deals' = deals \cup {[id |-> closed', lead |-> l, payment |-> "pending"]}
             /\ lead' = [lead EXCEPT ![l] =
                           Written(lead[l], request[r].row,
                                   [status |-> "closed_won", score |-> request[r].row.score])]
             /\ unsafe' = unsafe \cup {l}
             /\ UNCHANGED refused
     /\ UNCHANGED campaign

\* get_revenue_dashboard, of one tenant.
Dashboard ==
  [leads |-> Cardinality({l \in Leads : Stored(l)}),
   qualified |-> Cardinality({l \in Leads : lead[l].status = "qualified"}),
   closed |-> Cardinality(deals),
   paid |-> Cardinality({d \in deals : d.payment = "paid"})]

-----------------------------------------------------------------------------
(***************************************************************************)
(* Campaigns.  A campaign is kept before its event is appended: a store    *)
(* that refuses the event leaves a campaign its client was told of as 500. *)
(***************************************************************************)
CreateCampaign(c) ==
  /\ campaign[c] = NoCampaign
  /\ \E n \in 1 .. MaxPosts :
       campaign' = [campaign EXCEPT ![c] = [total |-> n, published |-> 0, status |-> "active"]]
  /\ \E code \in {0, 500} : refused' = IF code = 0 THEN refused ELSE code
  /\ UNCHANGED <<lead, deals, request, unsafe, closed>>

\* Mutant: one post too many is let through.
MayPostAgain(c) == campaign[c].published <= campaign[c].total

MayPost(c) == campaign[c].published < campaign[c].total

\* run_campaign_post up to its await.
PostStart(r, c) ==
  /\ campaign[c] # NoCampaign
  /\ IF MayPost(c)
     THEN Begin(r, "post", c, NoRow, campaign[c].published) /\ UNCHANGED refused
     ELSE /\ request[r] = Nothing /\ Refuse(409) /\ UNCHANGED request
  /\ UNCHANGED <<lead, deals, unsafe, closed, campaign>>

\* The saga answered FALSE, or raised.
PostFails(r) ==
  /\ request[r].kind = "post"
  /\ EndOf(r)
  /\ \E code \in {0, 500} : refused' = IF code = 0 THEN refused ELSE code
  /\ UNCHANGED <<lead, deals, unsafe, closed, campaign>>

\* Mutant: the number the run started with decides whether the campaign is over.
CountedLate(c) ==
  [c EXCEPT !.published = @ + 1, !.status = IF c.published >= c.total THEN "completed" ELSE @]

Counted(c) ==
  LET n == c.published + 1
  IN [c EXCEPT !.published = n, !.status = IF n >= c.total THEN "completed" ELSE @]

PostSucceeds(r) ==
  LET c == request[r].subject
  IN /\ request[r].kind = "post"
     /\ EndOf(r)
     /\ campaign' = [campaign EXCEPT ![c] = Counted(campaign[c])]
     /\ UNCHANGED <<lead, deals, unsafe, closed, refused>>

DeskNext ==
  \/ \E l \in Leads : CreateLead(l) \/ UpdateLead(l) \/ DeleteLead(l)
  \/ \E c \in Campaigns : CreateCampaign(c)
  \/ \E r \in Requests :
       \/ \E l \in Leads : QualifyStart(r, l) \/ DealStart(r, l)
       \/ QualifyEnd(r) \/ DealFails(r) \/ DealCloses(r)
       \/ \E c \in Campaigns : PostStart(r, c)
       \/ PostFails(r) \/ PostSucceeds(r)

DeskSpec == DeskInit /\ [][DeskNext]_deskVars

-----------------------------------------------------------------------------
DeskTypeOK ==
  /\ \A l \in Leads : lead[l].score \in Scores \cup {-1}
  /\ \A d \in deals : d.lead \in Leads
  /\ \A r \in Requests : request[r].kind \in {"none", "qualify", "deal", "post"}
  /\ Dashboard.qualified <= Dashboard.leads /\ Dashboard.paid = 0
  /\ unsafe \subseteq Leads
  /\ refused \in {0, 409, 500}

\* A lead that only qualifications wrote, one at a time, has the status of its
\* score; overlapping ones may leave the score of one and the status of another.
StatusFollowsScore ==
  \A l \in Leads \ unsafe :
    lead[l].score # -1 => lead[l].status = Verdict(lead[l].score)

\* Runs that overlap may post more often than a campaign asks for, by the other
\* runs that were under way and no more; a campaign is completed exactly when
\* it has what it asked for, and counts every post.
OverpostingIsBounded ==
  \A c \in Campaigns : campaign[c] # NoCampaign =>
    /\ campaign[c].published <= campaign[c].total + Cardinality(Requests) - 1
    /\ campaign[c].status = "completed" <=> campaign[c].published >= campaign[c].total
=============================================================================
