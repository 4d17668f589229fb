-------------------------- MODULE ApprovalWorkflow --------------------------
(* Requests for approval of operations on an asset
   (agents/compliance/approval_workflows.py, the endpoints approvals/... of
   api/routes/risk.py), while the asset and its risk change (RiskScoring).

   The workflow is a singleton of one process and no handler suspends, so each
   endpoint is one step. Nobody watches the deadlines: a request stays pending
   past its own until somebody approves it or process_expired_requests runs. *)
EXTENDS RiskScoring

CONSTANT MaxRequests  \* bound on the requests of a behaviour

\* What the values of the constants satisfy.
WorkflowAssumption == MaxRequests \in Nat

VARIABLES
  autoApprove,  \* ApprovalPolicy.auto_approve_on_timeout
  approvals     \* requests, oldest first; "granted" is a history field: the
                \* hour at which the request was approved, -1 before

vars == <<hour, tagVars, level, incidents, score, autoApprove, approvals>>

States == {"pending", "approved", "rejected", "expired", "executed"}

(* APPROVAL_MATRIX, with 0 for None. *)
RequiredLevel(tier) == CASE tier = "minimal" -> 0 [] tier = "low" -> 2
                         [] tier = "medium" -> 3 [] OTHER -> 4

HoursFor(tier) == CASE tier \in {"critical", "high"} -> 24
                    [] tier \in {"medium", "low"} -> 72 [] OTHER -> 1

Init == AssetInit /\ autoApprove \in BOOLEAN /\ approvals = <<>>

Pending(r) == approvals[r].state = "pending"
IsExpired(request) == hour > request.expires

(* A request without a required level is stored pending like any other. *)
NewRequest(tier) ==
  [tier |-> tier, required |-> RequiredLevel(tier), state |-> "pending",
   expires |-> hour + HoursFor(tier), by |-> "none", granted |-> -1]

Grant(request, by) == [request EXCEPT !.state = "approved", !.by = by, !.granted = hour]

\* Mutant: an approval does not look at the deadline.
ApproveLate(request) == Grant(request, "officer")

(* An approval that comes too late expires the request, and answers 400. *)
Approve(request) ==
  IF IsExpired(request) THEN [request EXCEPT !.state = "expired"] ELSE Grant(request, "officer")

Reject(request) == [request EXCEPT !.state = "rejected", !.by = "officer"]

\* Mutant: an escalation of a request of an officer goes to an operator.
EscalateDown(request) == [request EXCEPT !.required = IF @ = 4 THEN 2 ELSE @]

Escalate(request) == [request EXCEPT !.required = IF @ \in {2, 3} THEN @ + 1 ELSE @]

Executed(request) == [request EXCEPT !.state = "executed"]

(* The tier is the one of the cached score; the score is calculated, and
   cached, when there is none or an old one. The endpoint fails on its way out
   for a request without a required level.                                  *)
CreateApprovalRequest ==
  /\ Len(approvals) < MaxRequests
  /\ GetScore
  /\ approvals' = Append(approvals, NewRequest(Current.tier))
  /\ UNCHANGED <<hour, tagVars, level, incidents, autoApprove>>

Change(r, request) ==
  /\ approvals' = [approvals EXCEPT ![r] = request]
  /\ UNCHANGED <<hour, assetVars, autoApprove>>

(* Only an approval looks at the deadline; mark_executed looks at the state
   alone. Any other state answers 400.                                      *)
ApproveRequest(r) == Pending(r) /\ Change(r, Approve(approvals[r]))
RejectRequest(r) == Pending(r) /\ Change(r, Reject(approvals[r]))
EscalateRequest(r) == Pending(r) /\ Change(r, Escalate(approvals[r]))
MarkExecuted(r) == approvals[r].state = "approved" /\ Change(r, Executed(approvals[r]))

TimedOut(request) ==
  IF request.tier \in {"critical", "high"} \/ ~autoApprove
  THEN [request EXCEPT !.state = "expired"]
  ELSE Grant(request, "system")

ProcessExpiredRequests ==
  /\ approvals' = [r \in DOMAIN approvals |->
       IF Pending(r) /\ IsExpired(approvals[r]) THEN TimedOut(approvals[r]) ELSE approvals[r]]
  /\ approvals' # approvals
  /\ UNCHANGED <<hour, assetVars, autoApprove>>

(* Asking calculates a score where there is none. *)
CheckApprovalRequired ==
  /\ GetScore
  /\ UNCHANGED <<hour, tagVars, level, incidents, autoApprove, approvals>>

Next ==
  \/ AssetNext /\ UNCHANGED <<autoApprove, approvals>>
  \/ CreateApprovalRequest
  \/ \E r \in DOMAIN approvals :
       ApproveRequest(r) \/ RejectRequest(r) \/ EscalateRequest(r) \/ MarkExecuted(r)
  \/ ProcessExpiredRequests
  \/ CheckApprovalRequired

Spec == Init /\ [][Next]_vars

(***************************************************************************)
(* Properties                                                              *)
(***************************************************************************)
TypeOK ==
  /\ AssetTypeOK
  /\ autoApprove \in BOOLEAN
  /\ approvals \in Seq([tier : Range(Tiers), required : {0, 2, 3, 4}, state : States,
                        expires : Nat, by : {"none", "officer", "system"},
                        granted : Instants \cup {-1}])

(* What is executed was approved: by somebody, before the request expired, or
   by the time-out, after it, and then only if the policy says so and the tier
   is neither high nor critical. *)
ExecutedWasGrantedInTime ==
  \A r \in DOMAIN approvals :
    approvals[r].state \in {"approved", "executed"} =>
      \/ approvals[r].by = "officer" /\ approvals[r].granted \in 0..approvals[r].expires
      \/ /\ approvals[r].by = "system" /\ approvals[r].granted > approvals[r].expires
         /\ autoApprove /\ approvals[r].tier \notin {"high", "critical"}

(* A decision stands: a rejected, expired or executed request changes no more,
   an approved one is only executed, and while a request waits the authority
   it asks for never drops. *)
DecisionsStand ==
  [][\A r \in DOMAIN approvals :
       /\ approvals[r].state \in {"rejected", "expired", "executed"}
            => approvals'[r] = approvals[r]
       /\ approvals[r].state = "approved" => approvals'[r].state \in {"approved", "executed"}
       /\ approvals'[r].required >= approvals[r].required]_approvals
=============================================================================
