--------------------------- MODULE GovernanceProofs ---------------------------
(***************************************************************************)
(* Proofs about the governance system (MCGovernance): the decisions about  *)
(* requests for approval, the limits of rates and the verdicts of rules    *)
(* and policies, for any rules, calls, policies, clients, limits and times *)
(* that satisfy BoundsAssumption.                                          *)
(***************************************************************************)
EXTENDS MCGovernance, FiniteSetTheorems, WellFoundedInduction, TLAPS

(***************************************************************************)
(* Finite sets and numbers                                                 *)
(***************************************************************************)
LEMMA SameCardinality ==
  \A S : /\ TC!Cardinality(S) = Cardinality(S)
         /\ RL!Cardinality(S) = Cardinality(S)
         /\ RL!IsFiniteSet(S) <=> IsFiniteSet(S)
<1>1. \A S : TC!Cardinality(S) = Cardinality(S)
  BY DEF TC!Cardinality, Cardinality
<1>2. \A S : RL!Cardinality(S) = Cardinality(S)
  BY DEF RL!Cardinality, Cardinality
<1>3. \A S : RL!IsFiniteSet(S) <=> IsFiniteSet(S)
  BY DEF RL!IsFiniteSet, IsFiniteSet
<1>. QED BY <1>1, <1>2, <1>3

(***************************************************************************)
(* Requests of the approval workflow                                       *)
(***************************************************************************)
TierNames == {"none", "minimal", "low", "medium", "high", "critical"}

Request ==
  [tier : TierNames, required : {0, 2, 3, 4}, state : AW!States, expires : Nat,
   by : {"none", "officer", "system"}, granted : Int]

\* What is approved was granted as the policy allows.
GrantedInTime(r) ==
  r.state \in {"approved", "executed"} =>
    \/ r.by = "officer" /\ r.granted \in 0..r.expires
    \/ /\ r.by = "system" /\ r.granted > r.expires
       /\ autoApprove /\ r.tier \notin {"high", "critical"}

WorkflowInv ==
  /\ hour \in Nat /\ autoApprove \in BOOLEAN
  /\ score \in [tier : TierNames, at : Nat]
  /\ approvals \in Seq(Request)
  /\ \A r \in DOMAIN approvals : GrantedInTime(approvals[r])

\* What a step may do to a request.
DecisionStands(r, s) ==
  /\ r.state \in {"rejected", "expired", "executed"} => s = r
  /\ r.state = "approved" => s.state \in {"approved", "executed"}
  /\ s.required >= r.required

LEMMA WorkflowBegins == ASSUME AW!Init PROVE WorkflowInv
BY DEF AW!Init, AW!AssetInit, WorkflowInv, TierNames

LEMMA CurrentIsAScore ==
  ASSUME WorkflowInv PROVE AW!Calculated \in [tier : TierNames, at : Nat]
                           /\ AW!Current \in [tier : TierNames, at : Nat]
<1>1. \A n : AW!RiskTier(n) \in TierNames
  BY DEF AW!RiskTier, TierNames
<1>2. AW!Calculated \in [tier : TierNames, at : Nat]
  BY <1>1 DEF AW!Calculated, WorkflowInv
<1>. QED BY <1>2 DEF AW!Current, WorkflowInv

LEMMA OneRequestChanges ==
  ASSUME WorkflowInv, NEW r \in DOMAIN approvals, NEW s \in Request, AW!Change(r, s),
         GrantedInTime(s), DecisionStands(approvals[r], s)
  PROVE  /\ WorkflowInv'
         /\ \A i \in DOMAIN approvals : DecisionStands(approvals[i], approvals'[i])
<1>1. /\ approvals' = [approvals EXCEPT ![r] = s] /\ UNCHANGED <<hour, score, autoApprove>>
      /\ approvals \in Seq(Request)
  BY DEF AW!Change, AW!assetVars, WorkflowInv
<1>2. approvals' \in Seq(Request)
  BY <1>1
<1>3. \A i \in DOMAIN approvals : GrantedInTime(approvals'[i])
  BY <1>1 DEF WorkflowInv
<1>4. \A i \in DOMAIN approvals : DecisionStands(approvals[i], approvals'[i])
  <2>1. ASSUME NEW i \in DOMAIN approvals PROVE DecisionStands(approvals[i], approvals'[i])
    <3>1. CASE i = r
      BY <1>1, <3>1
    <3>2. CASE i # r
      <4>1. approvals'[i] = approvals[i] /\ approvals[i] \in Request
        BY <1>1, <3>2
      <4>. QED BY <4>1 DEF DecisionStands, Request
    <3>. QED BY <3>1, <3>2
  <2>. QED BY <2>1
<1>5. \A x : GrantedInTime(x) => GrantedInTime(x)'
  BY <1>1 DEF GrantedInTime
<1>. QED BY <1>1, <1>2, <1>3, <1>4, <1>5 DEF WorkflowInv

LEMMA RequestsStay ==
  ASSUME WorkflowInv, UNCHANGED <<approvals, autoApprove>>, hour' \in Nat,
         score' \in [tier : TierNames, at : Nat]
  PROVE  /\ WorkflowInv'
         /\ \A i \in DOMAIN approvals : DecisionStands(approvals[i], approvals'[i])
<1>1. \A x : GrantedInTime(x) => GrantedInTime(x)'
  BY DEF GrantedInTime
<1>2. \A i \in DOMAIN approvals : approvals'[i] = approvals[i] /\ approvals[i].required \in Int
  <2>1. \A i \in DOMAIN approvals : approvals'[i] = approvals[i] /\ approvals[i] \in Request
    BY DEF WorkflowInv
  <2>. QED BY <2>1 DEF Request
<1>3. \A i \in DOMAIN approvals : DecisionStands(approvals[i], approvals'[i])
  BY <1>2 DEF DecisionStands
<1>. QED BY <1>1, <1>2, <1>3 DEF WorkflowInv

LEMMA GrantsAndExpiriesAreRequests ==
  ASSUME hour \in Nat, NEW r \in Request, NEW by \in {"officer", "system"}
  PROVE  AW!Grant(r, by) \in Request /\ [r EXCEPT !.state = "expired"] \in Request
<1>1. AW!Grant(r, by) =
        [[[r EXCEPT !.state = "approved"] EXCEPT !.by = by] EXCEPT !.granted = hour]
  BY Zenon DEF AW!Grant
<1>2. \A x \in Request : /\ [x EXCEPT !.state = "approved"] \in Request
                        /\ [x EXCEPT !.state = "expired"] \in Request
  BY DEF AW!States, Request
<1>3. \A x \in Request : [x EXCEPT !.by = by] \in Request
  BY DEF Request
<1>4. \A x \in Request : [x EXCEPT !.granted = hour] \in Request
  BY DEF Request
<1>. QED BY <1>1, <1>2, <1>3, <1>4

LEMMA DecisionKeeps ==
  ASSUME WorkflowInv, NEW r \in DOMAIN approvals,
         \/ AW!ApproveRequest(r) \/ AW!RejectRequest(r) \/ AW!EscalateRequest(r)
         \/ AW!MarkExecuted(r)
  PROVE  /\ WorkflowInv'
         /\ \A i \in DOMAIN approvals : DecisionStands(approvals[i], approvals'[i])
<1>. DEFINE old == approvals[r]
<1>1. old \in Request /\ hour \in Nat /\ GrantedInTime(old)
  BY DEF WorkflowInv
<1>2. ASSUME AW!ApproveRequest(r)
      PROVE \E s \in Request : AW!Change(r, s) /\ GrantedInTime(s) /\ DecisionStands(old, s)
  <2>1. AW!Change(r, AW!Approve(old)) /\ old.state = "pending"
    BY <1>2 DEF AW!ApproveRequest, AW!Pending
  <2>2. AW!Approve(old) \in Request
    BY <1>1, GrantsAndExpiriesAreRequests DEF AW!Approve
  <2>3. GrantedInTime(AW!Approve(old))
    BY <1>1, <2>1 DEF AW!Approve, AW!Grant, AW!IsExpired, Request, GrantedInTime
  <2>4. DecisionStands(old, AW!Approve(old))
    BY <1>1, <2>1 DEF AW!Approve, AW!Grant, Request, DecisionStands
  <2>. QED BY <2>1, <2>2, <2>3, <2>4
<1>3. ASSUME AW!RejectRequest(r)
      PROVE \E s \in Request : AW!Change(r, s) /\ GrantedInTime(s) /\ DecisionStands(old, s)
  <2>1. AW!Change(r, AW!Reject(old)) /\ old.state = "pending"
    BY <1>3 DEF AW!RejectRequest, AW!Pending
  <2>2. AW!Reject(old) \in Request /\ GrantedInTime(AW!Reject(old))
    BY <1>1 DEF AW!Reject, AW!States, Request, GrantedInTime
  <2>3. DecisionStands(old, AW!Reject(old))
    BY <1>1, <2>1 DEF AW!Reject, Request, DecisionStands
  <2>. QED BY <2>1, <2>2, <2>3
<1>4. ASSUME AW!EscalateRequest(r)
      PROVE \E s \in Request : AW!Change(r, s) /\ GrantedInTime(s) /\ DecisionStands(old, s)
  <2>1. AW!Change(r, AW!Escalate(old)) /\ old.state = "pending"
    BY <1>4 DEF AW!EscalateRequest, AW!Pending
  <2>2. AW!Escalate(old) \in Request /\ GrantedInTime(AW!Escalate(old))
    BY <1>1, <2>1 DEF AW!Escalate, Request, GrantedInTime
  <2>3. DecisionStands(old, AW!Escalate(old))
    BY <1>1, <2>1 DEF AW!Escalate, Request, DecisionStands
  <2>. QED BY <2>1, <2>2, <2>3
<1>5. ASSUME AW!MarkExecuted(r)
      PROVE \E s \in Request : AW!Change(r, s) /\ GrantedInTime(s) /\ DecisionStands(old, s)
  <2>1. AW!Change(r, AW!Executed(old)) /\ old.state = "approved"
    BY <1>5 DEF AW!MarkExecuted
  <2>2. AW!Executed(old) \in Request
    BY <1>1 DEF AW!Executed, AW!States, Request
  <2>3. GrantedInTime(AW!Executed(old)) /\ DecisionStands(old, AW!Executed(old))
    BY <1>1, <2>1 DEF AW!Executed, Request, GrantedInTime, DecisionStands
  <2>. QED BY <2>1, <2>2, <2>3
<1>. QED BY <1>2, <1>3, <1>4, <1>5, OneRequestChanges

LEMMA CreationKeeps ==
  ASSUME WorkflowInv, AW!CreateApprovalRequest
  PROVE  /\ WorkflowInv'
         /\ \A i \in DOMAIN approvals : DecisionStands(approvals[i], approvals'[i])
<1>. DEFINE new == AW!NewRequest(AW!Current.tier)
<1>1. /\ score' = AW!Current /\ UNCHANGED <<hour, autoApprove>>
      /\ approvals' = Append(approvals, new) /\ approvals \in Seq(Request)
  BY DEF AW!CreateApprovalRequest, AW!GetScore, WorkflowInv
<1>2. new \in Request /\ new.state = "pending"
  BY CurrentIsAScore DEF AW!NewRequest, AW!RequiredLevel, AW!HoursFor, AW!States, Request,
                         WorkflowInv
<1>. HIDE DEF new
<1>3. approvals' \in Seq(Request) /\ Len(approvals') = Len(approvals) + 1
  BY <1>1, <1>2
<1>4. \A i \in DOMAIN approvals : approvals'[i] = approvals[i] /\ approvals[i] \in Request
  BY <1>1
<1>5. \A i \in DOMAIN approvals' : i \in DOMAIN approvals \/ approvals'[i] = new
  BY <1>1
<1>6. \A x : GrantedInTime(x) => GrantedInTime(x)'
  BY <1>1 DEF GrantedInTime
<1>7. GrantedInTime(new)
  BY <1>2 DEF GrantedInTime
<1>8. \A i \in DOMAIN approvals' : GrantedInTime(approvals'[i])
  BY <1>4, <1>5, <1>7 DEF WorkflowInv
<1>9. \A i \in DOMAIN approvals : DecisionStands(approvals[i], approvals'[i])
  BY <1>4 DEF DecisionStands, Request
<1>10. score' \in [tier : TierNames, at : Nat]
  BY <1>1, CurrentIsAScore
<1>. QED BY <1>1, <1>3, <1>6, <1>8, <1>9, <1>10 DEF WorkflowInv

LEMMA TimeOutKeeps ==
  ASSUME WorkflowInv, AW!ProcessExpiredRequests
  PROVE  /\ WorkflowInv'
         /\ \A i \in DOMAIN approvals : DecisionStands(approvals[i], approvals'[i])
<1>1. /\ approvals' = [r \in DOMAIN approvals |->
            IF AW!Pending(r) /\ AW!IsExpired(approvals[r]) THEN AW!TimedOut(approvals[r])
            ELSE approvals[r]]
      /\ UNCHANGED <<hour, autoApprove, score>>
  BY DEF AW!ProcessExpiredRequests, AW!assetVars
<1>2. ASSUME NEW r \in Request, GrantedInTime(r), r.state = "pending", hour > r.expires
      PROVE  /\ AW!TimedOut(r) \in Request /\ GrantedInTime(AW!TimedOut(r))
             /\ DecisionStands(r, AW!TimedOut(r))
  <2>1. hour \in Nat /\ autoApprove \in BOOLEAN
    BY DEF WorkflowInv
  <2>2. AW!TimedOut(r) \in Request
    BY <2>1, GrantsAndExpiriesAreRequests DEF AW!TimedOut
  <2>3. GrantedInTime(AW!TimedOut(r))
    BY <1>2, <2>1 DEF AW!TimedOut, AW!Grant, Request, GrantedInTime
  <2>4. DecisionStands(r, AW!TimedOut(r))
    BY <1>2, <2>1 DEF AW!TimedOut, AW!Grant, Request, DecisionStands
  <2>. QED BY <2>2, <2>3, <2>4
<1>3. ASSUME NEW i \in DOMAIN approvals
      PROVE  /\ approvals'[i] \in Request /\ GrantedInTime(approvals'[i])
             /\ DecisionStands(approvals[i], approvals'[i])
  <2>1. PICK r : r = approvals[i]
    OBVIOUS
  <2>2. r \in Request /\ GrantedInTime(r)
    BY <2>1 DEF WorkflowInv
  <2>3. approvals'[i] = IF r.state = "pending" /\ hour > r.expires THEN AW!TimedOut(r) ELSE r
    BY <1>1, <2>1 DEF AW!Pending, AW!IsExpired
  <2>4. DecisionStands(r, r)
    BY <2>2 DEF DecisionStands, Request
  <2>. QED BY <1>2, <2>1, <2>2, <2>3, <2>4
<1>4. DOMAIN approvals' = DOMAIN approvals /\ approvals' \in Seq(Request)
  <2>1. DOMAIN approvals = 1..Len(approvals) /\ Len(approvals) \in Nat
    BY DEF WorkflowInv
  <2>2. approvals' \in [1..Len(approvals) -> Request]
    BY <1>1, <1>3, <2>1
  <2>. QED BY <2>1, <2>2
<1>5. \A x : GrantedInTime(x) => GrantedInTime(x)'
  BY <1>1 DEF GrantedInTime
<1>. QED BY <1>1, <1>3, <1>4, <1>5 DEF WorkflowInv

LEMMA WorkflowStep ==
  ASSUME AW!RiskAssumption, WorkflowInv, [AW!Next]_(AW!vars)
  PROVE  /\ WorkflowInv'
         /\ \A i \in DOMAIN approvals : DecisionStands(approvals[i], approvals'[i])
<1>1. CASE UNCHANGED AW!vars
  <2>1. UNCHANGED <<approvals, autoApprove, hour, score>>
    BY <1>1 DEF AW!vars
  <2>. QED BY <2>1, RequestsStay DEF WorkflowInv
<1>2. CASE AW!AssetNext /\ UNCHANGED <<autoApprove, approvals>>
  <2>1. hour' \in Nat
    BY <1>2 DEF AW!AssetNext, AW!ChangeTags, AW!Assess, AW!ReportIncident, AW!Recalculate,
                AW!AskForScore, AW!Tick, AW!RiskAssumption, WorkflowInv
  <2>2. score' \in {score, AW!Calculated, AW!Current}
    BY <1>2 DEF AW!AssetNext, AW!ChangeTags, AW!Assess, AW!ReportIncident, AW!Recalculate,
                AW!CalculateRiskScore, AW!GetScore, AW!AskForScore, AW!Tick, AW!assetVars
  <2>3. score' \in [tier : TierNames, at : Nat]
    BY <2>2, CurrentIsAScore DEF WorkflowInv
  <2>. QED BY <1>2, <2>1, <2>3, RequestsStay
<1>3. CASE AW!CheckApprovalRequired
  <2>1. UNCHANGED <<approvals, autoApprove, hour>> /\ score' = AW!Current
    BY <1>3 DEF AW!CheckApprovalRequired, AW!GetScore
  <2>. QED BY <2>1, CurrentIsAScore, RequestsStay DEF WorkflowInv
<1>. QED BY <1>1, <1>2, <1>3, CreationKeeps, DecisionKeeps, TimeOutKeeps DEF AW!Next

(***************************************************************************)
(* Requests of the approval store                                          *)
(***************************************************************************)
\* A request of the store, decided at most once.
DecidedInTime(r, s) ==
  s # r => /\ r.status = "pending"
           /\ s.status = "approved" => stored <= r.expires
           /\ s.status = "expired" => stored > r.expires

StoredRequest == [status : ST!Statuses, decided : Int, expires : Int]

StoreInv == requests \in Seq(StoredRequest) /\ stored \in Nat

LEMMA StoreStep ==
  ASSUME ST!StoreAssumption, StoreInv, [ST!Next]_(ST!vars)
  PROVE  StoreInv' /\ \A i \in DOMAIN requests : DecidedInTime(requests[i], requests'[i])
<1>1. requests \in Seq(StoredRequest) /\ stored \in Nat
  BY DEF StoreInv
<1>2. CASE UNCHANGED requests /\ stored' \in Nat
  BY <1>1, <1>2 DEF StoreInv, DecidedInTime
<1>3. ASSUME NEW delay \in Delays, ST!Create(delay)
      PROVE  StoreInv' /\ \A i \in DOMAIN requests : DecidedInTime(requests[i], requests'[i])
  <2>1. PICK new \in StoredRequest : requests' = Append(requests, new)
    BY <1>1, <1>3 DEF ST!Create, ST!Statuses, ST!Never, ST!StoreAssumption, StoredRequest
  <2>2. requests' \in Seq(StoredRequest) /\ \A i \in DOMAIN requests : requests'[i] = requests[i]
    BY <1>1, <2>1
  <2>. QED BY <1>1, <1>3, <2>2 DEF StoreInv, DecidedInTime, ST!Create
<1>4. ASSUME NEW r \in DOMAIN requests, NEW s \in StoredRequest, requests' = [requests EXCEPT ![r] = s],
             stored' = stored, DecidedInTime(requests[r], s)
      PROVE  StoreInv' /\ \A i \in DOMAIN requests : DecidedInTime(requests[i], requests'[i])
  <2>1. requests' \in Seq(StoredRequest)
    BY <1>1, <1>4
  <2>2. \A i \in DOMAIN requests : requests'[i] = IF i = r THEN s ELSE requests[i]
    BY <1>1, <1>4
  <2>3. \A x : DecidedInTime(x, x)
    BY DEF DecidedInTime
  <2>. QED BY <1>1, <1>4, <2>1, <2>2, <2>3 DEF StoreInv
<1>5. ASSUME NEW r \in DOMAIN requests, ST!Approve(r) \/ ST!Reject(r) \/ ST!Cancel(r) \/ ST!Get(r)
      PROVE  \E s \in StoredRequest : /\ requests' = [requests EXCEPT ![r] = s] /\ stored' = stored
                             /\ DecidedInTime(requests[r], s)
  <2>1. PICK old : old = requests[r]
    OBVIOUS
  <2>2. old \in StoredRequest /\ old.status = "pending" /\ UNCHANGED stored
    <3>1. old \in StoredRequest
      BY <1>1, <2>1
    <3>2. ST!IsPending(r) /\ UNCHANGED stored
      BY <1>5 DEF ST!Approve, ST!Reject, ST!Cancel, ST!Get
    <3>. QED BY <2>1, <3>1, <3>2 DEF ST!IsPending
  <2>3. \/ /\ stored <= old.expires
           /\ requests' = [requests EXCEPT ![r].status = "approved", ![r].decided = stored]
        \/ /\ stored > old.expires
           /\ requests' = [requests EXCEPT ![r].status = "expired"]
        \/ requests' = [requests EXCEPT ![r].status = "rejected", ![r].decided = stored]
        \/ requests' = [requests EXCEPT ![r].status = "cancelled"]
    <3>1. ST!IsExpired(r) <=> stored > old.expires
      BY <2>1, <2>2 DEF ST!IsExpired
    <3>2. old.expires \in Int
      BY <2>2 DEF StoredRequest
    <3>. QED BY <1>1, <1>5, <3>1, <3>2
            DEF ST!Approve, ST!Reject, ST!Cancel, ST!Get, ST!Approved, ST!Expired
  <2>4. PICK s : /\ requests' = [requests EXCEPT ![r] = s]
                 /\ \/ /\ stored <= old.expires
                       /\ s = [old EXCEPT !.status = "approved", !.decided = stored]
                    \/ /\ stored > old.expires
                       /\ s = [old EXCEPT !.status = "expired"]
                    \/ s = [old EXCEPT !.status = "rejected", !.decided = stored]
                    \/ s = [old EXCEPT !.status = "cancelled"]
    BY <2>1, <2>3
  <2>5. s \in StoredRequest
    <3>1. \A x \in StoredRequest, t \in ST!Statuses : [x EXCEPT !.status = t] \in StoredRequest
      BY DEF StoredRequest
    <3>2. \A x \in StoredRequest : [x EXCEPT !.decided = stored] \in StoredRequest
      BY <1>1 DEF StoredRequest
    <3>3. \A t : [old EXCEPT !.status = t, !.decided = stored]
                   = [[old EXCEPT !.status = t] EXCEPT !.decided = stored]
      BY Zenon
    <3>. QED BY <2>2, <2>4, <3>1, <3>2, <3>3 DEF ST!Statuses
  <2>6. DecidedInTime(old, s)
    BY <2>2, <2>4 DEF DecidedInTime, StoredRequest
  <2>. QED BY <2>1, <2>2, <2>4, <2>5, <2>6
<1>6. ASSUME ST!CleanupExpired
      PROVE  StoreInv' /\ \A i \in DOMAIN requests : DecidedInTime(requests[i], requests'[i])
  <2>1. /\ requests' = [r \in DOMAIN requests |->
             IF requests[r].status = "pending" /\ stored > requests[r].expires
             THEN [requests[r] EXCEPT !.status = "expired"] ELSE requests[r]]
        /\ stored' = stored
    BY <1>6 DEF ST!CleanupExpired, ST!IsPending
  <2>2. ASSUME NEW i \in DOMAIN requests
        PROVE  requests'[i] \in StoredRequest /\ DecidedInTime(requests[i], requests'[i])
    <3>1. PICK old \in StoredRequest : old = requests[i]
      BY <1>1
    <3>2. requests'[i] = IF old.status = "pending" /\ stored > old.expires
                         THEN [old EXCEPT !.status = "expired"] ELSE old
      BY <2>1, <3>1
    <3>. QED BY <3>1, <3>2 DEF DecidedInTime, ST!Statuses, StoredRequest
  <2>3. DOMAIN requests = 1..Len(requests) /\ Len(requests) \in Nat
    BY <1>1
  <2>4. requests' \in [1..Len(requests) -> StoredRequest]
    BY <2>1, <2>2, <2>3
  <2>. QED BY <1>1, <2>1, <2>2, <2>3, <2>4 DEF StoreInv
<1>7. CASE ST!Tick
  BY <1>2, <1>7 DEF ST!Tick, ST!StoreAssumption
<1>8. CASE UNCHANGED ST!vars
  BY <1>1, <1>2, <1>8 DEF ST!vars
<1>. QED BY <1>3, <1>4, <1>5, <1>6, <1>7, <1>8 DEF ST!Next
(***************************************************************************)
(* The windows of the limiters                                             *)
(***************************************************************************)
LEMMA Smaller ==
  ASSUME NEW S, IsFiniteSet(S), NEW T, T \subseteq S
  PROVE  /\ IsFiniteSet(T) /\ Cardinality(T) \in Nat /\ Cardinality(S) \in Nat
         /\ Cardinality(T) <= Cardinality(S)
BY FS_Subset, FS_CardinalityType

LEMMA OneMore ==
  ASSUME NEW S, IsFiniteSet(S), NEW x, NEW T, T \subseteq S \cup {x}
  PROVE  /\ IsFiniteSet(T) /\ Cardinality(T) \in Nat /\ Cardinality(S) \in Nat
         /\ Cardinality(T) <= Cardinality(S) + 1
<1>1. Cardinality(S) \in Nat
  BY FS_CardinalityType
<1>2. IsFiniteSet(S \cup {x}) /\ Cardinality(S \cup {x}) <= Cardinality(S) + 1
  BY <1>1, FS_AddElement
<1>. QED BY <1>1, <1>2, Smaller

Stamps == [at : Nat, number : Nat]
GovernedStamps == [at : Nat, number : Nat, limit : Nat]

\* What passed before a stamp, and with it, in the minute up to it.
Earlier(times, g) ==
  {h \in RL!Since(times, g.at - 60) : h.at < g.at \/ (h.at = g.at /\ h.number <= g.number)}

SameTime(times, t) == {x \in times : x.at = t}

\* The middleware: what it let through in the last hour is in its history.
MiddlewareInv ==
  /\ past \subseteq Stamps /\ IsFiniteSet(past)
  /\ admitted \subseteq Stamps /\ IsFiniteSet(admitted)
  /\ RL!Since(admitted, second - 3600) \subseteq past
  /\ Cardinality(RL!Since(admitted, second - 60)) <= PerMinute
  /\ Cardinality(RL!Since(admitted, second - 3600)) <= PerHour

\* The governance middleware: numbers count those of the same time.
GovernedInv ==
  /\ governed \subseteq GovernedStamps /\ IsFiniteSet(governed)
  /\ \A g \in governed : /\ g.at <= second
                         /\ g.number <= Cardinality(SameTime(governed, g.at))
                         /\ Cardinality(Earlier(governed, g)) <= g.limit

Counted == {c \in Checkers : checker[c] = "counted"}

\* The limiter in Redis: who has counted and not yet recorded will record.
RedisInv ==
  /\ window \subseteq Stamps /\ IsFiniteSet(window)
  /\ calls \subseteq Stamps /\ IsFiniteSet(calls)
  /\ RL!Since(calls, second - 60) \subseteq window
  /\ DOMAIN checker = Checkers
  /\ Cardinality(RL!Since(calls, second - 60)) + Cardinality(Counted)
       <= RedisLimit + Cardinality(Checkers) - 1

LimitsInv == second \in Nat /\ MiddlewareInv /\ GovernedInv /\ RedisInv

LEMMA LimitsBegin == ASSUME RL!LimitsAssumption, RL!Init PROVE LimitsInv
<1>1. \A t : RL!Since({}, t) = {}
  BY DEF RL!Since
<1>2. IsFiniteSet({}) /\ Cardinality({}) = 0
  BY FS_EmptySet
<1>3. Counted = {}
  BY DEF RL!Init, Counted
<1>4. Cardinality(Checkers) \in Nat
  BY SameCardinality, FS_CardinalityType DEF RL!LimitsAssumption
<1>5. {PerMinute, PerHour, RedisLimit} \subseteq Nat \ {0}
  BY DEF RL!LimitsAssumption
<1>6. MiddlewareInv
  BY <1>1, <1>2, <1>5 DEF RL!Init, MiddlewareInv
<1>7. GovernedInv
  BY <1>2 DEF RL!Init, GovernedInv
<1>8. RedisInv
  <2>1. RedisLimit \in Nat /\ RedisLimit >= 1
    BY <1>5
  <2>2. RL!Since(calls, second - 60) = {}
    BY <1>1 DEF RL!Init
  <2>3. 0 + 0 <= RedisLimit + Cardinality(Checkers) - 1
    BY <1>4, <2>1
  <2>. QED BY <1>2, <1>3, <2>2, <2>3 DEF RL!Init, RedisInv
<1>. QED BY <1>6, <1>7, <1>8 DEF RL!Init, LimitsInv

LEMMA StampIsOne ==
  ASSUME LimitsInv, NEW times, IsFiniteSet(times)
  PROVE  RL!Stamp(times) \in Stamps /\ RL!Stamp(times).at = second
<1>1. PICK c \in Nat : c = Cardinality({x \in times : x.at = second})
  BY Smaller
<1>2. RL!Stamp(times) = [at |-> second, number |-> 1 + c]
  BY <1>1, SameCardinality DEF RL!Stamp, RL!NextNumber
<1>. QED BY <1>2 DEF Stamps, LimitsInv

\* What is dropped from a list was not in the time that counts.
LEMMA MiddlewareShrinks ==
  ASSUME LimitsInv, UNCHANGED <<second, admitted>>, past' = RL!LastHour(past)
  PROVE  MiddlewareInv'
<1>1. past' \subseteq past /\ RL!Since(admitted, second - 3600) \subseteq past'
  BY DEF LimitsInv, MiddlewareInv, RL!LastHour, RL!Since
<1>2. IsFiniteSet(past') /\ past' \subseteq Stamps
  BY <1>1, Smaller DEF LimitsInv, MiddlewareInv
<1>3. /\ RL!Since(admitted, second - 60)' = RL!Since(admitted, second - 60)
      /\ RL!Since(admitted, second - 3600)' = RL!Since(admitted, second - 3600)
  BY DEF RL!Since
<1>. QED BY <1>1, <1>2, <1>3 DEF LimitsInv, MiddlewareInv

LEMMA DispatchKeeps ==
  ASSUME RL!LimitsAssumption, LimitsInv, RL!Dispatch
  PROVE  MiddlewareInv'
<1>0. PICK kept : kept = RL!LastHour(past)
  OBVIOUS
<1>1. CASE ~RL!CheckRateLimit(kept)
  BY <1>0, <1>1, MiddlewareShrinks DEF RL!Dispatch
<1>2. CASE RL!CheckRateLimit(kept)
  <2>1. PICK stamp : stamp = RL!Stamp(admitted)
    OBVIOUS
  <2>2. /\ past' = kept \cup {stamp} /\ admitted' = admitted \cup {stamp} /\ second' = second
    BY <1>0, <1>2, <2>1 DEF RL!Dispatch
  <2>3. /\ second \in Nat /\ past \subseteq Stamps /\ IsFiniteSet(past)
        /\ admitted \subseteq Stamps /\ IsFiniteSet(admitted)
        /\ RL!Since(admitted, second - 3600) \subseteq past
        /\ PerMinute \in Nat /\ PerHour \in Nat
    BY DEF LimitsInv, MiddlewareInv, RL!LimitsAssumption
  <2>4. stamp \in Stamps /\ stamp.at = second
    BY <2>1, <2>3, StampIsOne
  <2>5. kept \subseteq past /\ IsFiniteSet(kept) /\ RL!Since(admitted, second - 3600) \subseteq kept
    BY <1>0, <2>3, Smaller DEF RL!LastHour, RL!Since
  <2>6. RL!Since(admitted, second - 60) \subseteq RL!Since(kept, second - 60)
    BY <2>3, <2>5 DEF RL!Since, Stamps
  <2>7. /\ Cardinality(RL!Since(kept, second - 60)) < PerMinute
        /\ Cardinality(kept) < PerHour
    BY <1>2, SameCardinality DEF RL!CheckRateLimit, RL!Within
  <2>8. IsFiniteSet(RL!Since(kept, second - 60))
    BY <2>5, Smaller DEF RL!Since
  <2>9. PICK lately, minute1, hour1 : /\ lately = RL!Since(kept, second - 60)
                                      /\ minute1 = RL!Since(admitted, second - 60)'
                                      /\ hour1 = RL!Since(admitted, second - 3600)'
    OBVIOUS
  <2>10. /\ minute1 \subseteq lately \cup {stamp}
         /\ hour1 \subseteq kept \cup {stamp}
    <3>1. /\ minute1 = {x \in admitted \cup {stamp} : x.at > second - 60}
          /\ hour1 = {x \in admitted \cup {stamp} : x.at > second - 3600}
      BY <2>2, <2>9 DEF RL!Since
    <3>. QED BY <2>5, <2>6, <2>9, <3>1 DEF RL!Since
  <2>11. /\ Cardinality(minute1) \in Nat
         /\ Cardinality(lately) \in Nat
         /\ Cardinality(minute1) <= Cardinality(lately) + 1
    <3>1. IsFiniteSet(lately) /\ minute1 \subseteq lately \cup {stamp}
      BY <2>8, <2>9, <2>10
    <3>. QED BY <3>1, OneMore
  <2>12. /\ Cardinality(hour1) \in Nat /\ Cardinality(kept) \in Nat
         /\ Cardinality(hour1) <= Cardinality(kept) + 1
    <3>1. IsFiniteSet(kept) /\ hour1 \subseteq kept \cup {stamp}
      BY <2>5, <2>10
    <3>. QED BY <3>1, OneMore
  <2>13. Cardinality(minute1) <= PerMinute /\ Cardinality(hour1) <= PerHour
    BY <2>3, <2>7, <2>9, <2>11, <2>12
  <2>14. IsFiniteSet(past') /\ IsFiniteSet(admitted')
    <3>1. IsFiniteSet(kept \cup {stamp})
      BY <2>5, FS_AddElement
    <3>2. IsFiniteSet(admitted \cup {stamp})
      BY <2>3, FS_AddElement
    <3>. QED BY <2>2, <3>1, <3>2
  <2>15. past' \subseteq Stamps /\ admitted' \subseteq Stamps
    BY <2>2, <2>3, <2>4, <2>5
  <2>. QED BY <2>2, <2>9, <2>10, <2>13, <2>14, <2>15 DEF MiddlewareInv
<1>. QED BY <1>1, <1>2

LEMMA MiddlewareStays ==
  ASSUME LimitsInv, UNCHANGED <<second, past, admitted>> PROVE MiddlewareInv'
<1>1. /\ RL!Since(admitted, second - 60)' = RL!Since(admitted, second - 60)
      /\ RL!Since(admitted, second - 3600)' = RL!Since(admitted, second - 3600)
  BY DEF RL!Since
<1>. QED BY <1>1 DEF LimitsInv, MiddlewareInv

\* A list that is cut, at a time and not within one, keeps its numbers.
LEMMA GovernedShrinks ==
  ASSUME LimitsInv, UNCHANGED second, governed' = RL!RecentlyGoverned
  PROVE  GovernedInv'
<1>1. governed' \subseteq governed /\ governed' = {x \in governed : x.at > second - 60}
  BY DEF RL!RecentlyGoverned, RL!Since
<1>2. governed \subseteq GovernedStamps /\ IsFiniteSet(governed)
  BY DEF LimitsInv, GovernedInv
<1>3. ASSUME NEW g \in governed'
      PROVE  /\ g.at <= second
             /\ g.number <= Cardinality(SameTime(governed', g.at))
             /\ Cardinality(Earlier(governed', g)) <= g.limit
  <2>1. /\ g \in governed /\ g.at <= second
        /\ g.number <= Cardinality(SameTime(governed, g.at))
        /\ Cardinality(Earlier(governed, g)) <= g.limit /\ g \in GovernedStamps
    BY <1>1, <1>2 DEF LimitsInv, GovernedInv
  <2>2. SameTime(governed', g.at) = SameTime(governed, g.at)
    BY <1>1 DEF SameTime
  <2>3. Earlier(governed', g) \subseteq Earlier(governed, g)
    BY <1>1 DEF Earlier, RL!Since
  <2>4. IsFiniteSet(Earlier(governed, g))
    BY <1>2, Smaller DEF Earlier, RL!Since
  <2>5. /\ Cardinality(Earlier(governed', g)) \in Nat /\ Cardinality(Earlier(governed, g)) \in Nat
        /\ Cardinality(Earlier(governed', g)) <= Cardinality(Earlier(governed, g))
    BY <2>3, <2>4, Smaller
  <2>. QED BY <2>1, <2>2, <2>5 DEF GovernedStamps
<1>4. \A g : Earlier(governed, g)' = Earlier(governed', g)
             /\ SameTime(governed, g.at)' = SameTime(governed', g.at)
  BY DEF Earlier, SameTime, RL!Since
<1>5. IsFiniteSet(governed') /\ governed' \subseteq GovernedStamps
  BY <1>1, <1>2, Smaller
<1>. QED BY <1>3, <1>4, <1>5 DEF GovernedInv

LEMMA GovernedStays ==
  ASSUME LimitsInv, UNCHANGED governed, second' \in Nat, second' >= second
  PROVE  GovernedInv'
<1>1. governed \subseteq GovernedStamps /\ second \in Nat
  BY DEF LimitsInv, GovernedInv
<1>2. \A g : Earlier(governed, g)' = Earlier(governed, g)
             /\ SameTime(governed, g.at)' = SameTime(governed, g.at)
  BY DEF Earlier, SameTime, RL!Since
<1>3. \A g \in governed : g.at <= second'
  BY <1>1 DEF LimitsInv, GovernedInv, GovernedStamps
<1>. QED BY <1>2, <1>3 DEF LimitsInv, GovernedInv

LEMMA GovernedDispatchKeeps ==
  ASSUME RL!LimitsAssumption, LimitsInv, NEW operation, NEW tier,
         RL!GovernedDispatch(operation, tier),
         RL!EffectiveLimit(operation, tier) \in Nat
  PROVE  GovernedInv'
<1>. DEFINE kept == RL!RecentlyGoverned
<1>1. PICK limit \in Nat : limit = RL!EffectiveLimit(operation, tier)
  OBVIOUS
<1>2. PICK number : number = RL!NextNumber(governed)
  OBVIOUS
<1>3. second' = second
      /\ governed' = IF RL!Cardinality(kept) < limit
                     THEN kept \cup {[at |-> second, number |-> number, limit |-> limit]} ELSE kept
  BY <1>1, <1>2 DEF RL!GovernedDispatch
<1>4. /\ second \in Nat /\ governed \subseteq GovernedStamps /\ IsFiniteSet(governed)
      /\ kept = {x \in governed : x.at > second - 60} /\ kept \subseteq governed
      /\ IsFiniteSet(kept)
  BY Smaller DEF LimitsInv, GovernedInv, RL!RecentlyGoverned, RL!Since
<1>5. IsFiniteSet(SameTime(governed, second))
      /\ number = 1 + Cardinality(SameTime(governed, second))
  BY <1>2, <1>4, Smaller, SameCardinality DEF RL!NextNumber, SameTime
<1>. HIDE DEF kept
<1>6. CASE ~(RL!Cardinality(kept) < limit)
  BY <1>3, <1>6, GovernedShrinks DEF kept
<1>7. CASE RL!Cardinality(kept) < limit
  <2>1. PICK new : new = [at |-> second, number |-> number, limit |-> limit]
    OBVIOUS
  <2>2. governed' = kept \cup {new}
    BY <1>3, <1>7, <2>1
  <2>3. Cardinality(SameTime(governed, second)) \in Nat
    BY <1>5, FS_CardinalityType
  <2>4. new \in GovernedStamps
    BY <1>1, <1>4, <1>5, <2>1, <2>3 DEF GovernedStamps
  <2>5. Cardinality(kept) < limit
    BY <1>7, SameCardinality
  <2>6. SameTime(governed', second) = SameTime(governed, second) \cup {new} /\ new \notin governed
    <3>1. \A g \in governed : g.at = second => g.number < number
      BY <1>4, <1>5, <2>3 DEF LimitsInv, GovernedInv, GovernedStamps
    <3>2. new \notin governed
      BY <1>5, <2>1, <2>3, <3>1
    <3>. QED BY <1>4, <2>1, <2>2, <3>2 DEF SameTime
  <2>7. Cardinality(SameTime(governed', second)) = number
    <3>1. new \notin SameTime(governed, second)
      BY <2>6 DEF SameTime
    <3>2. Cardinality(SameTime(governed, second) \cup {new})
            = Cardinality(SameTime(governed, second)) + 1
      BY <1>5, <3>1, FS_AddElement
    <3>. QED BY <1>5, <2>3, <2>6, <3>2
  <2>8. Cardinality(Earlier(governed', new)) <= limit
    <3>1. Earlier(governed', new) \subseteq kept \cup {new}
      BY <2>2 DEF Earlier, RL!Since
    <3>2. /\ Cardinality(Earlier(governed', new)) \in Nat /\ Cardinality(kept) \in Nat
          /\ Cardinality(Earlier(governed', new)) <= Cardinality(kept) + 1
      BY <1>4, <3>1, OneMore
    <3>. QED BY <1>1, <2>5, <3>2
  <2>9. ASSUME NEW g \in kept
        PROVE  /\ g.at <= second
               /\ g.number <= Cardinality(SameTime(governed', g.at))
               /\ Cardinality(Earlier(governed', g)) <= g.limit
    <3>1. /\ g \in governed /\ g.at <= second
          /\ g.number <= Cardinality(SameTime(governed, g.at))
          /\ Cardinality(Earlier(governed, g)) <= g.limit /\ g \in GovernedStamps
          /\ g.at > second - 60
      BY <1>4 DEF LimitsInv, GovernedInv
    <3>2. g.number <= Cardinality(SameTime(governed', g.at))
      <4>1. CASE g.at = second
        BY <1>5, <2>3, <2>7, <3>1, <4>1 DEF GovernedStamps
      <4>2. CASE g.at # second
        <5>1. SameTime(governed', g.at) = SameTime(governed, g.at)
          BY <1>4, <2>1, <2>2, <3>1, <4>2 DEF SameTime
        <5>. QED BY <3>1, <5>1
      <4>. QED BY <4>1, <4>2
    <3>3. Earlier(governed', g) \subseteq Earlier(governed, g)
      <4>1. ~(new.at < g.at \/ (new.at = g.at /\ new.number <= g.number))
        BY <1>4, <1>5, <2>1, <2>3, <3>1 DEF GovernedStamps
      <4>. QED BY <1>4, <2>2, <4>1 DEF Earlier, RL!Since
    <3>4. IsFiniteSet(Earlier(governed, g))
      BY <1>4, Smaller DEF Earlier, RL!Since
    <3>5. /\ Cardinality(Earlier(governed', g)) \in Nat /\ Cardinality(Earlier(governed, g)) \in Nat
          /\ Cardinality(Earlier(governed', g)) <= Cardinality(Earlier(governed, g))
      BY <3>3, <3>4, Smaller
    <3>. QED BY <3>1, <3>2, <3>5 DEF GovernedStamps
  <2>10. /\ new.at <= second /\ new.number <= Cardinality(SameTime(governed', new.at))
         /\ Cardinality(Earlier(governed', new)) <= new.limit
    BY <1>4, <1>5, <2>1, <2>3, <2>7, <2>8
  <2>11. \A g : Earlier(governed, g)' = Earlier(governed', g)
                /\ SameTime(governed, g.at)' = SameTime(governed', g.at)
    BY DEF Earlier, SameTime, RL!Since
  <2>12. IsFiniteSet(governed') /\ governed' \subseteq GovernedStamps
    BY <1>4, <2>2, <2>4, OneMore
  <2>. QED BY <1>3, <2>2, <2>9, <2>10, <2>11, <2>12 DEF GovernedInv
<1>. QED BY <1>6, <1>7

LEMMA EffectiveLimitIsANumber ==
  ASSUME RL!LimitsAssumption, NEW operation \in DOMAIN RL!OperationShare,
         NEW tier \in DOMAIN RL!TierShare
  PROVE  RL!EffectiveLimit(operation, tier) \in Nat
<1>1. RL!OperationShare[operation] \in Nat /\ RL!TierShare[tier] \in Nat
  BY DEF RL!OperationShare, RL!TierShare
<1>2. BaseLimit \in Nat /\ Floor \in Nat
  BY DEF RL!LimitsAssumption
<1>3. PICK asks \in Nat : asks = BaseLimit * RL!OperationShare[operation] * RL!TierShare[tier]
  BY <1>1, <1>2
<1>4. asks \div 10000 \in Nat
  BY <1>3
<1>. QED BY <1>2, <1>3, <1>4 DEF RL!EffectiveLimit

LEMMA CountedChanges ==
  ASSUME RL!LimitsAssumption, RedisInv, NEW c \in Checkers, NEW state,
         checker' = [checker EXCEPT ![c] = state]
  PROVE  /\ DOMAIN checker' = Checkers
         /\ Cardinality(Counted) \in Nat /\ Cardinality(Counted)' \in Nat
         /\ Cardinality(Checkers) \in Nat
         /\ Cardinality(Counted)' <= Cardinality(Checkers)
<1>1. IsFiniteSet(Checkers)
  BY SameCardinality DEF RL!LimitsAssumption
<1>2. PICK counted1 : counted1 = Counted'
  OBVIOUS
<1>3. \A d \in Checkers : checker'[d] = IF d = c THEN state ELSE checker[d]
  BY DEF RedisInv
<1>4. counted1 = {d \in Checkers : checker'[d] = "counted"}
  BY <1>2 DEF Counted
<1>5. IsFiniteSet(Counted) /\ Cardinality(Counted) \in Nat /\ Cardinality(Checkers) \in Nat
  BY <1>1, Smaller DEF Counted
<1>6. /\ IsFiniteSet(counted1) /\ Cardinality(counted1) \in Nat
      /\ Cardinality(counted1) <= Cardinality(Checkers)
  BY <1>1, <1>4, Smaller
<1>7. Cardinality(Counted)' = Cardinality(counted1)
  BY <1>2
<1>. QED BY <1>3, <1>5, <1>6, <1>7 DEF RedisInv

LEMMA CountedDrops ==
  ASSUME RL!LimitsAssumption, RedisInv, NEW c \in Checkers, NEW state, state # "counted",
         checker' = [checker EXCEPT ![c] = state]
  PROVE  /\ Cardinality(Counted)' <= Cardinality(Counted)
         /\ checker[c] = "counted" => Cardinality(Counted)' = Cardinality(Counted) - 1
<1>1. IsFiniteSet(Counted)
  BY Smaller, SameCardinality DEF RL!LimitsAssumption, Counted
<1>2. PICK counted1 : counted1 = Counted'
  OBVIOUS
<1>3. counted1 = Counted \ {c}
  BY <1>2 DEF RedisInv, Counted
<1>4. Cardinality(counted1) <= Cardinality(Counted)
  BY <1>1, <1>3, Smaller
<1>5. ASSUME checker[c] = "counted" PROVE Cardinality(counted1) = Cardinality(Counted) - 1
  <2>1. c \in Counted
    BY <1>5 DEF Counted
  <2>. QED BY <1>1, <1>3, <2>1, FS_RemoveElement
<1>6. Cardinality(Counted)' = Cardinality(counted1)
  BY <1>2
<1>. QED BY <1>4, <1>5, <1>6

LEMMA CountKeeps ==
  ASSUME RL!LimitsAssumption, LimitsInv, NEW c \in Checkers, RL!Count(c)
  PROVE  RedisInv'
<1>1. PICK kept : kept = RL!Since(window, second - 60)
  OBVIOUS
<1>2. /\ window' = kept /\ UNCHANGED <<second, calls>> /\ checker[c] # "counted"
      /\ checker' = [checker EXCEPT ![c] =
           IF RL!Cardinality(kept) >= RedisLimit THEN "refused" ELSE "counted"]
  BY <1>1 DEF RL!Count
<1>3. RedisInv /\ second \in Nat /\ RedisLimit \in Nat
  BY DEF LimitsInv, RL!LimitsAssumption
<1>4. PICK recent : recent = RL!Since(calls, second - 60)
  OBVIOUS
<1>5. recent \subseteq kept /\ kept \subseteq window /\ IsFiniteSet(kept)
  BY <1>1, <1>3, <1>4, Smaller DEF RedisInv, RL!Since
<1>6. Cardinality(recent) \in Nat /\ Cardinality(kept) \in Nat
      /\ Cardinality(recent) <= Cardinality(kept)
  BY <1>5, Smaller
<1>7. PICK counted0, counted1, all :
        /\ counted0 = Cardinality(Counted) /\ counted1 = Cardinality(Counted)'
        /\ all = Cardinality(Checkers)
  OBVIOUS
<1>8. /\ counted0 \in Nat /\ counted1 \in Nat /\ all \in Nat /\ counted1 <= all
      /\ Cardinality(kept) >= RedisLimit => counted1 <= counted0
      /\ DOMAIN checker' = Checkers
  <2>1. PICK state : state = IF RL!Cardinality(kept) >= RedisLimit THEN "refused" ELSE "counted"
    OBVIOUS
  <2>2. checker' = [checker EXCEPT ![c] = state]
    BY <1>2, <2>1
  <2>3. Cardinality(kept) >= RedisLimit => state # "counted"
    BY <2>1, SameCardinality
  <2>4. /\ DOMAIN checker' = Checkers
        /\ Cardinality(Counted)' \in Nat /\ Cardinality(Checkers) \in Nat
        /\ Cardinality(Counted) \in Nat /\ Cardinality(Counted)' <= Cardinality(Checkers)
    BY <1>3, <2>2, CountedChanges
  <2>5. state # "counted" => Cardinality(Counted)' <= Cardinality(Counted)
    BY <1>3, <2>2, CountedDrops
  <2>. QED BY <1>7, <2>3, <2>4, <2>5
<1>9. Cardinality(recent) + counted1 <= RedisLimit + all - 1
  <2>1. CASE Cardinality(kept) >= RedisLimit
    BY <1>3, <1>4, <1>6, <1>7, <1>8, <2>1 DEF RedisInv
  <2>2. CASE ~(Cardinality(kept) >= RedisLimit)
    BY <1>3, <1>6, <1>8, <2>2
  <2>. QED BY <2>1, <2>2
<1>10. RL!Since(calls, second - 60)' = recent
  BY <1>2, <1>4 DEF RL!Since
<1>. QED BY <1>2, <1>3, <1>5, <1>7, <1>8, <1>9, <1>10 DEF RedisInv

LEMMA RecordKeeps ==
  ASSUME RL!LimitsAssumption, LimitsInv, NEW c \in Checkers, RL!Record(c)
  PROVE  RedisInv'
<1>1. PICK stamp : stamp = RL!Stamp(calls)
  OBVIOUS
<1>2. /\ window' = window \cup {stamp} /\ calls' = calls \cup {stamp} /\ UNCHANGED second
      /\ checker[c] = "counted" /\ checker' = [checker EXCEPT ![c] = "allowed"]
  BY <1>1 DEF RL!Record
<1>3. RedisInv /\ second \in Nat /\ RedisLimit \in Nat
  BY DEF LimitsInv, RL!LimitsAssumption
<1>4. stamp \in Stamps
  BY <1>1, <1>3, StampIsOne DEF RedisInv
<1>5. PICK recent, recent1 : /\ recent = RL!Since(calls, second - 60)
                             /\ recent1 = RL!Since(calls, second - 60)'
  OBVIOUS
<1>6. recent \subseteq window /\ recent1 \subseteq recent \cup {stamp} /\ IsFiniteSet(recent)
  BY <1>2, <1>3, <1>5, Smaller DEF RedisInv, RL!Since
<1>7. Cardinality(recent) \in Nat /\ Cardinality(recent1) \in Nat
      /\ Cardinality(recent1) <= Cardinality(recent) + 1
  BY <1>6, OneMore
<1>8. PICK counted0, counted1, all :
        /\ counted0 = Cardinality(Counted) /\ counted1 = Cardinality(Counted)'
        /\ all = Cardinality(Checkers)
  OBVIOUS
<1>9. /\ counted0 \in Nat /\ counted1 = counted0 - 1 /\ all \in Nat
      /\ DOMAIN checker' = Checkers
  <2>1. /\ DOMAIN checker' = Checkers
        /\ Cardinality(Counted)' \in Nat /\ Cardinality(Checkers) \in Nat
        /\ Cardinality(Counted) \in Nat
    BY <1>2, <1>3, CountedChanges
  <2>2. Cardinality(Counted)' = Cardinality(Counted) - 1
    BY <1>2, <1>3, CountedDrops
  <2>. QED BY <1>8, <2>1, <2>2
<1>10. Cardinality(recent1) + counted1 <= RedisLimit + all - 1
  BY <1>3, <1>5, <1>7, <1>8, <1>9 DEF RedisInv
<1>11. IsFiniteSet(window') /\ IsFiniteSet(calls')
  BY <1>2, <1>3, OneMore DEF RedisInv
<1>12. window' \subseteq Stamps /\ calls' \subseteq Stamps /\ recent1 \subseteq window'
  BY <1>2, <1>3, <1>4, <1>6 DEF RedisInv
<1>. QED BY <1>5, <1>8, <1>9, <1>10, <1>11, <1>12 DEF RedisInv

LEMMA FailureKeeps ==
  ASSUME RL!LimitsAssumption, LimitsInv, NEW c \in Checkers, RL!RedisFails(c)
  PROVE  RedisInv'
<1>1. UNCHANGED <<second, window, calls>> /\ checker' = [checker EXCEPT ![c] = "allowed"]
  BY DEF RL!RedisFails
<1>2. RedisInv /\ RedisLimit \in Nat
  BY DEF LimitsInv, RL!LimitsAssumption
<1>3. PICK recent : recent = RL!Since(calls, second - 60)
  OBVIOUS
<1>4. Cardinality(recent) \in Nat
  BY <1>2, <1>3, Smaller DEF RedisInv
<1>5. PICK counted0, counted1, all :
        /\ counted0 = Cardinality(Counted) /\ counted1 = Cardinality(Counted)'
        /\ all = Cardinality(Checkers)
  OBVIOUS
<1>6. /\ counted0 \in Nat /\ counted1 \in Nat /\ counted1 <= counted0 /\ all \in Nat
      /\ DOMAIN checker' = Checkers
  <2>1. /\ DOMAIN checker' = Checkers
        /\ Cardinality(Counted)' \in Nat /\ Cardinality(Checkers) \in Nat
        /\ Cardinality(Counted) \in Nat
    BY <1>1, <1>2, CountedChanges
  <2>2. Cardinality(Counted)' <= Cardinality(Counted)
    BY <1>1, <1>2, CountedDrops
  <2>. QED BY <1>5, <2>1, <2>2
<1>7. Cardinality(recent) + counted1 <= RedisLimit + all - 1
  BY <1>2, <1>3, <1>4, <1>5, <1>6 DEF RedisInv
<1>8. RL!Since(calls, second - 60)' = recent
  BY <1>1, <1>3 DEF RL!Since
<1>. QED BY <1>1, <1>2, <1>3, <1>5, <1>6, <1>7, <1>8 DEF RedisInv

LEMMA ExpiryKeeps ==
  ASSUME LimitsInv, RL!KeyExpires PROVE RedisInv'
<1>1. /\ window' = {} /\ UNCHANGED <<second, calls, checker>>
      /\ \A x \in window : x.at < second - 60
  BY DEF RL!KeyExpires
<1>2. RedisInv /\ second \in Nat
  BY DEF LimitsInv
<1>3. RL!Since(calls, second - 60) = {}
  <2>1. \A x \in RL!Since(calls, second - 60) : x.at > second - 60 /\ x.at < second - 60 /\ x \in Stamps
    BY <1>1, <1>2 DEF RedisInv, RL!Since
  <2>. QED BY <1>2, <2>1 DEF Stamps
<1>4. RL!Since(calls, second - 60)' = RL!Since(calls, second - 60) /\ Counted' = Counted
  BY <1>1 DEF RL!Since, Counted
<1>5. IsFiniteSet({})
  BY FS_EmptySet
<1>. QED BY <1>1, <1>2, <1>3, <1>4, <1>5 DEF RedisInv

LEMMA RedisStays ==
  ASSUME LimitsInv, UNCHANGED <<second, window, calls, checker>> PROVE RedisInv'
<1>1. RL!Since(calls, second - 60)' = RL!Since(calls, second - 60) /\ Counted' = Counted
  BY DEF RL!Since, Counted
<1>. QED BY <1>1 DEF LimitsInv, RedisInv

LEMMA TimeKeepsLimits ==
  ASSUME RL!LimitsAssumption, LimitsInv, RL!Tick PROVE LimitsInv'
<1>1. /\ second' \in Nat /\ second' > second
      /\ UNCHANGED <<past, governed, admitted, window, calls, checker>>
  BY DEF RL!Tick, RL!LimitsAssumption
<1>2. /\ second \in Nat /\ MiddlewareInv /\ RedisInv
      /\ {PerMinute, PerHour, RedisLimit} \subseteq Nat
  BY DEF LimitsInv, RL!LimitsAssumption
<1>3. PICK minute0, hour0, minute1, hour1 :
        /\ minute0 = RL!Since(admitted, second - 60) /\ minute1 = RL!Since(admitted, second - 60)'
        /\ hour0 = RL!Since(admitted, second - 3600) /\ hour1 = RL!Since(admitted, second - 3600)'
  OBVIOUS
<1>4. minute1 \subseteq minute0 /\ hour1 \subseteq hour0
  BY <1>1, <1>2, <1>3 DEF MiddlewareInv, Stamps, RL!Since
<1>5. IsFiniteSet(minute0) /\ IsFiniteSet(hour0)
  BY <1>2, <1>3, Smaller DEF MiddlewareInv, RL!Since
<1>6. /\ Cardinality(minute1) \in Nat /\ Cardinality(minute0) \in Nat
      /\ Cardinality(minute1) <= Cardinality(minute0)
  BY <1>4, <1>5, Smaller
<1>7. /\ Cardinality(hour1) \in Nat /\ Cardinality(hour0) \in Nat
      /\ Cardinality(hour1) <= Cardinality(hour0)
  BY <1>4, <1>5, Smaller
<1>8. MiddlewareInv'
  <2>1. Cardinality(minute1) <= PerMinute /\ Cardinality(hour1) <= PerHour
    BY <1>2, <1>3, <1>6, <1>7 DEF MiddlewareInv
  <2>. QED BY <1>1, <1>2, <1>3, <1>4, <2>1 DEF MiddlewareInv
<1>9. PICK recent0, recent1 : /\ recent0 = RL!Since(calls, second - 60)
                              /\ recent1 = RL!Since(calls, second - 60)'
  OBVIOUS
<1>10. recent1 \subseteq recent0 /\ IsFiniteSet(recent0)
  BY <1>1, <1>2, <1>9, Smaller DEF RedisInv, Stamps, RL!Since
<1>11. /\ Cardinality(recent1) \in Nat /\ Cardinality(recent0) \in Nat
       /\ Cardinality(recent1) <= Cardinality(recent0)
  BY <1>10, Smaller
<1>12. IsFiniteSet(Checkers)
  BY SameCardinality DEF RL!LimitsAssumption
<1>13. Counted' = Counted /\ Cardinality(Counted) \in Nat /\ Cardinality(Checkers) \in Nat
  BY <1>1, <1>12, Smaller DEF Counted
<1>14. RedisInv'
  <2>1. Cardinality(recent1) + Cardinality(Counted) <= RedisLimit + Cardinality(Checkers) - 1
    BY <1>2, <1>9, <1>11, <1>13 DEF RedisInv
  <2>. QED BY <1>1, <1>2, <1>9, <1>10, <1>13, <2>1 DEF RedisInv
<1>15. GovernedInv'
  BY <1>1, <1>2, GovernedStays
<1>. QED BY <1>1, <1>8, <1>14, <1>15 DEF LimitsInv

LEMMA LimitsStep ==
  ASSUME RL!LimitsAssumption, LimitsInv, [RL!Next]_(RL!vars)
  PROVE  LimitsInv'
<1>1. second \in Nat
  BY DEF LimitsInv
<1>2. CASE UNCHANGED RL!vars
  <2>1. UNCHANGED <<second, past, governed, admitted, window, calls, checker>>
    BY <1>2 DEF RL!vars
  <2>. QED BY <1>1, <2>1, MiddlewareStays, GovernedStays, RedisStays DEF LimitsInv
<1>3. CASE RL!Dispatch
  <2>1. UNCHANGED <<second, governed, window, calls, checker>>
    BY <1>3 DEF RL!Dispatch
  <2>. QED BY <1>1, <1>3, <2>1, DispatchKeeps, GovernedStays, RedisStays DEF LimitsInv
<1>4. ASSUME NEW o \in DOMAIN RL!OperationShare, NEW t \in DOMAIN RL!TierShare,
             RL!GovernedDispatch(o, t)
      PROVE  LimitsInv'
  <2>1. UNCHANGED <<second, past, admitted, window, calls, checker>>
    BY <1>4 DEF RL!GovernedDispatch
  <2>2. GovernedInv'
    BY <1>4, EffectiveLimitIsANumber, GovernedDispatchKeeps
  <2>. QED BY <1>1, <2>1, <2>2, MiddlewareStays, RedisStays DEF LimitsInv
<1>5. CASE RL!Cleanup
  <2>1. /\ UNCHANGED <<second, admitted, window, calls, checker>>
        /\ past' = RL!LastHour(past) /\ governed' = RL!RecentlyGoverned
    BY <1>5 DEF RL!Cleanup
  <2>. QED BY <1>1, <2>1, MiddlewareShrinks, GovernedShrinks, RedisStays DEF LimitsInv
<1>6. ASSUME NEW c \in Checkers, RL!Count(c) \/ RL!Record(c) \/ RL!RedisFails(c)
      PROVE  LimitsInv'
  <2>1. UNCHANGED <<second, past, admitted, governed>>
    BY <1>6 DEF RL!Count, RL!Record, RL!RedisFails
  <2>2. RedisInv'
    BY <1>6, CountKeeps, RecordKeeps, FailureKeeps
  <2>. QED BY <1>1, <2>1, <2>2, MiddlewareStays, GovernedStays DEF LimitsInv
<1>7. CASE RL!KeyExpires
  <2>1. UNCHANGED <<second, past, admitted, governed>>
    BY <1>7 DEF RL!KeyExpires
  <2>. QED BY <1>1, <1>7, <2>1, ExpiryKeeps, MiddlewareStays, GovernedStays DEF LimitsInv
<1>. QED BY <1>2, <1>3, <1>4, <1>5, <1>6, <1>7, TimeKeepsLimits DEF RL!Next

LEMMA WindowsStand ==
  ASSUME RL!LimitsAssumption, LimitsInv PROVE RL!WindowsHold /\ RL!OverrunIsBounded
<1>1. RL!WindowsHold
  BY SameCardinality
     DEF LimitsInv, MiddlewareInv, GovernedInv, Earlier, RL!WindowsHold, RL!Within
<1>2. IsFiniteSet(Checkers) /\ RedisLimit \in Nat
  BY SameCardinality DEF RL!LimitsAssumption
<1>3. PICK recent : recent = RL!Since(calls, second - 60)
  OBVIOUS
<1>4. IsFiniteSet(recent)
  BY <1>3, Smaller DEF LimitsInv, RedisInv, RL!Since
<1>5. Cardinality(recent) \in Nat
  BY <1>4, FS_CardinalityType
<1>6. Cardinality(Counted) \in Nat /\ Cardinality(Checkers) \in Nat
  BY <1>2, Smaller DEF Counted
<1>7. Cardinality(recent) <= RedisLimit + Cardinality(Checkers) - 1
  BY <1>2, <1>3, <1>5, <1>6 DEF LimitsInv, RedisInv
<1>. QED BY <1>1, <1>3, <1>7, SameCardinality DEF RL!OverrunIsBounded, RL!Within

(***************************************************************************)
(* Evaluations of calls of tools                                           *)
(***************************************************************************)
\* What the rule of this place makes of what the rules before it left.
Judge(call, inLoop, n, before) ==
  IF before.verdict = "allowed" THEN TC!Check(registry[n], call, inLoop, before.window) ELSE before

Unjudged(call) == [verdict |-> "allowed", window |-> TC!WindowOf(call)]

\* A run of the rules up to a place.
RunsTo(run, m, call, inLoop) ==
  run = [n \in 0..m |-> IF n = 0 THEN Unjudged(call) ELSE Judge(call, inLoop, n, run[n - 1])]

LEMMA NumbersFollow ==
  ASSUME NEW S \in SUBSET Nat, 0 \in S, \A n \in S : n + 1 \in S
  PROVE  S = Nat
<1>. SUFFICES ASSUME NEW x \in Nat \ S PROVE FALSE
  OBVIOUS
<1>. DEFINE Less == OpToRel(<, Nat)
<1>1. PICK n \in Nat \ S : \A k \in Nat \ S : <<k, n>> \notin Less
  <2>. HIDE DEF Less
  <2>1. IsWellFoundedOn(Less, Nat)
    BY NatLessThanWellFounded DEF Less
  <2>2. QED
    BY <2>1, WFMin
<1>2. \A k \in Nat \ S : ~ (k < n)
  BY <1>1 DEF OpToRel
<1>3. n \in Nat /\ n # 0
  BY <1>1
<1>4. n - 1 \in Nat /\ n - 1 < n /\ (n - 1) + 1 = n
  BY <1>3
<1>5. n - 1 \in S
  BY <1>2, <1>4
<1>. QED BY <1>1, <1>4, <1>5

LEMMA RulesRun ==
  ASSUME NEW call, NEW inLoop, NEW m \in Nat
  PROVE  \E run : RunsTo(run, m, call, inLoop)
<1>. DEFINE Reached == {k \in Nat : \E run : RunsTo(run, k, call, inLoop)}
<1>1. 0 \in Reached
  <2>1. PICK run : run = [n \in 0..0 |-> Unjudged(call)]
    OBVIOUS
  <2>2. RunsTo(run, 0, call, inLoop)
    BY <2>1 DEF RunsTo
  <2>. QED BY <2>2
<1>2. ASSUME NEW k \in Reached PROVE k + 1 \in Reached
  <2>1. PICK run : RunsTo(run, k, call, inLoop)
    OBVIOUS
  <2>2. PICK longer : longer = [n \in 0..k + 1 |-> IF n <= k THEN run[n]
                                                   ELSE Judge(call, inLoop, k + 1, run[k])]
    OBVIOUS
  <2>3. \A n \in 0..k + 1 : longer[n] = IF n = 0 THEN Unjudged(call)
                                        ELSE Judge(call, inLoop, n, longer[n - 1])
    <3>1. ASSUME NEW n \in 0..k, n # 0 PROVE longer[n] = Judge(call, inLoop, n, longer[n - 1])
      BY <2>1, <2>2, <3>1 DEF RunsTo
    <3>2. longer[k + 1] = Judge(call, inLoop, k + 1, longer[k])
      BY <2>2
    <3>3. longer[0] = Unjudged(call)
      BY <2>1, <2>2 DEF RunsTo
    <3>. QED BY <3>1, <3>2, <3>3
  <2>4. RunsTo(longer, k + 1, call, inLoop)
    BY <2>2, <2>3, Zenon DEF RunsTo
  <2>. QED BY <2>4
<1>. HIDE DEF Reached
<1>3. Reached = Nat
  <2>1. Reached \in SUBSET Nat
    BY DEF Reached
  <2>. QED BY <1>1, <1>2, <2>1, NumbersFollow
<1>. QED BY <1>3 DEF Reached

LEMMA EvaluationRuns ==
  ASSUME NEW call, NEW inLoop, Len(registry) \in Nat
  PROVE  \E run : /\ RunsTo(run, Len(registry), call, inLoop)
                  /\ TC!Evaluate(call, inLoop) = run[Len(registry)]
<1>1. PICK run : run = CHOOSE f : f =
        [n \in 0..Len(registry) |->
           IF n = 0 THEN [verdict |-> "allowed", window |-> TC!WindowOf(call)]
           ELSE IF f[n - 1].verdict = "allowed"
           THEN TC!Check(registry[n], call, inLoop, f[n - 1].window)
           ELSE f[n - 1]]
  OBVIOUS
<1>2. \E f : f =
        [n \in 0..Len(registry) |->
           IF n = 0 THEN [verdict |-> "allowed", window |-> TC!WindowOf(call)]
           ELSE IF f[n - 1].verdict = "allowed"
           THEN TC!Check(registry[n], call, inLoop, f[n - 1].window)
           ELSE f[n - 1]]
  <2>1. PICK f : RunsTo(f, Len(registry), call, inLoop)
    BY RulesRun
  <2>. QED BY <2>1, Zenon DEF RunsTo, Judge, Unjudged
<1>3. run =
        [n \in 0..Len(registry) |->
           IF n = 0 THEN [verdict |-> "allowed", window |-> TC!WindowOf(call)]
           ELSE IF run[n - 1].verdict = "allowed"
           THEN TC!Check(registry[n], call, inLoop, run[n - 1].window)
           ELSE run[n - 1]]
  BY <1>1, <1>2, Zenon
<1>4. RunsTo(run, Len(registry), call, inLoop)
  BY <1>3, Zenon DEF RunsTo, Judge, Unjudged
<1>5. TC!Evaluate(call, inLoop) = run[Len(registry)]
  BY <1>1, Zenon DEF TC!Evaluate
<1>. QED BY <1>4, <1>5


\* Where a rule is among the first ones.
Among(rule, n) == \E i \in 1..n : registry[i] = rule

\* What a run of the rules says: the conjunction of what each says of the call.
RunIsTrue(run, n, call, inLoop) ==
  LET untouched == TC!WindowOf(call)
      limited == TC!Check("rate_limit", call, inLoop, untouched).window
      allowed == \A i \in 1..n : TC!Check(registry[i], call, inLoop, untouched).verdict = "allowed"
  IN /\ run[n].verdict = "allowed" <=> allowed
     /\ ~Among("rate_limit", n) => run[n].window = untouched
     /\ Among("rate_limit", n) /\ allowed => run[n].window = limited
     /\ run[n].window \in {untouched, limited}

RegistryIsSet ==
  /\ registry \in Seq(TC!RuleNames)
  /\ \A i, j \in DOMAIN registry : registry[i] = registry[j] => i = j

LEMMA OtherRulesLeaveTheWindow ==
  ASSUME NEW rule, rule # "rate_limit", NEW call, NEW inLoop, NEW w, NEW v
  PROVE  /\ TC!Check(rule, call, inLoop, w).window = w
         /\ TC!Check(rule, call, inLoop, w).verdict = TC!Check(rule, call, inLoop, v).verdict
<1>1. CASE rule = "cost_limit"
  BY <1>1 DEF TC!Check
<1>2. CASE rule # "cost_limit"
  <2>1. \A x : TC!Check(rule, call, inLoop, x)
                 = [verdict |-> IF TC!Allows(rule, call) THEN "allowed" ELSE "blocked", window |-> x]
    BY <1>2 DEF TC!Check
  <2>. QED BY <2>1
<1>. QED BY <1>1, <1>2

LEMMA RunsAreTrue ==
  ASSUME RegistryIsSet, NEW call, NEW inLoop, NEW run,
         RunsTo(run, Len(registry), call, inLoop)
  PROVE  RunIsTrue(run, Len(registry), call, inLoop)
<1>. DEFINE last == Len(registry)
            untouched == TC!WindowOf(call)
            limited == TC!Check("rate_limit", call, inLoop, untouched).window
            Verdict(i) == TC!Check(registry[i], call, inLoop, untouched).verdict
            True == {n \in Nat : n <= last => RunIsTrue(run, n, call, inLoop)}
<1>1. last \in Nat /\ DOMAIN registry = 1..last
  BY DEF RegistryIsSet
<1>2. run[0] = Unjudged(call) /\ \A n \in 1..last : run[n] = Judge(call, inLoop, n, run[n - 1])
  BY <1>1 DEF RunsTo
<1>3. 0 \in True
  BY <1>1, <1>2 DEF RunIsTrue, Unjudged, Among
<1>4. ASSUME NEW n \in True PROVE n + 1 \in True
  <2>. SUFFICES ASSUME n + 1 <= last PROVE RunIsTrue(run, n + 1, call, inLoop)
    OBVIOUS
  <2>1. /\ n \in Nat /\ n + 1 \in 1..last /\ RunIsTrue(run, n, call, inLoop)
        /\ run[n + 1] = Judge(call, inLoop, n + 1, run[n])
    BY <1>1, <1>2
  <2>2. 1..n + 1 = 1..n \cup {n + 1}
    BY <2>1
  <2>. HIDE DEF True
  <2>3. CASE registry[n + 1] = "rate_limit"
    <3>1. ~Among("rate_limit", n) /\ Among("rate_limit", n + 1)
      BY <1>1, <2>1, <2>3 DEF RegistryIsSet, Among
    <3>2. run[n].window = untouched
      BY <2>1, <3>1 DEF RunIsTrue
    <3>3. Verdict(n + 1) = TC!Check("rate_limit", call, inLoop, run[n].window).verdict
      BY <2>3, <3>2
    <3>4. run[n + 1] = IF run[n].verdict = "allowed"
                       THEN TC!Check("rate_limit", call, inLoop, untouched) ELSE run[n]
      BY <2>1, <2>3, <3>2 DEF Judge
    <3>. QED BY <2>1, <2>2, <2>3, <3>1, <3>2, <3>4 DEF RunIsTrue
  <2>4. CASE registry[n + 1] # "rate_limit"
    <3>1. Among("rate_limit", n + 1) <=> Among("rate_limit", n)
      BY <2>2, <2>4 DEF Among
    <3>2. TC!Check(registry[n + 1], call, inLoop, run[n].window).window = run[n].window
      BY <2>4, OtherRulesLeaveTheWindow
    <3>3. TC!Check(registry[n + 1], call, inLoop, run[n].window).verdict = Verdict(n + 1)
      BY <2>4, OtherRulesLeaveTheWindow
    <3>4. run[n + 1].window = run[n].window
      BY <2>1, <3>2 DEF Judge
    <3>5. run[n + 1].verdict = IF run[n].verdict = "allowed" THEN Verdict(n + 1) ELSE run[n].verdict
      BY <2>1, <3>3 DEF Judge
    <3>. QED BY <2>1, <2>2, <3>1, <3>4, <3>5 DEF RunIsTrue
  <2>. QED BY <2>3, <2>4
<1>. HIDE DEF True
<1>5. True = Nat
  <2>1. True \in SUBSET Nat
    BY DEF True
  <2>. QED BY <1>3, <1>4, <2>1, NumbersFollow
<1>. QED BY <1>1, <1>5 DEF True

(* What an evaluation answers and leaves in the window of its tool. *)
LEMMA EvaluationIsTrue ==
  ASSUME RegistryIsSet, NEW call, NEW inLoop
  PROVE  \E run : /\ run[Len(registry)] = TC!Evaluate(call, inLoop)
                  /\ RunIsTrue(run, Len(registry), call, inLoop)
<1>1. Len(registry) \in Nat
  BY DEF RegistryIsSet
<1>. QED BY <1>1, EvaluationRuns, RunsAreTrue

LEMMA VerdictsAreConjunctions ==
  ASSUME RegistryIsSet PROVE TC!VerdictIsTheConjunction
<1>1. ASSUME NEW call \in Calls, NEW inLoop \in BOOLEAN
      PROVE  TC!Evaluate(call, inLoop).verdict = "allowed" <=>
               \A i \in DOMAIN registry :
                 TC!Check(registry[i], call, inLoop, TC!WindowOf(call)).verdict = "allowed"
  <2>1. DOMAIN registry = 1..Len(registry)
    BY DEF RegistryIsSet
  <2>2. PICK run : /\ run[Len(registry)] = TC!Evaluate(call, inLoop)
                   /\ RunIsTrue(run, Len(registry), call, inLoop)
    BY EvaluationIsTrue
  <2>. QED BY <2>1, <2>2 DEF RunIsTrue
<1>. QED BY <1>1 DEF TC!VerdictIsTheConjunction

(***************************************************************************)
(* The limit of a tool                                                     *)
(***************************************************************************)
\* What the rule of rates let through in the last minute is in the window.
ToolInv ==
  /\ RegistryIsSet
  /\ called \in Nat
  /\ {windows, passed} \subseteq [TC!LimitedTools -> SUBSET [at : Nat, number : Nat]]
  /\ \A t \in TC!LimitedTools :
       /\ IsFiniteSet(windows[t])
       /\ TC!Window(passed[t]) \subseteq windows[t]
       /\ Cardinality(TC!Window(passed[t])) <= ToolLimit

LEMMA ToolsBegin == ASSUME TC!ComplianceAssumption, TC!Init PROVE ToolInv
<1>1. TC!Window({}) = {}
  BY DEF TC!Window
<1>2. RegistryIsSet
  BY DEF TC!Init, RegistryIsSet
<1>3. \A t \in TC!LimitedTools : windows[t] = {} /\ passed[t] = {}
  BY DEF TC!Init
<1>4. IsFiniteSet({}) /\ Cardinality({}) = 0 /\ ToolLimit \in Nat
  BY FS_EmptySet DEF TC!ComplianceAssumption
<1>5. {windows, passed} \subseteq [TC!LimitedTools -> SUBSET [at : Nat, number : Nat]]
  BY DEF TC!Init
<1>6. called \in Nat
  BY DEF TC!Init
<1>. QED BY <1>1, <1>2, <1>3, <1>4, <1>5, <1>6 DEF ToolInv

(* An evaluation of a call of a limited tool: its window is the one it found, or the
   kept part of it, or that with the call; and the call is what it let through. *)
LEMMA WindowAfterwards ==
  ASSUME ToolInv, NEW call, call.tool \in TC!LimitedTools, NEW inLoop \in BOOLEAN,
         NEW s, s = TC!Evaluate(call, inLoop)
  PROVE  LET found == windows[call.tool]
             kept == TC!Window(found)
             lets == s.verdict = "allowed" /\ TC!Contains(registry, "rate_limit")
         IN /\ s.window \in {found, kept, kept \cup {TC!Stamp(kept)}}
            /\ lets => s.window = kept \cup {TC!Stamp(kept)} /\ Cardinality(kept) < ToolLimit
<1>. DEFINE found == windows[call.tool]
            kept == TC!Window(found)
            last == Len(registry)
            limited == TC!Check("rate_limit", call, inLoop, found)
<1>1. PICK run : run[last] = s /\ RunIsTrue(run, last, call, inLoop)
  BY EvaluationIsTrue DEF ToolInv
<1>2. TC!WindowOf(call) = found
  BY DEF TC!WindowOf
<1>3. limited = IF inLoop THEN [verdict |-> "raised", window |-> found] ELSE TC!CheckWindow(found)
  BY DEF TC!Check, TC!RateLimit
<1>4. TC!CheckWindow(found) =
        IF Cardinality(kept) < ToolLimit
        THEN [verdict |-> "allowed", window |-> kept \cup {TC!Stamp(kept)}]
        ELSE [verdict |-> "blocked", window |-> kept]
  BY SameCardinality DEF TC!CheckWindow
<1>. HIDE DEF limited
<1>5. s.window \in {found, limited.window}
  BY <1>1, <1>2 DEF RunIsTrue, limited
<1>6. s.window \in {found, kept, kept \cup {TC!Stamp(kept)}}
  BY <1>3, <1>4, <1>5
<1>7. ASSUME s.verdict = "allowed", TC!Contains(registry, "rate_limit")
      PROVE  s.window = kept \cup {TC!Stamp(kept)} /\ Cardinality(kept) < ToolLimit
  <2>1. Among("rate_limit", last)
    BY <1>7 DEF TC!Contains, Among
  <2>2. limited.verdict = "allowed" /\ s.window = limited.window
    BY <1>1, <1>2, <1>7, <2>1 DEF RunIsTrue, Among, limited
  <2>. QED BY <1>3, <1>4, <2>2
<1>. QED BY <1>6, <1>7

\* One more element counts at most one more.
LEMMA CountOfOneMore ==
  ASSUME NEW S, IsFiniteSet(S), NEW x
  PROVE  Cardinality(S \cup {x}) <= Cardinality(S) + 1
<1>1. Cardinality(S) \in Nat
  BY ONLY FS_CardinalityType, IsFiniteSet(S)
<1>2. CASE x \in S
  BY ONLY <1>1, <1>2, FS_AddElement, IsFiniteSet(S)
<1>3. CASE x \notin S
  BY ONLY <1>1, <1>3, FS_AddElement, IsFiniteSet(S)
<1>. QED BY <1>2, <1>3

LEMMA RecordingKeeps ==
  ASSUME TC!ComplianceAssumption, ToolInv, NEW call \in Calls, NEW inLoop \in BOOLEAN,
         TC!Recorded(call, TC!Evaluate(call, inLoop)), UNCHANGED <<called, registry>>
  PROVE  ToolInv'
<1>. DEFINE t == call.tool
            found == windows[t]
            kept == TC!Window(found)
<1>1. CASE t \notin TC!LimitedTools
  <2>1. UNCHANGED <<windows, passed>>
    BY <1>1 DEF TC!Recorded
  <2>. QED BY <2>1 DEF ToolInv, RegistryIsSet, TC!Window
<1>2. CASE t \in TC!LimitedTools
  <2>1. PICK s : s = TC!Evaluate(call, inLoop)
    OBVIOUS
  <2>2. windows' = [windows EXCEPT ![t] = s.window] /\ passed' = TC!PassedBy(call, s)
    BY <1>2, <2>1 DEF TC!Recorded
  <2>3. /\ s.window \in {found, kept, kept \cup {TC!Stamp(kept)}}
        /\ s.verdict = "allowed" /\ TC!Contains(registry, "rate_limit")
             => s.window = kept \cup {TC!Stamp(kept)} /\ Cardinality(kept) < ToolLimit
    BY <1>2, <2>1, WindowAfterwards
  <2>4. /\ called \in Nat /\ found \subseteq [at : Nat, number : Nat] /\ IsFiniteSet(found)
        /\ passed[t] \subseteq [at : Nat, number : Nat]
        /\ TC!Window(passed[t]) \subseteq found /\ Cardinality(TC!Window(passed[t])) <= ToolLimit
    BY <1>2 DEF ToolInv
  <2>5. kept \subseteq found /\ TC!Window(passed[t]) \subseteq kept /\ IsFiniteSet(kept)
    BY <2>4, FS_Subset DEF TC!Window
  <2>6. PICK stamp : stamp = TC!Stamp(kept)
    OBVIOUS
  <2>7. {x \in kept : x.at = called} = {x \in found \cup passed[t] : x.at = called}
    BY <2>4 DEF TC!Window
  <2>8. stamp = TC!Stamp(found \cup passed[t])
    BY <2>6, <2>7 DEF TC!Stamp
  <2>9. stamp \in [at : Nat, number : Nat] /\ stamp.at = called
    <3>1. IsFiniteSet({x \in kept : x.at = called})
      BY <2>5, FS_Subset
    <3>2. Cardinality({x \in kept : x.at = called}) \in Nat
      BY <3>1, FS_CardinalityType
    <3>3. PICK c \in Nat : c = Cardinality({x \in kept : x.at = called})
      BY <3>2
    <3>4. stamp = [at |-> called, number |-> 1 + c]
      BY <2>6, <3>3, SameCardinality DEF TC!Stamp
    <3>. QED BY <2>4, <3>4
  <2>10. /\ s.window \subseteq [at : Nat, number : Nat] /\ IsFiniteSet(s.window)
         /\ kept \subseteq s.window
    <3>1. IsFiniteSet(kept \cup {stamp})
      BY <2>5, FS_AddElement
    <3>. QED BY <2>3, <2>4, <2>5, <2>6, <2>9, <3>1
  <2>11. PICK through : passed' = [passed EXCEPT ![t] = through]
                        /\ through \subseteq [at : Nat, number : Nat]
                        /\ TC!Window(through) \subseteq s.window
                        /\ Cardinality(TC!Window(through)) <= ToolLimit
    <3>1. CASE s.verdict = "allowed" /\ TC!Contains(registry, "rate_limit")
      <4>1. PICK through : through = TC!Window(passed[t]) \cup {stamp}
        OBVIOUS
      <4>2. passed' = [passed EXCEPT ![t] = through]
        BY <2>2, <2>8, <3>1, <4>1 DEF TC!PassedBy
      <4>3. through \subseteq kept \cup {stamp} /\ TC!Window(through) = through
        BY <2>4, <2>5, <2>9, <4>1 DEF TC!Window
      <4>4. Cardinality(through) <= Cardinality(kept \cup {stamp}) /\ Cardinality(kept) \in Nat
        BY <2>5, <4>3, FS_AddElement, FS_Subset, FS_CardinalityType
      <4>5. Cardinality(kept \cup {stamp}) <= Cardinality(kept) + 1
        BY <2>5, CountOfOneMore
      <4>6. ToolLimit \in Nat /\ Cardinality(kept) < ToolLimit
        BY <2>3, <3>1 DEF TC!ComplianceAssumption
      <4>7. Cardinality(through) \in Nat
        BY <2>5, <4>3, FS_AddElement, FS_Subset, FS_CardinalityType
      <4>8. Cardinality(through) <= ToolLimit /\ Cardinality(kept \cup {stamp}) \in Nat
        BY <2>5, <4>4, <4>5, <4>6, <4>7, FS_AddElement, FS_CardinalityType
      <4>9. through \subseteq [at : Nat, number : Nat] /\ through \subseteq s.window
        BY <2>3, <2>4, <2>5, <2>6, <2>9, <3>1, <4>3
      <4>. QED BY <4>2, <4>3, <4>8, <4>9
    <3>2. CASE ~(s.verdict = "allowed" /\ TC!Contains(registry, "rate_limit"))
      <4>1. passed' = passed
        BY <2>2, <3>2 DEF TC!PassedBy
      <4>. QED BY <1>2, <2>4, <2>5, <2>10, <4>1 DEF ToolInv
    <3>. QED BY <3>1, <3>2
  <2>12. \A x : TC!Window(x)' = TC!Window(x)
    BY DEF TC!Window
  <2>13. {windows', passed'} \subseteq [TC!LimitedTools -> SUBSET [at : Nat, number : Nat]]
    BY <1>2, <2>2, <2>10, <2>11 DEF ToolInv
  <2>14. ASSUME NEW u \in TC!LimitedTools
         PROVE  /\ IsFiniteSet(windows'[u])
                /\ TC!Window(passed'[u]) \subseteq windows'[u]
                /\ Cardinality(TC!Window(passed'[u])) <= ToolLimit
    <3>1. CASE u = t
      BY <1>2, <2>2, <2>10, <2>11, <3>1 DEF ToolInv
    <3>2. CASE u # t
      <4>1. windows'[u] = windows[u] /\ passed'[u] = passed[u]
        BY <1>2, <2>2, <2>11, <3>2 DEF ToolInv
      <4>. QED BY <4>1 DEF ToolInv
    <3>. QED BY <3>1, <3>2
  <2>15. \A u \in TC!LimitedTools : TC!Window(passed[u])' = TC!Window(passed'[u])
    BY DEF TC!Window
  <2>. QED BY <2>13, <2>14, <2>15 DEF ToolInv, RegistryIsSet
<1>. QED BY <1>1, <1>2


LEMMA ResettingKeeps ==
  ASSUME TC!ComplianceAssumption, ToolInv, NEW t \in TC!LimitedTools, TC!Reset(t)
  PROVE  ToolInv'
<1>1. /\ windows' = [windows EXCEPT ![t] = {}] /\ passed' = [passed EXCEPT ![t] = {}]
      /\ UNCHANGED <<called, registry>>
  BY DEF TC!Reset
<1>2. TC!Window({}) = {} /\ IsFiniteSet({}) /\ Cardinality({}) = 0 /\ ToolLimit \in Nat
  BY FS_EmptySet DEF TC!Window, TC!ComplianceAssumption
<1>3. {windows', passed'} \subseteq [TC!LimitedTools -> SUBSET [at : Nat, number : Nat]]
  BY <1>1 DEF ToolInv
<1>4. ASSUME NEW u \in TC!LimitedTools
      PROVE  /\ IsFiniteSet(windows'[u])
             /\ TC!Window(passed'[u]) \subseteq windows'[u]
             /\ Cardinality(TC!Window(passed'[u])) <= ToolLimit
  <2>1. CASE u = t
    BY <1>1, <1>2, <2>1 DEF ToolInv
  <2>2. CASE u # t
    <3>1. windows'[u] = windows[u] /\ passed'[u] = passed[u]
      BY <1>1, <2>2 DEF ToolInv
    <3>. QED BY <3>1 DEF ToolInv
  <2>. QED BY <2>1, <2>2
<1>5. \A u \in TC!LimitedTools : TC!Window(passed[u])' = TC!Window(passed'[u])
  BY <1>1 DEF TC!Window
<1>. QED BY <1>1, <1>3, <1>4, <1>5 DEF ToolInv, RegistryIsSet

LEMMA TimeKeepsTools ==
  ASSUME TC!ComplianceAssumption, ToolInv, TC!Tick
  PROVE  ToolInv'
<1>1. called' \in Nat /\ called \in Nat /\ called' > called /\ ToolLimit \in Nat
  BY DEF TC!Tick, TC!ComplianceAssumption, ToolInv
<1>2. UNCHANGED <<registry, windows, passed>>
  BY DEF TC!Tick
<1>3. ASSUME NEW u \in TC!LimitedTools
      PROVE  /\ TC!Window(passed[u])' \subseteq windows'[u]
             /\ Cardinality(TC!Window(passed[u])') <= ToolLimit
  <2>1. /\ passed[u] \subseteq [at : Nat, number : Nat] /\ IsFiniteSet(windows[u])
        /\ TC!Window(passed[u]) \subseteq windows[u]
        /\ Cardinality(TC!Window(passed[u])) <= ToolLimit
    BY DEF ToolInv
  <2>2. PICK later : later = TC!Window(passed[u])'
    OBVIOUS
  <2>3. later \subseteq TC!Window(passed[u])
    BY <1>1, <1>2, <2>1, <2>2 DEF TC!Window
  <2>4. IsFiniteSet(TC!Window(passed[u]))
    BY <2>1, FS_Subset
  <2>5. /\ Cardinality(later) <= Cardinality(TC!Window(passed[u]))
        /\ Cardinality(later) \in Nat /\ Cardinality(TC!Window(passed[u])) \in Nat
    BY <2>3, <2>4, FS_Subset, FS_CardinalityType
  <2>. QED BY <1>1, <1>2, <2>1, <2>2, <2>3, <2>5
<1>. QED BY <1>1, <1>2, <1>3 DEF ToolInv, RegistryIsSet

LEMMA RegisteringKeeps ==
  ASSUME TC!ComplianceAssumption, ToolInv,
         \/ \E rule \in Rules : TC!Register(rule)
         \/ TC!Clear
         \/ TC!CreateEngine
  PROVE  ToolInv'
<1>1. UNCHANGED <<called, windows, passed>>
  BY DEF TC!Register, TC!Clear, TC!CreateEngine
<1>2. RegistryIsSet'
  <2>1. ASSUME NEW rule \in Rules, TC!Register(rule) PROVE RegistryIsSet'
    <3>1. /\ registry' = Append(registry, rule) /\ rule \in TC!RuleNames
          /\ \A i \in 1..Len(registry) : registry[i] # rule
      BY <2>1 DEF TC!Register, TC!Contains, TC!ComplianceAssumption
    <3>2. registry \in Seq(TC!RuleNames)
          /\ \A i, j \in DOMAIN registry : registry[i] = registry[j] => i = j
      BY DEF ToolInv, RegistryIsSet
    <3>3. registry' \in Seq(TC!RuleNames) /\ DOMAIN registry' = 1..Len(registry) + 1
          /\ \A i \in 1..Len(registry) : registry'[i] = registry[i]
          /\ registry'[Len(registry) + 1] = rule
      BY <3>1, <3>2
    <3>. QED BY <3>1, <3>2, <3>3 DEF RegistryIsSet
  <2>2. ASSUME TC!Clear PROVE RegistryIsSet'
    BY <2>2 DEF TC!Clear, RegistryIsSet
  <2>3. ASSUME TC!CreateEngine PROVE RegistryIsSet'
    BY <2>3 DEF TC!CreateEngine, TC!Defaults, TC!RuleNames, RegistryIsSet
  <2>. QED BY <2>1, <2>2, <2>3
<1>3. \A u : TC!Window(passed[u])' = TC!Window(passed[u])
  BY <1>1 DEF TC!Window
<1>. QED BY <1>1, <1>2, <1>3 DEF ToolInv

LEMMA ToolStep ==
  ASSUME TC!ComplianceAssumption, ToolInv, [TC!Next]_(TC!vars)
  PROVE  ToolInv'
<1>1. CASE UNCHANGED TC!vars
  <2>1. UNCHANGED <<called, registry, windows, passed>>
    BY <1>1 DEF TC!vars
  <2>. QED BY <2>1 DEF ToolInv, RegistryIsSet, TC!Window
<1>2. ASSUME NEW call \in Calls, TC!EvaluateAlone(call) PROVE ToolInv'
  BY <1>2, RecordingKeeps DEF TC!EvaluateAlone
<1>3. ASSUME NEW call \in Calls, TC!ExecuteToolWithCompliance(call) PROVE ToolInv'
  BY <1>3, RecordingKeeps DEF TC!ExecuteToolWithCompliance
<1>. QED BY <1>1, <1>2, <1>3, RegisteringKeeps, ResettingKeeps, TimeKeepsTools DEF TC!Next

LEMMA ToolLimitStands == ASSUME ToolInv PROVE TC!ToolLimitHolds
BY SameCardinality DEF ToolInv, TC!ToolLimitHolds

(***************************************************************************)
(* Verdicts of policies                                                    *)
(***************************************************************************)
PolicyStates == PO!Statuses \cup {"absent", "deleted"}
Written == Definitions \cup {PO!Instantiate(d) : d \in Demands}
Policy == [status : PolicyStates, definition : Written, enforced : BOOLEAN]

(* What is cached names no policy that is still to come, so a policy that it names
   and that exists is one that existed then.                                    *)
Follows(result) ==
  /\ result.active \subseteq Ids
  /\ \A p \in result.active : policies[p].status # "absent"
  /\ {p \in result.active : PO!Exists(p)} = {p \in Ids : PO!Active(p)}

PolicyInv ==
  /\ policies \in [Ids -> Policy]
  /\ DOMAIN cache = PO!Keys
  /\ \A k \in PO!Keys : cache[k] = PO!NoResult \/ Follows(cache[k])

LEMMA PoliciesBegin == ASSUME PO!PoliciesAssumption, PO!Init PROVE PolicyInv
<1>1. PO!NoDefinition \in Definitions
  BY DEF PO!NoDefinition, PO!PoliciesAssumption
<1>2. PO!Absent \in Policy
  BY <1>1 DEF PO!Absent, Policy, PolicyStates, Written
<1>. QED BY <1>2 DEF PO!Init, PolicyInv

(* A step that leaves every policy its status, up to a new draft or a deletion. *)
LEMMA ResultsStillFollow ==
  ASSUME NEW result, Follows(result),
         \A p \in Ids : \/ policies'[p].status = policies[p].status
                        \/ policies[p].status = "absent" /\ policies'[p].status = "draft"
                        \/ policies[p].status # "absent" /\ policies'[p].status = "deleted"
  PROVE  Follows(result)'
<1>1. \A p \in result.active : p \in Ids /\ policies[p].status # "absent"
  BY DEF Follows
<1>2. \A p \in Ids : policies[p].status \in PO!Statuses /\ p \in result.active
                       <=> policies[p].status = "active"
  BY DEF Follows, PO!Exists, PO!Active
<1>3. \A p \in Ids : policies'[p].status \in PO!Statuses /\ p \in result.active
                       <=> policies'[p].status = "active"
  BY <1>1, <1>2 DEF PO!Statuses
<1>4. \A p \in result.active : policies'[p].status # "absent"
  BY <1>1
<1>. QED BY <1>1, <1>3, <1>4 DEF Follows, PO!Exists, PO!Active

LEMMA StatusesStay ==
  ASSUME PolicyInv, policies' \in [Ids -> Policy], UNCHANGED cache,
         \A p \in Ids : \/ policies'[p].status = policies[p].status
                        \/ policies[p].status = "absent" /\ policies'[p].status = "draft"
                        \/ policies[p].status # "absent" /\ policies'[p].status = "deleted"
  PROVE  PolicyInv'
<1>1. ASSUME NEW k \in PO!Keys PROVE cache'[k] = PO!NoResult \/ Follows(cache[k])'
  <2>1. PICK result : result = cache[k]
    OBVIOUS
  <2>2. result = PO!NoResult \/ Follows(result)
    BY <2>1 DEF PolicyInv
  <2>. QED BY <2>1, <2>2, ResultsStillFollow
<1>. QED BY <1>1 DEF PolicyInv

LEMMA EvaluationFollows ==
  ASSUME PolicyInv, NEW context
  PROVE  Follows(PO!Evaluation(context))
<1>1. PO!Evaluation(context).active = {p \in Ids : PO!Active(p)}
  BY DEF PO!Evaluation
<1>. QED BY <1>1 DEF Follows, PO!Active, PO!Exists, PO!Statuses

LEMMA UpdatesKeep ==
  ASSUME PO!PoliciesAssumption, PolicyInv, NEW p \in Ids
  PROVE  /\ \A d \in Definitions : PO!CreatePolicy(p, d) \/ PO!UpdatePolicy(p, d) => PolicyInv'
         /\ \A d \in Demands : PO!CreateFromTemplate(p, d) => PolicyInv'
         /\ PO!DeletePolicy(p) \/ PO!ActivatePolicy(p) \/ PO!DeactivatePolicy(p) => PolicyInv'
<1>1. policies \in [Ids -> Policy] /\ policies[p] \in Policy
  BY DEF PolicyInv
<1>2. ASSUME NEW d \in Written, PO!Add(p, d), UNCHANGED cache PROVE PolicyInv'
  <2>1. PICK new \in Policy : /\ policies' = [policies EXCEPT ![p] = new]
                              /\ policies[p].status = "absent" /\ new.status = "draft"
    <3>1. [status |-> "draft", definition |-> d, enforced |-> FALSE] \in Policy
      BY DEF Policy, PolicyStates, PO!Statuses
    <3>. QED BY <1>2, <3>1 DEF PO!Add
  <2>2. policies' \in [Ids -> Policy]
    BY <1>1, <2>1
  <2>3. \A q \in Ids : \/ policies'[q].status = policies[q].status
                       \/ policies[q].status = "absent" /\ policies'[q].status = "draft"
    BY <1>1, <2>1
  <2>. QED BY <1>2, <2>2, <2>3, StatusesStay
<1>3. ASSUME NEW d \in Definitions, PO!UpdatePolicy(p, d) PROVE PolicyInv'
  <2>1. PICK new \in Policy : /\ policies' = [policies EXCEPT ![p] = new]
                              /\ new.status = policies[p].status
    <3>1. d \in Written
      BY DEF Written
    <3>2. [policies[p] EXCEPT !.definition = d] \in Policy
      BY <1>1, <3>1 DEF Policy
    <3>3. [policies[p] EXCEPT !.definition = d].status = policies[p].status
      BY <1>1 DEF Policy
    <3>4. policies' = [policies EXCEPT ![p] = [policies[p] EXCEPT !.definition = d]]
      BY <1>3 DEF PO!UpdatePolicy, PO!Update
    <3>. QED BY <3>2, <3>3, <3>4
  <2>2. policies' \in [Ids -> Policy]
    BY <1>1, <2>1
  <2>3. \A q \in Ids : policies'[q].status = policies[q].status
    BY <1>1, <2>1
  <2>. QED BY <1>3, <2>2, <2>3, StatusesStay DEF PO!UpdatePolicy
<1>4. ASSUME PO!DeletePolicy(p) PROVE PolicyInv'
  <2>1. /\ policies' = [policies EXCEPT ![p] = PO!Deleted] /\ UNCHANGED cache
        /\ policies[p].status \in PO!Statuses
    BY <1>4 DEF PO!DeletePolicy, PO!Delete, PO!Exists
  <2>2. PO!NoDefinition \in Definitions
    BY DEF PO!NoDefinition, PO!PoliciesAssumption
  <2>3. PO!Deleted \in Policy /\ PO!Deleted.status = "deleted"
    BY <2>2 DEF PO!Deleted, PO!Absent, Policy, PolicyStates, Written
  <2>4. policies' \in [Ids -> Policy]
    BY <1>1, <2>1, <2>3
  <2>5. \A q \in Ids : \/ policies'[q].status = policies[q].status
                       \/ policies[q].status # "absent" /\ policies'[q].status = "deleted"
    BY <1>1, <2>1, <2>3 DEF PO!Statuses
  <2>. QED BY <2>1, <2>4, <2>5, StatusesStay
<1>5. ASSUME NEW status \in {"active", "deprecated"}, PO!SetStatus(p, status) PROVE PolicyInv'
  <2>1. policies' = [policies EXCEPT ![p] = [policies[p] EXCEPT !.status = status]]
        /\ cache' = [k \in PO!Keys |-> PO!NoResult]
    BY <1>5 DEF PO!SetStatus, PO!Update
  <2>2. [policies[p] EXCEPT !.status = status] \in Policy
    BY <1>1 DEF Policy, PolicyStates, PO!Statuses
  <2>3. policies' \in [Ids -> Policy]
    BY <1>1, <2>1, <2>2
  <2>. QED BY <2>1, <2>3 DEF PolicyInv
<1>6. \A d \in Demands : PO!Instantiate(d) \in Written
  BY DEF Written
<1>7. \A d \in Definitions : d \in Written
  BY DEF Written
<1>. QED BY <1>2, <1>3, <1>4, <1>5, <1>6, <1>7
        DEF PO!CreatePolicy, PO!CreateFromTemplate, PO!ActivatePolicy, PO!DeactivatePolicy

LEMMA JudgingKeeps ==
  ASSUME PolicyInv, NEW context \in PolicyContexts, PO!Evaluate(context)
  PROVE  PolicyInv'
<1>1. PICK matched :
        policies' = [p \in Ids |-> IF p \in matched
                                   THEN [policies[p] EXCEPT !.enforced = TRUE] ELSE policies[p]]
  BY DEF PO!Evaluate
<1>2. ASSUME NEW p \in Ids
      PROVE  policies'[p] \in Policy /\ policies'[p].status = policies[p].status
  <2>1. policies[p] \in Policy
    BY DEF PolicyInv
  <2>2. policies'[p] = IF p \in matched THEN [policies[p] EXCEPT !.enforced = TRUE] ELSE policies[p]
    BY <1>1
  <2>. QED BY <2>1, <2>2 DEF Policy
<1>3. policies' \in [Ids -> Policy]
  BY <1>1, <1>2
<1>4. PICK result : result = PO!Evaluation(context)
  OBVIOUS
<1>5. cache' = cache \/ cache' = [cache EXCEPT ![context.key] = result]
  BY <1>4 DEF PO!Evaluate
<1>6. Follows(result)
  BY <1>4, EvaluationFollows
<1>7. \A x : Follows(x) => Follows(x)'
  BY <1>2, ResultsStillFollow
<1>8. ASSUME NEW k \in PO!Keys PROVE cache'[k] = PO!NoResult \/ Follows(cache[k])'
  <2>1. PICK x : x = cache'[k]
    OBVIOUS
  <2>2. x = PO!NoResult \/ Follows(x)
    BY <1>5, <1>6, <2>1 DEF PolicyInv
  <2>. QED BY <1>7, <2>1, <2>2
<1>9. DOMAIN cache' = PO!Keys
  BY <1>5 DEF PolicyInv
<1>. QED BY <1>3, <1>8, <1>9 DEF PolicyInv

LEMMA PolicyStep ==
  ASSUME PO!PoliciesAssumption, PolicyInv, [PO!Next]_(PO!vars)
  PROVE  PolicyInv'
<1>1. CASE UNCHANGED <<policies, cache>>
  BY <1>1, StatusesStay DEF PolicyInv
<1>2. CASE UNCHANGED PO!vars
  BY <1>1, <1>2 DEF PO!vars
<1>3. CASE PO!Tick
  BY <1>1, <1>3 DEF PO!Tick
<1>. QED BY <1>2, <1>3, UpdatesKeep, JudgingKeeps DEF PO!Next

LEMMA PoliciesAnswer ==
  ASSUME PolicyInv PROVE PO!AnswersFollowActivations
<1>1. ASSUME NEW c \in PolicyContexts
      PROVE  {p \in PO!Answer(c).active : PO!Exists(p)} = {p \in Ids : PO!Active(p)}
  <2>1. CASE PO!Fresh(c.key)
    <3>1. c.key \in PO!Keys /\ cache[c.key] # PO!NoResult
      BY <2>1 DEF PO!Fresh, PO!Keys
    <3>. QED BY <2>1, <3>1 DEF PolicyInv, Follows, PO!Answer
  <2>2. CASE ~PO!Fresh(c.key)
    BY <2>2, EvaluationFollows DEF Follows, PO!Answer
  <2>. QED BY <2>1, <2>2
<1>. QED BY <1>1 DEF PO!AnswersFollowActivations
(***************************************************************************)
(* The parts side by side                                                  *)
(***************************************************************************)
LEMMA OnePartRuns ==
  ASSUME [NextAll]_allVars
  PROVE  /\ part' = part
         /\ part = "approvals" => [AW!Next]_(AW!vars)
         /\ part # "approvals" => UNCHANGED approvals
         /\ part = "store" => [ST!Next]_(ST!vars)
         /\ part # "store" => UNCHANGED requests
         /\ part = "limits" => [RL!Next]_(RL!vars)
         /\ part = "tools" => [TC!Next]_(TC!vars)
         /\ part = "policies" => [PO!Next]_(PO!vars)
<1>1. CASE UNCHANGED allVars
  BY <1>1 DEF allVars, riskVars, workflowVars, limitVars, toolVars, storeVars, policyVars,
              AW!vars, AW!tagVars, ST!vars, RL!vars, TC!vars, PO!vars
<1>2. CASE NextAll
  BY <1>2 DEF NextAll, workflowVars, storeVars
<1>. QED BY <1>1, <1>2

\* The requests of the part that runs.
RequestsInv ==
  /\ part = "approvals" => WorkflowInv
  /\ part = "store" => StoreInv

(* The decisions about requests stand (approval_workflows.py, approval.py), for
   any risk of the asset, policy, hours, delays and number of requests: what is
   executed was approved by an officer in time, or by a time-out that the policy
   allows for the tier; a decided request changes no more, and a waiting one never
   asks for less authority.                                                    *)
THEOREM ApprovalsAlwaysStand == SpecAll => ApprovalsStand
<1>1. InitAll => RequestsInv
  BY WorkflowBegins, BoundsAssumption DEF InitAll, ST!Init, ST!StoreAssumption, StoreInv, RequestsInv
<1>2. RequestsInv /\ [NextAll]_allVars => RequestsInv'
  BY BoundsAssumption, OnePartRuns, WorkflowStep, StoreStep DEF RequestsInv
<1>3. RequestsInv => (part = "approvals" => AW!ExecutedWasGrantedInTime)
  BY DEF RequestsInv, WorkflowInv, GrantedInTime, AW!ExecutedWasGrantedInTime
<1>4. RequestsInv /\ [NextAll]_allVars =>
        [\A r \in DOMAIN approvals :
           /\ approvals[r].state \in {"rejected", "expired", "executed"}
                => approvals'[r] = approvals[r]
           /\ approvals[r].state = "approved" => approvals'[r].state \in {"approved", "executed"}
           /\ approvals'[r].required >= approvals[r].required]_approvals
  BY BoundsAssumption, OnePartRuns, WorkflowStep DEF RequestsInv, DecisionStands
<1>5. RequestsInv /\ [NextAll]_allVars =>
        [\A r \in DOMAIN requests :
           requests'[r] # requests[r] =>
             /\ requests[r].status = "pending"
             /\ requests'[r].status = "approved" => stored <= requests[r].expires
             /\ requests'[r].status = "expired" => stored > requests[r].expires]_requests
  BY BoundsAssumption, OnePartRuns, StoreStep DEF RequestsInv, DecidedInTime
<1>. QED BY <1>1, <1>2, <1>3, <1>4, <1>5, PTL
        DEF SpecAll, ApprovalsStand, AW!DecisionsStand, ST!DecidedOnceInTime

\* The parts with limits and verdicts keep their invariants.
JudgesInv ==
  /\ part = "limits" => LimitsInv
  /\ part = "tools" => ToolInv
  /\ part = "policies" => PolicyInv

LEMMA JudgesAlways == SpecAll => []JudgesInv
<1>1. InitAll => JudgesInv
  BY LimitsBegin, ToolsBegin, PoliciesBegin, BoundsAssumption DEF InitAll, JudgesInv
<1>2. JudgesInv /\ [NextAll]_allVars => JudgesInv'
  BY BoundsAssumption, OnePartRuns, LimitsStep, ToolStep, PolicyStep DEF JudgesInv
<1>. QED BY <1>1, <1>2, PTL DEF SpecAll

(* No window lets more through than its limit (rate_limit.py,
   governance_rate_limit.py, the two rate_limiters), for any limits, times and
   number of requests: the histories that the middlewares cut forget nothing that
   still counts, each limit of a request is held at the time of the request, the
   rule of rates keeps the limit of its tool whatever other rules block, and any
   number of processes overrun the limit in Redis by one call each but one.     *)
THEOREM LimitsAlwaysHold == SpecAll => []LimitsHold
<1>1. JudgesInv => LimitsHold
  BY BoundsAssumption, WindowsStand, ToolLimitStands DEF JudgesInv, LimitsHold
<1>. QED BY <1>1, JudgesAlways, PTL

(* A verdict is the one of all the rules that are registered (engine.py,
   registry.py), and an answer from the cache follows every activation and
   deactivation of a policy (policy_engine.py, policy_evaluator.py), for any rules,
   calls, policies, conditions, contexts and times.                             *)
THEOREM VerdictsAlwaysStand == SpecAll => []VerdictsStand
<1>1. JudgesInv => VerdictsStand
  BY VerdictsAreConjunctions, PoliciesAnswer DEF JudgesInv, ToolInv, VerdictsStand
<1>. QED BY <1>1, JudgesAlways, PTL
=============================================================================
