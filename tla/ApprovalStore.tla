--------------------------- MODULE ApprovalStore ---------------------------
(* Requests of agents for a human's approval of one call of a tool: the store
   (agents/compliance/approval.py) and its endpoints (api/routes/approval.py).

   The store is a dictionary of one process and no handler suspends, so each
   endpoint is one step. Nothing watches the deadlines: a pending request turns
   expired when somebody reads it, lists the requests, cleans up or tries to
   approve it after its deadline, and not otherwise. Time is in seconds.    *)
EXTENDS Integers, Sequences

CONSTANTS Moments,     \* seconds at which something happens
          Delays,      \* expires_in_seconds that requests carry, 0 for none
          MaxRequests  \* bound on the requests of a behaviour

\* What the values of the constants satisfy.
StoreAssumption == Moments \subseteq Nat /\ 0 \in Moments /\ Delays \subseteq Int

VARIABLES
  now,      \* the time
  requests  \* oldest first; "decided" is the time of approved_at, -1 before

vars == <<now, requests>>

Statuses == {"pending", "approved", "rejected", "expired", "cancelled"}
Never == 10^6

Init == now = 0 /\ requests = <<>>

IsPending(r) == requests[r].status = "pending"
IsExpired(r) == requests[r].status = "expired" \/ now > requests[r].expires

(* A delay that is zero or missing gives no deadline, and one below zero gives
   one that is over. *)
Create(delay) ==
  /\ Len(requests) < MaxRequests
  /\ requests' = Append(requests,
       [status |-> "pending", decided |-> -1,
        expires |-> IF delay = 0 THEN Never ELSE now + delay])
  /\ UNCHANGED now

Approved(r) == [requests EXCEPT ![r].status = "approved", ![r].decided = now]
Expired(r) == [requests EXCEPT ![r].status = "expired"]

\* Mutant: the deadline is looked at first, and the status no more.
ApproveUnlessLate(r) ==
  /\ requests' = IF IsExpired(r) THEN Expired(r) ELSE Approved(r)
  /\ UNCHANGED now

(* Any other status is answered with 400; a late approval expires the request
   and is answered with 400, too. *)
Approve(r) ==
  /\ IsPending(r)
  /\ requests' = IF IsExpired(r) THEN Expired(r) ELSE Approved(r)
  /\ UNCHANGED now

(* A rejection and a cancellation do not look at the deadline. *)
Reject(r) ==
  /\ IsPending(r)
  /\ requests' = [requests EXCEPT ![r].status = "rejected", ![r].decided = now]
  /\ UNCHANGED now

Cancel(r) ==
  /\ IsPending(r)
  /\ requests' = [requests EXCEPT ![r].status = "cancelled"]
  /\ UNCHANGED now

Get(r) ==
  /\ IsPending(r) /\ IsExpired(r)
  /\ requests' = Expired(r)
  /\ UNCHANGED now

(* The listing and the clean-up. *)
CleanupExpired ==
  /\ requests' = [r \in DOMAIN requests |->
       IF IsPending(r) /\ now > requests[r].expires
       THEN [requests[r] EXCEPT !.status = "expired"] ELSE requests[r]]
  /\ requests' # requests
  /\ UNCHANGED now

Tick ==
  /\ \E t \in Moments : t > now /\ now' = t
  /\ UNCHANGED requests

Next ==
  \/ \E delay \in Delays : Create(delay)
  \/ \E r \in DOMAIN requests : Approve(r) \/ Reject(r) \/ Cancel(r) \/ Get(r)
  \/ CleanupExpired
  \/ Tick

Spec == Init /\ [][Next]_vars

(***************************************************************************)
(* Properties                                                              *)
(***************************************************************************)
TypeOK ==
  /\ now \in Moments
  /\ requests \in Seq([status : Statuses, decided : Moments \cup {-1}, expires : Int])

(* A request is decided once: whatever comes late, twice or out of order, it
   leaves "pending" once, an approval lies within the deadline, and an expiry
   beyond it. *)
DecidedOnceInTime ==
  [][\A r \in DOMAIN requests :
       requests'[r] # requests[r] =>
         /\ requests[r].status = "pending"
         /\ requests'[r].status = "approved" => now <= requests[r].expires
         /\ requests'[r].status = "expired" => now > requests[r].expires]_requests
=============================================================================
