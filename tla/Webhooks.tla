------------------------------ MODULE Webhooks ------------------------------
(* The webhooks of integrations/governance/webhook_manager.py and their
   endpoints (api/routes/integrations.py): subscriptions, the tasks that
   deliver, the retries of a delivery by its own task and the retry of
   everything that failed.

   A task is between two of its awaits: "ready" before it has run, "posting"
   during the request, "sleeping" before a retry. A retry is the same task once
   more, inside the one that failed. Whoever receives may have accepted a
   request whose answer never arrived. A crash loses everything.            *)
EXTENDS Integers, Sequences, FiniteSets, Functions

CONSTANTS Subscribers,     \* subscriptions, by the identifiers they are given
          EventTypes, MaxDeliveries

\* What the values of the constants satisfy.
WebhooksAssumption == IsFiniteSet(Subscribers) /\ MaxDeliveries \in Nat \ {0}

MaxRetries == 3
Unknown == "unknown"  \* not yet subscribed, or not any more

VARIABLES
  subscriptions,  \* the events of each, or that it is unknown
  used,           \* identifiers that were given
  deliveries,     \* in the order of creation; "sent" and "accepted" count what
                  \* really happened
  tasks           \* the tasks of each delivery

vars == <<subscriptions, used, deliveries, tasks>>

Init ==
  /\ subscriptions = [s \in Subscribers |-> {}]
  /\ used = {}
  /\ deliveries = <<>> /\ tasks = <<>>

Subscribed == {s \in Subscribers : subscriptions[s] # {}}

(* A subscription to no event at all is never delivered to and left out. *)
Subscribe(s, events) ==
  /\ s \notin used /\ events # {}
  /\ subscriptions' = [subscriptions EXCEPT ![s] = events]
  /\ used' = used \cup {s}
  /\ UNCHANGED <<deliveries, tasks>>

Unsubscribe(s) ==
  /\ s \in Subscribed
  /\ subscriptions' = [subscriptions EXCEPT ![s] = {}]
  /\ UNCHANGED <<used, deliveries, tasks>>

Delivery(s) == [to |-> s, status |-> "pending", attempts |-> 0, sent |-> 0, accepted |-> 0]

(* One delivery and one task for every subscription that matches. *)
SendWebhook(type) ==
  LET matching == {s \in Subscribed : type \in subscriptions[s]}
      places == 1 .. Cardinality(matching)
  IN /\ matching # {} /\ Len(deliveries) + Cardinality(matching) <= MaxDeliveries
     /\ \E order \in Bijection(places, matching) :
          deliveries' = deliveries \o [i \in places |-> Delivery(order[i])]
     /\ tasks' = tasks \o [i \in places |-> <<"ready">>]
     /\ UNCHANGED <<subscriptions, used>>

Becomes(d, k, pc) == tasks' = [tasks EXCEPT ![d][k] = pc]
Ends(d, k) == tasks' = [tasks EXCEPT ![d] = SubSeq(@, 1, k - 1) \o SubSeq(@, k + 1, Len(@))]

(* _deliver_webhook up to its request. *)
Deliver(d, k) ==
  /\ tasks[d][k] \in {"ready", "sleeping"}
  /\ IF deliveries[d].to \in Subscribed
     THEN /\ deliveries' = [deliveries EXCEPT ![d].attempts = @ + 1, ![d].sent = @ + 1]
          /\ Becomes(d, k, "posting")
     ELSE /\ deliveries' = [deliveries EXCEPT ![d].status = "failed"]
          /\ Ends(d, k)
  /\ UNCHANGED <<subscriptions, used>>

Succeeds(d, k) ==
  /\ tasks[d][k] = "posting"
  /\ deliveries' = [deliveries EXCEPT ![d].status = "success", ![d].accepted = @ + 1]
  /\ Ends(d, k)
  /\ UNCHANGED <<subscriptions, used>>

(* _handle_delivery_failure; accepted says whether only the answer was lost. *)
Fails(d, k, accepted) ==
  /\ tasks[d][k] = "posting"
  /\ LET over == deliveries[d].attempts >= MaxRetries
     IN /\ deliveries' = [deliveries EXCEPT
             ![d].status = IF over THEN "failed" ELSE "retrying",
             ![d].accepted = IF accepted THEN @ + 1 ELSE @]
        /\ IF over THEN Ends(d, k) ELSE Becomes(d, k, "sleeping")
  /\ UNCHANGED <<subscriptions, used>>

\* Mutant: what is being retried is retried as well.
RetryUnfinished ==
  /\ \E d \in DOMAIN deliveries :
       deliveries[d].status \in {"failed", "retrying"} /\ deliveries[d].attempts < MaxRetries
  /\ LET again == {d \in DOMAIN deliveries :
           deliveries[d].status \in {"failed", "retrying"} /\ deliveries[d].attempts < MaxRetries}
     IN /\ deliveries' = [d \in DOMAIN deliveries |->
             IF d \in again THEN [deliveries[d] EXCEPT !.status = "retrying"] ELSE deliveries[d]]
        /\ tasks' = [d \in DOMAIN tasks |-> IF d \in again /\ Len(tasks[d]) < 2
                                            THEN Append(tasks[d], "ready") ELSE tasks[d]]
  /\ UNCHANGED <<subscriptions, used>>

(* Only what failed for want of a subscription has attempts left. *)
RetryFailed ==
  /\ \E d \in DOMAIN deliveries :
       deliveries[d].status = "failed" /\ deliveries[d].attempts < MaxRetries
  /\ LET again == {d \in DOMAIN deliveries :
           deliveries[d].status = "failed" /\ deliveries[d].attempts < MaxRetries}
     IN /\ deliveries' = [d \in DOMAIN deliveries |->
             IF d \in again THEN [deliveries[d] EXCEPT !.status = "retrying"] ELSE deliveries[d]]
        /\ tasks' = [d \in DOMAIN tasks |->
             IF d \in again THEN Append(tasks[d], "ready") ELSE tasks[d]]
  /\ UNCHANGED <<subscriptions, used>>

(* What a test of any subscription answers once its two seconds are over: how
   the first delivery of the test event stands, whoever it went to.          *)
TestAnswer(first) == deliveries[first].status = "success"

DeliveriesOf(s, status) ==
  {d \in DOMAIN deliveries : deliveries[d].to = s /\ status \in {"any", deliveries[d].status}}

Next ==
  \/ \E s \in Subscribers, events \in SUBSET EventTypes : Subscribe(s, events)
  \/ \E s \in Subscribers : Unsubscribe(s)
  \/ \E type \in EventTypes : SendWebhook(type)
  \/ \E d \in DOMAIN deliveries : \E k \in DOMAIN tasks[d] :
       \/ Deliver(d, k)
       \/ Succeeds(d, k)
       \/ \E accepted \in BOOLEAN : Fails(d, k, accepted)
  \/ RetryFailed

Spec == Init /\ [][Next]_vars

(***************************************************************************)
(* Properties                                                              *)
(***************************************************************************)
TypeOK ==
  /\ subscriptions \in [Subscribers -> SUBSET EventTypes] /\ Subscribed \subseteq used
  /\ DOMAIN tasks = DOMAIN deliveries
  /\ \A d \in DOMAIN deliveries :
       /\ deliveries[d].status \in {"pending", "success", "failed", "retrying"}
       /\ deliveries[d].attempts \in 0..MaxRetries
       /\ \A k \in DOMAIN tasks[d] : tasks[d][k] \in {"ready", "posting", "sleeping"}

(* However unsubscriptions, lost answers, retries and retries of everything
   that failed interleave: a delivery never has two tasks, is sent at most
   three times, and is called a success only if it was accepted; one that is
   settled has no task left, and one that is not has one.                    *)
DeliveriesHaveOneTask ==
  \A d \in DOMAIN deliveries :
    /\ Len(tasks[d]) = IF deliveries[d].status \in {"success", "failed"} THEN 0 ELSE 1
    /\ deliveries[d].sent <= MaxRetries
    /\ deliveries[d].status = "success" => deliveries[d].accepted > 0
=============================================================================
