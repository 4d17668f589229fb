----------------------------- MODULE ApiGateway -----------------------------
(* The keys of external callers with their limits, and the event streams that
   web sockets subscribe to (integrations/governance/api_gateway.py), with
   their endpoints (api/routes/integrations.py). Both are singletons of one
   process, and only a connection has a life of its own. Time is in seconds. *)
EXTENDS Integers, Sequences, FiniteSets

CONSTANTS Keys,          \* API keys, by the identifiers they are given
          Limits,        \* requests per minute that keys are created with
          Lifetimes,     \* seconds until a key expires; 0: never
          Connections,   \* web sockets, each with a subscription to the stream
          Moments,       \* seconds at which something happens
          MaxRequests,   \* bound on the requests let through
          BufferSize, MaxEvents

\* What the values of the constants satisfy.
GatewayAssumption ==
  /\ Limits \cup Lifetimes \cup Moments \subseteq Nat /\ 0 \in Moments
  /\ BufferSize \in Nat \ {0} /\ {MaxRequests, MaxEvents} \subseteq Nat

Minute == 60
Stale == 5 * Minute

VARIABLES
  now,
  keys,        \* created, active, limit and expiry (0: never) of each key
  buckets,     \* the requests counted for each key, with their times
  passed,      \* history: the times at which each key was let through
  sockets,     \* each connection: "new", "open" or "closed"
  subscribed,  \* the subscriptions of connections that the streaming keeps
  activity,    \* time of the last activity of each
  spoken,      \* history: when each connection subscribed or last pinged
  spoiled,     \* history: subscriptions once silent for too long or given up
  buffer,      \* numbers of the events kept for late subscribers
  published    \* number of events so far

keyVars == <<keys, buckets, passed>>
streamVars == <<sockets, subscribed, activity, spoken, spoiled, buffer, published>>
vars == <<now, keyVars, streamVars>>

NoKey == [created |-> FALSE, active |-> FALSE, limit |-> 0, expires |-> 0]

Init ==
  /\ now = 0
  /\ keys = [k \in Keys |-> NoKey]
  /\ buckets = [k \in Keys |-> {}] /\ passed = [k \in Keys |-> <<>>]
  /\ sockets = [c \in Connections |-> "new"]
  /\ subscribed = {} /\ spoiled = {}
  /\ activity = [c \in Connections |-> 0] /\ spoken = [c \in Connections |-> 0]
  /\ buffer = <<>> /\ published = 0

(***************************************************************************)
(* Keys                                                                    *)
(***************************************************************************)
CreateApiKey(k, limit, lifetime) ==
  /\ ~keys[k].created
  /\ keys' = [keys EXCEPT ![k] = [created |-> TRUE, active |-> TRUE, limit |-> limit,
                                  expires |-> IF lifetime = 0 THEN 0 ELSE now + lifetime]]
  /\ UNCHANGED <<now, buckets, passed, streamVars>>

RevokeApiKey(k) ==
  /\ keys[k].active
  /\ keys' = [keys EXCEPT ![k].active = FALSE]
  /\ UNCHANGED <<now, buckets, passed, streamVars>>

Expired(k) == keys[k].expires # 0 /\ now > keys[k].expires

(* Validating an expired key takes it out of use. *)
ValidateApiKey(k) ==
  /\ keys[k].active /\ Expired(k)
  /\ keys' = [keys EXCEPT ![k].active = FALSE]
  /\ UNCHANGED <<now, buckets, passed, streamVars>>

Validates(k) == keys[k].active /\ ~Expired(k)

\* Mutant: a minute is counted from the first request on.
SinceFirst(bucket) ==
  IF \E r \in bucket : r.at <= now - Minute THEN {} ELSE bucket

LastMinute(bucket) == {r \in bucket : r.at > now - Minute}

(* Whether the key is valid is not asked. *)
CheckRateLimit(k) ==
  /\ keys[k].created /\ Len(passed[k]) < MaxRequests
  /\ LET recent == LastMinute(buckets[k])
         within == Cardinality(recent) < keys[k].limit
         request == [number |-> Len(passed[k]) + 1, at |-> now]
     IN /\ buckets' = [buckets EXCEPT ![k] = IF within THEN recent \cup {request} ELSE recent]
        /\ passed' = IF within THEN [passed EXCEPT ![k] = Append(@, now)] ELSE passed
  /\ UNCHANGED <<now, keys, streamVars>>

(***************************************************************************)
(* Streams                                                                 *)
(***************************************************************************)
(* What a subscription is sent are the recent events; none follows them. *)
RecentEvents(limit) ==
  SubSeq(buffer, IF Len(buffer) > limit THEN Len(buffer) - limit + 1 ELSE 1, Len(buffer))

SubscribeStream(c) ==
  /\ sockets[c] = "new"
  /\ sockets' = [sockets EXCEPT ![c] = "open"]
  /\ subscribed' = subscribed \cup {c}
  /\ activity' = [activity EXCEPT ![c] = now] /\ spoken' = [spoken EXCEPT ![c] = now]
  /\ UNCHANGED <<now, keyVars, spoiled, buffer, published>>

(* Any connection may name any subscription. *)
UnsubscribeStream(c, other) ==
  /\ sockets[c] = "open" /\ sockets[other] = "open"
  /\ subscribed' = subscribed \ {other}
  /\ spoiled' = spoiled \cup {other}
  /\ UNCHANGED <<now, keyVars, sockets, activity, spoken, buffer, published>>

\* Mutant: a ping is answered, and no activity is noted.
PingOnly(c) ==
  /\ sockets[c] = "open"
  /\ spoken' = [spoken EXCEPT ![c] = now]
  /\ UNCHANGED <<now, keyVars, sockets, subscribed, activity, spoiled, buffer, published>>

Ping(c) ==
  /\ sockets[c] = "open"
  /\ activity' = IF c \in subscribed THEN [activity EXCEPT ![c] = now] ELSE activity
  /\ spoken' = [spoken EXCEPT ![c] = now]
  /\ UNCHANGED <<now, keyVars, sockets, subscribed, spoiled, buffer, published>>

(* A disconnection gives up what the connection subscribed to; any other error,
   such as an unknown stream, ends the connection and gives up nothing.       *)
Disconnect(c) ==
  /\ sockets[c] = "open"
  /\ sockets' = [sockets EXCEPT ![c] = "closed"]
  /\ subscribed' = subscribed \ {c}
  /\ UNCHANGED <<now, keyVars, activity, spoken, spoiled, buffer, published>>

ConnectionFails(c) ==
  /\ sockets[c] = "open"
  /\ sockets' = [sockets EXCEPT ![c] = "closed"]
  /\ UNCHANGED <<now, keyVars, subscribed, activity, spoken, spoiled, buffer, published>>

(* Listing the active subscriptions deletes the stale ones. *)
ListActive ==
  /\ \E c \in subscribed : activity[c] <= now - Stale
  /\ subscribed' = {c \in subscribed : activity[c] > now - Stale}
  /\ UNCHANGED <<now, keyVars, sockets, activity, spoken, spoiled, buffer, published>>

Publish ==
  /\ published < MaxEvents
  /\ published' = published + 1
  /\ LET all == Append(buffer, published + 1)
     IN buffer' = IF Len(all) > BufferSize
                  THEN SubSeq(all, Len(all) - BufferSize + 1, Len(all)) ELSE all
  /\ UNCHANGED <<now, keyVars, sockets, subscribed, activity, spoken, spoiled>>

Tick ==
  /\ \E t \in Moments :
       /\ t > now /\ now' = t
       /\ spoiled' = spoiled \cup {c \in Connections :
                                     sockets[c] = "open" /\ spoken[c] <= t - Stale}
  /\ UNCHANGED <<keyVars, sockets, subscribed, activity, spoken, buffer, published>>

Next ==
  \/ \E k \in Keys :
       \/ \E limit \in Limits, lifetime \in Lifetimes : CreateApiKey(k, limit, lifetime)
       \/ RevokeApiKey(k) \/ ValidateApiKey(k) \/ CheckRateLimit(k)
  \/ \E c \in Connections :
       \/ SubscribeStream(c) \/ Ping(c) \/ Disconnect(c) \/ ConnectionFails(c)
       \/ \E other \in Connections : UnsubscribeStream(c, other)
  \/ ListActive \/ Publish \/ Tick

Spec == Init /\ [][Next]_vars

(***************************************************************************)
(* Properties                                                              *)
(***************************************************************************)
TypeOK ==
  /\ now \in Moments
  /\ \A k \in Keys : /\ keys[k].limit \in Limits \cup {0} /\ keys[k].active \in BOOLEAN
                     /\ Cardinality(buckets[k]) <= MaxRequests /\ Len(passed[k]) <= MaxRequests
  /\ sockets \in [Connections -> {"new", "open", "closed"}]
  /\ subscribed \subseteq Connections /\ spoiled \subseteq Connections
  /\ activity \in [Connections -> Moments]
  /\ Len(buffer) <= BufferSize /\ published \in 0..MaxEvents

(* Wherever a minute begins, no more requests of a key are let through in it
   than the key allows.                                                      *)
KeyLimitHolds ==
  \A k \in Keys : \A start \in DOMAIN passed[k] :
    Cardinality({i \in start..Len(passed[k]) : passed[k][i] < passed[k][start] + Minute})
      <= keys[k].limit

(* A connection that is never silent for five minutes keeps its subscription,
   however often the stale ones are cleared away, and the events it would be
   sent on subscribing now are the last ones published, none missing.        *)
PingsKeepAlive ==
  /\ \A c \in Connections : sockets[c] = "open" /\ c \notin spoiled => c \in subscribed
  /\ RecentEvents(1) = IF published = 0 THEN <<>> ELSE <<published>>
=============================================================================
