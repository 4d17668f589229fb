----------------------------- MODULE RateLimits -----------------------------
(* The sliding windows that limit one client: the middleware of a process
   (middleware/rate_limit.py), the governance middleware behind it
   (middleware/governance_rate_limit.py), and the limiter in Redis that all
   processes share (agents/compliance/rate_limiter.py).

   A middleware checks and records under an asyncio lock in which nothing is
   awaited, so for one process the two are one step. The Redis limiter counts
   in one transaction and records in a second one; checks of other processes
   come between. Time is in seconds and passes between steps. A list of times
   is a set of stamps: a time, and a number among those of the same time.    *)
EXTENDS Integers, FiniteSets

CONSTANTS Checkers,     \* processes that ask the limiter in Redis
          PerMinute,    \* RATE_LIMIT_PER_MINUTE
          PerHour,      \* RATE_LIMIT_PER_HOUR
          BaseLimit,    \* requests a minute of the authority of the client
          Floor,        \* the least limit of the governance middleware
          RedisLimit,   \* limit of the tool
          Moments,      \* seconds at which something happens
          MaxRequests,  \* bound on the requests of a behaviour
          MaxFaults     \* bound on the failures of Redis

\* What the values of the constants satisfy.
LimitsAssumption ==
  /\ {PerMinute, PerHour, BaseLimit, Floor, RedisLimit} \subseteq Nat \ {0}
  /\ Moments \subseteq Nat /\ 0 \in Moments /\ {MaxRequests, MaxFaults} \subseteq Nat
  /\ IsFiniteSet(Checkers)

VARIABLES
  now,       \* the time
  history,   \* request_history of the middleware
  governed,  \* request_history of the governance middleware, with the
             \* history field "limit": the limit the request was held to
  admitted,  \* history: when the middleware let a request through
  window,    \* the sorted set in Redis: when the recorded calls were
  calls,     \* history: when the limiter in Redis recorded a call
  checker,   \* where each process is: "idle", "counted", "refused", "allowed"
  asked,     \* requests so far
  faults     \* failures of Redis so far

vars == <<now, history, governed, admitted, window, calls, checker, asked, faults>>

Init ==
  /\ now = 0 /\ history = {} /\ governed = {} /\ admitted = {}
  /\ window = {} /\ calls = {}
  /\ checker = [c \in Checkers |-> "idle"]
  /\ asked = 0 /\ faults = 0

Since(times, t) == {x \in times : x.at > t}
Within(times, seconds) == Cardinality(Since(times, now - seconds))
NextNumber(times) == 1 + Cardinality({x \in times : x.at = now})
Stamp(times) == [at |-> now, number |-> NextNumber(times)]

AskedOnce == asked < MaxRequests /\ asked' = asked + 1

Min2(a, b) == IF a < b THEN a ELSE b

(* Percentages of the operation and of the tier of the asset. *)
OperationShare == [read |-> 100, write |-> 70, delete |-> 50]
TierShare == [none |-> 100, minimal |-> 100, limited |-> 80, high |-> 50, unacceptable |-> 30]

EffectiveLimit(operation, tier) ==
  LET limit == (BaseLimit * OperationShare[operation] * TierShare[tier]) \div 10000
  IN IF limit < Floor THEN Floor ELSE limit

\* Mutant: the history is cut to the last minute.
CutToAMinute(times) == Since(times, now - 60)

(* history[:] = the last hour, whatever is decided. *)
LastHour(times) == Since(times, now - 3600)

CheckRateLimit(times) ==
  /\ Within(times, 60) < PerMinute
  /\ Cardinality(times) < PerHour

(* A request of the middleware: counted and, if it passes, recorded. *)
Dispatch ==
  /\ AskedOnce
  /\ LET kept == LastHour(history)
     IN IF CheckRateLimit(kept)
        THEN history' = kept \cup {Stamp(admitted)} /\ admitted' = admitted \cup {Stamp(admitted)}
        ELSE history' = kept /\ UNCHANGED admitted
  /\ UNCHANGED <<now, governed, window, calls, checker, faults>>

RecentlyGoverned == Since(governed, now - 60)

(* The history is one for all operations; the limit depends on this one. *)
GovernedDispatch(operation, tier) ==
  /\ AskedOnce
  /\ LET limit == EffectiveLimit(operation, tier)
     IN governed' = IF Cardinality(RecentlyGoverned) < limit
                    THEN RecentlyGoverned \cup
                           {[at |-> now, number |-> NextNumber(governed), limit |-> limit]}
                    ELSE RecentlyGoverned
  /\ UNCHANGED <<now, history, admitted, window, calls, checker, faults>>

(* The background task drops what is older than an hour or a minute. *)
Cleanup ==
  /\ history' = LastHour(history)
  /\ governed' = RecentlyGoverned
  /\ <<history', governed'>> # <<history, governed>>
  /\ UNCHANGED <<now, admitted, window, calls, checker, asked, faults>>

(* The first transaction: forget, count and decide. *)
Count(c) ==
  /\ checker[c] \in {"idle", "refused", "allowed"}
  /\ AskedOnce
  /\ window' = Since(window, now - 60)
  /\ checker' = [checker EXCEPT ![c] =
       IF Cardinality(Since(window, now - 60)) >= RedisLimit THEN "refused" ELSE "counted"]
  /\ UNCHANGED <<now, history, governed, admitted, calls, faults>>

Record(c) ==
  /\ checker[c] = "counted"
  /\ window' = window \cup {Stamp(calls)}
  /\ calls' = calls \cup {Stamp(calls)}
  /\ checker' = [checker EXCEPT ![c] = "allowed"]
  /\ UNCHANGED <<now, history, governed, admitted, asked, faults>>

(* Either transaction fails: the call is allowed and counts nowhere. *)
RedisFails(c) ==
  /\ faults < MaxFaults /\ faults' = faults + 1
  /\ \/ checker[c] = "counted" /\ UNCHANGED asked
     \/ checker[c] = "idle" /\ AskedOnce
  /\ checker' = [checker EXCEPT ![c] = "allowed"]
  /\ UNCHANGED <<now, history, governed, admitted, window, calls>>

(* The key outlives its newest member by a second at least. *)
KeyExpires ==
  /\ window # {} /\ \A x \in window : x.at < now - 60
  /\ window' = {}
  /\ UNCHANGED <<now, history, governed, admitted, calls, checker, asked, faults>>

(* A process is between its two transactions for less than a second. *)
Tick ==
  /\ \A c \in Checkers : checker[c] # "counted"
  /\ \E t \in Moments : t > now /\ now' = t
  /\ UNCHANGED <<history, governed, admitted, window, calls, checker, asked, faults>>

Next ==
  \/ Dispatch
  \/ \E o \in DOMAIN OperationShare, t \in DOMAIN TierShare : GovernedDispatch(o, t)
  \/ Cleanup
  \/ \E c \in Checkers : Count(c) \/ Record(c) \/ RedisFails(c)
  \/ KeyExpires
  \/ Tick

Spec == Init /\ [][Next]_vars

(***************************************************************************)
(* Properties                                                              *)
(***************************************************************************)
TypeOK ==
  /\ now \in Moments
  /\ history \cup admitted \cup window \cup calls \subseteq [at : Moments, number : Nat]
  /\ governed \subseteq [at : Moments, number : Nat, limit : Nat]
  /\ checker \in [Checkers -> {"idle", "counted", "refused", "allowed"}]
  /\ asked \in 0..MaxRequests /\ faults \in 0..MaxFaults

(* Whatever was cut from the histories meanwhile, no minute and no hour sees
   more requests through the middleware of a process than its limits, and no
   request passes the governance middleware that finds as many before it as
   its own limit. *)
WindowsHold ==
  /\ Within(admitted, 60) <= PerMinute
  /\ Within(admitted, 3600) <= PerHour
  /\ \A g \in governed :
       Cardinality({h \in Since(governed, g.at - 60) :
                      h.at < g.at \/ (h.at = g.at /\ h.number <= g.number)}) <= g.limit

(* Processes that count at once all pass: a minute records at most one call
   more than the limit for each of the other processes. *)
OverrunIsBounded == Within(calls, 60) <= RedisLimit + Cardinality(Checkers) - 1
=============================================================================
