------------------------------- MODULE Caches -------------------------------
(***************************************************************************)
(* The two caches.  OmnipathCacheManager keeps agents, missions and        *)
(* governance data in Redis, or in the memory of the process: without a    *)
(* Redis address, when Redis was not there at the start, and for every     *)
(* call that Redis fails.  What is written during an outage stays in       *)
(* memory and is read again in the next outage; what is deleted during an  *)
(* outage stays in Redis.                                                  *)
(*                                                                         *)
(* Callers fill the cache with what they read before: a caller misses,     *)
(* reads the source and stores the value, and others write the source and  *)
(* invalidate in between.                                                  *)
(*                                                                         *)
(* CacheManager of the database keeps an asset and what is derived from    *)
(* it, in Redis only: a failing read or write raises in its caller, and    *)
(* the invalidation of an asset deletes one kind after another, stops at   *)
(* the first failure and logs it.                                          *)
(***************************************************************************)
EXTENDS Integers, Sequences, FiniteSets, Functions

CONSTANTS
  Keys,       \* keys that are cached
  Members,    \* Members[k]: keys whose data change with k's, in the order in
              \* which the invalidation of k deletes them after k
  Callers,    \* callers that fill the cache at the same time
  TTLs,       \* lifetimes that are asked for; 0 means for ever
  MaxSize,    \* entries the memory of a process keeps
  Backends,   \* where a cache may be: "memory", "redis", "unavailable": no Redis
              \* at the start, or "governance": the cache of the database
  Moments,    \* times of the behaviour
  MaxWrites   \* bound on the writes of the source

\* What the values of the constants satisfy.
CacheAssumption ==
  /\ MaxSize \in Nat \ {0} /\ TTLs \subseteq Nat /\ Moments \subseteq Nat /\ MaxWrites \in Nat
  /\ Backends \subseteq {"memory", "redis", "unavailable", "governance"}
  /\ Members \in [Keys -> Seq(Keys)]

VARIABLES
  now,       \* the clock
  source,    \* source[k]: version of the data that is cached under k
  backend,   \* where the cache is, once and for all
  store,     \* the memory of the process: entries with their place in the order
             \* of use, the least recently used at place 1
  redis,     \* entries of Redis
  filling,   \* what a caller read from the source and has not stored yet
  read,      \* what the last step read from the cache
  failed,    \* keys for which a call on Redis has failed
  raced      \* keys whose source was written while a caller was filling

cacheVars == <<now, source, backend, store, redis, filling, read, failed, raced>>

Nothing == [absent |-> TRUE]

CacheInit ==
  /\ now = 0
  /\ source = [k \in Keys |-> 0]
  /\ backend \in Backends
  /\ store = {}
  /\ redis = {}
  /\ filling = [c \in Callers |-> Nothing]
  /\ read = Nothing
  /\ failed = {}
  /\ raced = {}

-----------------------------------------------------------------------------
(***************************************************************************)
(* An entry and its expiry.                                                *)
(***************************************************************************)
Entry(k, value, ttl) == [key |-> k, value |-> value, at |-> now, ttl |-> ttl, place |-> 0]

\* Mutant: entries of the memory never expire.
NeverExpired(e) == FALSE
IsExpired(e) == e.ttl > 0 /\ now > e.at + e.ttl
Live(e) == e.ttl = 0 \/ now < e.at + e.ttl   \* Redis drops a key by itself

\* InMemoryCache: get moves the entry to the end or drops it, set cuts the
\* entries that were not used for longest.
Placed(t) == {[e EXCEPT !.place = Cardinality({f \in t : f.place <= e.place})] : e \in t}
Has(s, k) == \E e \in s : e.key = k
Of(s, k) == CHOOSE e \in s : e.key = k
Without(s, ks) == Placed({e \in s : e.key \notin ks})
AsNewest(s, e) == s \cup {[e EXCEPT !.place = Cardinality(s) + 1]}
MemoryAfterGet(s, k) ==
  IF ~Has(s, k) THEN s
  ELSE IF IsExpired(Of(s, k)) THEN Without(s, {k}) ELSE AsNewest(Without(s, {k}), Of(s, k))
MemoryAfterSet(s, e) ==
  LET t == AsNewest(Without(s, {e.key}), e)
  IN Placed({f \in t : f.place > Cardinality(t) - MaxSize})
MemoryHit(k) == Has(store, k) /\ ~IsExpired(Of(store, k))

RedisHas(k) == \E e \in redis : e.key = k /\ Live(e)
RedisOf(k) == CHOOSE e \in redis : e.key = k /\ Live(e)

\* Whether a call goes to Redis; one that fails goes to the memory instead, or
\* raises.
HasRedis == backend \in {"redis", "governance"}
Outcomes == IF HasRedis THEN BOOLEAN ELSE {FALSE}
ViaRedis(fails) == HasRedis /\ ~fails
Raises(fails) == backend = "governance" /\ fails

\* get and set of RedisCache, of InMemoryCache and of the database's cache.
Hit(k, fails) == IF ViaRedis(fails) THEN RedisHas(k) ELSE MemoryHit(k)
Got(k, fails) == IF ViaRedis(fails) THEN RedisOf(k) ELSE Of(store, k)
AfterGet(k, fails) ==
  /\ store' = IF ViaRedis(fails) THEN store ELSE MemoryAfterGet(store, k)
  /\ UNCHANGED redis
Set(e, fails) ==
  IF ViaRedis(fails)
  THEN redis' = {f \in redis : f.key # e.key /\ Live(f)} \cup {e} /\ UNCHANGED store
  ELSE store' = MemoryAfterSet(store, e) /\ UNCHANGED redis

\* Deletion of the keys in gone, of which those in lost fail: RedisCache then
\* deletes from its memory.
Delete(gone, lost) ==
  /\ redis' = IF HasRedis THEN {f \in redis : f.key \notin gone \ lost /\ Live(f)} ELSE redis
  /\ store' = Without(store, IF HasRedis THEN lost ELSE gone)
Failing(fails, ks) == failed' = IF fails THEN failed \cup ks ELSE failed

-----------------------------------------------------------------------------
(***************************************************************************)
(* get_or_set and the decorated functions: a hit is returned, a miss reads *)
(* the source.                                                             *)
(***************************************************************************)
Lookup(c, k) ==
  /\ filling[c] = Nothing
  /\ \E fails \in Outcomes :
       /\ ~Raises(fails)
       /\ AfterGet(k, fails)
       /\ Failing(fails, {k})
       /\ IF Hit(k, fails)
          THEN /\ read' = [entry |-> Got(k, fails), now |-> now, current |-> source[k]]
               /\ UNCHANGED filling
          ELSE /\ filling' = [filling EXCEPT ![c] = [key |-> k, value |-> source[k]]]
               /\ read' = Nothing
  /\ UNCHANGED <<now, source, backend, raced>>

Store(c) ==
  /\ filling[c] # Nothing
  /\ \E fails \in Outcomes, ttl \in TTLs :
       IF Raises(fails)
       THEN UNCHANGED <<store, redis, failed>>
       ELSE /\ Set(Entry(filling[c].key, filling[c].value, ttl), fails)
            /\ Failing(fails, {filling[c].key})
  /\ filling' = [filling EXCEPT ![c] = Nothing]
  /\ read' = Nothing
  /\ UNCHANGED <<now, source, backend, raced>>

\* Mutant: what shows the item is left.
OnlyTheItem(k) == <<k>>
\* What invalidate_agent, invalidate_mission, invalidate_asset and their like
\* delete, in order.
Invalidated(k) == <<k>> \o Members[k]

\* The deletions of a sequence that may fail: each by itself, or, in the cache
\* of the database, all that follow the first.
Losses(ks) ==
  IF backend = "redis" THEN SUBSET Range(ks)
  ELSE IF backend = "governance" THEN {Range(SubSeq(ks, n, Len(ks))) : n \in 1 .. Len(ks) + 1}
  ELSE {{}}

\* A write of the source and its invalidation.
Write(k) ==
  LET changed == {k} \cup Range(Members[k]) IN
  /\ source[k] < MaxWrites
  /\ source' = [m \in Keys |-> IF m \in changed THEN source[m] + 1 ELSE source[m]]
  /\ \E lost \in Losses(Invalidated(k)) :
       /\ Delete(Range(Invalidated(k)), lost)
       /\ failed' = failed \cup lost
  /\ raced' = raced \cup {m \in changed :
                            \E c \in Callers : filling[c] # Nothing /\ filling[c].key = m}
  /\ read' = Nothing
  /\ UNCHANGED <<now, backend, filling>>

\* clear and clear_all
Clear ==
  /\ \E fails \in Outcomes :
       /\ ~Raises(fails)
       /\ Delete(Keys, IF fails THEN Keys ELSE {})
       /\ Failing(fails, Keys)
  /\ read' = Nothing
  /\ UNCHANGED <<now, source, backend, filling, raced>>

Tick ==
  /\ now' \in {t \in Moments : t > now}
  /\ read' = Nothing
  /\ UNCHANGED <<source, backend, store, redis, filling, failed, raced>>

CacheNext ==
  \/ \E c \in Callers : Store(c) \/ \E k \in Keys : Lookup(c, k)
  \/ \E k \in Keys : Write(k)
  \/ Clear \/ Tick

CacheSpec == CacheInit /\ [][CacheNext]_cacheVars

-----------------------------------------------------------------------------
CacheTypeOK ==
  /\ \A k \in Keys : source[k] \in Nat
  /\ Cardinality(store) <= MaxSize
  /\ \A e, f \in store : e.key = f.key \/ e.place = f.place => e = f
  /\ \A e, f \in redis : Live(e) /\ Live(f) /\ e.key = f.key => e = f

\* Nothing is read from the cache later than its lifetime allows, whatever
\* fails, and a value that is not the current one has been left by an outage or
\* by a caller that was filling the cache when the source was written.
ReadsAreFresh ==
  read # Nothing =>
    /\ read.entry.ttl = 0 \/ read.now <= read.entry.at + read.entry.ttl
    /\ read.entry.value # read.current => read.entry.key \in failed \cup raced
=============================================================================
