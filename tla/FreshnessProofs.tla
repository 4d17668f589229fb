---------------------------- MODULE FreshnessProofs ----------------------------
EXTENDS MCServices, SequenceTheorems, TLAPS

(***************************************************************************)
(* Caches                                                                  *)
(***************************************************************************)
(* An entry is current, or an outage or a race left it. *)
CacheEntry(e) ==
  /\ DOMAIN e = {"key", "value", "at", "ttl", "place"}
  /\ e.key \in CacheKeys /\ e.at \in Nat /\ e.ttl \in Nat
  /\ e.value # source[e.key] => e.key \in failed \cup raced

(* With Redis, the memory holds what was written while it failed. *)
CacheInv ==
  /\ clock \in Nat /\ source \in [CacheKeys -> Nat]
  /\ \A e \in store : CacheEntry(e) /\ (CA!HasRedis => e.key \in failed)
  /\ \A e \in redis : CacheEntry(e)
  /\ ~CA!HasRedis => redis = {}
  /\ DOMAIN filling = Fillers
  /\ \A c \in Fillers : filling[c] # CA!Nothing =>
       /\ filling[c].key \in CacheKeys
       /\ filling[c].value # source[filling[c].key] => filling[c].key \in raced
  /\ CA!ReadsAreFresh

(* What is in the memory after some keys were dropped was there before. *)
LEMMA WithoutKeeps ==
  ASSUME NEW s, NEW ks, \A e \in s : DOMAIN e = {"key", "value", "at", "ttl", "place"},
         NEW e \in CA!Without(s, ks)
  PROVE  \E f \in s : /\ f.key \notin ks /\ DOMAIN e = DOMAIN f
                      /\ e.key = f.key /\ e.value = f.value /\ e.at = f.at /\ e.ttl = f.ttl
<1>1. PICK f \in {f \in s : f.key \notin ks} : \E n : e = [f EXCEPT !.place = n]
  <2>. DEFINE t == {f \in s : f.key \notin ks}
  <2>1. e \in CA!Placed(t)
    BY DEF CA!Without
  <2>. HIDE DEF t
  <2>2. \E f \in t : \E n : e = [f EXCEPT !.place = n]
    BY <2>1 DEF CA!Placed
  <2>. QED BY <2>2 DEF t
<1>. QED BY <1>1

LEMMA AsNewestKeeps ==
  ASSUME NEW s, NEW g, DOMAIN g = {"key", "value", "at", "ttl", "place"},
         NEW e \in CA!AsNewest(s, g)
  PROVE  e \in s \/ (/\ DOMAIN e = DOMAIN g /\ e.key = g.key /\ e.value = g.value
                     /\ e.at = g.at /\ e.ttl = g.ttl)
BY DEF CA!AsNewest

(* Nothing is in the memory after a get or a set but what was there, and the
   entry that is set.                                                       *)
LEMMA GetKeeps ==
  ASSUME NEW s, NEW asked, \A e \in s : DOMAIN e = {"key", "value", "at", "ttl", "place"},
         NEW e \in CA!MemoryAfterGet(s, asked)
  PROVE  \E f \in s : /\ DOMAIN e = DOMAIN f
                      /\ e.key = f.key /\ e.value = f.value /\ e.at = f.at /\ e.ttl = f.ttl
<1>1. CASE ~CA!Has(s, asked)
  BY <1>1 DEF CA!MemoryAfterGet
<1>2. CASE CA!Has(s, asked)
  <2>1. CA!Of(s, asked) \in s
    BY <1>2 DEF CA!Has, CA!Of
  <2>2. e \in CA!Without(s, {asked}) \/ e \in CA!AsNewest(CA!Without(s, {asked}), CA!Of(s, asked))
    BY <1>2 DEF CA!MemoryAfterGet
  <2>. QED BY <2>1, <2>2, WithoutKeeps, AsNewestKeeps
<1>. QED BY <1>1, <1>2

LEMMA SetKeeps ==
  ASSUME NEW s, NEW g, DOMAIN g = {"key", "value", "at", "ttl", "place"},
         \A e \in s : DOMAIN e = {"key", "value", "at", "ttl", "place"},
         NEW e \in CA!MemoryAfterSet(s, g)
  PROVE  \E f \in s \cup {g} :
           /\ DOMAIN e = DOMAIN f
           /\ e.key = f.key /\ e.value = f.value /\ e.at = f.at /\ e.ttl = f.ttl
<1>. DEFINE t == CA!AsNewest(CA!Without(s, {g.key}), g)
<1>1. ASSUME NEW f \in t
      PROVE  \E h \in s \cup {g} :
               /\ DOMAIN f = DOMAIN h
               /\ f.key = h.key /\ f.value = h.value /\ f.at = h.at /\ f.ttl = h.ttl
  BY <1>1, AsNewestKeeps, WithoutKeeps
<1>2. PICK f \in t : \E n : e = [f EXCEPT !.place = n]
  BY DEF CA!MemoryAfterSet, CA!Placed
<1>. HIDE DEF t
<1>. QED BY <1>1, <1>2

(* Of the deletion of several keys, those that fail are left in Redis alone. *)
LEMMA DeleteKeeps ==
  ASSUME CacheInv, NEW gone, NEW missed, CA!Delete(gone, missed)
  PROVE  /\ \A e \in store' : \E f \in store :
              /\ CA!HasRedis \/ f.key \notin gone
              /\ DOMAIN e = DOMAIN f
              /\ e.key = f.key /\ e.value = f.value /\ e.at = f.at /\ e.ttl = f.ttl
         /\ \A e \in redis' : e \in redis /\ (e.key \in gone => e.key \in missed)
         /\ ~CA!HasRedis => redis' = {}
<1>1. ASSUME NEW e \in store'
      PROVE  \E f \in store :
               /\ CA!HasRedis \/ f.key \notin gone
               /\ DOMAIN e = DOMAIN f
               /\ e.key = f.key /\ e.value = f.value /\ e.at = f.at /\ e.ttl = f.ttl
  <2>1. PICK ks : e \in CA!Without(store, ks) /\ (CA!HasRedis \/ ks = gone)
    BY <1>1 DEF CA!Delete
  <2>. QED BY <2>1, WithoutKeeps DEF CacheInv, CacheEntry
<1>. QED BY <1>1 DEF CA!Delete, CacheInv

LEMMA LookupKeeps ==
  ASSUME CacheInv, NEW c \in Fillers, NEW asked \in CacheKeys, CA!Lookup(c, asked)
  PROVE  CacheInv'
<1>1. PICK fails \in CA!Outcomes :
        /\ ~CA!Raises(fails)
        /\ CA!AfterGet(asked, fails)
        /\ CA!Failing(fails, {asked})
        /\ IF CA!Hit(asked, fails)
           THEN /\ read' = [entry |-> CA!Got(asked, fails), now |-> clock, current |-> source[asked]]
                /\ UNCHANGED filling
           ELSE /\ filling' = [filling EXCEPT ![c] = [key |-> asked, value |-> source[asked]]]
                /\ read' = CA!Nothing
  BY DEF CA!Lookup
<1>2. UNCHANGED <<clock, source, backend, raced, redis>> /\ failed \subseteq failed'
  BY <1>1 DEF CA!Lookup, CA!AfterGet, CA!Failing
<1>3. CA!HasRedis' = CA!HasRedis
  BY <1>2 DEF CA!HasRedis
<1>4. \A e \in store' : CacheEntry(e)' /\ (CA!HasRedis => e.key \in failed')
  <2>1. ASSUME NEW e \in store'
        PROVE  \E f \in store : /\ DOMAIN e = DOMAIN f
                                /\ e.key = f.key /\ e.value = f.value /\ e.at = f.at /\ e.ttl = f.ttl
    BY <1>1, <2>1, GetKeeps DEF CA!AfterGet, CacheInv, CacheEntry
  <2>. QED BY <1>2, <2>1 DEF CacheInv, CacheEntry
<1>5. \A e \in redis' : CacheEntry(e)'
  BY <1>2 DEF CacheInv, CacheEntry
<1>6. CA!ReadsAreFresh'
  <2>1. CASE CA!Hit(asked, fails)
    <3>. DEFINE e == CA!Got(asked, fails)
    <3>1. CASE CA!ViaRedis(fails)
      <4>1. e \in redis /\ e.key = asked /\ CA!Live(e)
        BY <2>1, <3>1 DEF CA!Hit, CA!Got, CA!RedisHas, CA!RedisOf
      <4>2. CacheEntry(e)
        BY <4>1 DEF CacheInv
      <4>3. e.ttl = 0 \/ clock <= e.at + e.ttl
        BY <4>1, <4>2 DEF CA!Live, CacheEntry, CacheInv
      <4>. HIDE DEF e
      <4>4. read'.entry = e /\ read'.now = clock /\ read'.current = source[asked]
        BY <1>1, <2>1 DEF e
      <4>. QED BY <1>2, <4>1, <4>2, <4>3, <4>4 DEF CA!ReadsAreFresh, CacheEntry
    <3>2. CASE ~CA!ViaRedis(fails)
      <4>1. e \in store /\ e.key = asked /\ ~CA!IsExpired(e)
        BY <2>1, <3>2 DEF CA!Hit, CA!Got, CA!MemoryHit, CA!Has, CA!Of
      <4>2. CacheEntry(e)
        BY <4>1 DEF CacheInv
      <4>3. e.ttl = 0 \/ clock <= e.at + e.ttl
        BY <4>1, <4>2 DEF CA!IsExpired, CacheEntry, CacheInv
      <4>. HIDE DEF e
      <4>4. read'.entry = e /\ read'.now = clock /\ read'.current = source[asked]
        BY <1>1, <2>1 DEF e
      <4>. QED BY <1>2, <4>1, <4>2, <4>3, <4>4 DEF CA!ReadsAreFresh, CacheEntry
    <3>. QED BY <3>1, <3>2
  <2>2. CASE ~CA!Hit(asked, fails)
    BY <1>1, <2>2 DEF CA!ReadsAreFresh
  <2>. QED BY <2>1, <2>2
<1>7. /\ DOMAIN filling' = Fillers
      /\ \A d \in Fillers : filling'[d] # CA!Nothing =>
           /\ filling'[d].key \in CacheKeys
           /\ filling'[d].value # source[filling'[d].key] => filling'[d].key \in raced
  <2>1. filling' = filling \/ filling' = [filling EXCEPT ![c] = [key |-> asked, value |-> source[asked]]]
    BY <1>1
  <2>. QED BY <2>1 DEF CacheInv
<1>. QED BY <1>2, <1>3, <1>4, <1>5, <1>6, <1>7 DEF CacheInv

LEMMA FillKeeps ==
  ASSUME CA!CacheAssumption, CacheInv, NEW c \in Fillers, CA!Store(c)
  PROVE  CacheInv'
<1>1. PICK fails \in CA!Outcomes, ttl \in TTLs :
        IF CA!Raises(fails)
        THEN UNCHANGED <<store, redis, failed>>
        ELSE /\ CA!Set(CA!Entry(filling[c].key, filling[c].value, ttl), fails)
             /\ CA!Failing(fails, {filling[c].key})
  BY DEF CA!Store
<1>2. PICK e : e = CA!Entry(filling[c].key, filling[c].value, ttl)
  OBVIOUS
<1>3. UNCHANGED <<clock, source, backend, raced>> /\ failed \subseteq failed' /\ read' = CA!Nothing
  BY <1>1 DEF CA!Store, CA!Failing
<1>4. CA!HasRedis' = CA!HasRedis
  BY <1>3 DEF CA!HasRedis
<1>5. CacheEntry(e)'
  <2>1. ttl \in Nat /\ filling[c] # CA!Nothing
    BY DEF CA!CacheAssumption, CA!Store
  <2>. QED BY <1>3, <1>2, <2>1 DEF CacheEntry, CA!Entry, CacheInv
<1>6. DOMAIN e = {"key", "value", "at", "ttl", "place"} /\ e.key = filling[c].key
  BY <1>2 DEF CA!Entry
<1>7. CASE CA!Raises(fails)
  <2>1. \A f \in store' : CacheEntry(f)' /\ (CA!HasRedis => f.key \in failed')
    BY <1>1, <1>3, <1>7 DEF CacheInv, CacheEntry
  <2>2. (\A f \in redis' : CacheEntry(f)') /\ (~CA!HasRedis => redis' = {})
    BY <1>1, <1>3, <1>7 DEF CacheInv, CacheEntry
  <2>. QED BY <1>3, <1>4, <2>1, <2>2 DEF CacheInv, CA!Store, CA!ReadsAreFresh
<1>8. CASE ~CA!Raises(fails)
  <2>1. CA!Set(e, fails) /\ CA!Failing(fails, {filling[c].key})
    BY <1>1, <1>8, <1>2
  <2>2. \A f \in store' : CacheEntry(f)' /\ (CA!HasRedis => f.key \in failed')
    <3>1. CASE CA!ViaRedis(fails)
      BY <1>3, <2>1, <3>1 DEF CacheInv, CacheEntry, CA!Set
    <3>2. CASE ~CA!ViaRedis(fails)
      <4>1. CA!HasRedis => e.key \in failed'
        BY <1>6, <2>1, <3>2 DEF CA!ViaRedis, CA!Failing
      <4>2. \A f \in store : CacheEntry(f)' /\ (CA!HasRedis => f.key \in failed')
        BY <1>3 DEF CacheInv, CacheEntry
      <4>3. ASSUME NEW f \in store'
            PROVE  \E g \in store \cup {e} :
                     /\ DOMAIN f = DOMAIN g
                     /\ f.key = g.key /\ f.value = g.value /\ f.at = g.at /\ f.ttl = g.ttl
        BY <1>6, <2>1, <3>2, <4>3, SetKeeps DEF CA!Set, CacheInv, CacheEntry
      <4>. QED BY <1>5, <4>1, <4>2, <4>3 DEF CacheEntry
    <3>. QED BY <3>1, <3>2
  <2>3. (\A f \in redis' : CacheEntry(f)') /\ (~CA!HasRedis => redis' = {})
    <3>1. \A f \in redis : CacheEntry(f)'
      BY <1>3 DEF CacheInv, CacheEntry
    <3>. QED BY <1>5, <2>1, <3>1 DEF CacheInv, CA!Set, CA!ViaRedis
  <2>. QED BY <1>3, <1>4, <2>2, <2>3 DEF CacheInv, CA!Store, CA!ReadsAreFresh
<1>. QED BY <1>7, <1>8

(* A write changes and invalidates the same keys. *)
LEMMA InvalidatedAreChanged ==
  ASSUME CA!CacheAssumption, NEW asked \in CacheKeys
  PROVE  CA!Range(CA!Invalidated(asked)) = {asked} \cup CA!Range(CacheMembers[asked])
<1>1. CacheMembers[asked] \in Seq(CacheKeys) /\ <<asked>> \in Seq(CacheKeys) /\ Len(<<asked>>) = 1
  BY DEF CA!CacheAssumption
<1>. DEFINE s == CacheMembers[asked]
            n == Len(s)
<1>2. /\ n \in Nat /\ DOMAIN s = 1..n
      /\ Len(<<asked>> \o s) = n + 1 /\ DOMAIN (<<asked>> \o s) = 1..(n + 1)
      /\ (<<asked>> \o s)[1] = asked /\ \A i \in 1..n : (<<asked>> \o s)[i + 1] = s[i]
  BY <1>1
<1>. DEFINE all == <<asked>> \o s
<1>. HIDE DEF n, s, all
<1>3. \A i \in 1..(n + 1) : i = 1 \/ (i - 1 \in 1..n /\ i = (i - 1) + 1)
  BY <1>2
<1>4. {all[i] : i \in 1..(n + 1)} = {asked} \cup {s[i] : i \in 1..n}
  <2>1. ASSUME NEW x \in {all[i] : i \in 1..(n + 1)} PROVE x \in {asked} \cup {s[i] : i \in 1..n}
    BY <1>2, <1>3 DEF all
  <2>2. ASSUME NEW x \in {asked} \cup {s[i] : i \in 1..n} PROVE x \in {all[i] : i \in 1..(n + 1)}
    <3>1. CASE x = asked
      BY <1>2, <3>1 DEF all
    <3>2. CASE x \in {s[i] : i \in 1..n}
      <4>1. PICK i \in 1..n : x = s[i]
        BY <3>2
      <4>2. i + 1 \in 1..(n + 1) /\ all[i + 1] = x
        BY <1>2, <4>1 DEF all
      <4>. QED BY <4>2
    <3>. QED BY <2>2, <3>1, <3>2
  <2>. QED BY <2>1, <2>2
<1>. QED BY <1>2, <1>4 DEF CA!Range, CA!Invalidated, s, all

LEMMA InvalidationKeeps ==
  ASSUME CA!CacheAssumption, CacheInv, NEW asked \in CacheKeys, CA!Write(asked)
  PROVE  CacheInv'
<1>. DEFINE changed == {asked} \cup CA!Range(CacheMembers[asked])
<1>1. PICK missed : CA!Delete(changed, missed) /\ failed' = failed \cup missed
  BY InvalidatedAreChanged DEF CA!Write
<1>2. /\ source' = [m \in CacheKeys |-> IF m \in changed THEN source[m] + 1 ELSE source[m]]
      /\ raced' = raced \cup {m \in changed :
                                \E c \in Fillers : filling[c] # CA!Nothing /\ filling[c].key = m}
      /\ read' = CA!Nothing
      /\ UNCHANGED <<clock, backend, filling>>
  BY DEF CA!Write
<1>. HIDE DEF changed
<1>3. CA!HasRedis' = CA!HasRedis
  BY <1>2 DEF CA!HasRedis
<1>4. source' \in [CacheKeys -> Nat]
  BY <1>2 DEF CacheInv
<1>5. \A f \in store' : CacheEntry(f)' /\ (CA!HasRedis => f.key \in failed')
  <2>1. ASSUME NEW f \in store' PROVE CacheEntry(f)' /\ (CA!HasRedis => f.key \in failed')
    <3>1. PICK g \in store : /\ CA!HasRedis \/ g.key \notin changed
                             /\ DOMAIN f = DOMAIN g
                             /\ f.key = g.key /\ f.value = g.value /\ f.at = g.at /\ f.ttl = g.ttl
      BY <1>1, <2>1, DeleteKeeps
    <3>2. CacheEntry(g) /\ (CA!HasRedis => g.key \in failed)
      BY DEF CacheInv
    <3>. QED BY <1>1, <1>2, <3>1, <3>2 DEF CacheEntry
  <2>. QED BY <2>1
<1>6. (\A f \in redis' : CacheEntry(f)') /\ (~CA!HasRedis => redis' = {})
  <2>1. ASSUME NEW f \in redis' PROVE CacheEntry(f)'
    <3>1. f \in redis /\ (f.key \in changed => f.key \in missed)
      BY <1>1, <2>1, DeleteKeeps
    <3>2. CacheEntry(f)
      BY <3>1 DEF CacheInv
    <3>. QED BY <1>1, <1>2, <3>1, <3>2 DEF CacheEntry
  <2>. QED BY <1>1, <2>1, DeleteKeeps
<1>7. \A c \in Fillers : filling[c] # CA!Nothing =>
        /\ filling[c].key \in CacheKeys
        /\ filling[c].value # source'[filling[c].key] => filling[c].key \in raced'
  BY <1>2 DEF CacheInv
<1>. QED BY <1>2, <1>3, <1>4, <1>5, <1>6, <1>7 DEF CacheInv, CA!ReadsAreFresh

LEMMA ClearKeeps ==
  ASSUME CacheInv, CA!Clear
  PROVE  CacheInv'
<1>1. PICK missed : CA!Delete(CacheKeys, missed) /\ failed \subseteq failed'
  BY DEF CA!Clear, CA!Failing
<1>2. UNCHANGED <<clock, source, backend, filling, raced>> /\ read' = CA!Nothing
  BY DEF CA!Clear
<1>3. CA!HasRedis' = CA!HasRedis
  BY <1>2 DEF CA!HasRedis
<1>4. \A f \in store' : CacheEntry(f)' /\ (CA!HasRedis => f.key \in failed')
  <2>1. ASSUME NEW f \in store' PROVE CacheEntry(f)' /\ (CA!HasRedis => f.key \in failed')
    <3>1. PICK g \in store : /\ DOMAIN f = DOMAIN g
                             /\ f.key = g.key /\ f.value = g.value /\ f.at = g.at /\ f.ttl = g.ttl
      BY <1>1, <2>1, DeleteKeeps
    <3>. QED BY <1>1, <1>2, <3>1 DEF CacheEntry, CacheInv
  <2>. QED BY <2>1
<1>5. (\A f \in redis' : CacheEntry(f)') /\ (~CA!HasRedis => redis' = {})
  BY <1>1, <1>2, DeleteKeeps DEF CacheInv, CacheEntry
<1>. QED BY <1>2, <1>3, <1>4, <1>5 DEF CacheInv, CA!ReadsAreFresh

LEMMA CacheStep ==
  ASSUME CA!CacheAssumption, CacheInv, [CA!CacheNext]_(CA!cacheVars)
  PROVE  CacheInv'
<1>1. CASE UNCHANGED CA!cacheVars
  <2>1. CA!HasRedis' = CA!HasRedis
    BY <1>1 DEF CA!cacheVars, CA!HasRedis
  <2>2. \A f : CacheEntry(f)' <=> CacheEntry(f)
    BY <1>1 DEF CA!cacheVars, CacheEntry
  <2>. QED BY <1>1, <2>1, <2>2 DEF CA!cacheVars, CacheInv, CA!ReadsAreFresh
<1>2. ASSUME CA!Tick PROVE CacheInv'
  <2>1. UNCHANGED <<source, backend, store, redis, filling, failed, raced>> /\ clock' \in Nat
        /\ read' = CA!Nothing
    BY <1>2 DEF CA!Tick, CA!CacheAssumption
  <2>2. CA!HasRedis' = CA!HasRedis
    BY <2>1 DEF CA!HasRedis
  <2>3. \A f : CacheEntry(f)' <=> CacheEntry(f)
    BY <2>1 DEF CacheEntry
  <2>. QED BY <2>1, <2>2, <2>3 DEF CacheInv, CA!ReadsAreFresh
<1>. QED BY <1>1, <1>2, LookupKeeps, FillKeeps, InvalidationKeeps, ClearKeeps DEF CA!CacheNext

LEMMA CachesBegin ==
  ASSUME CA!CacheInit PROVE CacheInv
BY DEF CA!CacheInit, CacheInv, CA!ReadsAreFresh

(***************************************************************************)
(* Vault                                                                   *)
(***************************************************************************)
Secrets == {<<"configured", 0>>} \cup (Workers \X Nat)
Row == [name : Names, value : Nat, secret : Secrets, active : BOOLEAN, used : BOOLEAN]

(* What is known of a call: the row it found is one of its name. *)
VaultCall(call) ==
  /\ DOMAIN call = {"pc", "name", "row", "value", "answer", "due"}
  /\ call.pc = "storing" =>
       /\ call.name \in Names /\ call.value \in Nat \ {0}
       /\ call.row = 0 \/ call.row \in VA!RowsOf(call.name)
  /\ call.pc \in {"deleting", "stamping"} => call.name \in Names /\ call.row \in VA!RowsOf(call.name)
  /\ call.pc \in {"stamping", "answered"} /\ call.name \notin overlapped => call.answer = call.due

(* One store at a time keeps a name to one row, which says what was stored. *)
RowsAreTrue(n) ==
  /\ \A i, j \in VA!RowsOf(n) : i = j
  /\ \A i \in VA!RowsOf(n) :
       /\ rows[i].active = (latest[n] # 0)
       /\ rows[i].active => rows[i].value = latest[n]
  /\ latest[n] # 0 => VA!ActiveRows(n) # {}
StoresApart(n) ==
  \A c \in VaultCallers : calls[c].pc = "storing" /\ calls[c].name = n =>
    /\ calls[c].row = 0 => VA!RowsOf(n) = {}
    /\ \A d \in VaultCallers : calls[d].pc = "storing" /\ calls[d].name = n => d = c

VaultInv ==
  /\ rows \in Seq(Row) /\ stored \in Nat /\ starts \in [Workers -> Nat]
  /\ DOMAIN latest = Names
  /\ DOMAIN calls = VaultCallers /\ \A c \in VaultCallers : VaultCall(calls[c])
  /\ \A n \in Names \ overlapped : RowsAreTrue(n) /\ StoresApart(n)

LEMMA NoCallIsIdle == VaultCall(VA!NoCall) /\ VA!NoCall.pc = "idle"
BY DEF VaultCall, VA!NoCall

(* Nothing but the call of one caller changes, and it is not a store's. *)
LEMMA OneCallChanges ==
  ASSUME VaultInv, NEW c \in VaultCallers, NEW call, VaultCall(call), call.pc # "storing",
         calls' = [calls EXCEPT ![c] = call],
         UNCHANGED <<rows, starts, stored, latest, overlapped>>
  PROVE  VaultInv'
<1>1. \A n : VA!RowsOf(n)' = VA!RowsOf(n) /\ VA!ActiveRows(n)' = VA!ActiveRows(n)
  BY DEF VA!RowsOf, VA!ActiveRows
<1>2. \A x : VaultCall(x) => VaultCall(x)'
  BY <1>1 DEF VaultCall
<1>3. DOMAIN calls' = VaultCallers
      /\ \A d \in VaultCallers : calls'[d] = IF d = c THEN call ELSE calls[d]
  BY DEF VaultInv
<1>4. \A d \in VaultCallers : VaultCall(calls[d])'
  <2>1. ASSUME NEW d \in VaultCallers PROVE VaultCall(calls[d])'
    <3>1. PICK x : x = calls'[d]
      OBVIOUS
    <3>2. VaultCall(x)
      BY <1>3, <3>1 DEF VaultInv
    <3>. QED BY <1>2, <3>1, <3>2
  <2>. QED BY <2>1
<1>5. \A d \in VaultCallers : calls'[d].pc = "storing" => calls'[d] = calls[d]
  BY <1>3
<1>6. \A n \in Names \ overlapped' : RowsAreTrue(n)' /\ StoresApart(n)'
  <2>1. ASSUME NEW n \in Names \ overlapped PROVE RowsAreTrue(n)' /\ StoresApart(n)'
    <3>1. RowsAreTrue(n) /\ StoresApart(n)
      BY DEF VaultInv
    <3>2. RowsAreTrue(n)'
      BY <1>1, <3>1 DEF RowsAreTrue
    <3>3. StoresApart(n)'
      BY <1>1, <1>5, <3>1 DEF StoresApart
    <3>. QED BY <3>2, <3>3
  <2>. QED BY <2>1
<1>. QED BY <1>3, <1>4, <1>6 DEF VaultInv

LEMMA StoreKeyKeeps ==
  ASSUME VaultInv, NEW c \in VaultCallers, NEW n \in Names, VA!StoreKey(c, n)
  PROVE  VaultInv'
<1>1. PICK i \in VA!Found(n) \cup {0} :
        /\ i = 0 => VA!Found(n) = {}
        /\ VA!Begin(c, IF \E j \in VA!Found(n) : j # i THEN [VA!NoCall EXCEPT !.pc = "refused"]
                       ELSE [VA!NoCall EXCEPT !.pc = "storing", !.name = n, !.row = i,
                                              !.value = stored + 1])
  BY Zenon DEF VA!StoreKey
<1>2. /\ UNCHANGED <<rows, starts, latest>> /\ stored' = stored + 1
      /\ overlapped' = IF \E d \in VaultCallers \ {c} : calls[d].pc = "storing" /\ calls[d].name = n
                       THEN overlapped \cup {n} ELSE overlapped
  BY DEF VA!StoreKey
<1>3. PICK call : /\ calls' = [calls EXCEPT ![c] = call] /\ VaultCall(call)
                  /\ calls[c].pc = "idle"
                  /\ call.pc \in {"refused", "storing"}
                  /\ call.pc = "storing" =>
                       call.name = n /\ (call.row = 0 => VA!RowsOf(n) = {})
  <2>1. CASE \E j \in VA!Found(n) : j # i
    <3>. DEFINE call == [VA!NoCall EXCEPT !.pc = "refused"]
    <3>1. calls' = [calls EXCEPT ![c] = call] /\ calls[c].pc = "idle"
      BY <1>1, <2>1 DEF VA!Begin
    <3>2. VaultCall(call) /\ call.pc = "refused"
      BY DEF VaultCall, VA!NoCall
    <3>. HIDE DEF call
    <3>. QED BY <3>1, <3>2
  <2>2. CASE ~ \E j \in VA!Found(n) : j # i
    <3>. DEFINE call == [VA!NoCall EXCEPT !.pc = "storing", !.name = n, !.row = i, !.value = stored + 1]
    <3>1. calls' = [calls EXCEPT ![c] = call] /\ calls[c].pc = "idle"
      BY <1>1, <2>2 DEF VA!Begin
    <3>2. VaultCall(call) /\ call.pc = "storing" /\ call.name = n /\ call.row = i
      BY <1>1 DEF VaultCall, VA!NoCall, VA!Found, VaultInv
    <3>. HIDE DEF call
    <3>. QED BY <1>1, <3>1, <3>2 DEF VA!Found
  <2>. QED BY <2>1, <2>2
<1>4. \A m : VA!RowsOf(m)' = VA!RowsOf(m) /\ VA!ActiveRows(m)' = VA!ActiveRows(m)
  BY <1>2 DEF VA!RowsOf, VA!ActiveRows
<1>5. \A x : VaultCall(x) => VaultCall(x)'
  BY <1>2, <1>4 DEF VaultCall
<1>6. DOMAIN calls' = VaultCallers
      /\ \A d \in VaultCallers : calls'[d] = IF d = c THEN call ELSE calls[d]
  BY <1>3 DEF VaultInv
<1>7. \A d \in VaultCallers : VaultCall(calls[d])'
  <2>1. ASSUME NEW d \in VaultCallers PROVE VaultCall(calls[d])'
    <3>1. PICK x : x = calls'[d]
      OBVIOUS
    <3>2. VaultCall(x)
      BY <1>3, <1>6, <3>1 DEF VaultInv
    <3>. QED BY <1>5, <3>1, <3>2
  <2>. QED BY <2>1
<1>8. ASSUME NEW m \in Names \ overlapped' PROVE RowsAreTrue(m)' /\ StoresApart(m)'
  <2>1. m \in Names \ overlapped
    BY <1>2
  <2>2. RowsAreTrue(m) /\ StoresApart(m)
    BY <2>1 DEF VaultInv
  <2>3. RowsAreTrue(m)'
    BY <1>2, <1>4, <2>2 DEF RowsAreTrue
  <2>4. ASSUME NEW d \in VaultCallers, calls'[d].pc = "storing", calls'[d].name = m
        PROVE  /\ calls'[d].row = 0 => VA!RowsOf(m)' = {}
               /\ \A b \in VaultCallers : calls'[b].pc = "storing" /\ calls'[b].name = m => b = d
    <3>1. CASE d = c
      <4>1. m = n /\ (calls'[d].row = 0 => VA!RowsOf(m) = {})
        BY <1>3, <1>6, <2>4, <3>1
      <4>2. \A b \in VaultCallers \ {c} : ~(calls[b].pc = "storing" /\ calls[b].name = n)
        BY <1>2, <1>8, <4>1
      <4>. QED BY <1>4, <1>6, <3>1, <4>1, <4>2
    <3>2. CASE d # c
      <4>1. calls'[d] = calls[d]
        BY <1>6, <3>2
      <4>2. calls'[c].pc = "storing" => calls'[c].name # m
        BY <1>2, <1>3, <1>6, <1>8, <2>4, <3>2, <4>1
      <4>. QED BY <1>4, <1>6, <2>2, <2>4, <4>1, <4>2 DEF StoresApart
    <3>. QED BY <3>1, <3>2
  <2>. QED BY <2>3, <2>4 DEF StoresApart
<1>. QED BY <1>2, <1>6, <1>7, <1>8 DEF VaultInv

(* The secrets of the processes are secrets. *)
LEMMA SecretsOfAll ==
  ASSUME VA!VaultAssumption, VaultInv, NEW c \in VaultCallers
  PROVE  VA!Secret(Home[c]) \in Secrets
<1>1. Home[c] \in Workers
  BY DEF VA!VaultAssumption
<1>. QED BY <1>1 DEF VaultInv, VA!Secret, Secrets

(* A row is written by a call that found it, or is added; the call ends. *)
RowGoes(w, row) ==
  /\ row \in Row
  /\ \/ w \in DOMAIN rows /\ rows[w].name = row.name /\ rows' = [rows EXCEPT ![w] = row]
     \/ w = Len(rows) + 1 /\ rows' = Append(rows, row)

LEMMA RowWritten ==
  ASSUME VaultInv, NEW w, NEW row, RowGoes(w, row)
  PROVE  /\ rows' \in Seq(Row)
         /\ DOMAIN rows' = DOMAIN rows \cup {w} /\ rows'[w] = row
         /\ \A j \in DOMAIN rows : j # w => rows'[j] = rows[j]
         /\ VA!RowsOf(row.name)' = VA!RowsOf(row.name) \cup {w}
         /\ \A n : n # row.name => VA!RowsOf(n)' = VA!RowsOf(n)
         /\ w \notin VA!RowsOf(row.name) => \A n : w \notin VA!RowsOf(n)
<1>1. rows \in Seq(Row) /\ Len(rows) \in Nat /\ DOMAIN rows = 1..Len(rows) /\ row \in Row
  BY DEF VaultInv, RowGoes
<1>2. /\ rows' \in Seq(Row)
      /\ DOMAIN rows' = DOMAIN rows \cup {w} /\ rows'[w] = row
      /\ \A j \in DOMAIN rows : j # w => rows'[j] = rows[j]
      /\ w \in DOMAIN rows => rows[w].name = row.name
  <2>1. CASE w \in DOMAIN rows /\ rows[w].name = row.name /\ rows' = [rows EXCEPT ![w] = row]
    BY <1>1, <2>1
  <2>2. CASE w = Len(rows) + 1 /\ rows' = Append(rows, row)
    <3>1. rows' \in Seq(Row) /\ Len(rows') = Len(rows) + 1 /\ rows'[w] = row
          /\ \A j \in 1..Len(rows) : rows'[j] = rows[j]
      BY <1>1, <2>2
    <3>2. DOMAIN rows' = 1..(Len(rows) + 1)
      BY <3>1
    <3>3. 1..(Len(rows) + 1) = 1..Len(rows) \cup {Len(rows) + 1} /\ Len(rows) + 1 \notin 1..Len(rows)
      BY <1>1
    <3>. QED BY <1>1, <2>2, <3>1, <3>2, <3>3
  <2>. QED BY <2>1, <2>2 DEF RowGoes
<1>3. ASSUME NEW n PROVE VA!RowsOf(n)' = IF n = row.name THEN VA!RowsOf(n) \cup {w} ELSE VA!RowsOf(n)
  BY <1>2 DEF VA!RowsOf
<1>. QED BY <1>2, <1>3 DEF VA!RowsOf

(* What a row says becomes true of its name, unless stores overlapped. *)
LEMMA WrittenIsTrue ==
  ASSUME VaultInv, NEW c \in VaultCallers, NEW w, NEW row, RowGoes(w, row),
         row.name \in Names,
         row.name \notin overlapped => VA!RowsOf(row.name) \subseteq {w},
         w \in VA!RowsOf(row.name)
           \/ (calls[c].pc = "storing" /\ calls[c].name = row.name),
         latest' = [latest EXCEPT ![row.name] = IF row.active THEN row.value ELSE 0],
         row.active => row.value # 0,
         calls' = [calls EXCEPT ![c] = VA!NoCall], UNCHANGED <<starts, stored, overlapped>>
  PROVE  VaultInv'
<1>1. /\ rows' \in Seq(Row)
      /\ DOMAIN rows' = DOMAIN rows \cup {w} /\ rows'[w] = row
      /\ \A j \in DOMAIN rows : j # w => rows'[j] = rows[j]
      /\ VA!RowsOf(row.name)' = VA!RowsOf(row.name) \cup {w}
      /\ \A n : n # row.name => VA!RowsOf(n)' = VA!RowsOf(n)
      /\ w \notin VA!RowsOf(row.name) => \A n : w \notin VA!RowsOf(n)
  BY RowWritten
<1>2. /\ DOMAIN latest' = Names /\ latest'[row.name] = IF row.active THEN row.value ELSE 0
      /\ \A n \in Names : n # row.name => latest'[n] = latest[n]
  BY DEF VaultInv
<1>3. DOMAIN calls' = VaultCallers
      /\ \A d \in VaultCallers : calls'[d] = IF d = c THEN VA!NoCall ELSE calls[d]
  BY DEF VaultInv
<1>4. \A n : VA!RowsOf(n) \subseteq VA!RowsOf(n)'
  BY <1>1
<1>5. \A x : VaultCall(x) => VaultCall(x)'
  BY <1>4 DEF VaultCall
<1>6. \A d \in VaultCallers : VaultCall(calls[d])'
  <2>1. ASSUME NEW d \in VaultCallers PROVE VaultCall(calls[d])'
    <3>1. PICK x : x = calls'[d]
      OBVIOUS
    <3>2. VaultCall(x)
      BY <1>3, <3>1, NoCallIsIdle DEF VaultInv
    <3>. QED BY <1>5, <3>1, <3>2
  <2>. QED BY <2>1
<1>7. \A d \in VaultCallers : calls'[d].pc = "storing" => calls'[d] = calls[d] /\ d # c
  BY <1>3, NoCallIsIdle
<1>8. ASSUME NEW n \in Names \ overlapped PROVE RowsAreTrue(n)' /\ StoresApart(n)'
  <2>1. RowsAreTrue(n) /\ StoresApart(n)
    BY DEF VaultInv
  <2>2. CASE n # row.name
    <3>1. VA!RowsOf(n)' = VA!RowsOf(n) /\ latest'[n] = latest[n] /\ w \notin VA!RowsOf(n)
      <4>1. w \in VA!RowsOf(n) => rows[w].name = n /\ w \in DOMAIN rows
        BY DEF VA!RowsOf
      <4>2. w \in DOMAIN rows => rows[w].name = row.name
        <5>1. CASE w \in DOMAIN rows /\ rows[w].name = row.name
          BY <5>1
        <5>2. CASE w = Len(rows) + 1
          BY <5>2 DEF VaultInv
        <5>. QED BY <5>1, <5>2 DEF RowGoes
      <4>. QED BY <1>1, <1>2, <2>2, <4>1, <4>2
    <3>2. \A i \in VA!RowsOf(n) : rows'[i] = rows[i]
      BY <1>1, <3>1 DEF VA!RowsOf
    <3>3. VA!ActiveRows(n)' = VA!ActiveRows(n)
      BY <3>1, <3>2 DEF VA!ActiveRows
    <3>4. RowsAreTrue(n)'
      BY <2>1, <3>1, <3>2, <3>3 DEF RowsAreTrue
    <3>5. StoresApart(n)'
      BY <1>7, <2>1, <3>1 DEF StoresApart
    <3>. QED BY <3>4, <3>5
  <2>3. CASE n = row.name
    <3>1. VA!RowsOf(n)' = {w}
      BY <1>1, <2>3
    <3>2. VA!ActiveRows(n)' = IF row.active THEN {w} ELSE {}
      BY <1>1, <3>1 DEF VA!ActiveRows
    <3>3. latest'[n] = (IF row.active THEN row.value ELSE 0) /\ row.active \in BOOLEAN
      BY <1>2, <2>3 DEF RowGoes, Row
    <3>4. RowsAreTrue(n)'
      BY <1>1, <3>1, <3>2, <3>3 DEF RowsAreTrue
    <3>5. ASSUME NEW d \in VaultCallers, calls'[d].pc = "storing", calls'[d].name = n
          PROVE  /\ calls'[d].row # 0
                 /\ \A b \in VaultCallers : calls'[b].pc = "storing" /\ calls'[b].name = n => b = d
      <4>1. calls[d] = calls'[d] /\ d # c
        BY <1>7, <3>5
      <4>2. calls[d].row # 0
        BY <2>1, <2>3, <3>5, <4>1 DEF StoresApart
      <4>. QED BY <1>7, <2>1, <3>5, <4>1, <4>2 DEF StoresApart
    <3>6. StoresApart(n)'
      BY <3>5 DEF StoresApart
    <3>. QED BY <3>4, <3>6
  <2>. QED BY <2>2, <2>3
<1>. QED BY <1>1, <1>2, <1>3, <1>6, <1>8 DEF VaultInv

LEMMA WriteKeyKeeps ==
  ASSUME VA!VaultAssumption, VaultInv, NEW c \in VaultCallers, VA!WriteKey(c)
  PROVE  VaultInv'
<1>1. PICK name, value, r : name = calls[c].name /\ value = calls[c].value /\ r = calls[c].row
  OBVIOUS
<1>2. /\ calls[c].pc = "storing" /\ name \in Names /\ value \in Nat \ {0}
      /\ r = 0 \/ r \in VA!RowsOf(name)
  BY <1>1 DEF VA!WriteKey, VaultInv, VaultCall
<1>3. /\ latest' = [latest EXCEPT ![name] = value] /\ calls' = [calls EXCEPT ![c] = VA!NoCall]
      /\ UNCHANGED <<starts, stored, overlapped>>
  BY <1>1 DEF VA!WriteKey
<1>4. VA!Secret(Home[c]) \in Secrets
  BY SecretsOfAll
<1>5. name \notin overlapped =>
        /\ \A i, j \in VA!RowsOf(name) : i = j
        /\ r = 0 => VA!RowsOf(name) = {}
  BY <1>1, <1>2 DEF VaultInv, RowsAreTrue, StoresApart
<1>6. rows \in Seq(Row)
  BY DEF VaultInv
<1>7. CASE r # 0
  <2>1. PICK row : row = VA!Replaced(rows[r], c)
    OBVIOUS
  <2>2. r \in DOMAIN rows /\ rows[r].name = name /\ rows[r] \in Row
    BY <1>2, <1>6, <1>7 DEF VA!RowsOf
  <2>3. row \in Row /\ row.name = name /\ row.value = value /\ row.active = TRUE
    BY <1>1, <1>2, <1>4, <2>1, <2>2 DEF VA!Replaced, Row
  <2>4. rows' = [rows EXCEPT ![r] = row]
    BY <1>1, <1>7, <2>1 DEF VA!WriteKey
  <2>5. RowGoes(r, row)
    BY <2>2, <2>3, <2>4 DEF RowGoes
  <2>. QED BY <1>1, <1>2, <1>3, <1>5, <1>7, <2>3, <2>5, WrittenIsTrue
<1>8. CASE r = 0
  <2>1. PICK row : row = [name |-> name, value |-> value, secret |-> VA!Secret(Home[c]),
                          active |-> TRUE, used |-> FALSE]
    OBVIOUS
  <2>2. row \in Row /\ row.name = name /\ row.value = value /\ row.active = TRUE
    BY <1>2, <1>4, <2>1 DEF Row
  <2>3. rows' = Append(rows, row)
    BY <1>1, <1>8, <2>1 DEF VA!WriteKey
  <2>4. RowGoes(Len(rows) + 1, row)
    BY <2>2, <2>3 DEF RowGoes
  <2>. QED BY <1>1, <1>2, <1>3, <1>5, <1>8, <2>2, <2>4, WrittenIsTrue
<1>. QED BY <1>7, <1>8

LEMMA WriteDeleteKeeps ==
  ASSUME VaultInv, NEW c \in VaultCallers, VA!WriteDelete(c)
  PROVE  VaultInv'
<1>1. PICK name, r, row :
        name = calls[c].name /\ r = calls[c].row /\ row = [rows[r] EXCEPT !.active = FALSE]
  OBVIOUS
<1>2. name \in Names /\ r \in VA!RowsOf(name)
  BY <1>1 DEF VA!WriteDelete, VaultInv, VaultCall
<1>3. r \in DOMAIN rows /\ rows[r].name = name /\ rows[r] \in Row
  BY <1>2 DEF VA!RowsOf, VaultInv
<1>4. row \in Row /\ row.name = name /\ row.active = FALSE
  BY <1>1, <1>3 DEF Row
<1>5. /\ latest' = [latest EXCEPT ![name] = 0] /\ calls' = [calls EXCEPT ![c] = VA!NoCall]
      /\ UNCHANGED <<starts, stored, overlapped>> /\ rows' = [rows EXCEPT ![r] = row]
  BY <1>1 DEF VA!WriteDelete
<1>6. RowGoes(r, row)
  BY <1>3, <1>4, <1>5 DEF RowGoes
<1>7. name \notin overlapped => VA!RowsOf(name) \subseteq {r}
  BY <1>2 DEF VaultInv, RowsAreTrue
<1>. QED BY <1>2, <1>4, <1>5, <1>6, <1>7, WrittenIsTrue

(* The stamp of a use says nothing of the key. *)
LEMMA StampKeeps ==
  ASSUME VaultInv, NEW c \in VaultCallers, VA!Stamp(c)
  PROVE  VaultInv'
<1>1. PICK r, row, call : /\ r = calls[c].row /\ row = [rows[r] EXCEPT !.used = TRUE]
                          /\ call = [calls[c] EXCEPT !.pc = "answered"]
  OBVIOUS
<1>2. calls[c].pc = "stamping" /\ r \in VA!RowsOf(calls[c].name) /\ VaultCall(calls[c])
  BY <1>1 DEF VA!Stamp, VaultInv, VaultCall
<1>3. r \in DOMAIN rows /\ rows[r] \in Row
  BY <1>2 DEF VA!RowsOf, VaultInv
<1>4. /\ row \in Row /\ row.name = rows[r].name
      /\ row.active = rows[r].active /\ row.value = rows[r].value
  BY <1>1, <1>3 DEF Row
<1>5. /\ calls' = [calls EXCEPT ![c] = call] /\ rows' = [rows EXCEPT ![r] = row]
      /\ UNCHANGED <<starts, stored, latest, overlapped>>
  BY <1>1 DEF VA!Stamp
<1>6. VaultCall(call) /\ call.pc = "answered"
  BY <1>1, <1>2 DEF VaultCall
<1>7. /\ rows' \in Seq(Row) /\ DOMAIN rows' = DOMAIN rows
      /\ \A i \in DOMAIN rows : /\ rows'[i].name = rows[i].name
                                /\ rows'[i].active = rows[i].active
                                /\ rows'[i].value = rows[i].value
  BY <1>3, <1>4, <1>5 DEF VaultInv
<1>8. \A n : VA!RowsOf(n)' = VA!RowsOf(n) /\ VA!ActiveRows(n)' = VA!ActiveRows(n)
  BY <1>7 DEF VA!RowsOf, VA!ActiveRows
<1>9. \A x : VaultCall(x) => VaultCall(x)'
  BY <1>5, <1>8 DEF VaultCall
<1>10. DOMAIN calls' = VaultCallers
       /\ \A d \in VaultCallers : calls'[d] = IF d = c THEN call ELSE calls[d]
  BY <1>5 DEF VaultInv
<1>11. \A d \in VaultCallers : VaultCall(calls[d])'
  <2>1. ASSUME NEW d \in VaultCallers PROVE VaultCall(calls[d])'
    <3>1. PICK x : x = calls'[d]
      OBVIOUS
    <3>2. VaultCall(x)
      BY <1>6, <1>10, <3>1 DEF VaultInv
    <3>. QED BY <1>9, <3>1, <3>2
  <2>. QED BY <2>1
<1>12. ASSUME NEW n \in Names \ overlapped PROVE RowsAreTrue(n)' /\ StoresApart(n)'
  <2>1. RowsAreTrue(n) /\ StoresApart(n)
    BY DEF VaultInv
  <2>2. RowsAreTrue(n)'
    BY <1>5, <1>7, <1>8, <2>1 DEF RowsAreTrue, VA!RowsOf
  <2>3. StoresApart(n)'
    BY <1>6, <1>8, <1>10, <2>1 DEF StoresApart
  <2>. QED BY <2>2, <2>3
<1>. QED BY <1>5, <1>7, <1>10, <1>11, <1>12 DEF VaultInv

LEMMA GetKeyKeeps ==
  ASSUME VaultInv, NEW c \in VaultCallers, NEW n \in Names, VA!GetKey(c, n)
  PROVE  VaultInv'
<1>1. PICK i \in VA!ActiveRows(n) :
        VA!Begin(c, IF VA!ActiveRows(n) # {i} \/ VA!Decrypted(rows[i], c) = VA!Raises
                    THEN [VA!NoCall EXCEPT !.pc = "refused"]
                    ELSE [pc |-> "stamping", name |-> n, row |-> i, value |-> 0,
                          answer |-> VA!Decrypted(rows[i], c), due |-> latest[n]])
  BY DEF VA!GetKey
<1>2. PICK call : VaultCall(call) /\ call.pc # "storing" /\ calls' = [calls EXCEPT ![c] = call]
  <2>1. CASE VA!ActiveRows(n) # {i} \/ VA!Decrypted(rows[i], c) = VA!Raises
    <3>1. PICK call : call = [VA!NoCall EXCEPT !.pc = "refused"]
      OBVIOUS
    <3>2. VaultCall(call) /\ call.pc # "storing"
      BY <3>1 DEF VaultCall, VA!NoCall
    <3>. QED BY <1>1, <2>1, <3>1, <3>2 DEF VA!Begin
  <2>2. CASE ~(VA!ActiveRows(n) # {i} \/ VA!Decrypted(rows[i], c) = VA!Raises)
    <3>1. PICK call : call = [pc |-> "stamping", name |-> n, row |-> i, value |-> 0,
                              answer |-> VA!Decrypted(rows[i], c), due |-> latest[n]]
      OBVIOUS
    <3>2. i \in VA!RowsOf(n) /\ rows[i].active
      BY <1>1 DEF VA!ActiveRows
    <3>3. n \notin overlapped => rows[i].value = latest[n]
      BY <3>2 DEF VaultInv, RowsAreTrue
    <3>4. n \notin overlapped => call.answer = call.due
      BY <2>2, <3>1, <3>3 DEF VA!Decrypted
    <3>5. VaultCall(call) /\ call.pc # "storing"
      BY <3>1, <3>2, <3>4 DEF VaultCall
    <3>. QED BY <1>1, <2>2, <3>1, <3>5 DEF VA!Begin
  <2>. QED BY <2>1, <2>2
<1>3. UNCHANGED <<rows, starts, stored, latest, overlapped>>
  BY DEF VA!GetKey
<1>. QED BY <1>2, <1>3, OneCallChanges

LEMMA DeleteKeyKeeps ==
  ASSUME VaultInv, NEW c \in VaultCallers, NEW n \in Names, VA!DeleteKey(c, n)
  PROVE  VaultInv'
<1>1. PICK i \in VA!ActiveRows(n) :
        VA!Begin(c, IF VA!ActiveRows(n) # {i} THEN [VA!NoCall EXCEPT !.pc = "refused"]
                    ELSE [VA!NoCall EXCEPT !.pc = "deleting", !.name = n, !.row = i])
  BY Zenon DEF VA!DeleteKey
<1>2. PICK call : VaultCall(call) /\ call.pc # "storing" /\ calls' = [calls EXCEPT ![c] = call]
  <2>1. CASE VA!ActiveRows(n) # {i}
    <3>1. PICK call : call = [VA!NoCall EXCEPT !.pc = "refused"]
      OBVIOUS
    <3>2. VaultCall(call) /\ call.pc # "storing"
      BY <3>1 DEF VaultCall, VA!NoCall
    <3>. QED BY <1>1, <2>1, <3>1, <3>2 DEF VA!Begin
  <2>2. CASE VA!ActiveRows(n) = {i}
    <3>1. PICK call : call = [VA!NoCall EXCEPT !.pc = "deleting", !.name = n, !.row = i]
      OBVIOUS
    <3>2. i \in VA!RowsOf(n)
      BY <1>1 DEF VA!ActiveRows
    <3>3. VaultCall(call) /\ call.pc # "storing"
      BY <3>1, <3>2 DEF VaultCall, VA!NoCall
    <3>. QED BY <1>1, <2>2, <3>1, <3>3 DEF VA!Begin
  <2>. QED BY <2>1, <2>2
<1>3. UNCHANGED <<rows, starts, stored, latest, overlapped>>
  BY DEF VA!DeleteKey
<1>. QED BY <1>2, <1>3, OneCallChanges

LEMMA RestartKeeps ==
  ASSUME VaultInv, NEW p \in Workers, VA!Restart(p)
  PROVE  VaultInv'
<1>1. /\ calls' = [c \in VaultCallers |-> IF Home[c] = p THEN VA!NoCall ELSE calls[c]]
      /\ UNCHANGED <<rows, stored, latest, overlapped>> /\ starts' = [starts EXCEPT ![p] = @ + 1]
  BY DEF VA!Restart
<1>2. \A n : VA!RowsOf(n)' = VA!RowsOf(n) /\ VA!ActiveRows(n)' = VA!ActiveRows(n)
  BY <1>1 DEF VA!RowsOf, VA!ActiveRows
<1>3. \A x : VaultCall(x) => VaultCall(x)'
  BY <1>1, <1>2 DEF VaultCall
<1>4. \A c \in VaultCallers : VaultCall(calls[c])'
  <2>1. ASSUME NEW c \in VaultCallers PROVE VaultCall(calls[c])'
    <3>1. PICK x : x = calls'[c]
      OBVIOUS
    <3>2. VaultCall(x)
      BY <1>1, <3>1, NoCallIsIdle DEF VaultInv
    <3>. QED BY <1>3, <3>1, <3>2
  <2>. QED BY <2>1
<1>5. \A c \in VaultCallers : calls'[c].pc = "storing" => calls'[c] = calls[c]
  BY <1>1, NoCallIsIdle
<1>6. ASSUME NEW n \in Names \ overlapped PROVE RowsAreTrue(n)' /\ StoresApart(n)'
  <2>1. RowsAreTrue(n) /\ StoresApart(n)
    BY DEF VaultInv
  <2>2. RowsAreTrue(n)'
    BY <1>1, <1>2, <2>1 DEF RowsAreTrue
  <2>3. StoresApart(n)'
    BY <1>2, <1>5, <2>1 DEF StoresApart
  <2>. QED BY <2>2, <2>3
<1>7. starts' \in [Workers -> Nat]
  BY <1>1 DEF VaultInv
<1>. QED BY <1>1, <1>4, <1>6, <1>7 DEF VaultInv

LEMMA VaultStep ==
  ASSUME VA!VaultAssumption, VaultInv, [VA!VaultNext]_(VA!vars)
  PROVE  VaultInv'
<1>1. CASE UNCHANGED VA!vars
  <2>1. \A n : VA!RowsOf(n)' = VA!RowsOf(n) /\ VA!ActiveRows(n)' = VA!ActiveRows(n)
    BY <1>1 DEF VA!vars, VA!RowsOf, VA!ActiveRows
  <2>2. \A x : VaultCall(x) => VaultCall(x)'
    BY <1>1, <2>1 DEF VA!vars, VaultCall
  <2>3. \A n : (RowsAreTrue(n) => RowsAreTrue(n)') /\ (StoresApart(n) => StoresApart(n)')
    BY <1>1, <2>1 DEF VA!vars, RowsAreTrue, StoresApart
  <2>4. \A c \in VaultCallers : VaultCall(calls[c])'
    <3>1. ASSUME NEW c \in VaultCallers PROVE VaultCall(calls[c])'
      <4>1. PICK x : x = calls[c] /\ x = calls'[c]
        BY <1>1 DEF VA!vars
      <4>. QED BY <2>2, <4>1 DEF VaultInv
    <3>. QED BY <3>1
  <2>. QED BY <1>1, <2>3, <2>4 DEF VaultInv, VA!vars
<1>2. ASSUME NEW c \in VaultCallers, VA!Return(c) PROVE VaultInv'
  BY <1>2, OneCallChanges, NoCallIsIdle DEF VA!Return
<1>. QED BY <1>1, <1>2, WriteKeyKeeps, StampKeeps, WriteDeleteKeeps, StoreKeyKeeps, GetKeyKeeps,
            DeleteKeyKeeps, RestartKeeps DEF VA!VaultNext

LEMMA VaultBegins ==
  ASSUME VA!VaultInit PROVE VaultInv
<1>1. \A n : VA!RowsOf(n) = {}
  BY DEF VA!VaultInit, VA!RowsOf
<1>2. \A c \in VaultCallers : calls[c] = VA!NoCall
  BY DEF VA!VaultInit
<1>3. \A n \in Names : RowsAreTrue(n) /\ StoresApart(n)
  BY <1>1, <1>2, NoCallIsIdle DEF VA!VaultInit, RowsAreTrue, StoresApart
<1>. QED BY <1>2, <1>3, NoCallIsIdle DEF VA!VaultInit, VaultInv

LEMMA VaultIsTrue ==
  ASSUME VaultInv PROVE VA!KeysAreTrue
<1>1. ASSUME NEW n \in Names \ overlapped
      PROVE  /\ \A i, j \in VA!RowsOf(n) : i = j
             /\ \A i \in VA!RowsOf(n) : rows[i].active = (latest[n] # 0)
             /\ \A i \in VA!ActiveRows(n) : rows[i].value = latest[n]
             /\ latest[n] # 0 => VA!ActiveRows(n) # {}
  BY DEF VaultInv, RowsAreTrue, VA!ActiveRows
<1>2. \A c \in VaultCallers : calls[c].pc = "answered" /\ calls[c].name \notin overlapped
                                => calls[c].answer = calls[c].due
  BY DEF VaultInv, VaultCall
<1>. QED BY <1>1, <1>2 DEF VA!KeysAreTrue
(***************************************************************************)
(* All of them                                                             *)
(***************************************************************************)
\* The part that runs keeps its invariant; the others stay as they began.
FreshnessInv ==
  /\ part = "caches" => CacheInv
  /\ part = "vault" => VaultInv

LEMMA OnePartOfTwoRuns ==
  ASSUME [NextAll]_allVars
  PROVE  /\ part' = part
         /\ part = "caches" => [CA!CacheNext]_(CA!cacheVars)
         /\ part = "vault" => [VA!VaultNext]_(VA!vars)
<1>1. CASE UNCHANGED allVars
  BY <1>1 DEF allVars, cacheVars, CA!cacheVars, vaultVars, VA!vars
<1>2. CASE NextAll
  <2>1. part' = part
    BY <1>2
       DEF NextAll, OnlyWebhooks, OnlyApiGateway, OnlyMcpClient, OnlyEventBus, OnlyLeadGeneration,
                OnlyRevenuePipeline, OnlySalesDesk, OnlyCaches, OnlyMetaLearning, OnlyAgentDesk,
                OnlyOutreach, OnlyEconomy, OnlyVault, OnlyReasoning, OnlyMissions
  <2>. QED BY <1>2, <2>1 DEF NextAll
<1>. QED BY <1>1, <1>2

(* What the caches (cache/cache_manager.py, database/cache_manager.py) and the
   vault (vault_service.py) answer is fresh, whatever fails and whoever races, for
   any keys, lifetimes, sizes, callers and processes: nothing is read beyond its
   lifetime, a value that was replaced is read only where an outage or a fill
   under way left it, and a key is the one that was stored last, unless two of
   its stores overlapped.                                                     *)
THEOREM ReadsStayFresh == SpecAll => []ReadsAreFresh
<1>1. InitAll => FreshnessInv
  BY CachesBegin, VaultBegins DEF InitAll, FreshnessInv
<1>2. FreshnessInv /\ [NextAll]_allVars => FreshnessInv'
  <2>. SUFFICES ASSUME FreshnessInv, [NextAll]_allVars PROVE FreshnessInv'
    OBVIOUS
  <2>1. part = "caches" => CacheInv'
    BY BoundsAssumption, OnePartOfTwoRuns, CacheStep DEF FreshnessInv
  <2>2. part = "vault" => VaultInv'
    BY BoundsAssumption, OnePartOfTwoRuns, VaultStep DEF FreshnessInv
  <2>. QED BY <2>1, <2>2, OnePartOfTwoRuns DEF FreshnessInv
<1>3. FreshnessInv => ReadsAreFresh
  BY VaultIsTrue DEF FreshnessInv, CacheInv, ReadsAreFresh
<1>. QED BY <1>1, <1>2, <1>3, PTL DEF SpecAll
=============================================================================
