---------------------------- MODULE EventStoreProofs -----------------------------
(***************************************************************************)
(* Proofs about EventStore, for any writers, aggregates and bounds: the    *)
(* versions of an aggregate have no gap, a version is shared by no more    *)
(* events than there are writers, and a flush that is tried again stores   *)
(* no event twice.                                                         *)
(***************************************************************************)
EXTENDS EventStore, FiniteSetTheorems, FunctionTheorems, TLAPS

\* Types, without the length of the table.
Shape ==
  /\ rows \in Seq(Row)
  /\ obj \in [Writers -> [agg : Aggregates, version : Nat]]
  /\ buffer \in [Writers -> Seq(Buffered)]
  /\ op \in [Writers -> {"idle", "save", "append"}]
  /\ pc \in [Writers -> {"idle", "read", "commit"}]
  /\ pos \in [Writers -> Nat]
  /\ next \in [Writers -> Nat]
  /\ created \in [Writers -> 0 .. MaxEvents]

\* A writer that is appending has an event to append, and it is its own.
OwnInv ==
  \A w \in Writers :
    /\ \A i \in DOMAIN buffer[w] : buffer[w][i].ev[1] = w
    /\ pc[w] # "idle" =>
         \/ op[w] = "save" /\ pos[w] \in DOMAIN buffer[w]
         \/ op[w] = "append" /\ created[w] > 0

\* The versions of an aggregate are 1, 2, ... up to some m, which is then what
\* _get_current_version returns.
GapInv == \A a \in Aggregates : \E m \in Nat : Versions(a) = 1 .. m

\* The version a writer is about to insert continues what it has read.
NextInv ==
  \A w \in Writers : pc[w] = "commit" =>
    next[w] = 1 \/ (next[w] > 1 /\ next[w] - 1 \in Versions(obj[w].agg))

\* No writer has given a version of an aggregate to two events, or is about to.
OnceInv ==
  /\ \A r, s \in DOMAIN rows :
       rows[r].agg = rows[s].agg /\ rows[r].ver = rows[s].ver
         /\ rows[r].ev[1] = rows[s].ev[1] => r = s
  /\ \A w \in Writers : pc[w] = "commit" =>
       \A r \in DOMAIN rows :
         rows[r].agg = obj[w].agg /\ rows[r].ver = next[w] => rows[r].ev[1] # w

IInv == Shape /\ OwnInv /\ GapInv /\ NextInv /\ OnceInv

--------------------------------------------------------------------------------
(* Operators. *)

\* What _get_current_version returns when the versions are 1 .. m.
LEMMA CurrentIsTop ==
  ASSUME NEW a, NEW m \in Nat, Versions(a) = 1 .. m
  PROVE  CurrentVersion(a) = m
<1>1. CASE m = 0
  BY <1>1 DEF CurrentVersion
<1>2. CASE m > 0
  <2>1. m \in Versions(a) /\ \A u \in Versions(a) : u <= m
    BY <1>2
  <2>2. \A v \in Versions(a) : (\A u \in Versions(a) : u <= v) => v = m
    BY <2>1
  <2>. QED BY <2>1, <2>2 DEF CurrentVersion
<1>. QED BY <1>1, <1>2

\* What an insert adds to the table.
LEMMA InsertAdds ==
  ASSUME Shape, NEW w \in Writers, Insert(w)
  PROVE  /\ DOMAIN rows' = DOMAIN rows \cup {Len(rows) + 1}
         /\ Len(rows) + 1 \notin DOMAIN rows
         /\ \A r \in DOMAIN rows : rows'[r] = rows[r]
         /\ rows'[Len(rows) + 1].agg = obj[w].agg
         /\ rows'[Len(rows) + 1].ver = next[w]
         /\ rows'[Len(rows) + 1].ev = Appending(w)
<1>1. /\ DOMAIN rows = 1 .. Len(rows) /\ Len(rows) \in Nat
      /\ DOMAIN rows' = 1 .. (Len(rows) + 1)
      /\ \A r \in DOMAIN rows : rows'[r] = rows[r]
      /\ rows'[Len(rows) + 1] =
           [agg |-> obj[w].agg, ver |-> next[w], ev |-> Appending(w)]
  BY DEF Shape, Insert
<1>2. \A n \in Nat : 1 .. (n + 1) = 1 .. n \cup {n + 1} /\ n + 1 \notin 1 .. n
  OBVIOUS
<1>. QED BY <1>1, <1>2

\* The event a writer appends is one of its own.
LEMMA AppendingOwn ==
  ASSUME Shape, OwnInv, NEW w \in Writers, pc[w] # "idle"
  PROVE  Appending(w) \in Events /\ Appending(w)[1] = w
<1>1. CASE op[w] = "save"
  <2>1. pos[w] \in DOMAIN buffer[w] /\ buffer[w] \in Seq(Buffered)
    BY <1>1 DEF OwnInv, Shape
  <2>2. buffer[w][pos[w]] \in Buffered
    BY <2>1
  <2>. QED BY <1>1, <2>1, <2>2 DEF OwnInv, Appending, Buffered
<1>2. CASE op[w] # "save"
  <2>1. created[w] \in 1 .. MaxEvents
    BY <1>2, EventStoreAssumption DEF OwnInv, Shape
  <2>. QED BY <1>2, <2>1 DEF Appending, Events
<1>. QED BY <1>1, <1>2

\* An insert adds one version to its aggregate and leaves the others.
LEMMA InsertVersions ==
  ASSUME Shape, NEW w \in Writers, Insert(w), NEW a
  PROVE  Versions(a)' = IF a = obj[w].agg THEN Versions(a) \cup {next[w]} ELSE Versions(a)
<1>. DEFINE k == Len(rows) + 1
<1>1. /\ DOMAIN rows' = DOMAIN rows \cup {k} /\ k \notin DOMAIN rows
      /\ \A r \in DOMAIN rows : rows'[r] = rows[r]
      /\ rows'[k].agg = obj[w].agg /\ rows'[k].ver = next[w]
  BY InsertAdds
<1>2. Versions(a)' = {rows'[r].ver : r \in {x \in DOMAIN rows' : rows'[x].agg = a}}
  BY DEF Versions
<1>3. CASE a = obj[w].agg
  <2>1. {x \in DOMAIN rows' : rows'[x].agg = a}
          = {x \in DOMAIN rows : rows[x].agg = a} \cup {k}
    BY <1>1, <1>3
  <2>. QED BY <1>1, <1>2, <1>3, <2>1 DEF Versions
<1>4. CASE a # obj[w].agg
  <2>1. {x \in DOMAIN rows' : rows'[x].agg = a} = {x \in DOMAIN rows : rows[x].agg = a}
    BY <1>1, <1>4
  <2>. QED BY <1>1, <1>2, <1>4, <2>1 DEF Versions
<1>. QED BY <1>3, <1>4

--------------------------------------------------------------------------------
(* The invariant. *)

LEMMA InitIInv == Init => IInv
<1>. SUFFICES ASSUME Init PROVE IInv
  OBVIOUS
<1>1. Shape /\ OwnInv
  BY EventStoreAssumption DEF Init, Shape, OwnInv
<1>2. DOMAIN rows = {}
  BY DEF Init
<1>3. GapInv
  <2>1. \A a \in Aggregates : Versions(a) = 1 .. 0
    BY <1>2 DEF Versions
  <2>. QED BY <2>1 DEF GapInv
<1>. QED BY <1>1, <1>2, <1>3 DEF IInv, NextInv, OnceInv, Init

\* A step that stores nothing and brings no writer to its insert.
Calm ==
  /\ Shape' /\ OwnInv'
  /\ UNCHANGED rows
  /\ \A w \in Writers : pc'[w] = "commit" =>
       pc[w] = "commit" /\ next'[w] = next[w] /\ obj'[w] = obj[w]

LEMMA CalmStep ==
  ASSUME IInv, Calm
  PROVE  IInv'
<1>1. \A a : Versions(a)' = Versions(a)
  BY DEF Calm, Versions
<1>2. GapInv'
  BY <1>1 DEF IInv, GapInv
<1>3. NextInv'
  BY <1>1 DEF IInv, Calm, NextInv
<1>4. OnceInv'
  BY DEF IInv, Calm, OnceInv
<1>. QED BY <1>2, <1>3, <1>4 DEF IInv, Calm

\* Everything a writer does outside append, and append up to reading the version.
LEMMA OutsideIsCalm ==
  ASSUME IInv, NEW w \in Writers,
         \/ \E a \in Aggregates : NewAggregate(w, a)
         \/ LoadFromHistory(w) \/ Apply(w) \/ Save(w) \/ AppendDirectly(w)
  PROVE  Calm
<1>. USE DEF IInv, Shape, OwnInv
<1>1. ASSUME NEW a \in Aggregates, NewAggregate(w, a) PROVE Calm
  BY <1>1 DEF NewAggregate, Calm
<1>2. CASE LoadFromHistory(w)
  <2>1. CurrentVersion(obj[w].agg) \in Nat
    <3>1. PICK m \in Nat : Versions(obj[w].agg) = 1 .. m
      BY DEF GapInv
    <3>. QED BY <3>1, CurrentIsTop
  <2>2. PICK v \in Nat : obj' = [obj EXCEPT ![w].version = v]
    <3>1. obj[w].version \in Nat
      OBVIOUS
    <3>2. PICK v : v = IF Versions(obj[w].agg) = {} THEN obj[w].version
                       ELSE CurrentVersion(obj[w].agg)
      OBVIOUS
    <3>3. v \in Nat
      BY ONLY <2>1, <3>1, <3>2
    <3>4. obj' = [obj EXCEPT ![w].version = v]
      BY ONLY <1>2, <3>2 DEF LoadFromHistory
    <3>. QED BY ONLY <3>3, <3>4
  <2>3. obj' \in [Writers -> [agg : Aggregates, version : Nat]]
    BY <2>2
  <2>4. /\ buffer' = [buffer EXCEPT ![w] = << >>] /\ pc[w] = "idle"
        /\ UNCHANGED <<rows, op, pc, pos, next, created>>
    BY <1>2 DEF LoadFromHistory
  <2>5. \A o \in Writers : pc[o] = "commit" => obj'[o] = obj[o]
    BY <2>2, <2>4
  <2>. QED BY <2>3, <2>4, <2>5 DEF Calm
<1>3. CASE Apply(w)
  <2>. DEFINE e == [ev |-> <<w, created[w] + 1>>, ver |-> obj[w].version + 1]
  <2>1. e \in Buffered /\ e.ev[1] = w /\ created[w] + 1 \in 0 .. MaxEvents
    BY <1>3, EventStoreAssumption DEF Apply, Buffered, Events
  <2>2. /\ buffer' = [buffer EXCEPT ![w] = Append(buffer[w], e)]
        /\ created' = [created EXCEPT ![w] = @ + 1]
        /\ obj' = [obj EXCEPT ![w].version = @ + 1]
        /\ pc[w] = "idle" /\ UNCHANGED <<rows, op, pc, pos, next>>
    BY <1>3 DEF Apply
  <2>3. Append(buffer[w], e) \in Seq(Buffered)
    BY <2>1
  <2>4. \A i \in DOMAIN Append(buffer[w], e) : Append(buffer[w], e)[i].ev[1] = w
    BY <2>1
  <2>5. Shape'
    <3>1. obj' \in [Writers -> [agg : Aggregates, version : Nat]]
      <4>1. obj[w].version + 1 \in Nat
        OBVIOUS
      <4>2. obj' = [obj EXCEPT ![w].version = obj[w].version + 1]
        BY <2>2
      <4>. HIDE DEF Shape, IInv, OwnInv
      <4>. QED BY <4>1, <4>2 DEF Shape, IInv
    <3>2. buffer' \in [Writers -> Seq(Buffered)]
      BY <2>2, <2>3
    <3>3. created' \in [Writers -> 0 .. MaxEvents]
      BY <2>1, <2>2
    <3>. QED BY <2>2, <3>1, <3>2, <3>3
  <2>6. OwnInv'
    BY <2>2, <2>4
  <2>. QED BY <2>2, <2>5, <2>6 DEF Calm
<1>4. CASE Save(w)
  <2>1. 1 \in DOMAIN buffer[w]
    BY <1>4 DEF Save
  <2>. QED BY <1>4, <2>1 DEF Save, Calm, object
<1>5. CASE AppendDirectly(w)
  BY <1>5, EventStoreAssumption DEF AppendDirectly, Calm
<1>. QED BY <1>1, <1>2, <1>3, <1>4, <1>5

\* The version is read: what is to be inserted continues it, and nobody has
\* inserted it yet.
LEMMA ReadStep ==
  ASSUME IInv, NEW w \in Writers, ReadVersion(w)
  PROVE  IInv'
<1>. DEFINE a == obj[w].agg
<1>1. a \in Aggregates
  BY DEF IInv, Shape
<1>2. PICK m \in Nat : Versions(a) = 1 .. m
  BY <1>1 DEF IInv, GapInv
<1>3. CurrentVersion(a) = m
  BY <1>2, CurrentIsTop
<1>4. UNCHANGED <<rows, obj, buffer, pos, created>>
  BY DEF ReadVersion, object
<1>5. CASE next' = next /\ pc' = [pc EXCEPT ![w] = "idle"] /\ op' = [op EXCEPT ![w] = "idle"]
  <2>1. Calm
    BY <1>4, <1>5 DEF Calm, IInv, Shape, OwnInv
  <2>. QED BY <2>1, CalmStep
<1>6. CASE /\ next' = [next EXCEPT ![w] = m + 1]
           /\ pc' = [pc EXCEPT ![w] = "commit"] /\ op' = op /\ pc[w] = "read"
  <2>1. Shape' /\ OwnInv'
    BY <1>4, <1>6 DEF IInv, Shape, OwnInv
  <2>2. \A b : Versions(b)' = Versions(b)
    BY <1>4 DEF Versions
  <2>3. GapInv'
    BY <2>2 DEF IInv, GapInv
  <2>4. NextInv'
    BY <1>2, <1>4, <1>6, <2>2 DEF IInv, Shape, NextInv
  <2>5. \A r \in DOMAIN rows : rows[r].agg = a => rows[r].ver \in 1 .. m
    BY <1>2 DEF Versions
  <2>6. \A r \in DOMAIN rows : ~ (rows[r].agg = a /\ rows[r].ver = m + 1)
    BY <2>5
  <2>7. OnceInv'
    BY <1>4, <1>6, <2>6 DEF IInv, Shape, OnceInv
  <2>. QED BY <2>1, <2>3, <2>4, <2>7 DEF IInv
<1>. QED BY <1>3, <1>5, <1>6 DEF ReadVersion

\* A row is inserted and its writer leaves the insert, by a commit or with an
\* exception that comes after it.
LEMMA InsertStep ==
  ASSUME IInv, Shape', OwnInv', NEW w \in Writers, pc[w] = "commit", Insert(w),
         pc'[w] # "commit", UNCHANGED <<obj, next>>,
         \A v \in Writers \ {w} : pc'[v] = pc[v]
  PROVE  IInv'
<1>. DEFINE a == obj[w].agg
            k == Len(rows) + 1
<1>1. a \in Aggregates /\ next[w] \in Nat
  BY DEF IInv, Shape
<1>2. \A b : Versions(b)' = IF b = a THEN Versions(b) \cup {next[w]} ELSE Versions(b)
  BY InsertVersions DEF IInv
<1>3. PICK m \in Nat : Versions(a) = 1 .. m
  BY <1>1 DEF IInv, GapInv
<1>4. next[w] \in 1 .. m + 1
  BY <1>1, <1>3 DEF IInv, NextInv
<1>5. GapInv'
  <2>1. Versions(a)' = 1 .. m \cup {next[w]}
    BY <1>2, <1>3
  <2>2. \E j \in Nat : Versions(a)' = 1 .. j
    <3>1. CASE next[w] = m + 1
      <4>1. 1 .. m \cup {m + 1} = 1 .. m + 1
        OBVIOUS
      <4>. QED BY <2>1, <3>1, <4>1
    <3>2. CASE next[w] \in 1 .. m
      BY <2>1, <3>2
    <3>. QED BY <1>4, <3>1, <3>2
  <2>3. \A b \in Aggregates \ {a} : \E j \in Nat : Versions(b)' = 1 .. j
    BY <1>2 DEF IInv, GapInv
  <2>. QED BY <2>2, <2>3 DEF GapInv
<1>6. NextInv'
  BY <1>2 DEF IInv, NextInv
<1>7. OnceInv'
  <2>1. Appending(w)[1] = w
    BY AppendingOwn DEF IInv
  <2>2. /\ DOMAIN rows' = DOMAIN rows \cup {k} /\ k \notin DOMAIN rows
        /\ \A r \in DOMAIN rows : rows'[r] = rows[r]
        /\ rows'[k].agg = a /\ rows'[k].ver = next[w] /\ rows'[k].ev[1] = w
    BY <2>1, InsertAdds DEF IInv
  <2>3. \A r \in DOMAIN rows :
          rows[r].agg = a /\ rows[r].ver = next[w] => rows[r].ev[1] # w
    BY DEF IInv, OnceInv
  <2>4. ASSUME NEW r \in DOMAIN rows', NEW s \in DOMAIN rows',
               rows'[r].agg = rows'[s].agg, rows'[r].ver = rows'[s].ver,
               rows'[r].ev[1] = rows'[s].ev[1]
        PROVE  r = s
    <3>1. CASE r = k \/ s = k
      BY <2>2, <2>3, <2>4, <3>1
    <3>2. CASE r \in DOMAIN rows /\ s \in DOMAIN rows
      BY <2>2, <2>4, <3>2 DEF IInv, OnceInv
    <3>. QED BY <2>2, <3>1, <3>2
  <2>5. ASSUME NEW v \in Writers, pc'[v] = "commit", NEW r \in DOMAIN rows',
               rows'[r].agg = obj'[v].agg, rows'[r].ver = next'[v]
        PROVE  rows'[r].ev[1] # v
    <3>1. v # w /\ pc[v] = "commit"
      BY <2>5
    <3>2. CASE r = k
      BY <2>2, <3>1, <3>2
    <3>3. CASE r \in DOMAIN rows
      BY <2>2, <2>5, <3>1, <3>3 DEF IInv, OnceInv
    <3>. QED BY <2>2, <3>2, <3>3
  <2>. QED BY <2>4, <2>5 DEF OnceInv
<1>. QED BY <1>5, <1>6, <1>7 DEF IInv
LEMMA NextStep ==
  ASSUME IInv, [Next]_vars
  PROVE  IInv'
<1>1. CASE UNCHANGED vars
  <2>1. Calm
    BY <1>1 DEF Calm, IInv, Shape, OwnInv, vars
  <2>. QED BY <2>1, CalmStep
<1>2. ASSUME NEW w \in Writers,
             \/ \E a \in Aggregates : NewAggregate(w, a)
             \/ LoadFromHistory(w) \/ Apply(w) \/ Save(w) \/ AppendDirectly(w)
      PROVE  IInv'
  BY <1>2, OutsideIsCalm, CalmStep
<1>3. ASSUME NEW w \in Writers, ReadVersion(w) PROVE IInv'
  BY <1>3, ReadStep
<1>4. ASSUME NEW w \in Writers, Insert(w), Appending(w) \in Events
      PROVE  rows' \in Seq(Row)
  <2>1. [agg |-> obj[w].agg, ver |-> next[w], ev |-> Appending(w)] \in Row
    BY <1>4 DEF IInv, Shape, Row
  <2>. QED BY <1>4, <2>1 DEF IInv, Shape, Insert
<1>5. ASSUME NEW w \in Writers, Commit(w) PROVE IInv'
  <2>1. pc[w] = "commit" /\ Insert(w) /\ UNCHANGED <<obj, next, created>>
    BY <1>5 DEF Commit
  <2>2. rows' \in Seq(Row)
    BY <1>4, <2>1, AppendingOwn DEF IInv
  <2>3. Shape' /\ OwnInv'
    <3>. USE DEF IInv, Shape, OwnInv
    <3>1. CASE /\ op[w] = "save" /\ pos[w] < Len(buffer[w])
               /\ pos' = [pos EXCEPT ![w] = @ + 1]
               /\ pc' = [pc EXCEPT ![w] = "read"] /\ UNCHANGED <<op, buffer>>
      <4>1. pos[w] + 1 \in DOMAIN buffer[w]
        BY <2>1, <3>1
      <4>. QED BY <2>1, <2>2, <3>1, <4>1
    <3>2. CASE /\ op[w] = "save" /\ buffer' = [buffer EXCEPT ![w] = << >>]
               /\ op' = [op EXCEPT ![w] = "idle"] /\ pc' = [pc EXCEPT ![w] = "idle"]
               /\ UNCHANGED pos
      BY <2>1, <2>2, <3>2
    <3>3. CASE /\ op[w] = "append" /\ UNCHANGED <<pos, buffer>>
               /\ op' = [op EXCEPT ![w] = "idle"] /\ pc' = [pc EXCEPT ![w] = "idle"]
      BY <2>1, <2>2, <3>3
    <3>. QED BY <1>5, <3>1, <3>2, <3>3 DEF Commit
  <2>4. pc'[w] # "commit" /\ \A v \in Writers \ {w} : pc'[v] = pc[v]
    BY <1>5 DEF Commit, IInv, Shape
  <2>. QED BY <2>1, <2>3, <2>4, InsertStep
<1>6. ASSUME NEW w \in Writers, AppendRaises(w) PROVE IInv'
  <2>1. /\ pc[w] # "idle" /\ UNCHANGED <<obj, buffer, created, pos, next>>
        /\ op' = [op EXCEPT ![w] = "idle"] /\ pc' = [pc EXCEPT ![w] = "idle"]
    BY <1>6 DEF AppendRaises, object
  <2>2. CASE UNCHANGED rows
    <3>1. Calm
      BY <2>1, <2>2 DEF Calm, IInv, Shape, OwnInv
    <3>. QED BY <3>1, CalmStep
  <2>3. CASE pc[w] = "commit" /\ Insert(w)
    <3>1. rows' \in Seq(Row)
      BY <1>4, <2>3, AppendingOwn DEF IInv
    <3>2. Shape' /\ OwnInv'
      BY <2>1, <3>1 DEF IInv, Shape, OwnInv
    <3>3. pc'[w] # "commit" /\ \A v \in Writers \ {w} : pc'[v] = pc[v]
      BY <2>1 DEF IInv, Shape
    <3>. QED BY <2>1, <2>3, <3>2, <3>3, InsertStep
  <2>. QED BY <1>6, <2>2, <2>3 DEF AppendRaises
<1>. QED BY <1>1, <1>2, <1>3, <1>5, <1>6 DEF Next

THEOREM Invariance == Spec => []IInv
BY InitIInv, NextStep, PTL DEF Spec

--------------------------------------------------------------------------------
(* What follows for a reader of the table. *)

\* Whatever appends overlap and fail, the versions of an aggregate are 1, 2, ...
\* without a gap, so that a replay from version 1 misses nothing.
THEOREM VersionsLeaveNoGap == Spec => []NoVersionGaps
<1>1. IInv => NoVersionGaps
  <2>. SUFFICES ASSUME IInv, NEW a \in Aggregates
                PROVE  Versions(a) = 1 .. CurrentVersion(a)
    BY DEF NoVersionGaps
  <2>1. PICK m \in Nat : Versions(a) = 1 .. m
    BY DEF IInv, GapInv
  <2>. QED BY <2>1, CurrentIsTop
<1>. QED BY <1>1, Invariance, PTL

\* A version is shared by no more events than there are writers: the events that
\* share it have different writers.
THEOREM DuplicatesAreBounded == Spec => []DuplicatesBoundedByWriters
<1>1. IInv => DuplicatesBoundedByWriters
  <2>. SUFFICES ASSUME IInv, NEW a \in Aggregates, NEW v \in Versions(a)
                PROVE  Cardinality({r \in DOMAIN rows : rows[r].agg = a /\ rows[r].ver = v})
                         <= Cardinality(Writers)
    BY DEF DuplicatesBoundedByWriters
  <2>. DEFINE S == {r \in DOMAIN rows : rows[r].agg = a /\ rows[r].ver = v}
              writer == [r \in S |-> rows[r].ev[1]]
  <2>1. \A r \in DOMAIN rows : rows[r].ev[1] \in Writers
    <3>1. \A r \in DOMAIN rows : rows[r] \in Row
      BY DEF IInv, Shape
    <3>. QED BY <3>1 DEF Row, Events
  <2>2. writer \in [S -> Writers]
    BY <2>1
  <2>3. \A r, s \in S : writer[r] = writer[s] => r = s
    BY DEF IInv, OnceInv
  <2>4. writer \in Injection(S, Writers)
    BY <2>2, <2>3, Fun_IsInj
  <2>. QED BY <2>4, FS_Injection, EventStoreAssumption
<1>. QED BY <1>1, Invariance, PTL

--------------------------------------------------------------------------------
(* What a flush has stored of its buffer.                                      *)

\* The events of a writer are numbered as it creates them and buffered once; one
\* that append is called with directly is the latest.
Numbered(w) ==
  \A i \in DOMAIN buffer[w] :
    /\ buffer[w][i].ev[2] <= created[w]
    /\ pc[w] # "idle" /\ op[w] = "append" => buffer[w][i].ev[2] < created[w]
    /\ \A j \in DOMAIN buffer[w] : buffer[w][i].ev = buffer[w][j].ev => i = j

RowsNumbered == \A r \in DOMAIN rows : rows[r].ev[2] <= created[rows[r].ev[1]]

\* A buffered event with an expected version is stored under the version it has in
\* the buffer, and in the aggregate the buffer is for.
Expects(w) ==
  pc[w] = "commit" /\ op[w] = "save" /\ buffer[w][pos[w]].ver > 1 =>
    next[w] = buffer[w][pos[w]].ver

Stored(w) ==
  \A i \in DOMAIN buffer[w] : \A r \in DOMAIN rows :
    buffer[w][i].ver > 1 /\ rows[r].ev = buffer[w][i].ev =>
      rows[r].agg = obj[w].agg /\ rows[r].ver = buffer[w][i].ver

StoredInv ==
  RowsNumbered /\ \A w \in Writers : Numbered(w) /\ Expects(w) /\ Stored(w)

\* A writer that does nothing keeps what concerns it, whatever another one creates.
LEMMA OthersKeep ==
  ASSUME NEW w \in Writers, Numbered(w), Expects(w), Stored(w), UNCHANGED rows,
         obj'[w] = obj[w], buffer'[w] = buffer[w], op'[w] = op[w], pc'[w] = pc[w],
         pos'[w] = pos[w], next'[w] = next[w], created'[w] = created[w]
  PROVE  Numbered(w)' /\ Expects(w)' /\ Stored(w)'
  BY DEF Numbered, Expects, Stored

\* Only w moves.
Moves(w) ==
  \A o \in Writers \ {w} :
    /\ obj'[o] = obj[o] /\ buffer'[o] = buffer[o] /\ op'[o] = op[o] /\ pc'[o] = pc[o]
    /\ pos'[o] = pos[o] /\ next'[o] = next[o] /\ created'[o] = created[o]

\* What the rows and the buffers hold are events.
LEMMA EventsAre ==
  ASSUME Shape
  PROVE  /\ \A r \in DOMAIN rows : rows[r] \in Row /\ rows[r].ev \in Events
         /\ \A w \in Writers : \A i \in DOMAIN buffer[w] :
              buffer[w][i] \in Buffered /\ buffer[w][i].ev \in Events
         /\ \A e \in Events : e[1] \in Writers /\ e[2] \in Nat /\ e = <<e[1], e[2]>>
<1>1. \A r \in DOMAIN rows : rows[r] \in Row
  BY DEF Shape
<1>2. \A w \in Writers : \A i \in DOMAIN buffer[w] : buffer[w][i] \in Buffered
  BY DEF Shape
<1>. QED BY <1>1, <1>2, EventStoreAssumption DEF Row, Buffered, Events

\* Outside append the rows stay; what a writer creates is not among them.
LEMMA OutsideStores ==
  ASSUME IInv, StoredInv, NEW w \in Writers,
         \/ \E a \in Aggregates : NewAggregate(w, a)
         \/ LoadFromHistory(w) \/ Apply(w) \/ Save(w) \/ AppendDirectly(w)
  PROVE  StoredInv'
<1>1. UNCHANGED rows /\ Moves(w) /\ pc[w] = "idle"
  BY DEF NewAggregate, LoadFromHistory, Apply, Save, AppendDirectly, object, Moves, IInv,
     Shape
<1>n. \A o \in Writers : created[o] \in Nat
  BY EventStoreAssumption DEF IInv, Shape
<1>2. created'[w] \in {created[w], created[w] + 1}
  <2>1. created' = created \/ created' = [created EXCEPT ![w] = @ + 1]
    BY DEF NewAggregate, LoadFromHistory, Apply, Save, AppendDirectly, object
  <2>. QED BY <2>1 DEF IInv, Shape
<1>3. \A o \in Writers : created[o] <= created'[o]
  BY <1>1, <1>n, <1>2 DEF Moves
<1>4. RowsNumbered'
  BY <1>1, <1>n, <1>2, <1>3, EventsAre DEF StoredInv, RowsNumbered, IInv, Moves
<1>5. ASSUME NEW o \in Writers \ {w}
      PROVE  Numbered(o)' /\ Expects(o)' /\ Stored(o)'
  BY <1>1, OthersKeep DEF StoredInv, Moves
<1>6. Numbered(w)' /\ Expects(w)' /\ Stored(w)'
  <2>1. CASE (\E a \in Aggregates : NewAggregate(w, a)) \/ LoadFromHistory(w)
    <3>1. buffer'[w] = << >> /\ pc'[w] = "idle"
      BY <2>1 DEF NewAggregate, LoadFromHistory, IInv, Shape
    <3>. QED BY <3>1 DEF Numbered, Expects, Stored
  <2>2. CASE Apply(w)
    <3>. DEFINE e == [ev |-> <<w, created[w] + 1>>, ver |-> obj[w].version + 1]
                b == buffer[w]
    <3>1. /\ buffer'[w] = Append(b, e) /\ pc'[w] = "idle" /\ created'[w] = created[w] + 1
          /\ obj'[w].agg = obj[w].agg
      BY <2>2, EventStoreAssumption DEF Apply, IInv, Shape
    <3>2. e \in Buffered /\ b \in Seq(Buffered)
      <4>1. created[w] + 1 \in 1 .. MaxEvents /\ obj[w].version + 1 \in Nat \ {0}
        BY <1>n, <2>2, EventStoreAssumption DEF Apply, IInv, Shape
      <4>. QED BY <4>1 DEF Buffered, Events, IInv, Shape
    <3>3. /\ DOMAIN buffer'[w] = DOMAIN b \cup {Len(b) + 1} /\ Len(b) + 1 \notin DOMAIN b
          /\ buffer'[w][Len(b) + 1] = e /\ \A i \in DOMAIN b : buffer'[w][i] = b[i]
      BY <3>1, <3>2
    <3>4. \A i \in DOMAIN b : b[i].ev # e.ev /\ b[i].ev[2] \in Nat /\ b[i].ev[2] <= created[w]
      BY <1>n, EventsAre DEF StoredInv, Numbered, IInv
    <3>5. \A r \in DOMAIN rows : rows[r].ev # e.ev
      <4>1. \A r \in DOMAIN rows : rows[r].ev[1] = w => rows[r].ev[2] <= created[w]
        BY DEF StoredInv, RowsNumbered
      <4>. QED BY <1>n, <4>1
    <3>6. Numbered(w)'
      BY <1>n, <3>1, <3>3, <3>4 DEF StoredInv, Numbered
    <3>7. Stored(w)'
      BY <1>1, <3>1, <3>3, <3>5 DEF StoredInv, Stored
    <3>. QED BY <3>1, <3>6, <3>7 DEF Expects
  <2>3. CASE Save(w)
    <3>1. /\ op'[w] = "save" /\ pc'[w] = "read" /\ buffer'[w] = buffer[w]
          /\ created'[w] = created[w] /\ obj'[w] = obj[w]
      BY <2>3 DEF Save, object, IInv, Shape
    <3>. QED BY <1>1, <3>1 DEF StoredInv, Numbered, Expects, Stored
  <2>4. CASE AppendDirectly(w)
    <3>1. /\ op'[w] = "append" /\ pc'[w] = "read" /\ buffer'[w] = buffer[w]
          /\ created'[w] = created[w] + 1 /\ obj'[w] = obj[w]
      BY <2>4, EventStoreAssumption DEF AppendDirectly, IInv, Shape
    <3>2. \A i \in DOMAIN buffer[w] : buffer[w][i].ev[2] \in Nat
      BY EventsAre DEF IInv
    <3>. QED BY <1>1, <1>n, <3>1, <3>2 DEF StoredInv, Numbered, Expects, Stored
  <2>. QED BY <2>1, <2>2, <2>3, <2>4
<1>. QED BY <1>4, <1>5, <1>6 DEF StoredInv

\* A check that passes makes the next version the buffered one.
LEMMA ReadStores ==
  ASSUME IInv, StoredInv, NEW w \in Writers, ReadVersion(w)
  PROVE  StoredInv'
<1>1. UNCHANGED <<rows, obj, buffer, pos, created>> /\ pc[w] = "read"
  BY DEF ReadVersion, object
<1>2. Moves(w)
  BY <1>1 DEF ReadVersion, Moves, IInv, Shape
<1>3. RowsNumbered'
  BY <1>1 DEF StoredInv, RowsNumbered
<1>4. ASSUME NEW o \in Writers \ {w}
      PROVE  Numbered(o)' /\ Expects(o)' /\ Stored(o)'
  BY <1>1, <1>2, OthersKeep DEF StoredInv, Moves
<1>5. Numbered(w)' /\ Stored(w)'
  BY <1>1 DEF ReadVersion, StoredInv, Numbered, Stored, IInv, Shape
<1>6. Expects(w)'
  <2>1. SUFFICES ASSUME pc'[w] = "commit", op'[w] = "save", buffer[w][pos[w]].ver > 1
                 PROVE  next'[w] = buffer[w][pos[w]].ver
    BY <1>1 DEF Expects
  <2>2. PICK c : Expected(w) \in {None, c} /\ next' = [next EXCEPT ![w] = c + 1]
                   /\ op' = op
    BY <2>1 DEF ReadVersion, IInv, Shape
  <2>3. op[w] = "save" /\ pos[w] \in DOMAIN buffer[w]
    BY <1>1, <2>1, <2>2 DEF IInv, OwnInv
  <2>4. buffer[w][pos[w]].ver \in Nat
    BY <2>3, EventsAre DEF IInv, Buffered
  <2>5. c = buffer[w][pos[w]].ver - 1
    BY <2>1, <2>2, <2>3, <2>4 DEF Expected, None
  <2>. QED BY <2>2, <2>4, <2>5 DEF IInv, Shape
<1>. QED BY <1>3, <1>4, <1>5, <1>6 DEF StoredInv

\* The row that is inserted is the latest event of its writer, or the buffered one
\* under its own version.
LEMMA InsertStores ==
  ASSUME IInv, StoredInv, NEW w \in Writers, pc[w] = "commit", Insert(w), Moves(w),
         UNCHANGED <<obj, next, created>>, pc'[w] # "commit",
         buffer'[w] \in {buffer[w], << >>}, pc'[w] # "idle" => op'[w] = "save"
  PROVE  StoredInv'
<1>. DEFINE k == Len(rows) + 1
<1>1. /\ DOMAIN rows' = DOMAIN rows \cup {k} /\ k \notin DOMAIN rows
      /\ \A r \in DOMAIN rows : rows'[r] = rows[r]
      /\ rows'[k].agg = obj[w].agg /\ rows'[k].ver = next[w] /\ rows'[k].ev = Appending(w)
  BY InsertAdds DEF IInv
<1>2. Appending(w) \in Events /\ Appending(w)[1] = w
  BY AppendingOwn DEF IInv
<1>3. \/ op[w] = "save" /\ pos[w] \in DOMAIN buffer[w]
           /\ Appending(w) = buffer[w][pos[w]].ev
      \/ op[w] = "append" /\ Appending(w) = <<w, created[w]>>
  BY DEF IInv, OwnInv, Appending
<1>4. created[w] \in Nat
  BY EventStoreAssumption DEF IInv, Shape
<1>5. RowsNumbered'
  <2>1. Appending(w)[2] <= created[w]
    BY <1>3, <1>4 DEF StoredInv, Numbered
  <2>. QED BY <1>1, <1>2, <2>1 DEF StoredInv, RowsNumbered
<1>6. ASSUME NEW o \in Writers \ {w}
      PROVE  Numbered(o)' /\ Expects(o)' /\ Stored(o)'
  <2>1. Numbered(o)' /\ Expects(o)'
    BY DEF StoredInv, Moves, Numbered, Expects
  <2>2. \A i \in DOMAIN buffer[o] : buffer[o][i].ev # Appending(w)
    BY <1>2 DEF IInv, OwnInv
  <2>3. Stored(o)'
    BY <1>1, <2>2 DEF StoredInv, Moves, Stored
  <2>. QED BY <2>1, <2>3
<1>7. Numbered(w)' /\ Expects(w)'
  BY DEF StoredInv, Numbered, Expects
<1>8. Stored(w)'
  <2>1. CASE buffer'[w] = << >>
    BY <2>1 DEF Stored
  <2>2. CASE buffer'[w] = buffer[w]
    <3>1. ASSUME NEW i \in DOMAIN buffer[w], buffer[w][i].ev = Appending(w),
                 buffer[w][i].ver > 1
          PROVE  next[w] = buffer[w][i].ver
      <4>1. CASE op[w] = "save"
        <5>1. i = pos[w]
          BY <1>3, <3>1, <4>1 DEF StoredInv, Numbered
        <5>. QED BY <3>1, <4>1, <5>1 DEF StoredInv, Expects
      <4>2. CASE op[w] = "append"
        <5>1. buffer[w][i].ev[2] < created[w] /\ buffer[w][i].ev[2] = created[w]
          BY <1>3, <3>1, <4>2 DEF StoredInv, Numbered
        <5>. QED BY <1>4, <5>1
      <4>. QED BY <1>3, <4>1, <4>2
    <3>. QED BY <1>1, <2>2, <3>1 DEF StoredInv, Stored
  <2>. QED BY <2>1, <2>2
<1>. QED BY <1>5, <1>6, <1>7, <1>8 DEF StoredInv

LEMMA StoredStep ==
  ASSUME IInv, StoredInv, [Next]_vars
  PROVE  StoredInv'
<1>1. CASE UNCHANGED vars
  BY <1>1 DEF vars, StoredInv, RowsNumbered, Numbered, Expects, Stored
<1>2. ASSUME NEW w \in Writers,
             \/ \E a \in Aggregates : NewAggregate(w, a)
             \/ LoadFromHistory(w) \/ Apply(w) \/ Save(w) \/ AppendDirectly(w)
      PROVE  StoredInv'
  BY <1>2, OutsideStores
<1>3. ASSUME NEW w \in Writers, ReadVersion(w) PROVE StoredInv'
  BY <1>3, ReadStores
<1>4. ASSUME NEW w \in Writers, Commit(w) PROVE StoredInv'
  <2>1. Moves(w)
    BY <1>4 DEF Commit, Moves, IInv, Shape
  <2>2. /\ pc[w] = "commit" /\ Insert(w) /\ UNCHANGED <<obj, next, created>>
        /\ pc'[w] # "commit" /\ buffer'[w] \in {buffer[w], << >>}
        /\ pc'[w] # "idle" => op'[w] = "save"
    BY <1>4 DEF Commit, IInv, Shape
  <2>. QED BY <2>1, <2>2, InsertStores
<1>5. ASSUME NEW w \in Writers, AppendRaises(w) PROVE StoredInv'
  <2>1. /\ UNCHANGED <<obj, buffer, created, pos, next>> /\ pc'[w] = "idle"
        /\ Moves(w)
    BY <1>5 DEF AppendRaises, object, Moves, IInv, Shape
  <2>2. CASE UNCHANGED rows
    <3>1. RowsNumbered' /\ Numbered(w)' /\ Expects(w)' /\ Stored(w)'
      BY <2>1, <2>2 DEF StoredInv, RowsNumbered, Numbered, Expects, Stored
    <3>2. \A o \in Writers \ {w} : Numbered(o)' /\ Expects(o)' /\ Stored(o)'
      BY <2>1, <2>2, OthersKeep DEF StoredInv, Moves
    <3>. QED BY <3>1, <3>2 DEF StoredInv
  <2>3. CASE pc[w] = "commit" /\ Insert(w)
    BY <2>1, <2>3, InsertStores
  <2>. QED BY <1>5, <2>2, <2>3 DEF AppendRaises
<1>. QED BY <1>1, <1>2, <1>3, <1>4, <1>5 DEF Next

\* An event that is flushed with an expected version is stored once at most and under
\* the version its aggregate gave it, however often save_uncommitted_events is
\* tried again: a second copy would share writer, aggregate and version with it.
THEOREM FlushesStoreOnce == Spec => []CheckedEventsStoredOnce
<1>1. Init => StoredInv
  BY DEF Init, StoredInv, RowsNumbered, Numbered, Expects, Stored
<1>2. IInv /\ StoredInv => CheckedEventsStoredOnce
  <2>. SUFFICES ASSUME IInv, StoredInv, NEW w \in Writers, NEW i \in DOMAIN buffer[w],
                       buffer[w][i].ver > 1
                PROVE  LET copies == {r \in DOMAIN rows : rows[r].ev = buffer[w][i].ev}
                       IN  /\ Cardinality(copies) <= 1
                           /\ \A r \in copies : rows[r].ver = buffer[w][i].ver
    BY DEF CheckedEventsStoredOnce
  <2>. DEFINE copies == {r \in DOMAIN rows : rows[r].ev = buffer[w][i].ev}
  <2>1. \A r \in copies : rows[r].agg = obj[w].agg /\ rows[r].ver = buffer[w][i].ver
    BY DEF StoredInv, Stored
  <2>2. \A r, s \in copies : r = s
    BY <2>1 DEF IInv, OnceInv
  <2>3. Cardinality(copies) <= 1
    <3>. HIDE DEF copies
    <3>1. CASE copies = {}
      BY <3>1, FS_EmptySet
    <3>2. ASSUME NEW r, copies = {r}
          PROVE  Cardinality(copies) = 1
      BY <3>2, FS_Singleton
    <3>. QED BY <2>2, <3>1, <3>2
  <2>. QED BY <2>1, <2>3
<1>. QED BY <1>1, <1>2, StoredStep, Invariance, PTL DEF Spec
================================================================================
