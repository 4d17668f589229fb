------------------------------- MODULE EventStore -------------------------------
(***************************************************************************)
(* EventStore.append and the event-sourced aggregates that write through it*)
(* (backend/core/event_sourcing/event_store_impl.py, event_store.py).      *)
(*                                                                         *)
(* append opens a session, reads the aggregate's highest version, compares *)
(* it with expected_version if one is given, and inserts a row with that   *)
(* version plus one.  Nothing ties the read to the insert: the table has an*)
(* index on (aggregate_id, version), not a unique one, and the database    *)
(* runs at its default isolation, so two appends may read the same version.*)
(*                                                                         *)
(* A writer is a task of the application.  It appends single events without*)
(* an expected version (saga and command events), or it holds an           *)
(* EventSourcedAggregate: it loads the history, applies new events to its  *)
(* buffer and flushes the buffer with save_uncommitted_events.  A flush    *)
(* that raises leaves the whole buffer as it was, and may be tried again.  *)
(***************************************************************************)
EXTENDS Integers, Sequences, FiniteSets

CONSTANTS
  Writers,      \* tasks that append
  Aggregates,   \* aggregate ids
  MaxEvents,    \* bound on the events one writer creates
  MaxRows       \* bound on the rows of the table

ASSUME EventStoreAssumption ==
  /\ MaxEvents \in Nat /\ MaxRows \in Nat
  /\ IsFiniteSet(Writers)

VARIABLES
  rows,     \* the event_store table: id -> [agg, ver, ev]
  obj,      \* each writer's aggregate object: its id and version
  buffer,   \* its _uncommitted_events: [ev, ver] records
  op,       \* what a writer is doing: "idle", "save" or "append"
  pc,       \* "idle", "read" (before the version is read) or "commit"
  pos,      \* index of the buffered event being saved
  next,     \* the version the event being appended will get
  created   \* how many events each writer has created

vars == <<rows, obj, buffer, op, pc, pos, next, created>>
object == <<obj, buffer, created>>

Events == Writers \X (1 .. MaxEvents)
None == 0   \* expected_version=None; no flush asks for version 0

Row == [agg : Aggregates, ver : Nat, ev : Events]
Buffered == [ev : Events, ver : Nat \ {0}]

TypeOK ==
  /\ DOMAIN rows \in {1 .. k : k \in 0 .. MaxRows}
  /\ \A r \in DOMAIN rows : rows[r] \in Row
  /\ obj \in [Writers -> [agg : Aggregates, version : Nat]]
  /\ \A w \in Writers : \A i \in DOMAIN buffer[w] : buffer[w][i] \in Buffered
  /\ op \in [Writers -> {"idle", "save", "append"}]
  /\ pc \in [Writers -> {"idle", "read", "commit"}]
  /\ pos \in [Writers -> Nat]
  /\ next \in [Writers -> Nat]
  /\ created \in [Writers -> 0 .. MaxEvents]

Init ==
  /\ rows = <<>>
  /\ obj \in [Writers -> [agg : Aggregates, version : {0}]]
  /\ buffer = [w \in Writers |-> <<>>]
  /\ op = [w \in Writers |-> "idle"]
  /\ pc = [w \in Writers |-> "idle"]
  /\ pos = [w \in Writers |-> 1]
  /\ next = [w \in Writers |-> 0]
  /\ created = [w \in Writers |-> 0]

Versions(a) == {rows[r].ver : r \in {x \in DOMAIN rows : rows[x].agg = a}}

\* _get_current_version
CurrentVersion(a) ==
  IF Versions(a) = {} THEN 0
  ELSE CHOOSE v \in Versions(a) : \A u \in Versions(a) : u <= v

--------------------------------------------------------------------------------
(* EventSourcedAggregate *)

\* A fresh object for some aggregate; unsaved events of the old one are gone.
NewAggregate(w, a) ==
  /\ pc[w] = "idle"
  /\ obj' = [obj EXCEPT ![w] = [agg |-> a, version |-> 0]]
  /\ buffer' = [buffer EXCEPT ![w] = <<>>]
  /\ UNCHANGED <<rows, op, pc, pos, next, created>>

\* load_from_history(await get_events(id)): events come ordered by version; an
\* empty history leaves the version of the object.
LoadFromHistory(w) ==
  /\ pc[w] = "idle"
  /\ obj' = [obj EXCEPT ![w].version = IF Versions(obj[w].agg) = {} THEN @
                                       ELSE CurrentVersion(obj[w].agg)]
  /\ buffer' = [buffer EXCEPT ![w] = <<>>]
  /\ UNCHANGED <<rows, op, pc, pos, next, created>>

\* Mutant: the event gets the version the object had before it.
AppliesAtOldVersion(w) ==
  /\ pc[w] = "idle" /\ created[w] < MaxEvents
  /\ created' = [created EXCEPT ![w] = @ + 1]
  /\ obj' = [obj EXCEPT ![w].version = @ + 1]
  /\ buffer' = [buffer EXCEPT ![w] = Append(@, [ev |-> <<w, created[w] + 1>>,
                                                ver |-> obj[w].version])]
  /\ UNCHANGED <<rows, op, pc, pos, next>>

Apply(w) ==
  /\ pc[w] = "idle" /\ created[w] < MaxEvents
  /\ created' = [created EXCEPT ![w] = @ + 1]
  /\ obj' = [obj EXCEPT ![w].version = @ + 1]
  /\ buffer' = [buffer EXCEPT ![w] = Append(@, [ev |-> <<w, created[w] + 1>>,
                                                ver |-> obj[w].version + 1])]
  /\ UNCHANGED <<rows, op, pc, pos, next>>

\* save_uncommitted_events: the first append of the loop begins.
Save(w) ==
  /\ pc[w] = "idle" /\ buffer[w] # <<>>
  /\ op' = [op EXCEPT ![w] = "save"]
  /\ pc' = [pc EXCEPT ![w] = "read"]
  /\ pos' = [pos EXCEPT ![w] = 1]
  /\ UNCHANGED <<rows, object, next>>

\* append called directly, without expected_version.
AppendDirectly(w) ==
  /\ pc[w] = "idle" /\ created[w] < MaxEvents
  /\ created' = [created EXCEPT ![w] = @ + 1]
  /\ op' = [op EXCEPT ![w] = "append"]
  /\ pc' = [pc EXCEPT ![w] = "read"]
  /\ UNCHANGED <<rows, obj, buffer, pos, next>>

--------------------------------------------------------------------------------
(* append *)

Expected(w) == IF op[w] = "save" THEN buffer[w][pos[w]].ver - 1 ELSE None

Appending(w) == IF op[w] = "save" THEN buffer[w][pos[w]].ev ELSE <<w, created[w]>>

\* Mutant: a version newer than the expected one passes the check.
AcceptsNewer(w) ==
  /\ pc[w] = "read"
  /\ LET current == CurrentVersion(obj[w].agg) IN
     \/ /\ Expected(w) # None /\ current < Expected(w)
        /\ op' = [op EXCEPT ![w] = "idle"]
        /\ pc' = [pc EXCEPT ![w] = "idle"]
        /\ UNCHANGED next
     \/ /\ Expected(w) = None \/ current >= Expected(w)
        /\ next' = [next EXCEPT ![w] = current + 1]
        /\ pc' = [pc EXCEPT ![w] = "commit"]
        /\ UNCHANGED op
  /\ UNCHANGED <<rows, object, pos>>

\* Mutant: an expected version is believed, not checked.
TrustsExpected(w) ==
  /\ pc[w] = "read"
  /\ next' = [next EXCEPT ![w] = 1 + IF Expected(w) # None THEN Expected(w)
                                    ELSE CurrentVersion(obj[w].agg)]
  /\ pc' = [pc EXCEPT ![w] = "commit"]
  /\ UNCHANGED <<rows, object, op, pos>>

\* The version is read, and checked when one is expected (ConcurrencyError).
ReadVersion(w) ==
  /\ pc[w] = "read"
  /\ LET current == CurrentVersion(obj[w].agg) IN
     \/ /\ Expected(w) # None /\ current # Expected(w)
        /\ op' = [op EXCEPT ![w] = "idle"]
        /\ pc' = [pc EXCEPT ![w] = "idle"]
        /\ UNCHANGED next
     \/ /\ Expected(w) \in {None, current}
        /\ next' = [next EXCEPT ![w] = current + 1]
        /\ pc' = [pc EXCEPT ![w] = "commit"]
        /\ UNCHANGED op
  /\ UNCHANGED <<rows, object, pos>>

Insert(w) ==
  /\ Len(rows) < MaxRows
  /\ rows' = Append(rows, [agg |-> obj[w].agg, ver |-> next[w], ev |-> Appending(w)])

\* Mutant: a flush reads the version only once, for its first event.
FlushReadsOnce(w) ==
  /\ pc[w] = "commit"
  /\ Insert(w)
  /\ \/ /\ op[w] = "save" /\ pos[w] < Len(buffer[w])
        /\ pos' = [pos EXCEPT ![w] = @ + 1]
        /\ UNCHANGED <<op, pc, buffer>>
     \/ /\ op[w] = "append" \/ pos[w] = Len(buffer[w])
        /\ buffer' = IF op[w] = "save" THEN [buffer EXCEPT ![w] = <<>>] ELSE buffer
        /\ op' = [op EXCEPT ![w] = "idle"]
        /\ pc' = [pc EXCEPT ![w] = "idle"]
        /\ UNCHANGED pos
  /\ UNCHANGED <<obj, next, created>>

\* commit succeeds; a flush goes on with its next event or clears its buffer.
Commit(w) ==
  /\ pc[w] = "commit"
  /\ Insert(w)
  /\ \/ /\ op[w] = "save" /\ pos[w] < Len(buffer[w])
        /\ pos' = [pos EXCEPT ![w] = @ + 1]
        /\ pc' = [pc EXCEPT ![w] = "read"]
        /\ UNCHANGED <<op, buffer>>
     \/ /\ op[w] = "save" /\ pos[w] = Len(buffer[w])
        /\ buffer' = [buffer EXCEPT ![w] = <<>>]
        /\ op' = [op EXCEPT ![w] = "idle"]
        /\ pc' = [pc EXCEPT ![w] = "idle"]
        /\ UNCHANGED pos
     \/ /\ op[w] = "append"
        /\ op' = [op EXCEPT ![w] = "idle"]
        /\ pc' = [pc EXCEPT ![w] = "idle"]
        /\ UNCHANGED <<pos, buffer>>
  /\ UNCHANGED <<obj, next, created>>

\* The database, or a cancellation, interrupts append: it raises, whether or not
\* the row made it into the table.
AppendRaises(w) ==
  /\ pc[w] # "idle"
  /\ \/ UNCHANGED rows
     \/ pc[w] = "commit" /\ Insert(w)
  /\ op' = [op EXCEPT ![w] = "idle"]
  /\ pc' = [pc EXCEPT ![w] = "idle"]
  /\ UNCHANGED <<object, pos, next>>

Next ==
  \E w \in Writers :
    \/ \E a \in Aggregates : NewAggregate(w, a)
    \/ LoadFromHistory(w) \/ Apply(w) \/ Save(w) \/ AppendDirectly(w)
    \/ ReadVersion(w) \/ Commit(w) \/ AppendRaises(w)

Spec == Init /\ [][Next]_vars

--------------------------------------------------------------------------------
(* Properties. *)

\* However appends overlap, the versions of an aggregate leave no gap: a replay
\* that asks for versions from 1 on misses nothing below the latest.
NoVersionGaps ==
  \A a \in Aggregates : Versions(a) = 1 .. CurrentVersion(a)

\* Two appends may give the same version, but only one per writer: a version is
\* never shared by more events than there are tasks appending.
DuplicatesBoundedByWriters ==
  \A a \in Aggregates : \A v \in Versions(a) :
    Cardinality({r \in DOMAIN rows : rows[r].agg = a /\ rows[r].ver = v})
      <= Cardinality(Writers)

\* An event flushed with an expected version is stored at most once and under
\* the version its aggregate gave it, however often the flush is tried again.
CheckedEventsStoredOnce ==
  \A w \in Writers : \A i \in DOMAIN buffer[w] :
    buffer[w][i].ver > 1 =>
      LET copies == {r \in DOMAIN rows : rows[r].ev = buffer[w][i].ev}
      IN  /\ Cardinality(copies) <= 1
          /\ \A r \in copies : rows[r].ver = buffer[w][i].ver
================================================================================
