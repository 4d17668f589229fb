------------------------------ MODULE EventBus ------------------------------
(* The event bus of core/event_bus/nats_bus.py: one object of a process that
   publishes to a NATS server when it is connected and to its own subscribers
   when it is not.

   Connecting and closing suspend; several callers may connect at once. The
   server and its delivery to a connection are external: an event goes to all
   subscriptions of all open connections, in order, at most once each.      *)
EXTENDS Integers, Sequences, FiniteSets

CONSTANTS Callbacks,   \* subscribers, each of which subscribes once
          Available,   \* whether the NATS library is installed
          MaxConnections, MaxEvents

\* What the values of the constants satisfy.
BusAssumption ==
  Available \in BOOLEAN /\ {MaxConnections, MaxEvents} \subseteq Nat

VARIABLES
  connected,    \* _connected
  current,      \* the connection in use, or 0: none was ever made
  connecting,   \* callers that wait for a connection
  connections,  \* number of connections made
  open,         \* those still open
  local,        \* the subscribers the bus remembers
  remote,       \* the connection each subscriber is known on to the server, or 0
  inbox,        \* events on their way to each subscriber
  heard,        \* events each subscriber was called with
  owed,         \* history: those published while it was subscribed where they went
  events        \* number of events published

vars == <<connected, current, connecting, connections, open, local, remote, inbox, heard, owed,
          events>>

Init ==
  /\ connected = FALSE /\ current = 0 /\ connecting = 0 /\ connections = 0 /\ open = {}
  /\ local = {} /\ remote = [c \in Callbacks |-> 0]
  /\ inbox = [c \in Callbacks |-> <<>>]
  /\ heard = [c \in Callbacks |-> <<>>] /\ owed = [c \in Callbacks |-> {}]
  /\ events = 0

Online == Available /\ connected /\ current # 0

(* get_event_bus: whoever finds the bus unconnected connects it. *)
Connect ==
  /\ ~connected /\ connections + connecting < MaxConnections
  /\ connecting' = connecting + 1
  /\ UNCHANGED <<connected, current, connections, open, local, remote, inbox, heard, owed, events>>

(* The earlier connection stays open; nothing is subscribed on the new one. *)
ConnectSucceeds ==
  /\ connecting > 0 /\ Available
  /\ connecting' = connecting - 1 /\ connections' = connections + 1
  /\ current' = connections + 1 /\ open' = open \cup {connections + 1}
  /\ connected' = TRUE
  /\ UNCHANGED <<local, remote, inbox, heard, owed, events>>

(* A failure counts as connected, to the connection that was there before if
   there was one, open or not.                                               *)
ConnectFails ==
  /\ connecting > 0
  /\ connecting' = connecting - 1
  /\ connected' = TRUE
  /\ UNCHANGED <<current, connections, open, local, remote, inbox, heard, owed, events>>

Disconnect ==
  /\ connected /\ current # 0
  /\ connected' = FALSE /\ open' = open \ {current}
  /\ inbox' = [c \in Callbacks |-> IF remote[c] = current THEN <<>> ELSE inbox[c]]
  /\ owed' = [c \in Callbacks |->
       IF remote[c] = current THEN owed[c] \ {inbox[c][i] : i \in DOMAIN inbox[c]} ELSE owed[c]]
  /\ UNCHANGED <<current, connecting, connections, local, remote, heard, events>>

(* The server is told only while the bus is online; a closed connection raises,
   which is logged.                                                          *)
Subscribe(c) ==
  /\ c \notin local
  /\ local' = local \cup {c}
  /\ remote' = [remote EXCEPT ![c] = IF Online /\ current \in open THEN current ELSE 0]
  /\ UNCHANGED <<connected, current, connecting, connections, open, inbox, heard, owed, events>>

\* Mutant: online, the bus calls its own subscribers as well.
HeardByLocals == local

(* Offline, the subscribers are called one after the other, whatever one of
   them raises.                                                              *)
CalledDirectly == IF Online THEN {} ELSE local

Publish ==
  /\ events < MaxEvents
  /\ events' = events + 1
  /\ LET e == events + 1
         sent == IF Online /\ current \in open THEN {c \in local : remote[c] \in open} ELSE {}
         due == IF Online THEN sent ELSE local
     IN /\ inbox' = [c \in Callbacks |-> IF c \in sent THEN Append(inbox[c], e) ELSE inbox[c]]
        /\ heard' = [c \in Callbacks |->
             IF c \in CalledDirectly THEN Append(heard[c], e) ELSE heard[c]]
        /\ owed' = [c \in Callbacks |-> IF c \in due THEN owed[c] \cup {e} ELSE owed[c]]
  /\ UNCHANGED <<connected, current, connecting, connections, open, local, remote>>

Deliver(c) ==
  /\ inbox[c] # <<>>
  /\ inbox' = [inbox EXCEPT ![c] = Tail(@)]
  /\ heard' = [heard EXCEPT ![c] = Append(@, Head(inbox[c]))]
  /\ UNCHANGED <<connected, current, connecting, connections, open, local, remote, owed, events>>

Next ==
  \/ Connect \/ ConnectSucceeds \/ ConnectFails \/ Disconnect \/ Publish
  \/ \E c \in Callbacks : Subscribe(c) \/ Deliver(c)

Spec == Init /\ [][Next]_vars

(***************************************************************************)
(* Properties                                                              *)
(***************************************************************************)
TypeOK ==
  /\ connected \in BOOLEAN /\ connecting \in 0..MaxConnections
  /\ connections \in 0..MaxConnections /\ current \in 0..connections /\ open \subseteq 1..connections
  /\ local \subseteq Callbacks /\ remote \in [Callbacks -> 0..connections]
  /\ events \in 0..MaxEvents

(* Through failed, doubled and repeated connections, a subscriber is called
   exactly once for every event published while it was subscribed where the
   event went, for those that a disconnection did not cut off, and for no other:
   what was subscribed before the bus was online hears nothing that is published
   online.                                                                   *)
CalledOnceEach ==
  \A c \in Callbacks :
    /\ \A e \in 1..events :
         LET times(s) == Cardinality({i \in DOMAIN s : s[i] = e})
         IN times(heard[c]) + times(inbox[c]) = IF e \in owed[c] THEN 1 ELSE 0
    /\ remote[c] = 0 => \A i \in DOMAIN inbox[c] : FALSE
=============================================================================
