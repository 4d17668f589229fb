---------------------------- MODULE ServicesProofs -----------------------------
(***************************************************************************)
(* What is sent arrives once: the inductive invariants of Webhooks,        *)
(* EventBus and ApiGateway, as MCServices instantiates them, and with the  *)
(* one of McpClient the theorem about all four, for any subscribers, keys, *)
(* limits, connections, events and bounds.                                 *)
(***************************************************************************)
EXTENDS MCServices, SequenceTheorems, FiniteSetTheorems, TLAPS

(***************************************************************************)
(* Sequences and finite sets                                               *)
(***************************************************************************)
LEMMA SameCardinality ==
  \A S : /\ WH!IsFiniteSet(S) <=> IsFiniteSet(S)
         /\ WH!Cardinality(S) = Cardinality(S)
         /\ GW!Cardinality(S) = Cardinality(S)
         /\ EB!Cardinality(S) = Cardinality(S)
<1>1. \A S : WH!IsFiniteSet(S) <=> IsFiniteSet(S)
  BY DEF WH!IsFiniteSet, IsFiniteSet
<1>2. \A S : WH!Cardinality(S) = Cardinality(S)
  BY DEF WH!Cardinality, Cardinality
<1>3. \A S : GW!Cardinality(S) = Cardinality(S)
  BY DEF GW!Cardinality, Cardinality
<1>4. \A S : EB!Cardinality(S) = Cardinality(S)
  BY DEF EB!Cardinality, Cardinality
<1>. QED BY <1>1, <1>2, <1>3, <1>4

IsSequence(s) == Len(s) \in Nat /\ s = [i \in 1..Len(s) |-> s[i]]
LEMMA IsAFunction ==
  ASSUME NEW n \in Nat, NEW S, NEW f \in [1..n -> S]
  PROVE  f = [i \in 1..n |-> f[i]]
  OBVIOUS

(***************************************************************************)
(* McpClient                                                               *)
(***************************************************************************)
Line == [kind : {"none", "initialize", "list", "call", "read"}, number : Nat]

IsProcess(q) ==
  /\ DOMAIN q = {"server", "life", "in", "out", "waiter"}
  /\ q.in \in Seq(Line) /\ q.out \in Seq(Line)

IsTask(t) ==
  /\ DOMAIN t = {"pc", "process", "request", "todo", "result"}
  /\ t.request \in Line

(* Who awaits a process names one that was started. *)
McpTypeInv ==
  /\ MC!TypeOK
  /\ IsSequence(processes) /\ \A p \in DOMAIN processes : IsProcess(processes[p])
  /\ callTasks = [c \in McpCallers |-> callTasks[c]] /\ \A c \in McpCallers : IsTask(callTasks[c])
  /\ \A c \in McpCallers : callTasks[c].pc \in {"reading", "waiting", "stopping"}
                          => callTasks[c].process \in DOMAIN processes

Uses(c, p) == callTasks[c].process = p /\ callTasks[c].pc \in {"reading", "waiting"}

(* Only a server that advertises tools is asked for a list of them. *)
ListsOnlyAsked(q) == q.server \in Advertising
            \/ /\ \A i \in DOMAIN q.in : q.in[i].kind # "list"
               /\ \A i \in DOMAIN q.out : q.out[i].kind # "list"

(* A process that is not shared has one user at most, whose request is the only
   line on its pipes, in either direction; nothing is on them when it has none. *)
Clean(p) ==
  /\ \A c, d \in McpCallers : Uses(c, p) /\ Uses(d, p) => c = d
  /\ (\A c \in McpCallers : ~Uses(c, p)) => processes[p].in = <<>> /\ processes[p].out = <<>>
  /\ \A c \in McpCallers : Uses(c, p) =>
       \/ processes[p].in = <<callTasks[c].request>> /\ processes[p].out = <<>>
       \/ processes[p].in = <<>> /\ processes[p].out = <<callTasks[c].request>>

OwnAnswer(c) ==
  callTasks[c].pc = "answered" /\ callTasks[c].process \notin shared
     => callTasks[c].result = callTasks[c].request

McpInv ==
  /\ McpTypeInv
  /\ \A p \in DOMAIN processes : ListsOnlyAsked(processes[p])
  /\ \A p \in DOMAIN processes \ shared : Clean(p)
  /\ \A c \in McpCallers : OwnAnswer(c)

LEMMA AppendAny ==
  ASSUME NEW s, IsSequence(s), NEW e
  PROVE  /\ IsSequence(Append(s, e)) /\ Len(Append(s, e)) = Len(s) + 1
         /\ \A i \in 1..Len(s) : Append(s, e)[i] = s[i]
         /\ Append(s, e)[Len(s) + 1] = e
         /\ DOMAIN s = 1..Len(s) /\ DOMAIN Append(s, e) = 1..(Len(s) + 1)
<1>. DEFINE S == {s[i] : i \in 1..Len(s)} \cup {e}
<1>1. s \in Seq(S)
  BY DEF IsSequence
<1>2. e \in S
  OBVIOUS
<1>. HIDE DEF S
<1>3. /\ Append(s, e) \in Seq(S) /\ Len(Append(s, e)) = Len(s) + 1
      /\ \A i \in 1..Len(s) : Append(s, e)[i] = s[i]
      /\ Append(s, e)[Len(s) + 1] = e
  BY <1>1, <1>2, AppendProperties
<1>4. DOMAIN s = 1..Len(s) /\ Len(s) \in Nat
  BY DEF IsSequence
<1>5. Append(s, e) \in [1..(Len(s) + 1) -> S]
  BY <1>3, LenProperties
<1>6. Append(s, e) = [i \in 1..(Len(s) + 1) |-> Append(s, e)[i]]
  BY <1>4, <1>5, IsAFunction
<1>. QED BY <1>3, <1>4, <1>5, <1>6 DEF IsSequence

(* A line that is written to the one user of a clean process. *)
LEMMA WriteKeeps ==
  ASSUME McpInv, NEW c \in McpCallers, NEW procs, NEW p \in DOMAIN procs,
         NEW kind \in {"initialize", "list", "call", "read"}, NEW more,
         MC!Write(c, p, kind, more, procs), MC!McpAssumption,
         IsSequence(procs), Len(processes) <= Len(procs), DOMAIN procs = 1..Len(procs),
         \A q \in DOMAIN procs : IsProcess(procs[q]) /\ ListsOnlyAsked(procs[q]),
         \A q \in DOMAIN procs \ {p} :
           q \in DOMAIN processes /\ procs[q].in = processes[q].in
           /\ procs[q].out = processes[q].out,
         p \notin shared /\ MC!Users(p) \ {c} = {} => procs[p].in = <<>> /\ procs[p].out = <<>>,
         kind = "list" => procs[p].server \in Advertising,
         callTasks[c].pc \in {"reading", "waiting"} => callTasks[c].process = p,
         enabled' \subseteq Servers, tools' \subseteq Advertising,
         running' \in [Servers -> 0..Len(procs)]
  PROVE  McpInv'
<1>. DEFINE req == [kind |-> kind, number |-> requests + 1]
<1>r. req \in Line /\ requests' \in 0..MaxWritten
  BY DEF Line, MC!Write, McpInv, McpTypeInv, MC!TypeOK, MC!McpAssumption
<1>. HIDE DEF req
<1>1. /\ processes' = [procs EXCEPT ![p].in = Append(@, req)]
      /\ callTasks' = [callTasks EXCEPT ![c] = [pc |-> "reading", process |-> p, request |-> req,
                                        todo |-> more, result |-> MC!NoRequest]]
      /\ shared' = IF MC!Users(p) \ {c} # {} THEN shared \cup {p} ELSE shared
  BY DEF MC!Write, req
<1>2. /\ Len(processes') = Len(procs) /\ DOMAIN processes' = 1..Len(procs)
      /\ IsSequence(processes')
      /\ \A q \in DOMAIN procs \ {p} : processes'[q] = procs[q]
      /\ processes'[p] = [procs[p] EXCEPT !.in = Append(procs[p].in, req)]
  <2>1. processes' = [q \in 1..Len(procs) |->
        IF q = p THEN [procs[p] EXCEPT !.in = Append(procs[p].in, req)]
                                              ELSE procs[q]]
    BY <1>1 DEF IsSequence
  <2>2. Len(processes') = Len(procs)
    BY <2>1 DEF IsSequence
  <2>. QED BY <2>1, <2>2 DEF IsSequence
<1>3. /\ processes'[p].in = Append(procs[p].in, req) /\ processes'[p].out = procs[p].out
      /\ processes'[p].server = procs[p].server /\ IsProcess(processes'[p])
  <2>1. Append(procs[p].in, req) \in Seq(Line)
    BY <1>r, AppendProperties DEF IsProcess
  <2>. QED BY <1>2, <2>1 DEF IsProcess
<1>4. /\ \A d \in McpCallers \ {c} : callTasks'[d] = callTasks[d]
      /\ callTasks' = [d \in McpCallers |-> callTasks'[d]]
      /\ callTasks'[c].pc = "reading" /\ callTasks'[c].process = p /\ callTasks'[c].request = req
      /\ IsTask(callTasks'[c])
  BY <1>1, <1>r DEF McpInv, McpTypeInv, IsTask
<1>5. McpTypeInv'
  <2>1. MC!TypeOK'
    <3>1. shared' \subseteq DOMAIN processes'
      BY <1>1, <1>2 DEF McpInv, McpTypeInv, MC!TypeOK, IsSequence
    <3>2. ASSUME NEW d \in McpCallers PROVE callTasks'[d].process \in 0..Len(processes')
      <4>1. /\ callTasks[d].process \in 0..Len(processes) /\ Len(processes) \in Nat
            /\ Len(procs) \in Nat
        BY DEF McpInv, McpTypeInv, MC!TypeOK, IsSequence
      <4>. QED BY <4>1, <1>2, <1>4
    <3>. QED BY <3>1, <3>2, <1>r, <1>2, <1>4 DEF McpInv, McpTypeInv, MC!TypeOK
  <2>2. \A d \in McpCallers : callTasks'[d].pc \in {"reading", "waiting", "stopping"}
                             => callTasks'[d].process \in DOMAIN processes'
    <3>1. DOMAIN processes = 1..Len(processes) /\ Len(processes) \in Nat /\ Len(procs) \in Nat
      BY DEF McpInv, McpTypeInv, IsSequence
    <3>2. \A d \in McpCallers \ {c} : callTasks[d].pc \in {"reading", "waiting", "stopping"}
                                    => callTasks[d].process \in DOMAIN processes'
      BY <3>1, <1>2 DEF McpInv, McpTypeInv
    <3>. QED BY <3>2, <1>2, <1>4
  <2>. QED BY <2>1, <2>2, <1>2, <1>3, <1>4 DEF McpInv, McpTypeInv
<1>6. \A q \in DOMAIN processes' : ListsOnlyAsked(processes'[q])
  <2>1. CASE procs[p].server \in Advertising
    <3>. SUFFICES ASSUME NEW q \in DOMAIN processes', q # p PROVE ListsOnlyAsked(processes'[q])
      BY <2>1, <1>3 DEF ListsOnlyAsked
    <3>. QED BY <1>2
  <2>2. CASE procs[p].server \notin Advertising
    <3>1. kind # "list" /\ req.kind = kind
      BY <2>2 DEF req
    <3>2. \A i \in DOMAIN processes'[p].in : processes'[p].in[i].kind # "list"
      <4>1. /\ procs[p].in \in Seq(Line) /\ \A i \in DOMAIN procs[p].in : procs[p].in[i].kind # "list"
        BY <2>2 DEF ListsOnlyAsked, IsProcess
      <4>. QED BY <4>1, <3>1, <1>3, <1>r, AppendProperties, LenProperties
    <3>3. ListsOnlyAsked(processes'[p])
      BY <2>2, <3>2, <1>3 DEF ListsOnlyAsked
    <3>. QED BY <3>3, <1>2
  <2>. QED BY <2>1, <2>2
<1>7. ASSUME NEW q \in DOMAIN processes' \ shared' PROVE Clean(q)'
  <2>1. CASE q = p
    <3>1. MC!Users(p) \ {c} = {} /\ p \notin shared
      BY <1>1, <1>7, <2>1
    <3>2. processes'[p].in = <<req>> /\ processes'[p].out = <<>>
      <4>1. Append(<<>>, req) = <<req>>
        OBVIOUS
      <4>. QED BY <3>1, <4>1, <1>3
    <3>3. \A d \in McpCallers : Uses(d, p)' => d = c
      BY <3>1, <1>4 DEF Uses, MC!Users
    <3>4. Uses(c, p)'
      BY <1>4 DEF Uses
    <3>. QED BY <2>1, <3>2, <3>3, <3>4, <1>4 DEF Clean
  <2>2. CASE q # p
    <3>1. q \in DOMAIN processes \ shared /\ Clean(q)
      BY <2>2, <1>7, <1>1, <1>2 DEF McpInv
    <3>2. ASSUME NEW d \in McpCallers, callTasks'[d].process = q,
                 callTasks'[d].pc \in {"reading", "waiting"}
          PROVE  Uses(d, q) /\ callTasks'[d].request = callTasks[d].request
      BY <2>2, <3>2, <1>4 DEF Uses
    <3>3. processes'[q].in = processes[q].in /\ processes'[q].out = processes[q].out
      BY <2>2, <1>2, <1>7
    <3>4. ASSUME NEW d \in McpCallers, Uses(d, q) PROVE Uses(d, q)'
      BY <2>2, <3>4, <1>4 DEF Uses
    <3>5. ASSUME NEW d \in McpCallers, NEW e \in McpCallers, Uses(d, q)', Uses(e, q)' PROVE d = e
      BY <3>1, <3>2, <3>5 DEF Clean, Uses
    <3>6. ASSUME NEW d \in McpCallers, Uses(d, q)'
          PROVE  \/ processes'[q].in = <<callTasks'[d].request>> /\ processes'[q].out = <<>>
                 \/ processes'[q].in = <<>> /\ processes'[q].out = <<callTasks'[d].request>>
      <4>1. Uses(d, q) /\ callTasks'[d].request = callTasks[d].request
        BY <3>2, <3>6 DEF Uses
      <4>. QED BY <3>1, <3>3, <4>1 DEF Clean
    <3>7. ASSUME \A d \in McpCallers : ~Uses(d, q)'
          PROVE  processes'[q].in = <<>> /\ processes'[q].out = <<>>
      BY <3>1, <3>3, <3>4, <3>7 DEF Clean
    <3>. QED BY <3>5, <3>6, <3>7 DEF Clean
  <2>. QED BY <2>1, <2>2
<1>8. ASSUME NEW d \in McpCallers PROVE OwnAnswer(d)'
  BY <1>1, <1>4 DEF McpInv, OwnAnswer
<1>. QED BY <1>5, <1>6, <1>7, <1>8 DEF McpInv

Places == {"idle", "starting", "stopping", "reading", "waiting", "answered"}

(* What each task is, when n processes were started. *)
Proper(t, n) ==
  /\ IsTask(t) /\ t.pc \in Places /\ t.process \in 0..n
  /\ t.pc \in {"reading", "waiting", "stopping"} => t.process \in 1..n

LEMMA Sized ==
  ASSUME McpTypeInv
  PROVE  /\ DOMAIN processes = 1..Len(processes) /\ Len(processes) \in Nat
         /\ \A c \in McpCallers : Proper(callTasks[c], Len(processes))
  BY DEF McpTypeInv, MC!TypeOK, IsSequence, Proper, Places

LEMMA TypeKeeps ==
  ASSUME McpTypeInv, IsSequence(processes'), Len(processes') = Len(processes),
         \A p \in DOMAIN processes' : IsProcess(processes'[p]),
         callTasks' = [c \in McpCallers |-> callTasks'[c]],
         \A c \in McpCallers : Proper(callTasks'[c], Len(processes)),
         enabled' \subseteq Servers, tools' \subseteq Advertising,
         running' \in [Servers -> 0..Len(processes)],
         requests' = requests, shared' \subseteq DOMAIN processes
  PROVE  McpTypeInv'
<1>1. DOMAIN processes' = DOMAIN processes
  BY Sized DEF IsSequence
<1>2. MC!TypeOK'
  BY <1>1 DEF McpTypeInv, MC!TypeOK, Proper, Places
<1>3. \A c \in McpCallers : callTasks'[c].pc \in {"reading", "waiting", "stopping"}
                           => callTasks'[c].process \in DOMAIN processes'
  BY <1>1, Sized DEF Proper
<1>. QED BY <1>2, <1>3 DEF McpTypeInv, Proper

(* One process becomes q. *)
LEMMA OneProcess ==
  ASSUME McpTypeInv, NEW p \in DOMAIN processes, NEW q, IsProcess(q),
         processes' = [processes EXCEPT ![p] = q]
  PROVE  /\ IsSequence(processes') /\ Len(processes') = Len(processes)
         /\ DOMAIN processes' = DOMAIN processes
         /\ processes'[p] = q /\ \A r \in DOMAIN processes \ {p} : processes'[r] = processes[r]
         /\ \A r \in DOMAIN processes' : IsProcess(processes'[r])
<1>1. processes' = [r \in 1..Len(processes) |-> IF r = p THEN q ELSE processes[r]]
  BY DEF McpTypeInv, IsSequence
<1>2. Len(processes') = Len(processes)
  BY <1>1, Sized
<1>. QED BY <1>1, <1>2, Sized DEF McpTypeInv, IsSequence

(* The task of one caller becomes t. *)
LEMMA OneTask ==
  ASSUME McpTypeInv, NEW c \in McpCallers, NEW t, Proper(t, Len(processes)),
         callTasks' = [callTasks EXCEPT ![c] = t]
  PROVE  /\ callTasks' = [d \in McpCallers |-> callTasks'[d]]
         /\ callTasks'[c] = t /\ \A d \in McpCallers \ {c} : callTasks'[d] = callTasks[d]
         /\ \A d \in McpCallers : Proper(callTasks'[d], Len(processes))
  BY Sized DEF McpTypeInv

(* Those that wait for a process look again, and c goes on as t. *)
LEMMA WokenTasks ==
  ASSUME McpTypeInv, NEW p
  PROVE  /\ MC!Woken(p) = [d \in McpCallers |-> MC!Woken(p)[d]]
         /\ \A d \in McpCallers :
              /\ Proper(MC!Woken(p)[d], Len(processes))
              /\ MC!Woken(p)[d].process = callTasks[d].process
              /\ MC!Woken(p)[d].request = callTasks[d].request
              /\ MC!Woken(p)[d].result = callTasks[d].result
              /\ MC!Woken(p)[d].pc = callTasks[d].pc
                   \/ {MC!Woken(p)[d].pc, callTasks[d].pc} = {"reading", "waiting"}
<1>. SUFFICES ASSUME NEW d \in McpCallers
              PROVE  /\ Proper(MC!Woken(p)[d], Len(processes))
                     /\ MC!Woken(p)[d].process = callTasks[d].process
                     /\ MC!Woken(p)[d].request = callTasks[d].request
                     /\ MC!Woken(p)[d].result = callTasks[d].result
                     /\ MC!Woken(p)[d].pc = callTasks[d].pc
                          \/ {MC!Woken(p)[d].pc, callTasks[d].pc} = {"reading", "waiting"}
  BY DEF MC!Woken
<1>1. Proper(callTasks[d], Len(processes)) /\ Len(processes) \in Nat
  BY Sized
<1>2. CASE ~(callTasks[d].process = p /\ callTasks[d].pc = "waiting")
  BY <1>1, <1>2 DEF MC!Woken
<1>3. CASE callTasks[d].process = p /\ callTasks[d].pc = "waiting"
  <2>1. MC!Woken(p)[d] = [callTasks[d] EXCEPT !.pc = "reading"]
    BY <1>3 DEF MC!Woken
  <2>. QED BY <2>1, <1>1, <1>3 DEF Proper, IsTask, Places
<1>. QED BY <1>2, <1>3

(* Steps that leave every line on its pipe: what is not shared keeps its users. *)
LEMMA LinesStay ==
  ASSUME McpInv, McpTypeInv', DOMAIN processes' = DOMAIN processes, shared \subseteq shared',
         \A p \in DOMAIN processes :
           /\ processes'[p].in = processes[p].in /\ processes'[p].out = processes[p].out
           /\ processes'[p].server = processes[p].server,
         \A c \in McpCallers : \A p \in DOMAIN processes \ shared' :
           /\ Uses(c, p)' <=> Uses(c, p)
           /\ Uses(c, p) => callTasks'[c].request = callTasks[c].request,
         \A c \in McpCallers : callTasks'[c].pc = "answered" =>
           /\ callTasks[c].pc = "answered" /\ callTasks'[c].process = callTasks[c].process
           /\ callTasks'[c].request = callTasks[c].request
           /\ callTasks'[c].result = callTasks[c].result
  PROVE  McpInv'
<1>1. \A p \in DOMAIN processes' : ListsOnlyAsked(processes'[p])
  BY DEF McpInv, ListsOnlyAsked
<1>2. ASSUME NEW p \in DOMAIN processes' \ shared' PROVE Clean(p)'
  <2>1. Clean(p) /\ p \in DOMAIN processes \ shared'
    BY <1>2 DEF McpInv
  <2>. QED BY <2>1 DEF Clean
<1>3. \A c \in McpCallers : OwnAnswer(c)'
  BY DEF McpInv, OwnAnswer
<1>. QED BY <1>1, <1>2, <1>3 DEF McpInv

LEMMA StartKeeps ==
  ASSUME McpInv, MC!McpAssumption, NEW c \in McpCallers, NEW todo,
         callTasks[c].pc \notin {"reading", "waiting"},
         MC!StartFirst(c, todo), UNCHANGED <<enabled, tools>>
  PROVE  McpInv'
<1>. DEFINE p == Len(processes) + 1
            new == [server |-> Head(todo), life |-> "alive", in |-> <<>>, out |-> <<>>,
                    waiter |-> FALSE]
            procs == Append(processes, new)
<1>1. IsProcess(new) /\ ListsOnlyAsked(new) /\ new.in = <<>> /\ new.out = <<>>
  BY DEF IsProcess, ListsOnlyAsked
<1>2. running' = [running EXCEPT ![Head(todo)] = p] /\ MC!Write(c, p, "initialize", todo, procs)
  BY DEF MC!StartFirst
<1>. HIDE DEF new
<1>3. /\ IsSequence(procs) /\ Len(procs) = p /\ DOMAIN procs = 1..p /\ procs[p] = new
      /\ \A q \in DOMAIN processes : procs[q] = processes[q]
      /\ DOMAIN processes = 1..Len(processes) /\ Len(processes) \in Nat
  BY AppendAny, Sized DEF McpInv, McpTypeInv
<1>. HIDE DEF procs
<1>4. \A q \in DOMAIN procs : IsProcess(procs[q]) /\ ListsOnlyAsked(procs[q])
  BY <1>1, <1>3 DEF McpInv, McpTypeInv
<1>5. ASSUME NEW q \in DOMAIN procs \ {p} PROVE q \in DOMAIN processes
  <2>1. q \in 1..(Len(processes) + 1) /\ q # Len(processes) + 1
    BY <1>3
  <2>. QED BY <2>1, <1>3
<1>6. running' \in [Servers -> 0..Len(procs)]
  <2>1. running \in [Servers -> 0..Len(processes)]
    BY DEF McpInv, McpTypeInv, MC!TypeOK
  <2>2. p \in 0..Len(procs) /\ 0..Len(processes) \subseteq 0..Len(procs)
    BY <1>3
  <2>. QED BY <2>1, <2>2, <1>2
<1>7. enabled' \subseteq Servers /\ tools' \subseteq Advertising
  BY DEF McpInv, McpTypeInv, MC!TypeOK
<1>8. p \in DOMAIN procs /\ Len(processes) <= Len(procs) /\ DOMAIN procs = 1..Len(procs)
  BY <1>3
<1>9. procs[p].in = <<>> /\ procs[p].out = <<>>
  BY <1>1, <1>3
<1>. HIDE DEF p
<1>. QED BY <1>2, <1>3, <1>4, <1>5, <1>6, <1>7, <1>8, <1>9, WriteKeeps

(* A call, or a question for a resource, of whoever is idle. *)
LEMMA CallKeeps ==
  ASSUME McpInv, MC!McpAssumption, NEW c \in McpCallers, NEW s \in Servers,
         NEW kind \in {"call", "read"},
         callTasks[c].pc = "idle", running[s] # 0, MC!Write(c, running[s], kind, <<>>, processes),
         UNCHANGED <<enabled, running, tools>>
  PROVE  McpInv'
<1>. DEFINE p == running[s]
<1>1. p \in DOMAIN processes /\ DOMAIN processes = 1..Len(processes) /\ Len(processes) \in Nat
      /\ IsSequence(processes)
  BY Sized DEF McpInv, McpTypeInv, MC!TypeOK
<1>2. p \notin shared /\ MC!Users(p) \ {c} = {}
                         => processes[p].in = <<>> /\ processes[p].out = <<>>
  BY <1>1 DEF McpInv, Clean, Uses, MC!Users
<1>3. /\ \A q \in DOMAIN processes : IsProcess(processes[q]) /\ ListsOnlyAsked(processes[q])
      /\ enabled' \subseteq Servers /\ tools' \subseteq Advertising
      /\ running' \in [Servers -> 0..Len(processes)]
  BY DEF McpInv, McpTypeInv, MC!TypeOK
<1>. HIDE DEF p
<1>4. MC!Write(c, p, kind, <<>>, processes) /\ kind # "list"
      /\ kind \in {"initialize", "list", "call", "read"}
  BY DEF p
<1>. QED BY <1>1, <1>2, <1>3, <1>4, WriteKeeps

LEMMA StopKeeps ==
  ASSUME McpInv, NEW c \in McpCallers, NEW s \in Servers, MC!StopServer(c, s)
  PROVE  McpInv'
<1>. DEFINE p == running[s]
            q == [processes[p] EXCEPT !.life = "ending"]
            t == [MC!Idle EXCEPT !.pc = "stopping", !.process = p]
<1>1. McpTypeInv /\ p \in 1..Len(processes) /\ p \in DOMAIN processes /\ Len(processes) \in Nat
  BY Sized DEF MC!StopServer, McpInv, McpTypeInv, MC!TypeOK
<1>2. IsProcess(processes[p])
  BY <1>1 DEF McpTypeInv
<1>3. IsProcess(q) /\ q.in = processes[p].in /\ q.out = processes[p].out
      /\ q.server = processes[p].server
  BY <1>2 DEF IsProcess
<1>4. processes' = [processes EXCEPT ![p] = q]
  BY DEF MC!StopServer
<1>7. callTasks' = [callTasks EXCEPT ![c] = t]
  BY DEF MC!StopServer
<1>5. /\ Proper(t, Len(processes)) /\ t.pc = "stopping" /\ callTasks[c].pc = "idle"
  BY <1>1 DEF Proper, IsTask, MC!Idle, MC!NoRequest, Line, Places, MC!StopServer
<1>. HIDE DEF q, t, p
<1>6. McpTypeInv'
  BY <1>1, <1>3, <1>4, <1>5, <1>7, OneProcess, OneTask, TypeKeeps
     DEF MC!StopServer, McpTypeInv, MC!TypeOK
<1>. QED BY <1>1, <1>3, <1>4, <1>5, <1>6, <1>7, OneProcess, OneTask, LinesStay
            DEF MC!StopServer, Uses

LEMMA StoppedKeeps ==
  ASSUME McpInv, NEW c \in McpCallers, MC!Stopped(c)
  PROVE  McpInv'
<1>. DEFINE p == callTasks[c].process
            q == [processes[p] EXCEPT !.life = "dead", !.waiter = FALSE]
<1>1. McpTypeInv /\ p \in DOMAIN processes /\ Len(processes) \in Nat
      /\ IsProcess(processes[p]) /\ callTasks[c].pc = "stopping"
  BY Sized DEF MC!Stopped, McpInv, McpTypeInv
<1>3. IsProcess(q) /\ q.in = processes[p].in /\ q.out = processes[p].out
      /\ q.server = processes[p].server
  BY <1>1 DEF IsProcess
<1>4. processes' = [processes EXCEPT ![p] = q]
  BY <1>1 DEF MC!Stopped
<1>5. /\ Proper(MC!Idle, Len(processes)) /\ MC!Idle.pc = "idle"
  BY <1>1 DEF Proper, IsTask, MC!Idle, MC!NoRequest, Line, Places
<1>6. callTasks' = [MC!Woken(p) EXCEPT ![c] = MC!Idle]
  BY DEF MC!Stopped
<1>. HIDE DEF q, p
<1>w. /\ MC!Woken(p) = [d \in McpCallers |-> MC!Woken(p)[d]]
      /\ \A d \in McpCallers :
           /\ Proper(MC!Woken(p)[d], Len(processes))
           /\ MC!Woken(p)[d].process = callTasks[d].process
           /\ MC!Woken(p)[d].request = callTasks[d].request
           /\ MC!Woken(p)[d].result = callTasks[d].result
           /\ MC!Woken(p)[d].pc = callTasks[d].pc
                \/ {MC!Woken(p)[d].pc, callTasks[d].pc} = {"reading", "waiting"}
  BY <1>1, WokenTasks
<1>7. /\ callTasks' = [d \in McpCallers |-> callTasks'[d]]
      /\ \A d \in McpCallers : Proper(callTasks'[d], Len(processes))
      /\ callTasks'[c] = MC!Idle
      /\ \A d \in McpCallers \ {c} : callTasks'[d] = MC!Woken(p)[d]
  BY <1>5, <1>6, <1>w
<1>8. McpTypeInv'
  <2>1. /\ enabled' \subseteq Servers /\ tools' \subseteq Advertising /\ requests' = requests
        /\ shared' \subseteq DOMAIN processes
    BY <1>1 DEF MC!Stopped, McpTypeInv, MC!TypeOK
  <2>3. running' \in [Servers -> 0..Len(processes)]
    <3>1. running \in [Servers -> 0..Len(processes)] /\ 0 \in 0..Len(processes)
      BY <1>1 DEF McpTypeInv, MC!TypeOK
    <3>2. running' = [running EXCEPT ![processes[callTasks[c].process].server] = 0]
      BY DEF MC!Stopped
    <3>. QED BY <3>1, <3>2
  <2>2. /\ IsSequence(processes') /\ Len(processes') = Len(processes)
        /\ \A r \in DOMAIN processes' : IsProcess(processes'[r])
    BY <1>1, <1>3, <1>4, OneProcess
  <2>. QED BY <1>1, <1>7, <2>1, <2>2, <2>3, TypeKeeps
<1>9. \A d \in McpCallers : \A r \in DOMAIN processes :
        /\ Uses(d, r)' <=> Uses(d, r)
        /\ Uses(d, r) => callTasks'[d].request = callTasks[d].request
  BY <1>1, <1>5, <1>7, <1>w DEF Uses
<1>10. \A d \in McpCallers : callTasks'[d].pc = "answered" =>
           /\ callTasks[d].pc = "answered" /\ callTasks'[d].process = callTasks[d].process
           /\ callTasks'[d].request = callTasks[d].request
           /\ callTasks'[d].result = callTasks[d].result
  BY <1>1, <1>5, <1>7, <1>w
<1>. QED BY <1>1, <1>3, <1>4, <1>8, <1>9, <1>10, OneProcess, LinesStay DEF MC!Stopped

(* Steps of the client, the registry and the tasks that touch no process. *)
LEMMA TasksKeep ==
  ASSUME McpInv, NEW c \in McpCallers, NEW t, Proper(t, Len(processes)),
         callTasks' = [callTasks EXCEPT ![c] = t] \/ callTasks' = callTasks,
         UNCHANGED <<processes, running, requests>>,
         enabled' \subseteq Servers, tools' \subseteq Advertising,
         shared \subseteq shared', shared' \subseteq DOMAIN processes,
         t.pc \notin {"reading", "waiting", "answered"},
         callTasks[c].pc \in {"reading", "waiting"} => callTasks[c].process \in shared'
  PROVE  McpInv'
<1>1. McpTypeInv /\ IsSequence(processes') /\ \A p \in DOMAIN processes' : IsProcess(processes'[p])
  BY DEF McpInv, McpTypeInv
<1>2. /\ callTasks' = [d \in McpCallers |-> callTasks'[d]]
      /\ \A d \in McpCallers : Proper(callTasks'[d], Len(processes))
      /\ \A d \in McpCallers \ {c} : callTasks'[d] = callTasks[d]
      /\ callTasks'[c] \in {t, callTasks[c]}
  <2>1. CASE callTasks' = callTasks
    BY <1>1, <2>1, Sized DEF McpTypeInv
  <2>2. CASE callTasks' = [callTasks EXCEPT ![c] = t]
    BY <1>1, <2>2, OneTask
  <2>. QED BY <2>1, <2>2
<1>3. McpTypeInv'
  BY <1>1, <1>2, TypeKeeps DEF McpTypeInv, MC!TypeOK
<1>4. \A d \in McpCallers : \A p \in DOMAIN processes \ shared' :
        /\ Uses(d, p)' <=> Uses(d, p)
        /\ Uses(d, p) => callTasks'[d].request = callTasks[d].request
  BY <1>2 DEF Uses
<1>5. \A d \in McpCallers : callTasks'[d].pc = "answered" => callTasks'[d] = callTasks[d]
  BY <1>2
<1>. QED BY <1>3, <1>4, <1>5, LinesStay

(* A task that neither waits for a line nor has one. *)
LEMMA Resting ==
  ASSUME McpTypeInv, NEW todo
  PROVE  /\ Proper(MC!Idle, Len(processes)) /\ MC!Idle.pc = "idle"
         /\ Proper([MC!Idle EXCEPT !.pc = "starting", !.todo = todo], Len(processes))
         /\ [MC!Idle EXCEPT !.pc = "starting", !.todo = todo].pc = "starting"
  BY Sized DEF Proper, IsTask, MC!Idle, MC!NoRequest, Line, Places

LEMMA ClientKeeps ==
  ASSUME McpInv,
         MC!TeardownMcp \/ (\E s \in Servers : MC!Enable(s))
  PROVE  McpInv'
<1>1. /\ UNCHANGED <<processes, running, requests, callTasks, shared>>
      /\ enabled' \subseteq Servers /\ tools' \subseteq Advertising
  BY DEF MC!TeardownMcp, MC!Enable, McpInv, McpTypeInv, MC!TypeOK
<1>2. McpTypeInv'
  BY <1>1 DEF McpInv, McpTypeInv, MC!TypeOK
<1>. QED BY <1>1, <1>2, LinesStay DEF Uses

LEMMA ContinueKeeps ==
  ASSUME McpInv, NEW c \in McpCallers, NEW todo, MC!Continue(c, todo),
         UNCHANGED <<enabled, processes, running, requests, tools>>,
         shared \subseteq shared', shared' \subseteq DOMAIN processes,
         callTasks[c].pc \in {"reading", "waiting"} => callTasks[c].process \in shared'
  PROVE  McpInv'
<1>. DEFINE t == IF todo = <<>> THEN MC!Idle
                 ELSE [MC!Idle EXCEPT !.pc = "starting", !.todo = todo]
<1>1. Proper(t, Len(processes)) /\ t.pc \notin {"reading", "waiting", "answered"}
  BY Resting DEF McpInv
<1>2. callTasks' = [callTasks EXCEPT ![c] = t]
  BY DEF MC!Continue
<1>3. enabled' \subseteq Servers /\ tools' \subseteq Advertising
  BY DEF McpInv, McpTypeInv, MC!TypeOK
<1>. HIDE DEF t
<1>. QED BY <1>1, <1>2, <1>3, TasksKeep

LEMMA ReturnKeeps ==
  ASSUME McpInv, NEW c \in McpCallers, MC!Return(c)
  PROVE  McpInv'
  BY Resting, TasksKeep DEF MC!Return, McpInv, McpTypeInv, MC!TypeOK

(* Whoever is refused leaves his request on the pipe. *)
LEMMA RefusedKeeps ==
  ASSUME McpInv, NEW c \in McpCallers, MC!Refused(c)
  PROVE  McpInv'
<1>1. /\ shared' = shared \cup {callTasks[c].process} /\ callTasks[c].process \in DOMAIN processes
      /\ shared \subseteq DOMAIN processes
      /\ enabled \subseteq Servers /\ tools \subseteq Advertising
      /\ UNCHANGED <<enabled, processes, running, tools, requests>>
  BY DEF MC!Refused, McpInv, McpTypeInv, MC!TypeOK
<1>2. CASE callTasks' = [callTasks EXCEPT ![c] = MC!Idle]
  BY <1>1, <1>2, Resting, TasksKeep DEF McpInv
<1>3. CASE MC!Continue(c, Tail(callTasks[c].todo))
  BY <1>1, <1>3, ContinueKeeps
<1>. QED BY <1>2, <1>3 DEF MC!Refused

(* The answer of a call that was given up is still to come. *)
LEMMA CancelKeeps ==
  ASSUME McpInv, NEW c \in McpCallers, MC!Cancel(c)
  PROVE  McpInv'
<1>. DEFINE p == callTasks[c].process
            q == [processes[p] EXCEPT !.waiter = FALSE]
<1>1. McpTypeInv /\ p \in DOMAIN processes /\ IsProcess(processes[p])
  BY DEF MC!Cancel, McpInv, McpTypeInv
<1>2. IsProcess(q) /\ q.in = processes[p].in /\ q.out = processes[p].out
      /\ q.server = processes[p].server
  BY <1>1 DEF IsProcess
<1>3. processes' = processes \/ processes' = [processes EXCEPT ![p] = q]
  BY DEF MC!Cancel
<1>4. callTasks' = [callTasks EXCEPT ![c] = MC!Idle] /\ shared' = shared \cup {p}
      /\ UNCHANGED <<enabled, running, tools, requests>>
  BY DEF MC!Cancel
<1>. HIDE DEF p, q
<1>5. /\ IsSequence(processes') /\ Len(processes') = Len(processes)
      /\ DOMAIN processes' = DOMAIN processes
      /\ \A r \in DOMAIN processes' : IsProcess(processes'[r])
      /\ \A r \in DOMAIN processes :
           /\ processes'[r].in = processes[r].in /\ processes'[r].out = processes[r].out
           /\ processes'[r].server = processes[r].server
  <2>1. CASE processes' = processes
    BY <2>1, <1>1 DEF McpTypeInv
  <2>2. CASE processes' = [processes EXCEPT ![p] = q]
    BY <2>2, <1>1, <1>2, OneProcess
  <2>. QED BY <1>3, <2>1, <2>2
<1>6. /\ callTasks' = [d \in McpCallers |-> callTasks'[d]]
      /\ \A d \in McpCallers : Proper(callTasks'[d], Len(processes))
      /\ callTasks'[c] = MC!Idle /\ MC!Idle.pc = "idle"
      /\ \A d \in McpCallers \ {c} : callTasks'[d] = callTasks[d]
  BY <1>1, <1>4, Resting, OneTask
<1>7. McpTypeInv'
  BY <1>1, <1>4, <1>5, <1>6, TypeKeeps DEF McpTypeInv, MC!TypeOK
<1>8. \A d \in McpCallers : \A r \in DOMAIN processes \ shared' :
        /\ Uses(d, r)' <=> Uses(d, r)
        /\ Uses(d, r) => callTasks'[d].request = callTasks[d].request
  BY <1>4, <1>6 DEF Uses, p
<1>9. \A d \in McpCallers : callTasks'[d].pc = "answered" => callTasks'[d] = callTasks[d]
  BY <1>6
<1>. QED BY <1>4, <1>5, <1>7, <1>8, <1>9, LinesStay

LEMMA WaitKeeps ==
  ASSUME McpInv, NEW c \in McpCallers, MC!Wait(c)
  PROVE  McpInv'
<1>. DEFINE p == callTasks[c].process
            q == [processes[p] EXCEPT !.waiter = TRUE]
            t == [callTasks[c] EXCEPT !.pc = "waiting"]
<1>1. /\ McpTypeInv /\ p \in DOMAIN processes
      /\ IsProcess(processes[p]) /\ callTasks[c].pc = "reading"
      /\ Proper(callTasks[c], Len(processes))
  BY Sized DEF MC!Wait, McpInv, McpTypeInv
<1>2. IsProcess(q) /\ q.in = processes[p].in /\ q.out = processes[p].out
      /\ q.server = processes[p].server
  BY <1>1 DEF IsProcess
<1>3. Proper(t, Len(processes)) /\ t.pc = "waiting" /\ t.process = p
      /\ t.request = callTasks[c].request
  BY <1>1 DEF Proper, IsTask, Places
<1>4. processes' = [processes EXCEPT ![p] = q]
  BY DEF MC!Wait
<1>5. callTasks' = [callTasks EXCEPT ![c] = t]
  BY DEF MC!Wait
<1>. HIDE DEF q, t
<1>6. McpTypeInv'
  BY <1>1, <1>2, <1>3, <1>4, <1>5, OneProcess, OneTask, TypeKeeps
     DEF MC!Wait, McpTypeInv, MC!TypeOK
<1>7. \A d \in McpCallers : \A r \in DOMAIN processes :
        /\ Uses(d, r)' <=> Uses(d, r)
        /\ Uses(d, r) => callTasks'[d].request = callTasks[d].request
  BY <1>1, <1>3, <1>5, OneTask DEF Uses
<1>8. \A d \in McpCallers : callTasks'[d].pc = "answered" => callTasks'[d] = callTasks[d]
  BY <1>1, <1>3, <1>5, OneTask
<1>. QED BY <1>1, <1>2, <1>4, <1>6, <1>7, <1>8, OneProcess, LinesStay DEF MC!Wait

(* What a step that wakes those who wait for p does to the tasks. *)
LEMMA WakingKeeps ==
  ASSUME McpTypeInv, NEW p, callTasks' = MC!Woken(p)
  PROVE  /\ callTasks' = [d \in McpCallers |-> callTasks'[d]]
         /\ \A d \in McpCallers : Proper(callTasks'[d], Len(processes))
         /\ \A d \in McpCallers : \A r \in DOMAIN processes :
              /\ Uses(d, r)' <=> Uses(d, r)
              /\ callTasks'[d].request = callTasks[d].request
         /\ \A d \in McpCallers : callTasks'[d].pc = "answered" =>
              /\ callTasks[d].pc = "answered" /\ callTasks'[d].process = callTasks[d].process
              /\ callTasks'[d].request = callTasks[d].request
              /\ callTasks'[d].result = callTasks[d].result
<1>1. /\ MC!Woken(p) = [d \in McpCallers |-> MC!Woken(p)[d]]
      /\ \A d \in McpCallers :
           /\ Proper(MC!Woken(p)[d], Len(processes))
           /\ MC!Woken(p)[d].process = callTasks[d].process
           /\ MC!Woken(p)[d].request = callTasks[d].request
           /\ MC!Woken(p)[d].result = callTasks[d].result
           /\ MC!Woken(p)[d].pc = callTasks[d].pc
                \/ {MC!Woken(p)[d].pc, callTasks[d].pc} = {"reading", "waiting"}
  BY WokenTasks
<1>2. \A d \in McpCallers : /\ callTasks'[d].process = callTasks[d].process
                         /\ callTasks'[d].request = callTasks[d].request
                         /\ callTasks'[d].result = callTasks[d].result
                         /\ \/ callTasks'[d].pc = callTasks[d].pc
                            \/ /\ callTasks'[d].pc \in {"reading", "waiting"}
                               /\ callTasks[d].pc \in {"reading", "waiting"}
  BY <1>1
<1>3. \A d \in McpCallers : \A r \in DOMAIN processes : Uses(d, r)' <=> Uses(d, r)
  BY <1>2 DEF Uses
<1>. QED BY <1>1, <1>2, <1>3

LEMMA DiesKeeps ==
  ASSUME McpInv, NEW p \in DOMAIN processes, MC!Dies(p)
  PROVE  McpInv'
<1>. DEFINE q == [processes[p] EXCEPT !.life = "dead", !.waiter = FALSE]
<1>1. McpTypeInv /\ IsProcess(processes[p])
  BY DEF McpInv, McpTypeInv
<1>2. IsProcess(q) /\ q.in = processes[p].in /\ q.out = processes[p].out
      /\ q.server = processes[p].server
  BY <1>1 DEF IsProcess
<1>3. processes' = [processes EXCEPT ![p] = q]
  BY DEF MC!Dies
<1>4. callTasks' = MC!Woken(p)
  BY DEF MC!Dies
<1>. HIDE DEF q
<1>5. /\ callTasks' = [d \in McpCallers |-> callTasks'[d]]
      /\ \A d \in McpCallers : Proper(callTasks'[d], Len(processes))
  BY <1>1, <1>4, WakingKeeps
<1>6. McpTypeInv'
  BY <1>1, <1>2, <1>3, <1>5, OneProcess, TypeKeeps DEF MC!Dies, McpTypeInv, MC!TypeOK
<1>7. \A d \in McpCallers : \A r \in DOMAIN processes :
        /\ Uses(d, r)' <=> Uses(d, r)
        /\ Uses(d, r) => callTasks'[d].request = callTasks[d].request
  BY <1>1, <1>4, WakingKeeps
<1>8. \A d \in McpCallers : callTasks'[d].pc = "answered" =>
           /\ callTasks[d].pc = "answered" /\ callTasks'[d].process = callTasks[d].process
           /\ callTasks'[d].request = callTasks[d].request
           /\ callTasks'[d].result = callTasks[d].result
  BY <1>1, <1>4, WakingKeeps
<1>. QED BY <1>1, <1>2, <1>3, <1>6, <1>7, <1>8, OneProcess, LinesStay DEF MC!Dies

(* The oldest request on the way in becomes the latest line on the way out. *)
LEMMA AnswerKeeps ==
  ASSUME McpInv, NEW p \in DOMAIN processes, MC!Answer(p)
  PROVE  McpInv'
<1>. DEFINE line == Head(processes[p].in)
            q == [processes[p] EXCEPT !.in = Tail(processes[p].in), !.waiter = FALSE,
                                      !.out = Append(processes[p].out, line)]
<1>1. McpTypeInv /\ IsProcess(processes[p]) /\ ListsOnlyAsked(processes[p])
      /\ processes[p].in \in Seq(Line) /\ processes[p].in # <<>> /\ processes[p].out \in Seq(Line)
  BY DEF McpInv, McpTypeInv, MC!Answer, IsProcess
<1>2. /\ line \in Line /\ Tail(processes[p].in) \in Seq(Line)
      /\ Append(processes[p].out, line) \in Seq(Line)
  BY <1>1, HeadTailProperties, AppendProperties
<1>3. /\ IsProcess(q) /\ q.in = Tail(processes[p].in)
      /\ q.out = Append(processes[p].out, line) /\ q.server = processes[p].server
  BY <1>1, <1>2 DEF IsProcess
<1>4. ListsOnlyAsked(q)
  <2>1. CASE processes[p].server \in Advertising
    BY <2>1, <1>3 DEF ListsOnlyAsked
  <2>2. CASE /\ \A i \in DOMAIN processes[p].in : processes[p].in[i].kind # "list"
             /\ \A i \in DOMAIN processes[p].out : processes[p].out[i].kind # "list"
    <3>1. line.kind # "list"
      BY <1>1, <2>2
    <3>2. \A i \in DOMAIN q.in : q.in[i].kind # "list"
      BY <1>1, <1>3, <2>2, HeadTailProperties, LenProperties
    <3>3. \A i \in DOMAIN q.out : q.out[i].kind # "list"
      BY <1>1, <1>2, <1>3, <2>2, <3>1, AppendProperties, LenProperties
    <3>. QED BY <3>2, <3>3 DEF ListsOnlyAsked
  <2>. QED BY <1>1, <2>1, <2>2 DEF ListsOnlyAsked
<1>5. processes' = [processes EXCEPT ![p] = q]
  BY DEF MC!Answer
<1>6. callTasks' = MC!Woken(p)
  BY DEF MC!Answer
<1>. HIDE DEF q
<1>7. /\ callTasks' = [d \in McpCallers |-> callTasks'[d]]
      /\ \A d \in McpCallers : Proper(callTasks'[d], Len(processes))
      /\ \A d \in McpCallers : \A r \in DOMAIN processes :
           /\ Uses(d, r)' <=> Uses(d, r)
           /\ callTasks'[d].request = callTasks[d].request
      /\ \A d \in McpCallers : callTasks'[d].pc = "answered" =>
           /\ callTasks[d].pc = "answered" /\ callTasks'[d].process = callTasks[d].process
           /\ callTasks'[d].request = callTasks[d].request
           /\ callTasks'[d].result = callTasks[d].result
  BY <1>1, <1>6, WakingKeeps
<1>8. /\ IsSequence(processes') /\ Len(processes') = Len(processes)
      /\ DOMAIN processes' = DOMAIN processes
      /\ processes'[p] = q /\ \A r \in DOMAIN processes \ {p} : processes'[r] = processes[r]
      /\ \A r \in DOMAIN processes' : IsProcess(processes'[r])
  BY <1>1, <1>3, <1>5, OneProcess
<1>9. McpTypeInv'
  BY <1>1, <1>7, <1>8, TypeKeeps DEF MC!Answer, McpTypeInv, MC!TypeOK
<1>10. \A r \in DOMAIN processes' : ListsOnlyAsked(processes'[r])
  BY <1>4, <1>8 DEF McpInv
<1>11. ASSUME NEW r \in DOMAIN processes' \ shared' PROVE Clean(r)'
  <2>1. r \in DOMAIN processes \ shared /\ Clean(r)
    BY <1>8, <1>11 DEF MC!Answer, McpInv
  <2>2. CASE r # p
    BY <2>1, <2>2, <1>7, <1>8 DEF Clean
  <2>3. CASE r = p
    <3>1. PICK d \in McpCallers : Uses(d, p)
      BY <2>1, <2>3, <1>1 DEF Clean
    <3>2. processes[p].in = <<callTasks[d].request>> /\ processes[p].out = <<>>
      BY <2>1, <2>3, <3>1, <1>1 DEF Clean
    <3>3. q.in = <<>> /\ q.out = <<callTasks[d].request>>
      BY <3>2, <1>3
    <3>. QED BY <2>1, <2>3, <3>1, <3>3, <1>7, <1>8 DEF Clean
  <2>. QED BY <2>2, <2>3
<1>12. \A d \in McpCallers : OwnAnswer(d)'
  BY <1>7 DEF MC!Answer, McpInv, OwnAnswer
<1>. QED BY <1>9, <1>10, <1>11, <1>12 DEF McpInv

(* A line that is read leaves a clean process with nothing on its pipes. *)
LEMMA LineIsTaken ==
  ASSUME McpInv, NEW c \in McpCallers, callTasks[c].pc = "reading",
         processes[callTasks[c].process].out # <<>>
  PROVE  LET p == callTasks[c].process
             rest == MC!LineTaken(c)
         IN  /\ p \in DOMAIN processes
             /\ IsSequence(rest) /\ Len(rest) = Len(processes) /\ DOMAIN rest = DOMAIN processes
             /\ \A r \in DOMAIN rest : IsProcess(rest[r]) /\ ListsOnlyAsked(rest[r])
             /\ \A r \in DOMAIN processes \ {p} : rest[r] = processes[r]
             /\ rest[p].server = processes[p].server
             /\ Head(processes[p].out).kind = "list" => processes[p].server \in Advertising
             /\ p \notin shared =>
                  /\ \A d \in McpCallers : Uses(d, p) => d = c
                  /\ rest[p].in = <<>> /\ rest[p].out = <<>>
                  /\ Head(processes[p].out) = callTasks[c].request
<1>. DEFINE p == callTasks[c].process
            rest == MC!LineTaken(c)
            q == [processes[p] EXCEPT !.out = Tail(processes[p].out)]
<1>1. /\ McpTypeInv /\ p \in DOMAIN processes /\ IsProcess(processes[p]) /\ ListsOnlyAsked(processes[p])
      /\ processes[p].out \in Seq(Line) /\ Uses(c, p)
  BY DEF McpInv, McpTypeInv, IsProcess, Uses
<1>2. /\ IsProcess(q) /\ q.in = processes[p].in /\ q.out = Tail(processes[p].out)
      /\ q.server = processes[p].server
  <2>1. Tail(processes[p].out) \in Seq(Line)
    BY <1>1, HeadTailProperties
  <2>. QED BY <1>1, <2>1 DEF IsProcess
<1>3. rest = [processes EXCEPT ![p] = q]
  BY DEF MC!LineTaken
<1>4. ListsOnlyAsked(q)
  <2>1. CASE processes[p].server \in Advertising
    BY <2>1, <1>2 DEF ListsOnlyAsked
  <2>2. CASE /\ \A i \in DOMAIN processes[p].in : processes[p].in[i].kind # "list"
             /\ \A i \in DOMAIN processes[p].out : processes[p].out[i].kind # "list"
    <3>1. \A i \in DOMAIN q.out : q.out[i].kind # "list"
      BY <1>1, <1>2, <2>2, HeadTailProperties, LenProperties
    <3>. QED BY <2>2, <3>1, <1>2 DEF ListsOnlyAsked
  <2>. QED BY <1>1, <2>1, <2>2 DEF ListsOnlyAsked
<1>. HIDE DEF q, rest
<1>5. /\ IsSequence(rest) /\ Len(rest) = Len(processes) /\ DOMAIN rest = DOMAIN processes
      /\ rest[p] = q /\ \A r \in DOMAIN processes \ {p} : rest[r] = processes[r]
  <2>1. rest = [r \in 1..Len(processes) |-> IF r = p THEN q ELSE processes[r]]
    BY <1>1, <1>3 DEF McpTypeInv, IsSequence
  <2>2. Len(rest) = Len(processes)
    BY <1>1, <2>1, Sized
  <2>. QED BY <1>1, <2>1, <2>2, Sized DEF McpTypeInv, IsSequence
<1>6. \A r \in DOMAIN rest : IsProcess(rest[r]) /\ ListsOnlyAsked(rest[r])
  BY <1>1, <1>2, <1>4, <1>5 DEF McpInv, McpTypeInv
<1>7. Head(processes[p].out).kind = "list" => processes[p].server \in Advertising
  BY <1>1, LenProperties DEF ListsOnlyAsked
<1>8. ASSUME p \notin shared
      PROVE  /\ \A d \in McpCallers : Uses(d, p) => d = c
             /\ q.in = <<>> /\ q.out = <<>> /\ Head(processes[p].out) = callTasks[c].request
  <2>1. Clean(p)
    BY <1>1, <1>8 DEF McpInv
  <2>2. processes[p].in = <<>> /\ processes[p].out = <<callTasks[c].request>>
    BY <2>1, <1>1 DEF Clean
  <2>. QED BY <2>1, <2>2, <1>1, <1>2 DEF Clean
<1>. QED BY <1>1, <1>2, <1>5, <1>6, <1>7, <1>8 DEF rest

LEMMA ReadEnds ==
  ASSUME McpInv, NEW c \in McpCallers, NEW t, Proper(t, Len(processes)),
         callTasks[c].pc = "reading", processes[callTasks[c].process].out # <<>>,
         processes' = MC!LineTaken(c), callTasks' = [callTasks EXCEPT ![c] = t],
         tools' \subseteq Advertising, UNCHANGED <<enabled, running, requests, shared>>,
         t.pc \notin {"reading", "waiting"},
         t.pc = "answered" =>
           /\ t.process = callTasks[c].process /\ t.request = callTasks[c].request
           /\ t.result = Head(processes[callTasks[c].process].out)
  PROVE  McpInv'
<1>. DEFINE p == callTasks[c].process
            rest == MC!LineTaken(c)
<1>1. /\ p \in DOMAIN processes
      /\ IsSequence(rest) /\ Len(rest) = Len(processes) /\ DOMAIN rest = DOMAIN processes
      /\ \A r \in DOMAIN rest : IsProcess(rest[r]) /\ ListsOnlyAsked(rest[r])
      /\ \A r \in DOMAIN processes \ {p} : rest[r] = processes[r]
      /\ p \notin shared => /\ \A d \in McpCallers : Uses(d, p) => d = c
                            /\ rest[p].in = <<>> /\ rest[p].out = <<>>
                            /\ Head(processes[p].out) = callTasks[c].request
  BY LineIsTaken
<1>2. processes' = rest
  OBVIOUS
<1>. HIDE DEF rest
<1>3. /\ callTasks' = [d \in McpCallers |-> callTasks'[d]]
      /\ callTasks'[c] = t /\ \A d \in McpCallers \ {c} : callTasks'[d] = callTasks[d]
      /\ \A d \in McpCallers : Proper(callTasks'[d], Len(processes))
  BY OneTask DEF McpInv
<1>4. McpTypeInv'
  BY <1>1, <1>2, <1>3, TypeKeeps DEF McpInv, McpTypeInv, MC!TypeOK
<1>5. ASSUME NEW r \in DOMAIN processes' \ shared' PROVE Clean(r)'
  <2>1. r \in DOMAIN processes \ shared /\ Clean(r)
    BY <1>1, <1>2, <1>5 DEF McpInv
  <2>2. CASE r = p
    <3>1. /\ \A d \in McpCallers : Uses(d, r) => d = c
          /\ rest[r].in = <<>> /\ rest[r].out = <<>>
      BY <2>1, <2>2, <1>1
    <3>2. \A d \in McpCallers \ {c} : ~Uses(d, r)'
      BY <3>1, <1>3 DEF Uses
    <3>3. ~Uses(c, r)'
      BY <1>3 DEF Uses
    <3>4. \A d \in McpCallers : ~Uses(d, r)'
      BY <3>2, <3>3
    <3>5. processes'[r].in = <<>> /\ processes'[r].out = <<>>
      BY <3>1, <2>2, <1>2
    <3>. QED BY <3>4, <3>5 DEF Clean
  <2>3. CASE r # p
    <3>1. \A d \in McpCallers : (Uses(d, r)' <=> Uses(d, r))
                                /\ (Uses(d, r) => callTasks'[d] = callTasks[d])
      BY <2>3, <1>3 DEF Uses
    <3>2. processes'[r] = processes[r]
      BY <2>1, <2>3, <1>1, <1>2
    <3>. QED BY <2>1, <3>1, <3>2 DEF Clean
  <2>. QED BY <2>2, <2>3
<1>6. ASSUME NEW d \in McpCallers PROVE OwnAnswer(d)'
  BY <1>1, <1>3 DEF McpInv, OwnAnswer
<1>. QED BY <1>1, <1>2, <1>4, <1>5, <1>6 DEF McpInv

LEMMA ReadKeeps ==
  ASSUME McpInv, MC!McpAssumption, NEW c \in McpCallers, MC!Read(c)
  PROVE  McpInv'
<1>. DEFINE p == callTasks[c].process
            line == Head(processes[p].out)
            rest == MC!LineTaken(c)
            t == [MC!Idle EXCEPT !.result = line, !.request = callTasks[c].request, !.process = p,
                              !.pc = "answered"]
<1>1. /\ callTasks[c].pc = "reading" /\ processes[p].out # <<>> /\ UNCHANGED <<enabled, running>>
      /\ p \in DOMAIN processes /\ Proper(callTasks[c], Len(processes))
      /\ enabled \subseteq Servers /\ tools \subseteq Advertising
      /\ running \in [Servers -> 0..Len(processes)]
  BY Sized DEF MC!Read, McpInv, McpTypeInv, MC!TypeOK
<1>2. CASE /\ callTasks' = [callTasks EXCEPT ![c] = t] /\ processes' = rest
           /\ UNCHANGED <<client, tools, requests, shared>>
  <2>1. /\ Proper(t, Len(processes)) /\ t.pc = "answered" /\ t.process = p
        /\ t.request = callTasks[c].request /\ t.result = line
    BY <1>1 DEF Proper, IsTask, MC!Idle, Places
  <2>. HIDE DEF t
  <2>. QED BY <1>1, <1>2, <2>1, ReadEnds
<1>3. CASE /\ line.kind = "initialize" /\ processes[p].server \in Advertising
           /\ MC!Write(c, p, "list", callTasks[c].todo, rest) /\ UNCHANGED <<client, tools>>
  <2>1. /\ IsSequence(rest) /\ Len(rest) = Len(processes) /\ DOMAIN rest = DOMAIN processes
        /\ \A r \in DOMAIN rest : IsProcess(rest[r]) /\ ListsOnlyAsked(rest[r])
        /\ \A r \in DOMAIN rest \ {p} : rest[r] = processes[r]
        /\ rest[p].server = processes[p].server
        /\ p \notin shared => rest[p].in = <<>> /\ rest[p].out = <<>>
    BY <1>1, LineIsTaken
  <2>2. DOMAIN rest = 1..Len(rest) /\ Len(processes) <= Len(rest)
    BY <2>1, Sized DEF McpInv
  <2>3. MC!Write(c, p, "list", callTasks[c].todo, rest)
    BY <1>3
  <2>. HIDE DEF rest, p
  <2>. QED BY <1>1, <1>3, <2>1, <2>2, <2>3, WriteKeeps DEF p
<1>4. CASE /\ MC!Continue(c, Tail(callTasks[c].todo)) /\ processes' = rest
           /\ tools' \in {tools, tools \cup (IF line.kind = "list" THEN {processes[p].server} ELSE {})}
           /\ UNCHANGED <<requests, shared>>
  <2>. DEFINE todo == Tail(callTasks[c].todo)
              u == IF todo = <<>> THEN MC!Idle
                   ELSE [MC!Idle EXCEPT !.pc = "starting", !.todo = todo]
  <2>1. Proper(u, Len(processes)) /\ u.pc \notin {"reading", "waiting", "answered"}
    BY Resting DEF McpInv
  <2>2. callTasks' = [callTasks EXCEPT ![c] = u]
    BY <1>4 DEF MC!Continue
  <2>3. tools' \subseteq Advertising
    BY <1>1, <1>4, LineIsTaken
  <2>. HIDE DEF u
  <2>. QED BY <1>1, <1>4, <2>1, <2>2, <2>3, ReadEnds
<1>. QED BY <1>2, <1>3, <1>4 DEF MC!Read

LEMMA McpStep ==
  ASSUME McpInv, MC!McpAssumption, [MC!Next]_(MC!vars)
  PROVE  McpInv'
<1>1. CASE UNCHANGED MC!vars
  <2>1. McpTypeInv'
    BY <1>1 DEF MC!vars, McpInv, McpTypeInv, MC!TypeOK
  <2>. QED BY <1>1, <2>1, LinesStay DEF MC!vars, Uses
<1>2. ASSUME NEW c \in McpCallers, MC!SetupMcp(c) PROVE McpInv'
  BY <1>2, StartKeeps DEF MC!SetupMcp
<1>3. ASSUME NEW c \in McpCallers, MC!StartNext(c) PROVE McpInv'
  <2>1. CASE MC!StartFirst(c, callTasks[c].todo)
    BY <1>3, <2>1, StartKeeps DEF MC!StartNext
  <2>2. CASE MC!Continue(c, Tail(callTasks[c].todo))
             /\ UNCHANGED <<processes, running, requests, shared>>
    BY <1>3, <2>2, ContinueKeeps DEF MC!StartNext, McpInv, McpTypeInv, MC!TypeOK
  <2>. QED BY <1>3, <2>1, <2>2 DEF MC!StartNext
<1>4. ASSUME NEW c \in McpCallers, NEW s \in Servers, MC!StartServer(c, s) PROVE McpInv'
  BY <1>4, StartKeeps DEF MC!StartServer
<1>5. ASSUME NEW c \in McpCallers, NEW s \in Servers, MC!CallTool(c, MC!QualifiedName(s))
      PROVE McpInv'
  BY <1>5, CallKeeps DEF MC!CallTool, MC!QualifiedName
<1>6. ASSUME NEW c \in McpCallers, NEW s \in Servers, MC!ReadResource(c, s) PROVE McpInv'
  BY <1>6, CallKeeps DEF MC!ReadResource
<1>. QED
  BY <1>1, <1>2, <1>3, <1>4, <1>5, <1>6, StopKeeps, StoppedKeeps, WaitKeeps, RefusedKeeps,
     ReadKeeps, ReturnKeeps, CancelKeeps, AnswerKeeps, DiesKeeps, ClientKeeps DEF MC!Next

(* An answer is given to the caller whose request it answers, on every process
   that was never used by two at once and never left with an answer on it, and
   such a process has nothing on its pipes when nobody uses it.                *)
LEMMA McpHolds ==
  /\ MC!McpAssumption /\ MC!Init => McpInv
  /\ McpInv => MC!OwnAnswers
<1>1. ASSUME MC!McpAssumption, MC!Init PROVE McpInv
  <2>1. processes = <<>> /\ Len(processes) = 0 /\ DOMAIN processes = {}
        /\ processes = [i \in 1..0 |-> processes[i]]
    BY <1>1 DEF MC!Init
  <2>2. callTasks = [c \in McpCallers |-> MC!Idle] /\ \A c \in McpCallers : callTasks[c] = MC!Idle
    BY <1>1 DEF MC!Init
  <2>3. IsTask(MC!Idle) /\ MC!Idle.pc = "idle" /\ MC!Idle.process = 0
    BY DEF MC!Idle, IsTask, MC!NoRequest, Line
  <2>4. MC!TypeOK
    BY <1>1, <2>1, <2>2, <2>3 DEF MC!Init, MC!TypeOK, MC!McpAssumption
  <2>5. McpTypeInv
    BY <2>1, <2>2, <2>3, <2>4 DEF McpTypeInv, IsSequence
  <2>. QED BY <2>1, <2>2, <2>3, <2>5 DEF McpInv, OwnAnswer
<1>2. McpInv => MC!OwnAnswers
  BY DEF McpInv, McpTypeInv, MC!OwnAnswers, OwnAnswer, Clean, Uses, MC!Users
<1>. QED BY <1>1, <1>2


(***************************************************************************)
(* Webhooks                                                                *)
(***************************************************************************)
HookPlaces == {"ready", "posting", "sleeping"}

(* What is known of a delivery r and its tasks t: one task until it is settled,
   none afterwards, and attempts left for whoever is about to post.           *)
HookDelivery(r, t) ==
  /\ DOMAIN r = {"to", "status", "attempts", "sent", "accepted"}
  /\ r.status \in {"pending", "success", "failed", "retrying"}
  /\ r.attempts \in 0..WH!MaxRetries /\ r.sent = r.attempts /\ r.accepted \in Nat
  /\ r.status = "success" => r.accepted > 0
  /\ IF r.status \in {"success", "failed"} THEN t = <<>>
     ELSE \E pc \in HookPlaces : t = <<pc>> /\ (pc # "posting" => r.attempts < WH!MaxRetries)

HookInv ==
  /\ IsSequence(deliveries) /\ IsSequence(hookTasks) /\ Len(deliveries) = Len(hookTasks)
  /\ \A d \in DOMAIN deliveries : HookDelivery(deliveries[d], hookTasks[d])

(* One delivery and its tasks change. *)
LEMMA OneDeliveryChanges ==
  ASSUME HookInv, NEW d \in DOMAIN deliveries, NEW r, NEW t, HookDelivery(r, t),
         deliveries' = [deliveries EXCEPT ![d] = r], hookTasks' = [hookTasks EXCEPT ![d] = t]
  PROVE  HookInv'
<1>1. /\ DOMAIN deliveries = 1..Len(deliveries) /\ DOMAIN hookTasks = 1..Len(deliveries)
      /\ Len(deliveries) \in Nat
  BY DEF HookInv, IsSequence
<1>2. deliveries' = [e \in 1..Len(deliveries) |-> IF e = d THEN r ELSE deliveries[e]]
  BY <1>1
<1>3. hookTasks' = [e \in 1..Len(deliveries) |-> IF e = d THEN t ELSE hookTasks[e]]
  BY <1>1
<1>4. Len(deliveries') = Len(deliveries) /\ Len(hookTasks') = Len(deliveries)
  BY <1>1, <1>2, <1>3
<1>5. IsSequence(deliveries)'
  BY <1>1, <1>2, <1>4 DEF IsSequence
<1>6. IsSequence(hookTasks)'
  BY <1>1, <1>3, <1>4 DEF IsSequence
<1>7. ASSUME NEW e \in DOMAIN deliveries' PROVE HookDelivery(deliveries'[e], hookTasks'[e])
  BY <1>1, <1>2, <1>3, <1>7 DEF HookInv
<1>. QED BY <1>4, <1>5, <1>6, <1>7 DEF HookInv

LEMMA OnlyTask ==
  ASSUME HookInv, NEW d \in DOMAIN deliveries, NEW j \in DOMAIN hookTasks[d]
  PROVE  /\ j = 1 /\ deliveries[d].status \in {"pending", "retrying"}
         /\ \E pc \in HookPlaces : /\ hookTasks[d] = <<pc>>
                                   /\ pc # "posting" => deliveries[d].attempts < WH!MaxRetries
         /\ \A pc : [hookTasks[d] EXCEPT ![j] = pc] = <<pc>>
         /\ SubSeq(hookTasks[d], 1, j - 1) \o SubSeq(hookTasks[d], j + 1, Len(hookTasks[d])) = <<>>
<1>1. HookDelivery(deliveries[d], hookTasks[d])
  BY DEF HookInv
<1>2. PICK pc \in HookPlaces :
        hookTasks[d] = <<pc>> /\ (pc # "posting" => deliveries[d].attempts < WH!MaxRetries)
  BY <1>1 DEF HookDelivery
<1>3. j = 1 /\ Len(<<pc>>) = 1 /\ <<pc>> \in Seq(HookPlaces)
  BY <1>2
<1>4. \A q : [hookTasks[d] EXCEPT ![j] = q] = <<q>>
  BY <1>2, <1>3
<1>5. SubSeq(hookTasks[d], 1, j - 1) \o SubSeq(hookTasks[d], j + 1, Len(hookTasks[d])) = <<>>
  <2>1. SubSeq(hookTasks[d], 1, 0) = <<>> /\ SubSeq(hookTasks[d], 2, 1) = <<>>
    BY SubSeqEmpty
  <2>2. <<>> \o <<>> = <<>>
    BY EmptySeq, ConcatEmptySeq
  <2>. QED BY <1>2, <1>3, <2>1, <2>2
<1>. QED BY <1>1, <1>2, <1>3, <1>4, <1>5 DEF HookDelivery

LEMMA DeliverKeeps ==
  ASSUME HookInv, NEW d \in DOMAIN deliveries, NEW j \in DOMAIN hookTasks[d], WH!Deliver(d, j)
  PROVE  HookInv'
<1>1. HookDelivery(deliveries[d], hookTasks[d]) /\ deliveries[d].attempts < WH!MaxRetries
  BY OnlyTask DEF HookInv, WH!Deliver, HookPlaces
<1>2. CASE deliveries[d].to \in WH!Subscribed
  <2>. DEFINE r == [deliveries[d] EXCEPT !.attempts = @ + 1, !.sent = @ + 1]
  <2>1. deliveries' = [deliveries EXCEPT ![d] = r]
    BY <1>2 DEF WH!Deliver
  <2>2. hookTasks' = [hookTasks EXCEPT ![d] = <<"posting">>]
    <3>1. hookTasks' = [hookTasks EXCEPT ![d] = [hookTasks[d] EXCEPT ![j] = "posting"]]
      BY <1>2 DEF WH!Deliver, WH!Becomes
    <3>2. [hookTasks[d] EXCEPT ![j] = "posting"] = <<"posting">>
      BY OnlyTask
    <3>. QED BY <3>1, <3>2
  <2>3. HookDelivery(r, <<"posting">>)
    BY <1>1, OnlyTask DEF HookDelivery, HookPlaces, WH!MaxRetries
  <2>. HIDE DEF r
  <2>. QED BY <2>1, <2>2, <2>3, OneDeliveryChanges
<1>3. CASE deliveries[d].to \notin WH!Subscribed
  <2>. DEFINE r == [deliveries[d] EXCEPT !.status = "failed"]
  <2>1. deliveries' = [deliveries EXCEPT ![d] = r]
    BY <1>3 DEF WH!Deliver
  <2>2. hookTasks' = [hookTasks EXCEPT ![d] = <<>>]
    BY <1>3, OnlyTask DEF WH!Deliver, WH!Ends
  <2>3. HookDelivery(r, <<>>)
    BY <1>1 DEF HookDelivery
  <2>. HIDE DEF r
  <2>. QED BY <2>1, <2>2, <2>3, OneDeliveryChanges
<1>. QED BY <1>2, <1>3

LEMMA SucceedsKeeps ==
  ASSUME HookInv, NEW d \in DOMAIN deliveries, NEW j \in DOMAIN hookTasks[d], WH!Succeeds(d, j)
  PROVE  HookInv'
<1>. DEFINE r == [deliveries[d] EXCEPT !.status = "success", !.accepted = @ + 1]
<1>1. HookDelivery(deliveries[d], hookTasks[d])
  BY DEF HookInv
<1>2. deliveries' = [deliveries EXCEPT ![d] = r]
  BY DEF WH!Succeeds
<1>3. hookTasks' = [hookTasks EXCEPT ![d] = <<>>]
  BY OnlyTask DEF WH!Succeeds, WH!Ends
<1>4. HookDelivery(r, <<>>)
  BY <1>1 DEF HookDelivery
<1>. HIDE DEF r
<1>. QED BY <1>2, <1>3, <1>4, OneDeliveryChanges

LEMMA FailsKeeps ==
  ASSUME HookInv, NEW d \in DOMAIN deliveries, NEW j \in DOMAIN hookTasks[d],
         NEW took \in BOOLEAN, WH!Fails(d, j, took)
  PROVE  HookInv'
<1>. DEFINE over == deliveries[d].attempts >= WH!MaxRetries
            r == [deliveries[d] EXCEPT !.status = IF over THEN "failed" ELSE "retrying",
                                       !.accepted = IF took THEN @ + 1 ELSE @]
            t == IF over THEN <<>> ELSE <<"sleeping">>
<1>1. HookDelivery(deliveries[d], hookTasks[d])
  BY DEF HookInv
<1>2. deliveries' = [deliveries EXCEPT ![d] = r]
  BY DEF WH!Fails
<1>3. hookTasks' = [hookTasks EXCEPT ![d] = t]
  <2>1. CASE over
    BY <2>1, OnlyTask DEF WH!Fails, WH!Ends
  <2>2. CASE ~over
    <3>1. hookTasks' = [hookTasks EXCEPT ![d] = [hookTasks[d] EXCEPT ![j] = "sleeping"]]
      BY <2>2 DEF WH!Fails, WH!Becomes
    <3>2. [hookTasks[d] EXCEPT ![j] = "sleeping"] = <<"sleeping">>
      BY OnlyTask
    <3>. QED BY <2>2, <3>1, <3>2
  <2>. QED BY <2>1, <2>2
<1>4. HookDelivery(r, t)
  BY <1>1 DEF HookDelivery, HookPlaces, WH!MaxRetries
<1>. HIDE DEF r, t
<1>. QED BY <1>2, <1>3, <1>4, OneDeliveryChanges

LEMMA RetryKeeps ==
  ASSUME HookInv, WH!RetryFailed
  PROVE  HookInv'
<1>. DEFINE again == {d \in DOMAIN deliveries :
                        deliveries[d].status = "failed" /\ deliveries[d].attempts < WH!MaxRetries}
<1>1. /\ DOMAIN deliveries = 1..Len(deliveries) /\ DOMAIN hookTasks = 1..Len(deliveries)
      /\ Len(deliveries) \in Nat
  BY DEF HookInv, IsSequence
<1>2. deliveries' = [d \in 1..Len(deliveries) |->
                       IF d \in again THEN [deliveries[d] EXCEPT !.status = "retrying"]
                       ELSE deliveries[d]]
  BY <1>1 DEF WH!RetryFailed
<1>3. hookTasks' = [d \in 1..Len(deliveries) |->
                      IF d \in again THEN Append(hookTasks[d], "ready") ELSE hookTasks[d]]
  BY <1>1 DEF WH!RetryFailed
<1>4. ASSUME NEW d \in again
      PROVE  HookDelivery([deliveries[d] EXCEPT !.status = "retrying"],
                          Append(hookTasks[d], "ready"))
  <2>1. HookDelivery(deliveries[d], hookTasks[d]) /\ deliveries[d].status = "failed"
    BY <1>4 DEF HookInv
  <2>2. Append(hookTasks[d], "ready") = <<"ready">>
    <3>1. hookTasks[d] = <<>>
      BY <2>1 DEF HookDelivery
    <3>2. Append(<<>>, "ready") = <<"ready">>
      OBVIOUS
    <3>. QED BY <3>1, <3>2
  <2>. QED BY <1>4, <2>1, <2>2 DEF HookDelivery, HookPlaces, WH!MaxRetries
<1>. HIDE DEF again
<1>5. Len(deliveries') = Len(deliveries) /\ Len(hookTasks') = Len(deliveries)
  BY <1>1, <1>2, <1>3
<1>6. IsSequence(deliveries)'
  BY <1>1, <1>2, <1>5 DEF IsSequence
<1>7. IsSequence(hookTasks)'
  BY <1>1, <1>3, <1>5 DEF IsSequence
<1>8. ASSUME NEW d \in DOMAIN deliveries' PROVE HookDelivery(deliveries'[d], hookTasks'[d])
  BY <1>1, <1>2, <1>3, <1>4, <1>8 DEF HookInv
<1>. QED BY <1>5, <1>6, <1>7, <1>8 DEF HookInv

LEMMA ConcatAny ==
  ASSUME NEW s, IsSequence(s), NEW t, IsSequence(t)
  PROVE  /\ IsSequence(s \o t) /\ Len(s \o t) = Len(s) + Len(t)
         /\ DOMAIN (s \o t) = 1..(Len(s) + Len(t))
         /\ \A i \in 1..Len(s) + Len(t) : (s \o t)[i] =
                                          IF i <= Len(s) THEN s[i] ELSE t[i - Len(s)]
<1>. DEFINE S == {s[i] : i \in 1..Len(s)} \cup {t[i] : i \in 1..Len(t)}
<1>1. s \in Seq(S) /\ t \in Seq(S) /\ Len(s) \in Nat /\ Len(t) \in Nat
  BY DEF IsSequence
<1>. HIDE DEF S
<1>2. /\ s \o t \in Seq(S) /\ Len(s \o t) = Len(s) + Len(t)
      /\ \A i \in 1..Len(s) + Len(t) : (s \o t)[i] = IF i <= Len(s) THEN s[i] ELSE t[i - Len(s)]
  BY <1>1, ConcatProperties
<1>3. s \o t \in [1..(Len(s) + Len(t)) -> S]
  BY <1>2, LenProperties
<1>4. s \o t = [i \in 1..(Len(s) + Len(t)) |-> (s \o t)[i]]
  BY <1>1, <1>3, IsAFunction
<1>. QED BY <1>1, <1>2, <1>3, <1>4 DEF IsSequence

LEMMA SendKeeps ==
  ASSUME HookInv, WH!WebhooksAssumption, NEW type, WH!SendWebhook(type)
  PROVE  HookInv'
<1>. DEFINE matching == {s \in WH!Subscribed : type \in subscriptions[s]}
            n == Len(deliveries)
            m == WH!Cardinality(matching)
            ready == [i \in 1..m |-> <<"ready">>]
<1>1. m \in Nat
  <2>1. IsFiniteSet(Subscribers)
    BY SameCardinality DEF WH!WebhooksAssumption
  <2>2. matching \in SUBSET Subscribers
    BY DEF WH!Subscribed
  <2>. QED BY <2>1, <2>2, SameCardinality, FS_Subset, FS_CardinalityType
<1>2. PICK order : /\ deliveries' = deliveries \o [i \in 1..m |-> WH!Delivery(order[i])]
                   /\ hookTasks' = hookTasks \o ready
  BY DEF WH!SendWebhook
<1>. DEFINE new == [i \in 1..m |-> WH!Delivery(order[i])]
<1>3. deliveries' = deliveries \o new
  BY <1>2
<1>. HIDE DEF matching, m
<1>4. IsSequence(new) /\ Len(new) = m /\ IsSequence(ready) /\ Len(ready) = m
  <2>1. Len(new) = m /\ Len(ready) = m
    BY <1>1
  <2>. QED BY <1>1, <2>1 DEF IsSequence
<1>5. \A i \in 1..m : HookDelivery(new[i], ready[i])
  BY <1>1 DEF HookDelivery, HookPlaces, WH!MaxRetries, WH!Delivery
<1>6. IsSequence(deliveries) /\ IsSequence(hookTasks) /\ Len(hookTasks) = n /\ n \in Nat
  BY DEF HookInv, IsSequence
<1>. HIDE DEF new, ready
<1>7. /\ IsSequence(deliveries') /\ Len(deliveries') = n + m /\ DOMAIN deliveries' = 1..(n + m)
      /\ \A i \in 1..(n + m) : deliveries'[i] = IF i <= n THEN deliveries[i] ELSE new[i - n]
  BY <1>3, <1>4, <1>6, ConcatAny
<1>8. /\ IsSequence(hookTasks') /\ Len(hookTasks') = n + m
      /\ \A i \in 1..(n + m) : hookTasks'[i] = IF i <= n THEN hookTasks[i] ELSE ready[i - n]
  <2>1. /\ IsSequence(hookTasks \o ready) /\ Len(hookTasks \o ready) = Len(hookTasks) + Len(ready)
        /\ \A i \in 1..Len(hookTasks) + Len(ready) : (hookTasks \o ready)[i] =
             IF i <= Len(hookTasks) THEN hookTasks[i] ELSE ready[i - Len(hookTasks)]
    BY <1>4, <1>6, ConcatAny
  <2>. QED BY <1>2, <1>4, <1>6, <2>1
<1>. HIDE DEF n
<1>9. ASSUME NEW i \in 1..(n + m) PROVE HookDelivery(deliveries'[i], hookTasks'[i])
  <2>1. CASE i <= n
    <3>1. i \in DOMAIN deliveries
      BY <1>6, <2>1 DEF IsSequence, n
    <3>. QED BY <1>7, <1>8, <2>1, <3>1 DEF HookInv
  <2>2. CASE i > n
    <3>1. i - n \in 1..m /\ ~(i <= n)
      BY <1>1, <1>6, <2>2
    <3>. QED BY <1>5, <1>7, <1>8, <3>1
  <2>. QED BY <1>1, <1>6, <2>1, <2>2
<1>. QED BY <1>7, <1>8, <1>9 DEF HookInv

LEMMA HookStep ==
  ASSUME HookInv, WH!WebhooksAssumption, [WH!Next]_(WH!vars)
  PROVE  HookInv'
<1>1. CASE deliveries' = deliveries /\ hookTasks' = hookTasks
  BY <1>1 DEF HookInv
<1>. QED
  BY <1>1, SendKeeps, DeliverKeeps, SucceedsKeeps, FailsKeeps, RetryKeeps
     DEF WH!Next, WH!vars, WH!Subscribe, WH!Unsubscribe

(* Every delivery has one task until it is settled. *)
LEMMA HooksHold ==
  /\ WH!Init => HookInv
  /\ HookInv => WH!DeliveriesHaveOneTask
<1>1. WH!Init => HookInv
  BY DEF WH!Init, HookInv, IsSequence
<1>2. ASSUME HookInv, NEW d \in DOMAIN deliveries
      PROVE  /\ Len(hookTasks[d]) =
                IF deliveries[d].status \in {"success", "failed"} THEN 0 ELSE 1
             /\ deliveries[d].sent <= WH!MaxRetries
             /\ deliveries[d].status = "success" => deliveries[d].accepted > 0
  <2>1. HookDelivery(deliveries[d], hookTasks[d])
    BY <1>2 DEF HookInv
  <2>2. CASE hookTasks[d] = <<>> /\ deliveries[d].status \in {"success", "failed"}
    BY <2>1, <2>2 DEF HookDelivery, WH!MaxRetries
  <2>3. CASE deliveries[d].status \notin {"success", "failed"}
    <3>1. PICK pc \in HookPlaces : hookTasks[d] = <<pc>>
      BY <2>1, <2>3 DEF HookDelivery
    <3>2. Len(hookTasks[d]) = 1
      BY <3>1
    <3>. QED BY <2>1, <2>3, <3>2 DEF HookDelivery, WH!MaxRetries
  <2>. QED BY <2>1, <2>2, <2>3 DEF HookDelivery
<1>. QED BY <1>1, <1>2 DEF WH!DeliveriesHaveOneTask
(***************************************************************************)
(* EventBus                                                                *)
(***************************************************************************)
(* How often e is in the sequence s. *)
Times(s, e) == Cardinality({i \in DOMAIN s : s[i] = e})

LEMMA TimesIsNatural ==
  ASSUME NEW S, NEW s \in Seq(S), NEW e
  PROVE  IsFiniteSet({i \in DOMAIN s : s[i] = e}) /\ Times(s, e) \in Nat
<1>1. DOMAIN s = 1..Len(s) /\ Len(s) \in Nat
  BY LenProperties
<1>2. IsFiniteSet(DOMAIN s)
  BY <1>1, FS_Interval
<1>3. {i \in DOMAIN s : s[i] = e} \in SUBSET DOMAIN s
  OBVIOUS
<1>4. IsFiniteSet({i \in DOMAIN s : s[i] = e})
  BY <1>2, <1>3, FS_Subset
<1>. QED BY <1>4, FS_CardinalityType DEF Times

LEMMA NotInIt ==
  ASSUME NEW S, NEW s \in Seq(S), NEW e
  PROVE  Times(s, e) = 0 <=> \A i \in DOMAIN s : s[i] # e
<1>1. IsFiniteSet({i \in DOMAIN s : s[i] = e})
  BY TimesIsNatural
<1>2. Times(s, e) = 0 <=> {i \in DOMAIN s : s[i] = e} = {}
  BY <1>1, FS_EmptySet DEF Times
<1>. QED BY <1>2

LEMMA OnceMore ==
  ASSUME NEW S, NEW s \in Seq(S), NEW x \in S, NEW e
  PROVE  Times(Append(s, x), e) = Times(s, e) + (IF x = e THEN 1 ELSE 0)
<1>. DEFINE T == {i \in DOMAIN s : s[i] = e}
            U == {i \in DOMAIN Append(s, x) : Append(s, x)[i] = e}
<1>1. /\ DOMAIN s = 1..Len(s) /\ Len(s) \in Nat
      /\ DOMAIN Append(s, x) = 1..(Len(s) + 1)
      /\ \A i \in 1..Len(s) : Append(s, x)[i] = s[i]
      /\ Append(s, x)[Len(s) + 1] = x
  BY AppendProperties, LenProperties
<1>2. IsFiniteSet(T) /\ Times(s, e) = Cardinality(T) /\ Times(Append(s, x), e) = Cardinality(U)
  BY TimesIsNatural DEF Times
<1>3. U = IF x = e THEN T \cup {Len(s) + 1} ELSE T
  BY <1>1
<1>4. Len(s) + 1 \notin T
  BY <1>1
<1>5. Cardinality(T) \in Nat
  BY <1>2, FS_CardinalityType
<1>. HIDE DEF T, U
<1>6. Cardinality(T \cup {Len(s) + 1}) = Cardinality(T) + 1
  BY <1>2, <1>4, FS_AddElement
<1>. QED BY <1>2, <1>3, <1>5, <1>6

LEMMA OnceLess ==
  ASSUME NEW S, NEW s \in Seq(S), s # <<>>, NEW e
  PROVE  Times(s, e) = Times(Tail(s), e) + (IF Head(s) = e THEN 1 ELSE 0)
<1>. DEFINE T == {i \in DOMAIN s : s[i] = e}
            U == {i \in DOMAIN Tail(s) : Tail(s)[i] = e}
            V == T \ {1}
<1>1. /\ DOMAIN s = 1..Len(s) /\ Len(s) \in Nat \ {0}
      /\ Tail(s) \in Seq(S) /\ DOMAIN Tail(s) = 1..(Len(s) - 1)
      /\ \A i \in 1..(Len(s) - 1) : Tail(s)[i] = s[i + 1]
      /\ Head(s) = s[1]
  BY HeadTailProperties, LenProperties, EmptySeq
<1>2. /\ IsFiniteSet(T) /\ IsFiniteSet(U)
      /\ Times(s, e) = Cardinality(T) /\ Times(Tail(s), e) = Cardinality(U)
  BY <1>1, TimesIsNatural DEF Times
<1>3. Cardinality(U) = Cardinality(V)
  <2>. DEFINE f == [i \in U |-> i + 1]
  <2>1. f \in [U -> V]
    BY <1>1
  <2>2. \A i, j \in U : f[i] = f[j] => i = j
    BY <1>1
  <2>3. \A n \in V : \E i \in U : f[i] = n
    <3>. SUFFICES ASSUME NEW n \in V PROVE \E i \in U : f[i] = n
      OBVIOUS
    <3>1. n - 1 \in U /\ (n - 1) + 1 = n
      BY <1>1
    <3>. QED BY <3>1
  <2>. HIDE DEF f, U, V
  <2>4. f \in Bijection(U, V)
    BY <2>1, <2>2, <2>3 DEF Bijection, Injection, Surjection, IsInjective
  <2>. QED BY <1>2, <2>4, FS_Bijection DEF ExistsBijection
<1>4. 1 \in T <=> Head(s) = e
  BY <1>1
<1>5. Cardinality(T) \in Nat
  BY <1>2, FS_CardinalityType
<1>. HIDE DEF T, U
<1>6. Cardinality(T \ {1}) = IF 1 \in T THEN Cardinality(T) - 1 ELSE Cardinality(T)
  BY <1>2, FS_RemoveElement
<1>. QED BY <1>2, <1>3, <1>4, <1>5, <1>6

BusTypes ==
  /\ connections \in Nat /\ current \in 0..connections /\ open \subseteq 1..connections
  /\ local \subseteq Callbacks /\ events \in Nat
  /\ inbox = [c \in Callbacks |-> inbox[c]] /\ heard = [c \in Callbacks |-> heard[c]]
  /\ owed = [c \in Callbacks |-> owed[c]] /\ remote \in [Callbacks -> 0..connections]

(* What is known, after n events, of a subscriber whose events on their way,
   events heard and events owed are given: each that is owed once, each other
   never.                                                                     *)
Served(n, way, got, due) ==
  /\ way \in Seq(1..n) /\ got \in Seq(1..n) /\ due \subseteq 1..n
  /\ \A e \in 1..n : Times(got, e) + Times(way, e) = IF e \in due THEN 1 ELSE 0

BusInv ==
  /\ BusTypes
  /\ \A c \in Callbacks :
       /\ Served(events, inbox[c], heard[c], owed[c])
       /\ remote[c] = 0 \/ c \notin local => inbox[c] = <<>>

(* Connections come and go; nothing is sent meanwhile. *)
LEMMA NothingSent ==
  ASSUME BusInv, BusTypes', UNCHANGED <<events, inbox, heard, owed>>,
         \A c \in Callbacks : c \in local => c \in local' /\ remote'[c] = remote[c]
  PROVE  BusInv'
<1>1. ASSUME NEW c \in Callbacks
      PROVE  /\ Served(events', inbox'[c], heard'[c], owed'[c])
             /\ remote'[c] = 0 \/ c \notin local' => inbox'[c] = <<>>
  BY DEF BusInv, Served
<1>. QED BY <1>1 DEF BusInv

LEMMA BusDisconnects ==
  ASSUME BusInv, EB!Disconnect
  PROVE  BusInv'
<1>1. BusTypes'
  BY DEF BusInv, BusTypes, EB!Disconnect
<1>2. ASSUME NEW c \in Callbacks
      PROVE  /\ Served(events', inbox'[c], heard'[c], owed'[c])
             /\ remote'[c] = 0 \/ c \notin local' => inbox'[c] = <<>>
  <2>0. events' = events /\ remote' = remote /\ local' = local /\ heard' = heard
    BY DEF EB!Disconnect
  <2>s. Served(events, inbox[c], heard[c], owed[c])
    BY DEF BusInv
  <2>1. CASE remote[c] # current
    <3>1. inbox'[c] = inbox[c] /\ owed'[c] = owed[c]
      BY <2>1 DEF EB!Disconnect
    <3>. QED BY <2>0, <2>s, <3>1 DEF BusInv, Served
  <2>2. CASE remote[c] = current
    <3>1. inbox'[c] = <<>> /\ owed'[c] = owed[c] \ {inbox[c][i] : i \in DOMAIN inbox[c]}
      BY <2>2 DEF EB!Disconnect
    <3>2. ASSUME NEW e \in 1..events
          PROVE  Times(heard[c], e) + Times(<<>>, e) = IF e \in owed'[c] THEN 1 ELSE 0
      <4>1. <<>> \in Seq(1..events) /\ DOMAIN <<>> = {}
        OBVIOUS
      <4>2. Times(<<>>, e) = 0
        BY <4>1, NotInIt
      <4>3. Times(heard[c], e) \in Nat /\ Times(inbox[c], e) \in Nat
        BY <2>s, TimesIsNatural DEF Served
      <4>4. Times(inbox[c], e) = 0 <=> \A i \in DOMAIN inbox[c] : inbox[c][i] # e
        BY <2>s, NotInIt DEF Served
      <4>5. Times(heard[c], e) + Times(inbox[c], e) = IF e \in owed[c] THEN 1 ELSE 0
        BY <2>s DEF Served
      <4>6. CASE Times(inbox[c], e) = 0
        <5>1. e \in owed'[c] <=> e \in owed[c]
          BY <3>1, <4>4, <4>6
        <5>. QED BY <4>2, <4>3, <4>5, <4>6, <5>1
      <4>7. CASE Times(inbox[c], e) # 0
        <5>1. e \notin owed'[c]
          BY <3>1, <4>4, <4>7
        <5>. QED BY <4>2, <4>3, <4>5, <4>7, <5>1
      <4>. QED BY <4>6, <4>7
    <3>. QED BY <2>0, <2>s, <3>1, <3>2 DEF Served
  <2>. QED BY <2>1, <2>2
<1>. QED BY <1>1, <1>2 DEF BusInv

(* A new event, on its way to one subscriber or heard by it at once. *)
LEMMA NewEvent ==
  ASSUME NEW m \in Nat, NEW way, NEW got, NEW due, Served(m, way, got, due)
  PROVE  /\ Served(m + 1, way, got, due)
         /\ Served(m + 1, Append(way, m + 1), got, due \cup {m + 1})
         /\ Served(m + 1, way, Append(got, m + 1), due \cup {m + 1})
<1>. DEFINE n == m + 1
<1>1. n \in Nat /\ n \notin 1..m /\ 1..m \subseteq 1..n /\ n \in 1..n /\ 1..n = (1..m) \cup {n}
  OBVIOUS
<1>2. way \in Seq(1..n) /\ got \in Seq(1..n)
  BY <1>1, SeqMonotonic DEF Served
<1>3. Times(way, n) = 0 /\ Times(got, n) = 0 /\ n \notin due
  <2>1. /\ way \in Seq(1..m) /\ got \in Seq(1..m)
        /\ \A i \in DOMAIN way : way[i] # n
        /\ \A i \in DOMAIN got : got[i] # n
    BY <1>1, LenProperties DEF Served
  <2>. QED BY <1>1, <2>1, NotInIt DEF Served
<1>4. ASSUME NEW e \in 1..n
      PROVE  /\ Times(way, e) \in Nat /\ Times(got, e) \in Nat
             /\ Times(Append(way, n), e) = Times(way, e) + (IF n = e THEN 1 ELSE 0)
             /\ Times(Append(got, n), e) = Times(got, e) + (IF n = e THEN 1 ELSE 0)
             /\ Times(got, e) + Times(way, e) = IF e \in due THEN 1 ELSE 0
  <2>1. Times(got, e) + Times(way, e) = IF e \in due THEN 1 ELSE 0
    <3>1. CASE e = n
      BY <1>3, <3>1
    <3>2. CASE e # n
      BY <1>1, <3>2 DEF Served
    <3>. QED BY <3>1, <3>2
  <2>2. Times(way, e) \in Nat /\ Times(got, e) \in Nat
    BY <1>2, TimesIsNatural
  <2>3. /\ Times(Append(way, n), e) = Times(way, e) + (IF n = e THEN 1 ELSE 0)
        /\ Times(Append(got, n), e) = Times(got, e) + (IF n = e THEN 1 ELSE 0)
    <3>1. n \in 1..n
      BY <1>1
    <3>2. Times(Append(way, n), e) = Times(way, e) + (IF n = e THEN 1 ELSE 0)
      BY <1>2, <3>1, OnceMore
    <3>3. Times(Append(got, n), e) = Times(got, e) + (IF n = e THEN 1 ELSE 0)
      BY <1>2, <3>1, OnceMore
    <3>. QED BY <3>2, <3>3
  <2>. QED BY <2>1, <2>2, <2>3
<1>5. Append(way, n) \in Seq(1..n) /\ Append(got, n) \in Seq(1..n)
  BY <1>1, <1>2, AppendProperties
<1>6. due \subseteq 1..n /\ due \cup {n} \subseteq 1..n
  BY <1>1 DEF Served
<1>. HIDE DEF n
<1>7. Served(n, way, got, due)
  BY <1>2, <1>4, <1>6 DEF Served
<1>8. Served(n, Append(way, n), got, due \cup {n})
  <2>1. ASSUME NEW e \in 1..n
        PROVE  Times(got, e) + Times(Append(way, n), e) = IF e \in due \cup {n} THEN 1 ELSE 0
    BY <1>3, <1>4
  <2>. QED BY <1>2, <1>5, <1>6, <2>1 DEF Served
<1>9. Served(n, way, Append(got, n), due \cup {n})
  <2>1. ASSUME NEW e \in 1..n
        PROVE  Times(Append(got, n), e) + Times(way, e) = IF e \in due \cup {n} THEN 1 ELSE 0
    BY <1>3, <1>4
  <2>. QED BY <1>2, <1>5, <1>6, <2>1 DEF Served
<1>. QED BY <1>7, <1>8, <1>9 DEF n

LEMMA BusPublishes ==
  ASSUME BusInv, EB!Publish
  PROVE  BusInv'
<1>. DEFINE n == events + 1
            sent == IF EB!Online /\ current \in open THEN {c \in local : remote[c] \in open}
                    ELSE {}
            due == IF EB!Online THEN sent ELSE local
            direct == IF EB!Online THEN {} ELSE local
<1>1. /\ events' = n
      /\ inbox' = [c \in Callbacks |-> IF c \in sent THEN Append(inbox[c], n) ELSE inbox[c]]
      /\ heard' = [c \in Callbacks |-> IF c \in direct THEN Append(heard[c], n) ELSE heard[c]]
      /\ owed' = [c \in Callbacks |-> IF c \in due THEN owed[c] \cup {n} ELSE owed[c]]
      /\ UNCHANGED <<connections, current, open, local, remote>>
  BY DEF EB!Publish, EB!CalledDirectly
<1>2. BusTypes'
  BY <1>1 DEF BusInv, BusTypes
<1>3. /\ sent \cap direct = {} /\ due = sent \cup direct
      /\ \A c \in sent : c \in local /\ remote[c] # 0
  BY DEF BusInv, BusTypes
<1>. HIDE DEF sent, due, direct
<1>4. ASSUME NEW c \in Callbacks
      PROVE  /\ Served(events', inbox'[c], heard'[c], owed'[c])
             /\ remote'[c] = 0 \/ c \notin local' => inbox'[c] = <<>>
  <2>1. /\ Served(events, inbox[c], heard[c], owed[c])
        /\ remote[c] = 0 \/ c \notin local => inbox[c] = <<>>
    BY DEF BusInv
  <2>2. ASSUME NEW way, NEW got, NEW owing, Served(events, way, got, owing)
        PROVE  /\ Served(n, way, got, owing)
               /\ Served(n, Append(way, n), got, owing \cup {n})
               /\ Served(n, way, Append(got, n), owing \cup {n})
    BY <2>2, NewEvent DEF BusInv, BusTypes
  <2>3. CASE c \in sent
    <3>1. inbox'[c] = Append(inbox[c], n) /\ heard'[c] = heard[c] /\ owed'[c] = owed[c] \cup {n}
      BY <1>1, <1>3, <2>3
    <3>. QED BY <1>1, <1>3, <2>1, <2>2, <2>3, <3>1
  <2>4. CASE c \in direct
    <3>1. inbox'[c] = inbox[c] /\ heard'[c] = Append(heard[c], n) /\ owed'[c] = owed[c] \cup {n}
      BY <1>1, <1>3, <2>4
    <3>2. Served(n, inbox[c], Append(heard[c], n), owed[c] \cup {n})
      BY <2>1, <2>2
    <3>3. remote'[c] = 0 \/ c \notin local' => inbox'[c] = <<>>
      BY <1>1, <2>1, <3>1
    <3>. QED BY <1>1, <3>1, <3>2, <3>3
  <2>5. CASE c \notin sent \cup direct
    <3>1. inbox'[c] = inbox[c] /\ heard'[c] = heard[c] /\ owed'[c] = owed[c]
      BY <1>1, <1>3, <2>5
    <3>. QED BY <1>1, <2>1, <2>2, <3>1
  <2>. QED BY <2>3, <2>4, <2>5
<1>. QED BY <1>2, <1>4 DEF BusInv

LEMMA BusDelivers ==
  ASSUME BusInv, NEW c \in Callbacks, EB!Deliver(c)
  PROVE  BusInv'
<1>1. /\ inbox[c] # <<>>
      /\ inbox' = [inbox EXCEPT ![c] = Tail(@)]
      /\ heard' = [heard EXCEPT ![c] = Append(@, Head(inbox[c]))]
      /\ UNCHANGED <<connections, current, open, local, remote, owed, events>>
  BY DEF EB!Deliver
<1>2. BusTypes'
  BY <1>1 DEF BusInv, BusTypes
<1>3. Served(events, inbox[c], heard[c], owed[c])
  BY DEF BusInv
<1>4. inbox'[c] = Tail(inbox[c]) /\ heard'[c] = Append(heard[c], Head(inbox[c]))
  BY <1>1 DEF BusInv, BusTypes
<1>5. Tail(inbox[c]) \in Seq(1..events) /\ Append(heard[c], Head(inbox[c])) \in Seq(1..events)
  BY <1>1, <1>3, HeadTailProperties, AppendProperties DEF Served
<1>6. ASSUME NEW e \in 1..events
      PROVE  Times(heard'[c], e) + Times(inbox'[c], e) = IF e \in owed[c] THEN 1 ELSE 0
  <2>1. /\ inbox[c] \in Seq(1..events) /\ heard[c] \in Seq(1..events)
        /\ Times(heard[c], e) + Times(inbox[c], e) = IF e \in owed[c] THEN 1 ELSE 0
    BY <1>3 DEF Served
  <2>2. Head(inbox[c]) \in 1..events
    BY <1>1, <2>1, HeadTailProperties
  <2>3. Times(inbox[c], e) = Times(Tail(inbox[c]), e) + (IF Head(inbox[c]) = e THEN 1 ELSE 0)
    BY <1>1, <2>1, OnceLess
  <2>4. Times(heard'[c], e) = Times(heard[c], e) + (IF Head(inbox[c]) = e THEN 1 ELSE 0)
    <3>1. Times(Append(heard[c], Head(inbox[c])), e)
            = Times(heard[c], e) + (IF Head(inbox[c]) = e THEN 1 ELSE 0)
      <4>1. heard[c] \in Seq(1..events) /\ events \in Nat
        BY <2>1 DEF BusInv, BusTypes
      <4>. QED BY <2>2, <4>1, OnceMore
    <3>. QED BY <1>4, <3>1
  <2>5. Times(heard[c], e) \in Nat /\ Times(Tail(inbox[c]), e) \in Nat
    BY <1>5, <2>1, TimesIsNatural
  <2>. QED BY <1>4, <2>1, <2>3, <2>4, <2>5
<1>7. Served(events', inbox'[c], heard'[c], owed'[c])
  BY <1>1, <1>3, <1>4, <1>5, <1>6 DEF Served
<1>8. ASSUME NEW d \in Callbacks, d # c
      PROVE  /\ Served(events', inbox'[d], heard'[d], owed'[d])
             /\ remote'[d] = 0 \/ d \notin local' => inbox'[d] = <<>>
  <2>1. inbox'[d] = inbox[d] /\ heard'[d] = heard[d]
    BY <1>1, <1>8 DEF BusInv, BusTypes
  <2>. QED BY <1>1, <2>1 DEF BusInv, Served
<1>9. ~(remote'[c] = 0 \/ c \notin local')
  BY <1>1 DEF BusInv
<1>. QED BY <1>2, <1>7, <1>8, <1>9 DEF BusInv

LEMMA BusStep ==
  ASSUME BusInv, EB!BusAssumption, [EB!Next]_(EB!vars)
  PROVE  BusInv'
<1>1. CASE UNCHANGED EB!vars
  <2>1. BusTypes'
    BY <1>1 DEF EB!vars, BusInv, BusTypes
  <2>. QED BY <1>1, <2>1, NothingSent DEF EB!vars
<1>2. CASE EB!Connect \/ EB!ConnectFails \/ EB!ConnectSucceeds
  <2>1. BusTypes'
    BY <1>2 DEF BusInv, BusTypes, EB!Connect, EB!ConnectFails, EB!ConnectSucceeds
  <2>. QED BY <1>2, <2>1, NothingSent DEF EB!Connect, EB!ConnectFails, EB!ConnectSucceeds
<1>3. ASSUME NEW c \in Callbacks, EB!Subscribe(c) PROVE BusInv'
  <2>1. BusTypes'
    BY <1>3 DEF BusInv, BusTypes, EB!Subscribe
  <2>2. \A d \in Callbacks : d \in local => d \in local' /\ remote'[d] = remote[d]
    BY <1>3 DEF BusInv, BusTypes, EB!Subscribe
  <2>. QED BY <1>3, <2>1, <2>2, NothingSent DEF EB!Subscribe
<1>. QED BY <1>1, <1>2, <1>3, BusDisconnects, BusPublishes, BusDelivers DEF EB!Next

(* Every event is heard or on its way once to whom it is owed, and never else. *)
LEMMA BusHolds ==
  /\ EB!Init => BusInv
  /\ BusInv => EB!CalledOnceEach
<1>1. ASSUME EB!Init PROVE BusInv
  <2>1. <<>> \in Seq(1..events) /\ 1..events = {}
    BY <1>1 DEF EB!Init
  <2>2. Served(events, <<>>, <<>>, {})
    BY <2>1 DEF Served
  <2>3. BusTypes
    BY <1>1 DEF EB!Init, BusTypes
  <2>. QED BY <1>1, <2>2, <2>3 DEF EB!Init, BusInv
<1>2. ASSUME BusInv, NEW c \in Callbacks
      PROVE  /\ \A e \in 1..events : Times(heard[c], e) + Times(inbox[c], e) =
                                     IF e \in owed[c] THEN 1 ELSE 0
             /\ remote[c] = 0 => \A i \in DOMAIN inbox[c] : FALSE
  BY <1>2 DEF BusInv, Served
<1>3. ASSUME BusInv PROVE EB!CalledOnceEach
  BY <1>2, <1>3, SameCardinality DEF EB!CalledOnceEach, Times
<1>. QED BY <1>1, <1>3
(***************************************************************************)
(* ApiGateway                                                              *)
(***************************************************************************)
(* The requests, let through at the times s, that fall into the minute which
   begins with the one at start; and those of a bucket in the minute before t. *)
InMinute(s, start) == {i \in start..Len(s) : s[i] < s[start] + GW!Minute}

Recent(bucket, t) == {r \in bucket : r.at > t - GW!Minute}

(* What is known of a key with the given limit, at time t, its requests having
   been let through at the times s: the bucket holds those of the last minute. *)
Counted(s, bucket, limit, t) ==
  /\ s \in Seq(0..t)
  /\ \A i, j \in DOMAIN s : i <= j => s[i] <= s[j]
  /\ IsFiniteSet(bucket)
  /\ \A i \in DOMAIN s : s[i] > t - GW!Minute => [number |-> i, at |-> s[i]] \in bucket
  /\ \A start \in DOMAIN s : Cardinality(InMinute(s, start)) <= limit

KeyInv ==
  /\ time \in Nat
  /\ apiKeys = [key \in ApiKeys |-> apiKeys[key]] /\ buckets = [key \in ApiKeys |-> buckets[key]]
  /\ passed = [key \in ApiKeys |-> passed[key]]
  /\ \A key \in ApiKeys :
       /\ DOMAIN apiKeys[key] = {"created", "active", "limit", "expires"}
       /\ apiKeys[key].limit \in Nat /\ (~apiKeys[key].created => passed[key] = <<>>)
       /\ Counted(passed[key], buckets[key], apiKeys[key].limit, time)

LEMMA MinuteIsFinite ==
  ASSUME NEW t \in Nat, NEW s \in Seq(0..t), NEW start \in DOMAIN s
  PROVE  IsFiniteSet(InMinute(s, start)) /\ Cardinality(InMinute(s, start)) \in Nat
<1>1. start \in Int /\ Len(s) \in Int
  BY LenProperties
<1>2. IsFiniteSet(start..Len(s))
  BY <1>1, FS_Interval
<1>3. InMinute(s, start) \in SUBSET (start..Len(s))
  BY DEF InMinute
<1>4. IsFiniteSet(InMinute(s, start))
  BY <1>2, <1>3, FS_Subset
<1>. QED BY <1>4, FS_CardinalityType

(* As time passes, less of what was let through counts. *)
LEMMA TimePasses ==
  ASSUME NEW t \in Nat, NEW u \in Nat, t <= u, NEW s, NEW bucket, NEW limit,
         Counted(s, bucket, limit, t)
  PROVE  Counted(s, bucket, limit, u)
<1>1. s \in Seq(0..u) /\ s \in Seq(0..t)
  <2>1. 0..t \subseteq 0..u /\ s \in Seq(0..t)
    BY DEF Counted
  <2>. QED BY <2>1, SeqMonotonic
<1>2. ASSUME NEW i \in DOMAIN s, s[i] > u - GW!Minute PROVE [number |-> i, at |-> s[i]] \in bucket
  <2>1. s[i] \in 0..t
    BY <1>1, LenProperties
  <2>2. s[i] > t - GW!Minute
    BY <1>2, <2>1 DEF GW!Minute
  <2>. QED BY <2>2 DEF Counted
<1>. QED BY <1>1, <1>2 DEF Counted

(* The requests of the minute before t are numbered by those that the bucket
   still holds, so there are no more than these.                              *)
LEMMA CountedInBucket ==
  ASSUME NEW t \in Nat, NEW s, NEW bucket, NEW limit, Counted(s, bucket, limit, t),
         NEW start \in DOMAIN s, s[start] > t - GW!Minute
  PROVE  Cardinality(start..Len(s)) <= Cardinality(Recent(bucket, t))
<1>. DEFINE f == [i \in start..Len(s) |-> [number |-> i, at |-> s[i]]]
<1>1. DOMAIN s = 1..Len(s) /\ Len(s) \in Nat /\ s \in [1..Len(s) -> 0..t]
  BY LenProperties DEF Counted
<1>2. ASSUME NEW i \in start..Len(s) PROVE f[i] \in Recent(bucket, t)
  <2>1. i \in DOMAIN s /\ start <= i /\ s[i] \in 0..t /\ s[start] \in 0..t
    BY <1>1
  <2>2. s[start] <= s[i]
    BY <2>1 DEF Counted
  <2>3. s[i] > t - GW!Minute
    BY <2>1, <2>2 DEF GW!Minute
  <2>. QED BY <2>1, <2>3 DEF Counted, Recent
<1>3. \A i, j \in start..Len(s) : f[i] = f[j] => i = j
  <2>1. \A i \in start..Len(s) : f[i].number = i
    OBVIOUS
  <2>. QED BY <2>1
<1>4. f \in [start..Len(s) -> Recent(bucket, t)]
  BY <1>2
<1>. HIDE DEF f
<1>5. f \in Injection(start..Len(s), Recent(bucket, t))
  BY <1>3, <1>4 DEF Injection, IsInjective
<1>6. IsFiniteSet(Recent(bucket, t))
  <2>1. Recent(bucket, t) \in SUBSET bucket /\ IsFiniteSet(bucket)
    BY DEF Recent, Counted
  <2>. QED BY <2>1, FS_Subset
<1>. QED BY <1>5, <1>6, FS_Injection

(* A request is let through when fewer than the limit are in the bucket. *)
LEMMA LetThrough ==
  ASSUME NEW t \in Nat, NEW s, NEW bucket, NEW limit \in Nat, Counted(s, bucket, limit, t),
         Cardinality(Recent(bucket, t)) < limit
  PROVE  Counted(Append(s, t), Recent(bucket, t) \cup {[number |-> Len(s) + 1, at |-> t]}, limit, t)
<1>. DEFINE n == Len(s) + 1
            after == Append(s, t)
            full == Recent(bucket, t) \cup {[number |-> n, at |-> t]}
<1>1. s \in Seq(0..t) /\ t \in 0..t
  BY DEF Counted
<1>2. /\ DOMAIN s = 1..Len(s) /\ Len(s) \in Nat /\ \A i \in 1..Len(s) : s[i] \in 0..t
      /\ after \in Seq(0..t) /\ Len(after) = n /\ DOMAIN after = 1..n
      /\ \A i \in 1..Len(s) : after[i] = s[i]
      /\ after[n] = t
  BY <1>1, AppendProperties, LenProperties
<1>3. IsFiniteSet(Recent(bucket, t)) /\ Cardinality(Recent(bucket, t)) \in Nat
  <2>1. Recent(bucket, t) \in SUBSET bucket /\ IsFiniteSet(bucket)
    BY DEF Recent, Counted
  <2>. QED BY <2>1, FS_Subset, FS_CardinalityType
<1>4. IsFiniteSet(full)
  BY <1>3, FS_AddElement
<1>. HIDE DEF after
<1>5. ASSUME NEW i \in DOMAIN after, NEW j \in DOMAIN after, i <= j PROVE after[i] <= after[j]
  <2>1. CASE j = n
    <3>1. after[i] \in 0..t
      BY <1>2, LenProperties
    <3>. QED BY <1>2, <2>1, <3>1
  <2>2. CASE j # n
    <3>1. i \in DOMAIN s /\ j \in DOMAIN s /\ after[i] = s[i] /\ after[j] = s[j]
      BY <1>2, <1>5, <2>2
    <3>. QED BY <1>5, <3>1 DEF Counted
  <2>. QED BY <2>1, <2>2
<1>6. ASSUME NEW i \in DOMAIN after, after[i] > t - GW!Minute
      PROVE  [number |-> i, at |-> after[i]] \in full
  <2>1. CASE i = n
    BY <1>2, <2>1
  <2>2. CASE i # n
    <3>1. i \in DOMAIN s /\ after[i] = s[i]
      BY <1>2, <2>2
    <3>2. [number |-> i, at |-> s[i]] \in bucket
      BY <1>6, <3>1 DEF Counted
    <3>. QED BY <1>6, <3>1, <3>2 DEF Recent
  <2>. QED BY <2>1, <2>2
<1>7. ASSUME NEW start \in DOMAIN after PROVE Cardinality(InMinute(after, start)) <= limit
  <2>0. start \in 1..n /\ n \in Nat
    BY <1>2
  <2>1. CASE start # n /\ ~(s[start] > t - GW!Minute)
    <3>1. start \in DOMAIN s /\ after[start] = s[start] /\ s[start] \in 0..t
      BY <1>2, <2>0, <2>1
    <3>2. InMinute(after, start) = InMinute(s, start)
      <4>1. ASSUME NEW i \in start..n PROVE after[i] < after[start] + GW!Minute
                                             <=> i \in start..Len(s) /\ s[i] < s[start] + GW!Minute
        <5>1. CASE i = n
          BY <1>2, <2>1, <3>1, <5>1 DEF GW!Minute
        <5>2. CASE i # n
          BY <1>2, <2>0, <3>1, <5>2
        <5>. QED BY <5>1, <5>2
      <4>. QED BY <1>2, <2>0, <4>1 DEF InMinute
    <3>. QED BY <3>1, <3>2 DEF Counted
  <2>2. CASE start = n \/ s[start] > t - GW!Minute
    <3>1. Cardinality(start..Len(s)) <= Cardinality(Recent(bucket, t))
      <4>1. CASE start = n
        <5>1. start \in Int /\ Len(s) \in Int /\ start > Len(s)
          BY <1>2, <4>1
        <5>2. Cardinality(start..Len(s)) = 0
          BY <5>1, FS_Interval
        <5>. QED BY <1>3, <5>2
      <4>2. CASE start # n
        <5>1. start \in DOMAIN s /\ s[start] > t - GW!Minute
          BY <1>2, <2>0, <2>2, <4>2
        <5>. QED BY <5>1, CountedInBucket
      <4>. QED BY <4>1, <4>2
    <3>2. /\ IsFiniteSet(start..n)
          /\ Cardinality(start..Len(s)) = n - start /\ Cardinality(start..n) = n - start + 1
      <4>1. start \in Int /\ Len(s) \in Int /\ n \in Int /\ start <= n
        BY <1>2, <2>0
      <4>. QED BY <4>1, FS_Interval
    <3>3. InMinute(after, start) \in SUBSET (start..n)
      BY <1>2 DEF InMinute
    <3>4. Cardinality(InMinute(after, start)) <= Cardinality(start..n)
          /\ Cardinality(InMinute(after, start)) \in Nat
      BY <3>2, <3>3, FS_Subset, FS_CardinalityType
    <3>. QED BY <1>3, <2>0, <3>1, <3>2, <3>4
  <2>. QED BY <2>1, <2>2
<1>. HIDE DEF full
<1>8. Counted(after, full, limit, t)
  BY <1>2, <1>4, <1>5, <1>6, <1>7 DEF Counted
<1>. QED BY <1>8 DEF after, full

LEMMA HeldBack ==
  ASSUME NEW t \in Nat, NEW s, NEW bucket, NEW limit, Counted(s, bucket, limit, t)
  PROVE  Counted(s, Recent(bucket, t), limit, t)
<1>1. Recent(bucket, t) \in SUBSET bucket /\ IsFiniteSet(bucket)
  BY DEF Recent, Counted
<1>2. IsFiniteSet(Recent(bucket, t))
  BY <1>1, FS_Subset
<1>. QED BY <1>2 DEF Counted, Recent

LEMMA KeysStay ==
  ASSUME KeyInv, UNCHANGED <<apiKeys, buckets, passed>>, time' \in Nat, time <= time'
  PROVE  KeyInv'
<1>1. ASSUME NEW key \in ApiKeys
      PROVE  Counted(passed[key], buckets[key], apiKeys[key].limit, time')
  BY TimePasses DEF KeyInv
<1>. QED BY <1>1 DEF KeyInv

(* One key changes: its requests s and its bucket with it. *)
LEMMA OneKeyChanges ==
  ASSUME KeyInv, NEW key \in ApiKeys, NEW r, NEW s, NEW bucket, time' = time,
         apiKeys' = [apiKeys EXCEPT ![key] = r], buckets' = [buckets EXCEPT ![key] = bucket],
         passed' = [passed EXCEPT ![key] = s],
         DOMAIN r = {"created", "active", "limit", "expires"}, r.limit \in Nat,
         ~r.created => s = <<>>, Counted(s, bucket, r.limit, time)
  PROVE  KeyInv'
<1>1. /\ apiKeys' = [other \in ApiKeys |-> apiKeys'[other]]
      /\ buckets' = [other \in ApiKeys |-> buckets'[other]]
      /\ passed' = [other \in ApiKeys |-> passed'[other]]
      /\ apiKeys'[key] = r /\ buckets'[key] = bucket /\ passed'[key] = s
      /\ \A other \in ApiKeys \ {key} :
           apiKeys'[other] = apiKeys[other] /\ buckets'[other] = buckets[other]
           /\ passed'[other] = passed[other]
  BY DEF KeyInv
<1>2. ASSUME NEW other \in ApiKeys
      PROVE  /\ DOMAIN apiKeys'[other] = {"created", "active", "limit", "expires"}
             /\ apiKeys'[other].limit \in Nat
             /\ (~apiKeys'[other].created => passed'[other] = <<>>)
             /\ Counted(passed'[other], buckets'[other], apiKeys'[other].limit, time)
  <2>1. CASE other = key
    BY <1>1, <2>1
  <2>2. CASE other # key
    BY <1>1, <2>2 DEF KeyInv
  <2>. QED BY <2>1, <2>2
<1>. QED BY <1>1, <1>2 DEF KeyInv

LEMMA CreateKeeps ==
  ASSUME KeyInv, GW!GatewayAssumption, NEW key \in ApiKeys, NEW limit \in Limits, NEW lifetime,
         GW!CreateApiKey(key, limit, lifetime)
  PROVE  KeyInv'
<1>. DEFINE r == [created |-> TRUE, active |-> TRUE, limit |-> limit,
                  expires |-> IF lifetime = 0 THEN 0 ELSE time + lifetime]
<1>1. /\ apiKeys' = [apiKeys EXCEPT ![key] = r] /\ ~apiKeys[key].created
      /\ UNCHANGED <<time, buckets, passed>>
  BY DEF GW!CreateApiKey
<1>2. /\ DOMAIN r = {"created", "active", "limit", "expires"} /\ r.limit = limit
      /\ r.created /\ limit \in Nat
  BY DEF GW!GatewayAssumption
<1>. HIDE DEF r
<1>3. passed[key] = <<>> /\ Counted(passed[key], buckets[key], apiKeys[key].limit, time)
  BY <1>1 DEF KeyInv
<1>4. Counted(passed[key], buckets[key], limit, time)
  <2>1. DOMAIN passed[key] = {}
    BY <1>3
  <2>. QED BY <1>3, <2>1 DEF Counted
<1>5. /\ buckets' = [buckets EXCEPT ![key] = buckets[key]]
      /\ passed' = [passed EXCEPT ![key] = passed[key]]
  <2>1. buckets = [buckets EXCEPT ![key] = buckets[key]]
    BY DEF KeyInv
  <2>2. passed = [passed EXCEPT ![key] = passed[key]]
    BY DEF KeyInv
  <2>. QED BY ONLY <1>1, <2>1, <2>2
<1>. QED BY <1>1, <1>2, <1>4, <1>5, OneKeyChanges

LEMMA TakenOut ==
  ASSUME KeyInv, NEW key \in ApiKeys, NEW r, apiKeys' = [apiKeys EXCEPT ![key] = r],
         DOMAIN r = {"created", "active", "limit", "expires"},
         r.limit = apiKeys[key].limit, r.created = apiKeys[key].created,
         UNCHANGED <<time, buckets, passed>>
  PROVE  KeyInv'
<1>1. /\ buckets' = [buckets EXCEPT ![key] = buckets[key]]
      /\ passed' = [passed EXCEPT ![key] = passed[key]]
  BY DEF KeyInv
<1>2. /\ r.limit \in Nat /\ (~r.created => passed[key] = <<>>)
      /\ Counted(passed[key], buckets[key], r.limit, time)
  BY DEF KeyInv
<1>. QED BY <1>1, <1>2, OneKeyChanges

LEMMA CheckKeeps ==
  ASSUME KeyInv, NEW key \in ApiKeys, GW!CheckRateLimit(key)
  PROVE  KeyInv'
<1>. DEFINE recent == Recent(buckets[key], time)
            stamp == [number |-> Len(passed[key]) + 1, at |-> time]
<1>1. GW!LastMinute(buckets[key]) = recent
  BY DEF GW!LastMinute, Recent
<1>2. GW!Cardinality(recent) = Cardinality(recent)
  BY SameCardinality
<1>3. /\ time \in Nat /\ apiKeys[key].limit \in Nat /\ apiKeys[key].created
      /\ DOMAIN apiKeys[key] = {"created", "active", "limit", "expires"}
      /\ Counted(passed[key], buckets[key], apiKeys[key].limit, time)
      /\ apiKeys' = [apiKeys EXCEPT ![key] = apiKeys[key]] /\ time' = time
  BY DEF KeyInv, GW!CheckRateLimit
<1>4. CASE Cardinality(recent) < apiKeys[key].limit
  <2>1. buckets' = [buckets EXCEPT ![key] = recent \cup {stamp}]
    BY <1>1, <1>2, <1>4 DEF GW!CheckRateLimit
  <2>2. passed' = [passed EXCEPT ![key] = Append(passed[key], time)]
    BY <1>1, <1>2, <1>4 DEF GW!CheckRateLimit
  <2>3. Counted(Append(passed[key], time), recent \cup {stamp}, apiKeys[key].limit, time)
    BY <1>3, <1>4, LetThrough
  <2>. HIDE DEF recent, stamp
  <2>. QED BY <1>3, <2>1, <2>2, <2>3, OneKeyChanges
<1>5. CASE ~(Cardinality(recent) < apiKeys[key].limit)
  <2>1. buckets' = [buckets EXCEPT ![key] = recent]
    BY <1>1, <1>2, <1>5 DEF GW!CheckRateLimit
  <2>2. passed' = [passed EXCEPT ![key] = passed[key]]
    BY <1>1, <1>2, <1>5 DEF GW!CheckRateLimit, KeyInv
  <2>3. Counted(passed[key], recent, apiKeys[key].limit, time)
    BY <1>3, HeldBack
  <2>. HIDE DEF recent
  <2>. QED BY <1>3, <2>1, <2>2, <2>3, OneKeyChanges
<1>. QED BY <1>4, <1>5

LEMMA KeysStep ==
  ASSUME KeyInv, GW!GatewayAssumption, [GW!Next]_(GW!vars)
  PROVE  KeyInv'
<1>1. CASE UNCHANGED GW!keyVars /\ time' \in Nat /\ time <= time'
  BY <1>1, KeysStay DEF GW!keyVars
<1>2. CASE GW!Tick
  <2>1. time' \in Nat /\ time <= time'
    BY <1>2 DEF GW!Tick, GW!GatewayAssumption, KeyInv
  <2>. QED BY <1>1, <1>2, <2>1 DEF GW!Tick
<1>3. CASE UNCHANGED <<time, GW!keyVars>>
  BY <1>1, <1>3 DEF KeyInv
<1>4. ASSUME NEW key \in ApiKeys, GW!RevokeApiKey(key) \/ GW!ValidateApiKey(key) PROVE KeyInv'
  <2>. DEFINE r == [apiKeys[key] EXCEPT !.active = FALSE]
  <2>1. apiKeys' = [apiKeys EXCEPT ![key] = r] /\ UNCHANGED <<time, buckets, passed>>
    BY <1>4 DEF GW!RevokeApiKey, GW!ValidateApiKey
  <2>2. /\ DOMAIN r = {"created", "active", "limit", "expires"}
        /\ r.limit = apiKeys[key].limit /\ r.created = apiKeys[key].created
    BY DEF KeyInv
  <2>. HIDE DEF r
  <2>. QED BY <2>1, <2>2, TakenOut
<1>. QED
  BY <1>2, <1>3, <1>4, CreateKeeps, CheckKeeps
     DEF GW!Next, GW!vars, GW!SubscribeStream, GW!Ping, GW!Disconnect, GW!ConnectionFails,
         GW!UnsubscribeStream, GW!ListActive, GW!Publish

(* A connection that was never silent for long, nor given up, is subscribed and
   as active as it spoke; the last event published is the last in the buffer.  *)
StreamInv ==
  /\ time \in Nat
  /\ sockets \in [Connections -> {"new", "open", "closed"}]
  /\ activity \in [Connections -> Nat] /\ spoken \in [Connections -> Nat]
  /\ \A c \in Connections : sockets[c] = "open" /\ c \notin spoiled =>
       c \in subscribed /\ activity[c] = spoken[c] /\ spoken[c] > time - GW!Stale
  /\ buffer \in Seq(Nat) /\ published \in Nat
  /\ IF published = 0 THEN buffer = <<>>
     ELSE Len(buffer) > 0 /\ buffer[Len(buffer)] = published

LEMMA PublishKeeps ==
  ASSUME StreamInv, GW!GatewayAssumption, GW!Publish
  PROVE  StreamInv'
<1>. DEFINE all == Append(buffer, published + 1)
<1>1. /\ all \in Seq(Nat) /\ Len(all) = Len(buffer) + 1
      /\ all[Len(all)] = published + 1 /\ Len(buffer) \in Nat
  BY AppendProperties, LenProperties DEF StreamInv
<1>. HIDE DEF all
<1>2. buffer' \in Seq(Nat) /\ Len(buffer') > 0 /\ buffer'[Len(buffer')] = published + 1
  <2>1. CASE Len(all) > BufferSize
    <3>1. buffer' = SubSeq(all, Len(all) - BufferSize + 1, Len(all))
      BY <2>1 DEF GW!Publish, all
    <3>2. BufferSize \in Nat \ {0}
      BY DEF GW!GatewayAssumption
    <3>. DEFINE m == Len(all) - BufferSize + 1
    <3>3. m \in Int /\ Len(all) \in Int /\ \A i \in m..Len(all) : all[i] \in Nat
      BY <1>1, <2>1, <3>2, LenProperties
    <3>4. /\ SubSeq(all, m, Len(all)) \in Seq(Nat) /\ Len(SubSeq(all, m, Len(all))) = BufferSize
          /\ \A i \in 1..BufferSize : SubSeq(all, m, Len(all))[i] = all[m + i - 1]
      <4>1. m <= Len(all) /\ Len(all) - m + 1 = BufferSize
        BY <1>1, <3>2
      <4>. HIDE DEF m
      <4>. QED BY <3>3, <4>1, SubSeqProperties
    <3>5. m + BufferSize - 1 = Len(all) /\ BufferSize \in 1..BufferSize
      BY <1>1, <3>2
    <3>6. SubSeq(all, m, Len(all))[BufferSize] = all[Len(all)]
      BY <3>4, <3>5
    <3>7. /\ buffer' \in Seq(Nat) /\ Len(buffer') = BufferSize
          /\ buffer'[BufferSize] = published + 1
      BY <1>1, <3>1, <3>4, <3>6
    <3>. QED BY <3>2, <3>7
  <2>2. CASE ~(Len(all) > BufferSize)
    <3>1. buffer' = all
      BY <2>2 DEF GW!Publish, all
    <3>. QED BY <1>1, <3>1
  <2>. QED BY <2>1, <2>2
<1>3. /\ published' = published + 1
      /\ UNCHANGED <<time, sockets, activity, spoken, spoiled, subscribed>>
  BY DEF GW!Publish
<1>. QED BY <1>2, <1>3 DEF StreamInv

LEMMA StreamStep ==
  ASSUME StreamInv, GW!GatewayAssumption, [GW!Next]_(GW!vars)
  PROVE  StreamInv'
<1>1. CASE UNCHANGED <<time, GW!streamVars>>
  BY <1>1 DEF StreamInv, GW!streamVars
<1>2. ASSUME NEW c \in Connections, GW!SubscribeStream(c) PROVE StreamInv'
  BY <1>2 DEF StreamInv, GW!SubscribeStream, GW!Stale, GW!Minute
<1>3. ASSUME NEW c \in Connections, GW!Ping(c) PROVE StreamInv'
  BY <1>3 DEF StreamInv, GW!Ping, GW!Stale, GW!Minute
<1>4. ASSUME NEW c \in Connections, GW!Disconnect(c) PROVE StreamInv'
  BY <1>4 DEF StreamInv, GW!Disconnect
<1>5. ASSUME NEW c \in Connections, GW!ConnectionFails(c) PROVE StreamInv'
  BY <1>5 DEF StreamInv, GW!ConnectionFails
<1>6. ASSUME NEW c \in Connections, NEW other \in Connections, GW!UnsubscribeStream(c, other)
      PROVE  StreamInv'
  BY <1>6 DEF StreamInv, GW!UnsubscribeStream
<1>7. CASE GW!ListActive
  BY <1>7 DEF StreamInv, GW!ListActive
<1>8. CASE GW!Tick
  <2>1. PICK t \in Moments :
          /\ t > time /\ time' = t
          /\ spoiled' = spoiled \cup {c \in Connections :
                                        sockets[c] = "open" /\ spoken[c] <= t - GW!Stale}
          /\ UNCHANGED <<sockets, subscribed, activity, spoken, buffer, published>>
    BY <1>8 DEF GW!Tick
  <2>2. t \in Nat
    BY DEF GW!GatewayAssumption
  <2>. QED BY <2>1, <2>2 DEF StreamInv, GW!Stale, GW!Minute
<1>. QED
  BY <1>1, <1>2, <1>3, <1>4, <1>5, <1>6, <1>7, <1>8, PublishKeeps
     DEF GW!Next, GW!vars, GW!CreateApiKey, GW!RevokeApiKey, GW!ValidateApiKey, GW!CheckRateLimit

(* No key lets more through in any minute than it allows, and a connection that
   is never silent for five minutes keeps its subscription.                    *)
LEMMA GatewayHolds ==
  /\ GW!GatewayAssumption /\ GW!Init => KeyInv /\ StreamInv
  /\ KeyInv => GW!KeyLimitHolds
  /\ StreamInv => GW!PingsKeepAlive
<1>1. ASSUME GW!GatewayAssumption, GW!Init PROVE KeyInv
  <2>1. Counted(<<>>, {}, 0, 0)
    <3>1. <<>> \in Seq(0..0) /\ DOMAIN <<>> = {}
      OBVIOUS
    <3>. QED BY <3>1, FS_EmptySet DEF Counted
  <2>2. /\ DOMAIN GW!NoKey = {"created", "active", "limit", "expires"} /\ GW!NoKey.limit = 0
    BY DEF GW!NoKey
  <2>3. \A key \in ApiKeys : apiKeys[key] = GW!NoKey /\ buckets[key] = {} /\ passed[key] = <<>>
    BY <1>1 DEF GW!Init
  <2>. QED BY <1>1, <2>1, <2>2, <2>3 DEF GW!Init, KeyInv
<1>2. ASSUME GW!GatewayAssumption, GW!Init PROVE StreamInv
  BY <1>2 DEF GW!Init, StreamInv
<1>3. ASSUME KeyInv PROVE GW!KeyLimitHolds
  <2>1. ASSUME NEW key \in ApiKeys, NEW start \in DOMAIN passed[key]
        PROVE  Cardinality({i \in start..Len(passed[key]) :
                              passed[key][i] < passed[key][start] + GW!Minute}) <= apiKeys[key].limit
    BY <1>3 DEF KeyInv, Counted, InMinute
  <2>. QED BY <2>1, SameCardinality DEF GW!KeyLimitHolds
<1>4. ASSUME StreamInv PROVE GW!PingsKeepAlive
  <2>1. GW!RecentEvents(1) = IF published = 0 THEN <<>> ELSE <<published>>
    <3>. DEFINE n == Len(buffer)
    <3>1. buffer \in Seq(Nat) /\ n \in Nat
      BY <1>4, LenProperties DEF StreamInv
    <3>2. CASE published = 0
      <4>1. buffer = <<>> /\ n = 0
        BY <1>4, <3>2 DEF StreamInv
      <4>2. SubSeq(<<>>, 1, 0) = <<>>
        BY SubSeqEmpty
      <4>. QED BY <3>2, <4>1, <4>2 DEF GW!RecentEvents
    <3>3. CASE published # 0
      <4>1. n > 0 /\ buffer[n] = published
        BY <1>4, <3>3 DEF StreamInv
      <4>2. GW!RecentEvents(1) = SubSeq(buffer, n, n)
        <5>1. (IF n > 1 THEN n - 1 + 1 ELSE 1) = n
          <6>1. n \in Nat /\ n > 0
            BY <3>1, <4>1
          <6>. HIDE DEF n
          <6>. QED BY <6>1
        <5>2. GW!RecentEvents(1) = SubSeq(buffer, IF n > 1 THEN n - 1 + 1 ELSE 1, n)
          BY DEF GW!RecentEvents
        <5>. QED BY <5>1, <5>2
      <4>3. /\ SubSeq(buffer, n, n) \in Seq(Nat) /\ Len(SubSeq(buffer, n, n)) = 1
            /\ SubSeq(buffer, n, n)[1] = buffer[n]
        <5>1. n \in Int /\ \A i \in n..n : buffer[i] \in Nat
          BY <3>1, <4>1, LenProperties
        <5>. HIDE DEF n
        <5>2. 1 \in 1..(n - n + 1) /\ n + 1 - 1 = n /\ n - n + 1 = 1 /\ n <= n
          BY <5>1
        <5>. QED BY <5>1, <5>2, SubSeqProperties
      <4>4. <<published>> \in Seq(Nat) /\ Len(<<published>>) = 1 /\ <<published>>[1] = published
        BY <1>4 DEF StreamInv
      <4>5. SubSeq(buffer, n, n) = <<published>>
        <5>. DEFINE last == SubSeq(buffer, n, n)
                    one == <<published>>
        <5>1. /\ last \in Seq(Nat) /\ one \in Seq(Nat) /\ Len(last) = Len(one)
              /\ \A i \in 1..Len(last) : last[i] = one[i]
          BY <4>1, <4>3, <4>4
        <5>. HIDE DEF last, one
        <5>2. last = one
          BY <5>1, SeqEqual
        <5>. QED BY <5>2 DEF last, one
      <4>. QED BY <3>3, <4>2, <4>5
    <3>. QED BY <3>2, <3>3
  <2>. QED BY <1>4, <2>1 DEF StreamInv, GW!PingsKeepAlive
<1>. QED BY <1>1, <1>2, <1>3, <1>4
(***************************************************************************)
(* All of them                                                             *)
(***************************************************************************)
\* The part that runs keeps its invariant; the others stay as they began.
ServicesInv ==
  /\ part = "webhooks" => HookInv
  /\ part = "mcp" => McpInv
  /\ part = "bus" => BusInv
  /\ part = "gateway" => KeyInv /\ StreamInv

LEMMA OnePartRuns ==
  ASSUME [NextAll]_allVars
  PROVE  /\ part' = part
         /\ part = "webhooks" => [WH!Next]_(WH!vars)
         /\ part = "mcp" => [MC!Next]_(MC!vars)
         /\ part = "bus" => [EB!Next]_(EB!vars)
         /\ part = "gateway" => [GW!Next]_(GW!vars)
<1>1. CASE UNCHANGED allVars
  BY <1>1
     DEF allVars, hookVars, WH!vars, clientVars, MC!vars, busVars, EB!vars, gatewayVars, GW!vars,
              GW!keyVars, GW!streamVars
<1>2. CASE NextAll
  <2>1. part' = part
    BY <1>2
       DEF NextAll, OnlyWebhooks, OnlyApiGateway, OnlyMcpClient, OnlyEventBus, OnlyLeadGeneration,
                OnlyRevenuePipeline, OnlySalesDesk, OnlyCaches, OnlyMetaLearning, OnlyAgentDesk,
                OnlyOutreach, OnlyEconomy, OnlyVault, OnlyReasoning, OnlyMissions
  <2>. QED BY <1>2, <2>1 DEF NextAll
<1>. QED BY <1>1, <1>2

(* What is sent arrives once and at the right place (webhook_manager.py,
   mcp_client.py, nats_bus.py, api_gateway.py), for any subscribers, callers,
   servers, keys and connections: a delivery has one task at most, an answer
   belongs to the request of its caller, an event reaches each subscriber it is
   owed once, a connection that is never silent keeps its subscription, and no
   key lets more through in any minute than it allows.                         *)
THEOREM MessagesArrive == SpecAll => []MessagesArriveOnce
<1>1. InitAll => ServicesInv
  BY BoundsAssumption, HooksHold, McpHolds, BusHolds, GatewayHolds DEF InitAll, ServicesInv
<1>2. ServicesInv /\ [NextAll]_allVars => ServicesInv'
  <2>. SUFFICES ASSUME ServicesInv, [NextAll]_allVars PROVE ServicesInv'
    OBVIOUS
  <2>1. part = "webhooks" => HookInv'
    BY BoundsAssumption, OnePartRuns, HookStep DEF ServicesInv
  <2>2. part = "mcp" => McpInv'
    BY BoundsAssumption, OnePartRuns, McpStep DEF ServicesInv
  <2>3. part = "bus" => BusInv'
    BY BoundsAssumption, OnePartRuns, BusStep DEF ServicesInv
  <2>4. part = "gateway" => KeyInv' /\ StreamInv'
    BY BoundsAssumption, OnePartRuns, KeysStep, StreamStep DEF ServicesInv
  <2>. QED BY <2>1, <2>2, <2>3, <2>4, OnePartRuns DEF ServicesInv
<1>3. ServicesInv => MessagesArriveOnce
  BY HooksHold, McpHolds, BusHolds, GatewayHolds DEF ServicesInv, MessagesArriveOnce
<1>. QED BY <1>1, <1>2, <1>3, PTL DEF SpecAll
================================================================================
