----------------------------- MODULE McpClient -----------------------------
(* The client of the MCP servers (integrations/mcp/mcp_client.py), the servers
   of the built-in tools at the other end of its pipes (MCPToolServer of
   tool_bridge.py), the registry of servers (server_registry.py) and the set-up
   and tear-down of all of it (setup.py).

   A request is a line written to a process, an answer the next line read from
   it: all requests have the number 1 and no lock keeps callers apart. Callers
   suspend while they wait for a line, which only one may do at a time, and
   while a process that was terminated ends. Each server has one tool.      *)
EXTENDS Integers, Sequences, FiniteSets, Functions

CONSTANTS Callers,
          Servers,      \* names in the registry
          Advertising,  \* servers whose capabilities name the tools with some content;
                        \* the built-in ones answer with an empty object
          MaxStarts, MaxRequests

\* What the values of the constants satisfy.
McpAssumption ==
  /\ Advertising \subseteq Servers /\ {MaxStarts, MaxRequests} \subseteq Nat

NoRequest == [kind |-> "none", number |-> 0]

VARIABLES
  enabled,    \* the enabled servers of the registry
  client,     \* whether a client is set up
  processes,  \* all that were started: server, life, lines in and out, the waiter
  running,    \* the process that the client knows for a server, or 0
  tools,      \* servers whose tool was discovered
  tasks,      \* what each caller is doing
  requests,   \* number of requests so far
  shared      \* history: processes that two used at once or an interrupted call left

vars == <<enabled, client, processes, running, tools, tasks, requests, shared>>

Idle == [pc |-> "idle", process |-> 0, request |-> NoRequest, todo |-> <<>>, result |-> NoRequest]

Init ==
  /\ enabled = Servers /\ client = FALSE
  /\ processes = <<>> /\ running = [s \in Servers |-> 0]
  /\ tools = {} /\ requests = 0 /\ shared = {}
  /\ tasks = [c \in Callers |-> Idle]

Users(p) == {c \in Callers : tasks[c].process = p /\ tasks[c].pc \in {"reading", "waiting"}}

(* _send_request up to its read: the line is written, and nobody is asked
   whether he waits for an answer. more is what the caller does afterwards.   *)
Write(c, p, kind, more, procs) ==
  LET request == [kind |-> kind, number |-> requests + 1]
  IN /\ requests < MaxRequests /\ requests' = requests + 1
     /\ processes' = [procs EXCEPT ![p].in = Append(@, request)]
     /\ tasks' = [tasks EXCEPT ![c] = [pc |-> "reading", process |-> p, request |-> request,
                                       todo |-> more, result |-> NoRequest]]
     /\ shared' = IF Users(p) \ {c} # {} THEN shared \cup {p} ELSE shared

(* Whoever waits for a line of the process looks again. *)
Woken(p) ==
  [c \in Callers |-> IF tasks[c].process = p /\ tasks[c].pc = "waiting"
                     THEN [tasks[c] EXCEPT !.pc = "reading"] ELSE tasks[c]]

(***************************************************************************)
(* Starting and stopping                                                   *)
(***************************************************************************)
(* start_server: the first of the list is started, whether or not it runs
   already; its process is asked for its capabilities.                       *)
StartFirst(c, todo) ==
  /\ Len(processes) < MaxStarts
  /\ LET s == Head(todo)
         p == Len(processes) + 1
     IN /\ running' = [running EXCEPT ![s] = p]
        /\ Write(c, p, "initialize", todo,
                 Append(processes, [server |-> s, life |-> "alive", in |-> <<>>, out |-> <<>>,
                                    waiter |-> FALSE]))

(* setup_mcp, once at start-up: the client is set up once all servers were tried. *)
SetupMcp(c) ==
  /\ tasks[c].pc = "idle" /\ ~client /\ enabled # {}
  /\ \A d \in Callers : tasks[d].todo = <<>>
  /\ \E order \in Bijection(1 .. Cardinality(enabled), enabled) : StartFirst(c, order)
  /\ UNCHANGED <<enabled, client, tools>>

StartServer(c, s) ==
  /\ tasks[c].pc = "idle" /\ client
  /\ StartFirst(c, <<s>>)
  /\ UNCHANGED <<enabled, client, tools>>

(* Whatever came of a start, the set-up goes on with the next server. *)
Continue(c, todo) ==
  /\ tasks' = [tasks EXCEPT ![c] = IF todo = <<>> THEN Idle
                                   ELSE [Idle EXCEPT !.pc = "starting", !.todo = todo]]
  /\ client' = (client \/ todo = <<>>)

StartNext(c) ==
  /\ tasks[c].pc = "starting"
  /\ \/ StartFirst(c, tasks[c].todo) /\ UNCHANGED client
     \/ /\ Continue(c, Tail(tasks[c].todo))
        /\ UNCHANGED <<processes, running, requests, shared>>
  /\ UNCHANGED <<enabled, tools>>

(* stop_server; a process that died by itself cannot be terminated, which raises. *)
StopServer(c, s) ==
  /\ tasks[c].pc = "idle" /\ client /\ running[s] # 0
  /\ processes[running[s]].life # "dead"
  /\ tasks' = [tasks EXCEPT ![c] = [Idle EXCEPT !.pc = "stopping", !.process = running[s]]]
  /\ processes' = [processes EXCEPT ![running[s]].life = "ending"]
  /\ UNCHANGED <<enabled, client, running, tools, requests, shared>>

(* The entry that is deleted is that of the server, by now perhaps another's. *)
Stopped(c) ==
  /\ tasks[c].pc = "stopping"
  /\ running' = [running EXCEPT ![processes[tasks[c].process].server] = 0]
  /\ processes' = [processes EXCEPT ![tasks[c].process].life = "dead",
                                    ![tasks[c].process].waiter = FALSE]
  /\ tasks' = [Woken(tasks[c].process) EXCEPT ![c] = Idle]
  /\ UNCHANGED <<enabled, client, tools, requests, shared>>

(* teardown_mcp, after all servers were stopped. *)
TeardownMcp ==
  /\ client /\ \A s \in Servers : running[s] = 0
  /\ \A c \in Callers : tasks[c].todo = <<>>
  /\ client' = FALSE /\ tools' = {}
  /\ UNCHANGED <<enabled, processes, running, tasks, requests, shared>>

Enable(s) ==
  /\ enabled' = (enabled \ {s}) \cup ({s} \ enabled)
  /\ UNCHANGED <<client, processes, running, tools, tasks, requests, shared>>

(***************************************************************************)
(* Calls                                                                   *)
(***************************************************************************)
(* What the models are offered are bare names; only qualified ones, which an
   operator of the client may know, are accepted by call_tool.               *)
OfferedNames == {[server |-> "none", tool |-> s] : s \in tools}
QualifiedName(s) == [server |-> s, tool |-> s]
Callable(name) == name.server # "none" /\ name.server \in tools

CallTool(c, name) ==
  /\ tasks[c].pc = "idle" /\ client /\ Callable(name) /\ running[name.server] # 0
  /\ Write(c, running[name.server], "call", <<>>, processes)
  /\ UNCHANGED <<enabled, client, running, tools>>

(* read_resource asks whatever server runs; the servers of the built-in tools
   answer that there is no such method.                                      *)
ReadResource(c, s) ==
  /\ tasks[c].pc = "idle" /\ client /\ running[s] # 0
  /\ Write(c, running[s], "read", <<>>, processes)
  /\ UNCHANGED <<enabled, client, running, tools>>

(* The process reads its requests one after the other. *)
Answer(p) ==
  /\ processes[p].life = "alive" /\ processes[p].in # <<>>
  /\ processes' = [processes EXCEPT ![p].in = Tail(@), ![p].waiter = FALSE,
                                    ![p].out = Append(@, Head(processes[p].in))]
  /\ tasks' = Woken(p)
  /\ UNCHANGED <<enabled, client, running, tools, requests, shared>>

Dies(p) ==
  /\ processes[p].life # "dead"
  /\ processes' = [processes EXCEPT ![p].life = "dead", ![p].waiter = FALSE]
  /\ tasks' = Woken(p)
  /\ UNCHANGED <<enabled, client, running, tools, requests, shared>>

(* No line is there and nobody waits for one: the caller does. *)
Wait(c) ==
  LET p == tasks[c].process
  IN /\ tasks[c].pc = "reading" /\ processes[p].out = <<>> /\ processes[p].life # "dead"
     /\ ~processes[p].waiter
     /\ processes' = [processes EXCEPT ![p].waiter = TRUE]
     /\ tasks' = [tasks EXCEPT ![c].pc = "waiting"]
     /\ UNCHANGED <<enabled, client, running, tools, requests, shared>>

(* A second one that would wait is refused, and so is one whose process is gone:
   the request is lost to its caller. A start goes on as if nothing was found. *)
Refused(c) ==
  LET p == tasks[c].process
  IN /\ tasks[c].pc = "reading" /\ processes[p].out = <<>>
     /\ processes[p].waiter \/ processes[p].life = "dead"
     /\ IF tasks[c].request.kind \in {"call", "read"}
        THEN tasks' = [tasks EXCEPT ![c] = Idle] /\ UNCHANGED client
        ELSE Continue(c, Tail(tasks[c].todo))
     /\ shared' = shared \cup {p}
     /\ UNCHANGED <<enabled, processes, running, tools, requests>>

\* Mutant: the answer with the list stays on the pipe.
KeepingLists(c) ==
  IF tasks[c].request.kind = "list" THEN processes
  ELSE [processes EXCEPT ![tasks[c].process].out = Tail(@)]

LineTaken(c) == [processes EXCEPT ![tasks[c].process].out = Tail(@)]

(* The next line is the answer, whatever it answers. What is not of the kind
   that was asked for has no capabilities and no tools in it.                 *)
Read(c) ==
  LET p == tasks[c].process
      line == Head(processes[p].out)
      rest == LineTaken(c)
  IN /\ tasks[c].pc = "reading" /\ processes[p].out # <<>>
     /\ CASE tasks[c].request.kind \in {"call", "read"} ->
               /\ tasks' = [tasks EXCEPT ![c] = [Idle EXCEPT !.result = line,
                    !.request = tasks[c].request, !.process = p, !.pc = "answered"]]
               /\ processes' = rest /\ UNCHANGED <<client, tools, requests, shared>>
          [] tasks[c].request.kind = "initialize" ->
               IF line.kind = "initialize" /\ processes[p].server \in Advertising
               THEN /\ Write(c, p, "list", tasks[c].todo, rest)
                    /\ UNCHANGED <<client, tools>>
               ELSE /\ Continue(c, Tail(tasks[c].todo)) /\ processes' = rest
                    /\ UNCHANGED <<tools, requests, shared>>
          [] OTHER ->
               /\ tools' = tools \cup (IF line.kind = "list" THEN {processes[p].server} ELSE {})
               /\ Continue(c, Tail(tasks[c].todo)) /\ processes' = rest
               /\ UNCHANGED <<requests, shared>>
     /\ UNCHANGED <<enabled, running>>

Return(c) ==
  /\ tasks[c].pc = "answered"
  /\ tasks' = [tasks EXCEPT ![c] = Idle]
  /\ UNCHANGED <<enabled, client, processes, running, tools, requests, shared>>

(* The caller's own deadline ends the call; its answer is still to come. *)
Cancel(c) ==
  LET p == tasks[c].process
  IN /\ tasks[c].pc \in {"reading", "waiting"} /\ tasks[c].request.kind \in {"call", "read"}
     /\ processes' = IF tasks[c].pc = "waiting" THEN [processes EXCEPT ![p].waiter = FALSE]
                     ELSE processes
     /\ tasks' = [tasks EXCEPT ![c] = Idle]
     /\ shared' = shared \cup {p}
     /\ UNCHANGED <<enabled, client, running, tools, requests>>

Next ==
  \/ \E c \in Callers :
       \/ SetupMcp(c) \/ StartNext(c) \/ Stopped(c) \/ Wait(c) \/ Refused(c) \/ Read(c)
       \/ Return(c) \/ Cancel(c)
       \/ \E s \in Servers :
            StartServer(c, s) \/ StopServer(c, s) \/ CallTool(c, QualifiedName(s))
              \/ ReadResource(c, s)
  \/ \E p \in DOMAIN processes : Answer(p) \/ Dies(p)
  \/ \E s \in Servers : Enable(s)
  \/ TeardownMcp

Spec == Init /\ [][Next]_vars

(***************************************************************************)
(* Properties                                                              *)
(***************************************************************************)
TypeOK ==
  /\ enabled \subseteq Servers /\ tools \subseteq Advertising
  /\ running \in [Servers -> 0..Len(processes)]
  /\ requests \in 0..MaxRequests /\ shared \subseteq DOMAIN processes
  /\ \A c \in Callers : /\ tasks[c].pc \in {"idle", "starting", "stopping", "reading", "waiting",
                                            "answered"}
                        /\ tasks[c].process \in 0..Len(processes)

(* An answer belongs to the request its caller wrote, through starts of what
   runs already, stops, deaths and tear-downs, on every process that was never
   used by two at once and never left with an answer nobody fetched; on such a
   process no line lies unread when nobody is using it.                      *)
OwnAnswers ==
  /\ \A c \in Callers :
       tasks[c].pc = "answered" /\ tasks[c].process \notin shared
         => tasks[c].result = tasks[c].request
  /\ \A p \in DOMAIN processes \ shared :
       Users(p) = {} => processes[p].in = <<>> /\ processes[p].out = <<>>
=============================================================================
