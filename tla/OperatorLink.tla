----------------------------- MODULE OperatorLink -----------------------------
(***************************************************************************)
(* The cloud agent (cloud/agent.rs) and the operator client                 *)
(* (cloud/operator_client.rs), which keep the operator informed of the      *)
(* worker and bring the operator's commands to it.                          *)
(*                                                                         *)
(* Both are tasks with two bounded mailboxes each, and handle one message   *)
(* at a time to its end.  What a handler sends, it sends by awaiting room   *)
(* in the target's mailbox; todo[t] is what task t is still to send.  The   *)
(* reader is the task that reads the operator's socket; a debugger is the   *)
(* task that forwards the questions of a debugged handler                   *)
(* (spawn_debugger_handle_reader).                                          *)
(***************************************************************************)
EXTENDS Naturals, Sequences, FiniteSets, SequencesExt

CONSTANTS
  Modules,      \* modules a debugger may be enabled for
  Questions,    \* questions the debugged handlers ask
  Capacity,     \* mpsc::channel(16), each of the five
  MaxCommands,  \* bound: commands the operator sends of its own
  MaxEvents,    \* bound: worker events
  MaxFailures   \* bound: connections that fail or break

ASSUME LinkAssumption ==
  /\ IsFiniteSet(Modules)
  /\ Questions \cap {"agent", "operator", "reader", "sleeper"} = {}
  /\ Capacity \in Nat \ {0}
  /\ MaxCommands \in Nat /\ MaxEvents \in Nat /\ MaxFailures \in Nat

Channels == {"agentMain", "agentChild", "opMain", "opChild", "writer"}
Tasks == {"agent", "operator", "reader", "sleeper"} \cup Questions

VARIABLES
  queue,      \* queue[c]: the messages in channel c
  todo,       \* todo[t]: what task t is still to send, and where
  entries,    \* debug_state.entries: the modules with a debugger
  status,     \* the worker's status, counted in events
  listeners,  \* debug_listeners: the questions that wait for an answer
  writing,    \* ws_socket_writer is Some
  link,       \* the socket: "none", "up", "broken" unnoticed, or "closed"
  sleeping,   \* a task sleeps before the next attempt to connect
  view,       \* what the operator was last told of the worker
  shown,      \* the questions the operator was shown and has not answered
  budget      \* what is left of the bounds

vars == <<queue, todo, entries, status, listeners, writing, link, sleeping, view,
          shown, budget>>

Nothing == 0
Msg(kind, arg) == [kind |-> kind, arg |-> arg]
To(c, m) == <<[to |-> c, msg |-> m]>>

\* update_state: the status and the debug entries of this moment.
Report == [status |-> status, entries |-> entries]
UpdateState == Msg("command", Report)

TypeOK ==
  /\ DOMAIN queue = Channels
  /\ \A c \in Channels : Len(queue[c]) <= Capacity
  /\ DOMAIN todo = Tasks
  /\ entries \subseteq Modules
  /\ status \in 0..MaxEvents
  /\ listeners \subseteq Questions
  /\ writing \in BOOLEAN
  /\ link \in {"none", "up", "broken", "closed"}
  /\ sleeping \in BOOLEAN
  /\ view \in [status : 0..MaxEvents, entries : SUBSET Modules]
  /\ shown \subseteq Questions
  /\ budget \in [commands : 0..MaxCommands, failures : 0..MaxFailures, asks : SUBSET Questions]

Init ==
  /\ queue = [c \in Channels |-> IF c = "agentMain" THEN <<Msg("start", Nothing)>>
                                                    ELSE <<>>]
  /\ todo = [t \in Tasks |-> <<>>]
  /\ entries = {}
  /\ status = 0
  /\ listeners = {}
  /\ writing = FALSE
  /\ link = "none"
  /\ sleeping = FALSE
  /\ view = [status |-> 0, entries |-> {}]
  /\ shown = {}
  /\ budget = [commands |-> MaxCommands, failures |-> MaxFailures, asks |-> Questions]

-----------------------------------------------------------------------------
Ready(t) == todo[t] = <<>>
Holds(c, kind) == queue[c] # <<>> /\ Head(queue[c]).kind = kind

HasRoom(c) == Len(queue[c]) < Capacity

\* Task t sends the next of its messages, once there is room for it.  When the
\* client has told the agent of a disconnection it spawns the sleeper.
Send(t) ==
  LET next == Head(todo[t]) IN
    /\ todo[t] # <<>>
    /\ HasRoom(next.to)
    /\ queue' = [queue EXCEPT ![next.to] = Append(@, next.msg)]
    /\ todo' = [todo EXCEPT ![t] = Tail(@)]
    /\ sleeping' = (sleeping \/ next.msg.kind = "disconnected")
    /\ UNCHANGED <<entries, status, listeners, writing, link, view, shown, budget>>

\* Task t takes the head of channel c and goes on to send what.
Take(t, c, what) ==
  /\ Ready(t)
  /\ queue' = [queue EXCEPT ![c] = Tail(@)]
  /\ todo' = [todo EXCEPT ![t] = what]

-----------------------------------------------------------------------------
(* The cloud agent.                                                        *)

AgentStart ==
  /\ Holds("agentMain", "start")
  /\ Take("agent", "agentMain", To("opMain", Msg("connect", Nothing)))
  /\ UNCHANGED <<entries, status, listeners, writing, link, sleeping, view, shown, budget>>

AgentWorkerEvent ==
  /\ Holds("agentMain", "event")
  /\ status' = Head(queue["agentMain"]).arg
  /\ Take("agent", "agentMain",
          To("opMain", Msg("command", [Report EXCEPT !.status = status'])))
  /\ UNCHANGED <<entries, listeners, writing, link, sleeping, view, shown, budget>>

\* The module or question the message to the agent is about.
Addressed == Head(queue["agentChild"]).arg

AgentDebugger(kind, after) ==
  /\ Holds("agentChild", kind)
  /\ entries' = after
  /\ Take("agent", "agentChild",
          To("opMain", Msg("command", [Report EXCEPT !.entries = entries'])))
  /\ UNCHANGED <<status, listeners, writing, link, sleeping, view, shown, budget>>

AgentEnable == AgentDebugger("enable", entries \cup {Addressed})
AgentDisable == AgentDebugger("disable", entries \ {Addressed})

\* A run that fails is reported; any other says nothing to the operator.
AgentPerformRun ==
  /\ Holds("agentChild", "run")
  /\ \E what \in {<<>>, To("opMain", Msg("error", Nothing))} :
       Take("agent", "agentChild", what)
  /\ UNCHANGED <<entries, status, listeners, writing, link, sleeping, view, shown, budget>>

AgentSetup ==
  /\ Holds("agentChild", "setup")
  /\ listeners' = listeners \cup {Addressed}
  /\ Take("agent", "agentChild", <<>>)
  /\ UNCHANGED <<entries, status, writing, link, sleeping, view, shown, budget>>

AgentFulfill ==
  /\ Holds("agentChild", "fulfill")
  /\ listeners' = listeners \ {Addressed}
  /\ Take("agent", "agentChild", <<>>)
  /\ UNCHANGED <<entries, status, writing, link, sleeping, view, shown, budget>>

\* Mutation of AgentConnected: the operator is not told again.
AgentConnectedQuiet ==
  /\ Holds("agentChild", "connected")
  /\ Take("agent", "agentChild", <<>>)
  /\ UNCHANGED <<entries, status, listeners, writing, link, sleeping, view, shown, budget>>

AgentConnected ==
  /\ Holds("agentChild", "connected")
  /\ Take("agent", "agentChild", To("opMain", UpdateState))
  /\ UNCHANGED <<entries, status, listeners, writing, link, sleeping, view, shown, budget>>

AgentDisconnected ==
  /\ Holds("agentChild", "disconnected")
  /\ Take("agent", "agentChild", <<>>)
  /\ UNCHANGED <<entries, status, listeners, writing, link, sleeping, view, shown, budget>>

\* handle_tick: the agent asks itself to disable the entries it finds old,
\* through its own mailbox, and reports the state.
AgentTick ==
  /\ Ready("agent")
  /\ \E old \in SUBSET entries :
       LET disables == [i \in DOMAIN SetToSeq(old) |->
             [to |-> "agentChild", msg |-> Msg("disable", SetToSeq(old)[i])]]
       IN todo' = [todo EXCEPT !["agent"] = disables \o To("opMain", UpdateState)]
  /\ UNCHANGED <<queue, entries, status, listeners, writing, link, sleeping, view,
                 shown, budget>>

-----------------------------------------------------------------------------
(* The operator client.                                                    *)

\* connect_async succeeds: the old writer's channel is dropped for a new one.
OpConnect(c) ==
  /\ Holds(c, "connect")
  /\ Ready("operator")
  /\ queue' = [queue EXCEPT ![c] = Tail(@), !["writer"] = <<>>]
  /\ todo' = [todo EXCEPT !["operator"] = To("agentChild", Msg("connected", Nothing))]
  /\ writing' = TRUE
  /\ link' = "up"
  /\ UNCHANGED <<entries, status, listeners, sleeping, view, shown, budget>>

\* Mutation of OpConnectFails: no further attempt.
OpConnectGivesUp(c) ==
  /\ Holds(c, "connect")
  /\ budget.failures > 0
  /\ budget' = [budget EXCEPT !.failures = @ - 1]
  /\ Take("operator", c, <<>>)
  /\ UNCHANGED <<entries, status, listeners, writing, link, sleeping, view, shown>>

OpConnectFails(c) ==
  /\ Holds(c, "connect")
  /\ budget.failures > 0
  /\ budget' = [budget EXCEPT !.failures = @ - 1]
  /\ Take("operator", c, To("opChild", Msg("reconnect", Nothing)))
  /\ UNCHANGED <<entries, status, listeners, writing, link, sleeping, view, shown>>

OpReconnect ==
  /\ Holds("opChild", "reconnect")
  /\ Take("operator", "opChild", To("agentChild", Msg("disconnected", Nothing)))
  /\ UNCHANGED <<entries, status, listeners, writing, link, sleeping, view, shown, budget>>

\* A command without a writer is dropped.
OpSendCommand ==
  /\ \E kind \in {"command", "error", "action"} : Holds("opMain", kind)
  /\ Take("operator", "opMain",
          IF writing THEN To("writer", Head(queue["opMain"])) ELSE <<>>)
  /\ UNCHANGED <<entries, status, listeners, writing, link, sleeping, view, shown, budget>>

OpReceiveCommand ==
  /\ Holds("opChild", "receive")
  /\ Take("operator", "opChild", To("agentChild", Head(queue["opChild"]).arg))
  /\ UNCHANGED <<entries, status, listeners, writing, link, sleeping, view, shown, budget>>

\* The sleep is over (handle_for_retry.connect()).
Wake ==
  /\ sleeping /\ Ready("sleeper")
  /\ sleeping' = FALSE
  /\ todo' = [todo EXCEPT !["sleeper"] = To("opChild", Msg("connect", Nothing))]
  /\ UNCHANGED <<queue, entries, status, listeners, writing, link, view, shown, budget>>

\* The socket writer's task: what it writes to a socket that is not up is lost.
Write ==
  LET m == Head(queue["writer"]) IN
    /\ queue["writer"] # <<>>
    /\ queue' = [queue EXCEPT !["writer"] = Tail(@)]
    /\ view' = IF link = "up" /\ m.kind = "command" THEN m.arg ELSE view
    /\ shown' = IF link = "up" /\ m.kind = "action" THEN shown \cup {m.arg} ELSE shown
    /\ UNCHANGED <<todo, entries, status, listeners, writing, link, sleeping, budget>>

-----------------------------------------------------------------------------
(* The operator, its socket and the reader's task.                         *)

Commands ==
  {Msg("enable", m) : m \in Modules} \cup {Msg("disable", m) : m \in Modules}
    \cup {Msg("run", Nothing)}

Reads(command) ==
  /\ link = "up" /\ Ready("reader")
  /\ todo' = [todo EXCEPT !["reader"] = To("opChild", Msg("receive", command))]
  /\ UNCHANGED <<queue, entries, status, listeners, writing, link, sleeping, view>>

ReadCommand ==
  /\ budget.commands > 0
  /\ budget' = [budget EXCEPT !.commands = @ - 1]
  /\ \E command \in Commands : Reads(command)
  /\ UNCHANGED shown

ReadAnswer(i) ==
  /\ i \in shown
  /\ shown' = shown \ {i}
  /\ Reads(Msg("fulfill", i))
  /\ UNCHANGED budget

Break ==
  /\ link = "up" /\ budget.failures > 0
  /\ link' = "broken"
  /\ budget' = [budget EXCEPT !.failures = @ - 1]
  /\ UNCHANGED <<queue, todo, entries, status, listeners, writing, sleeping, view, shown>>

\* Mutation of ReadError: the reader reports the error and each later one.
ReadErrorAgain ==
  /\ link = "broken" /\ Ready("reader")
  /\ todo' = [todo EXCEPT !["reader"] = To("opChild", Msg("reconnect", Nothing))]
  /\ UNCHANGED <<queue, entries, status, listeners, writing, link, sleeping, view, shown, budget>>

\* The reader gets the error, asks for a reconnection, and ends: after an
\* error the stream has no more items.
ReadError ==
  /\ link = "broken" /\ Ready("reader")
  /\ link' = "none"
  /\ todo' = [todo EXCEPT !["reader"] = To("opChild", Msg("reconnect", Nothing))]
  /\ UNCHANGED <<queue, entries, status, listeners, writing, sleeping, view, shown, budget>>

\* Message::Close: the reader's loop ends and nobody asks for a reconnection.
ReadClose ==
  /\ link = "up" /\ Ready("reader")
  /\ link' = "closed"
  /\ UNCHANGED <<queue, todo, entries, status, listeners, writing, sleeping, view, shown, budget>>

-----------------------------------------------------------------------------
(* The worker and the debugged handlers.                                   *)

\* spawn_cloud_agent_observer hands the worker's events on, in order.
WorkerEvent ==
  LET last == {queue["agentMain"][i].arg : i \in DOMAIN queue["agentMain"]} \cup {status}
      n == 1 + CHOOSE x \in last : \A y \in last : y <= x
  IN
    /\ n <= MaxEvents
    /\ HasRoom("agentMain")
    /\ queue' = [queue EXCEPT !["agentMain"] = Append(@, Msg("event", n))]
    /\ UNCHANGED <<todo, entries, status, listeners, writing, link, sleeping, view,
                   shown, budget>>

\* Mutation of Ask: the question is shown before the listener is set up.
AskShownFirst(i) ==
  /\ i \in budget.asks
  /\ budget' = [budget EXCEPT !.asks = @ \ {i}]
  /\ todo' = [todo EXCEPT ![i] =
                To("opMain", Msg("action", i)) \o To("agentChild", Msg("setup", i))]
  /\ UNCHANGED <<queue, entries, status, listeners, writing, link, sleeping, view, shown>>

\* DebugMessage::ShowResult or AskForValue: the listener is set up, then the
\* operator is shown the question.
Ask(i) ==
  /\ i \in budget.asks
  /\ budget' = [budget EXCEPT !.asks = @ \ {i}]
  /\ todo' = [todo EXCEPT ![i] =
                To("agentChild", Msg("setup", i)) \o To("opMain", Msg("action", i))]
  /\ UNCHANGED <<queue, entries, status, listeners, writing, link, sleeping, view, shown>>

-----------------------------------------------------------------------------
AgentMainStep == AgentStart \/ AgentWorkerEvent
AgentChildStep ==
  \/ AgentEnable \/ AgentDisable \/ AgentPerformRun \/ AgentSetup \/ AgentFulfill
  \/ AgentConnected \/ AgentDisconnected
OpChildStep == OpReconnect \/ OpReceiveCommand \/ OpConnect("opChild")
OpMainStep == OpSendCommand \/ OpConnect("opMain")

Next ==
  \/ \E t \in Tasks : Send(t)
  \/ AgentMainStep \/ AgentChildStep \/ AgentTick
  \/ OpMainStep \/ OpChildStep
  \/ \E c \in {"opMain", "opChild"} : OpConnectFails(c)
  \/ Wake \/ Write
  \/ ReadCommand \/ Break \/ ReadError \/ ReadClose
  \/ \E i \in Questions : Ask(i) \/ ReadAnswer(i)
  \/ WorkerEvent

Spec == Init /\ [][Next]_vars

\* tokio's select! picks among its ready branches at random, so each of them
\* is taken in the end (strong fairness); sends complete when there is room;
\* sleeps elapse and broken sockets are noticed.  Nothing rests on the ticks.
Fairness ==
  /\ \A t \in Tasks : WF_vars(Send(t))
  /\ SF_vars(AgentMainStep) /\ SF_vars(AgentChildStep)
  /\ SF_vars(OpMainStep) /\ SF_vars(OpChildStep)
  /\ WF_vars(Wake) /\ WF_vars(Write) /\ WF_vars(ReadError)

FairSpec == Spec /\ Fairness

-----------------------------------------------------------------------------
(* Properties.                                                             *)

\* How many ways lead to a connection: the socket with its reader, a sleeper,
\* and the requests to connect on their way.
InQueue(c, kind) == {i \in DOMAIN queue[c] : queue[c][i].kind = kind}
InTodo(t, kind) == {i \in DOMAIN todo[t] : todo[t][i].msg.kind = kind}
Attempts ==
  UNION {InQueue("opMain", "connect") \X {"main"},
         InQueue("opChild", "connect") \X {"child"},
         InQueue("opChild", "reconnect") \X {"child"},
         UNION {InTodo(t, kind) \X {t} :
                  t \in Tasks, kind \in {"connect", "reconnect", "disconnected"}},
         IF sleeping THEN {<<1, "sleep">>} ELSE {},
         IF link \in {"up", "broken"} THEN {<<1, "socket">>} ELSE {}}

\* There are never two sockets, nor a socket and an attempt to open another:
\* retries do not multiply, so the delay between them is respected.
OneConnection == Cardinality(Attempts) <= 1

\* The operator's answer to a question finds the listener that was set up for
\* it: setup_debugger_listener cannot be overtaken by the answer.
AnswerFindsListener ==
  Holds("agentChild", "fulfill") => Addressed \in listeners

\* The agent waits for room that can only be made by itself, or by a client
\* which waits for room at the agent.
Blocked(t, c) == todo[t] # <<>> /\ Head(todo[t]).to = c /\ ~HasRoom(c)
Stalled == \/ Blocked("agent", "agentChild")
           \/ Blocked("agent", "opMain") /\ Blocked("operator", "agentChild")

\* A link lost to an error comes back, unless agent and client are stalled.
LinkRecovers == link \in {"none", "broken"} ~> link = "up" \/ Stalled

\* When the link stays up the operator ends up knowing the worker's status
\* and its debug entries, whatever was dropped while there was no link.
OperatorKnows == <>[](link = "up") => <>[](view = Report \/ Stalled)

=============================================================================
