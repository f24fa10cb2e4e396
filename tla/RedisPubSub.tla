----------------------------- MODULE RedisPubSub -----------------------------
(***************************************************************************)
(* Redis channels shared by the actors of a worker (modules/redis.rs): the  *)
(* connection pools of the registry, under one name, and the coordinator of *)
(* each pool.                                                               *)
(*                                                                         *)
(* A coordinator is a task with a connection of its own.  It lists, channel *)
(* by channel, the actors that are to get its messages, and is told to      *)
(* subscribe and unsubscribe them by the actors' handlers, which wait for   *)
(* the answer, and by one task per subscription, which waits for its        *)
(* cancellation.  All of these hold a handle; the coordinator ends when no  *)
(* handle is left.  A connection may break, and is then made anew.          *)
(***************************************************************************)
EXTENDS Naturals, FiniteSets, Sequences

CONSTANTS
  Actors,
  Channels,
  None,             \* no call, no pool
  MaxCoordinators,  \* bound: connections set up
  MaxCalls,         \* bound: native calls of each actor
  MaxBreaks,        \* bound: connections that break
  MaxRefusals,      \* bound: subscriptions that the server refuses
  MaxGarbled        \* bound: payloads that are not UTF-8

ASSUME RedisAssumption ==
  /\ None \notin Actors \cup Channels
  /\ {MaxCoordinators, MaxCalls, MaxBreaks, MaxRefusals, MaxGarbled} \subseteq Nat

Coordinators == 1..MaxCoordinators

VARIABLES
  pool,        \* the coordinator of the pool in registry.redis_pools, or None
  made,        \* coordinators made so far
  link,        \* link[c]: its connection is "up" or "broken", or c has "ended"
  table,       \* table[c]: of each channel it knows, the actors listed (with
               \* their repetitions, which one Unsubscribe takes off together)
  broker,      \* broker[c]: what the server has c's connection subscribed to
  queue,       \* queue[c]: commands to c
  status,      \* status[a]: "running", "terminated" (out of the registry, its
               \* loop goes on) or "ended"
  call,        \* call[a]: the native call that a's handler is in, or None
  held,        \* held[a]: cancellations in a's resources: channel, coordinator
  fired,       \* cancellation tasks that have yet to send their Unsubscribe
  calls, breaks, refusals, garbled,
  told,        \* history: subscriptions of a that were answered with Ok, and
               \* that a has not asked the same coordinator to end
  refused,     \* history: channel and coordinator the server has refused
  unowned      \* history: who was listed and told that the subscribe has failed

\* A table without a channel.
NoChannel == [ch \in {} |-> {}]

actorVars == <<status, call, held, fired, calls, told>>
coordinatorVars == <<link, table, broker, queue, breaks, refusals, refused, garbled,
                     unowned>>
vars == <<pool, made, actorVars, coordinatorVars>>

Init ==
  /\ pool = None /\ made = 0
  /\ link = [c \in Coordinators |-> "ended"]
  /\ table = [c \in Coordinators |-> NoChannel]
  /\ broker = [c \in Coordinators |-> {}]
  /\ queue = [c \in Coordinators |-> <<>>]
  /\ status = [a \in Actors |-> "running"]
  /\ call = [a \in Actors |-> None]
  /\ held = [a \in Actors |-> {}]
  /\ fired = {}
  /\ calls = [a \in Actors |-> 0]
  /\ breaks = 0 /\ refusals = 0 /\ garbled = 0
  /\ told = [a \in Actors |-> {}]
  /\ refused = {}
  /\ unowned = {}

-----------------------------------------------------------------------------
Alive(c) == link[c] # "ended"
Known(c) == DOMAIN table[c]
Listed(c, ch) == IF ch \in Known(c) THEN table[c][ch] ELSE {}

\* A subscription, as a cancellation names it.
Sub(ch, c) == [channel |-> ch, coordinator |-> c]

\* A command, from the handler of an actor or from a cancellation task.
Command(op, ch, a, by) == [op |-> op, channel |-> ch, actor |-> a, by |-> by]

\* Who holds a handle of c: the pool, a handler in a call, the task of a
\* subscription, until its Unsubscribe was answered.
HasHandle(c) ==
  \/ pool = c
  \/ \E a \in Actors : call[a] # None /\ call[a].coordinator = c
  \/ \E a \in Actors, ch \in Channels : Sub(ch, c) \in held[a]
  \/ \E f \in fired : f.coordinator = c
  \/ queue[c] # <<>>

-----------------------------------------------------------------------------
(* Native functions.                                                       *)

MayCall(a) ==
  /\ status[a] # "ended" /\ call[a] = None
  /\ calls[a] < MaxCalls
  /\ calls' = [calls EXCEPT ![a] = @ + 1]

\* get_connection, when there is no pool of that name: it will be made.
GetConnection(a) ==
  /\ MayCall(a)
  /\ pool = None
  /\ call' = [call EXCEPT ![a] = [op |-> "connect", coordinator |-> None]]
  /\ UNCHANGED <<pool, made, status, held, fired, told, coordinatorVars>>

\* The pool and its coordinator are ready and put under the name, in the place
\* of what another handler may have put there meanwhile.
Connected(a) ==
  /\ call[a] # None /\ call[a].op = "connect"
  /\ made < MaxCoordinators
  /\ made' = made + 1
  /\ link' = [link EXCEPT ![made + 1] = "up"]
  /\ pool' = made + 1
  /\ call' = [call EXCEPT ![a] = None]
  /\ UNCHANGED <<status, held, fired, calls, told, table, broker, queue, breaks,
                 refusals, refused, garbled, unowned>>

ConnectFails(a) ==
  /\ call[a] # None /\ call[a].op = "connect"
  /\ call' = [call EXCEPT ![a] = None]
  /\ UNCHANGED <<pool, made, status, held, fired, calls, told, coordinatorVars>>

\* drop_connection takes the pool out of the registry; what holds a handle of
\* its coordinator keeps it.
DropConnection(a) ==
  /\ MayCall(a)
  /\ pool # None
  /\ pool' = None
  /\ UNCHANGED <<made, status, call, held, fired, told, coordinatorVars>>

\* subscribe and unsubscribe send a command to the coordinator of the pool, and
\* wait.  If it has ended the call fails at once and changes nothing.
Ask(a, op, ch) ==
  /\ MayCall(a)
  /\ pool # None /\ Alive(pool)
  /\ queue' = [queue EXCEPT ![pool] = Append(@, Command(op, ch, a, "handler"))]
  /\ call' = [call EXCEPT ![a] = [op |-> op, coordinator |-> pool]]
  /\ UNCHANGED <<pool, made, status, held, fired, told, link, table, broker, breaks,
                 refusals, refused, garbled, unowned>>

Subscribe(a, ch) == Ask(a, "subscribe", ch)

\* What unsubscribe pops afterwards, the cancellations whose name is that of the
\* connection, are none: they are named for the channel.
Unsubscribe(a, ch) == Ask(a, "unsubscribe", ch)

Cancellations(a) ==
  {[actor |-> a, channel |-> s.channel, coordinator |-> s.coordinator] : s \in held[a]}

\* Mutation of Terminate: the cancellations are forgotten.
TerminateForgets(a) ==
  /\ status[a] = "running" /\ call[a] = None
  /\ status' = [status EXCEPT ![a] = "terminated"]
  /\ held' = [held EXCEPT ![a] = {}]
  /\ UNCHANGED <<pool, made, call, fired, calls, told, coordinatorVars>>

\* terminate(): the cancellations are sent, the entry is removed.
Terminate(a) ==
  /\ status[a] = "running" /\ call[a] = None
  /\ status' = [status EXCEPT ![a] = "terminated"]
  /\ fired' = fired \cup Cancellations(a)
  /\ held' = [held EXCEPT ![a] = {}]
  /\ UNCHANGED <<pool, made, call, calls, told, coordinatorVars>>

\* The loop ends; cancellations that handlers have got since are dropped.
EndActor(a) ==
  /\ status[a] = "terminated" /\ call[a] = None
  /\ status' = [status EXCEPT ![a] = "ended"]
  /\ fired' = fired \cup Cancellations(a)
  /\ held' = [held EXCEPT ![a] = {}]
  /\ UNCHANGED <<pool, made, call, calls, told, coordinatorVars>>

\* The task of a subscription sends Unsubscribe, to the coordinator that it has
\* the handle of; it gives up if that one has ended.
Cancel(f) ==
  /\ f \in fired
  /\ fired' = fired \ {f}
  /\ LET c == f.coordinator
         command == Command("unsubscribe", f.channel, f.actor, "task")
     IN queue' = IF Alive(c) THEN [queue EXCEPT ![c] = Append(@, command)] ELSE queue
  /\ UNCHANGED <<pool, made, status, call, held, calls, told, link, table, broker,
                 breaks, refusals, refused, garbled, unowned>>

-----------------------------------------------------------------------------
(* A coordinator.                                                          *)

\* Its next command.
Takes(c, op) ==
  /\ Alive(c) /\ queue[c] # <<>> /\ Head(queue[c]).op = op
  /\ queue' = [queue EXCEPT ![c] = Tail(@)]

\* The handler of a goes on.
Answered(a) == call' = [call EXCEPT ![a] = None]

List(c, ch, a) ==
  table' = [table EXCEPT ![c] = [k \in Known(c) \cup {ch} |->
              IF k = ch THEN Listed(c, ch) \cup {a} ELSE table[c][k]]]

\* The subscriber is listed in any case.  The first one of a channel needs the
\* server, which may refuse, or cannot be reached; the next ones do not.
HandleSubscribe(c) ==
  LET a == Head(queue[c]).actor
      ch == Head(queue[c]).channel
      first == Listed(c, ch) = {}
      succeed == /\ held' = [held EXCEPT ![a] = @ \cup {Sub(ch, c)}]
                 /\ told' = [told EXCEPT ![a] = @ \cup {Sub(ch, c)}]
                 /\ UNCHANGED unowned
      fail == /\ unowned' = unowned \cup {<<a, Sub(ch, c)>>}
              /\ UNCHANGED <<held, told>>
  IN
    /\ Takes(c, "subscribe")
    /\ List(c, ch, a)
    /\ Answered(a)
    /\ \/ /\ ~first
          /\ succeed /\ UNCHANGED <<broker, refusals, refused>>
       \/ /\ first /\ link[c] = "up"
          /\ broker' = [broker EXCEPT ![c] = @ \cup {ch}]
          /\ refused' = refused \ {Sub(ch, c)}
          /\ succeed /\ UNCHANGED refusals
       \/ /\ first /\ link[c] = "up"
          /\ refusals < MaxRefusals
          /\ refusals' = refusals + 1
          /\ refused' = refused \cup {Sub(ch, c)}
          /\ fail /\ UNCHANGED broker
       \/ /\ first /\ link[c] = "broken"
          /\ fail /\ UNCHANGED <<broker, refusals, refused>>
    /\ UNCHANGED <<pool, made, status, fired, calls, link, breaks, garbled>>

Unlist(c, ch, a) ==
  LET rest == Listed(c, ch) \ {a}
      known == IF rest = {} THEN Known(c) \ {ch} ELSE Known(c)
  IN table' = [table EXCEPT ![c] = [k \in known |-> IF k = ch THEN rest ELSE table[c][k]]]

\* What follows an Unsubscribe: its answer, and what a has been told.
Ended(command, c) ==
  IF command.by = "handler"
    THEN /\ Answered(command.actor)
         /\ told' = [told EXCEPT ![command.actor] = @ \ {Sub(command.channel, c)}]
    ELSE UNCHANGED <<call, told>>

\* Every entry of the actor goes; with the last one of a channel the channel, at
\* the server too, if it can be reached.
HandleUnsubscribe(c) ==
  LET a == Head(queue[c]).actor
      ch == Head(queue[c]).channel
  IN
    /\ Takes(c, "unsubscribe")
    /\ Unlist(c, ch, a)
    /\ broker' = [broker EXCEPT ![c] = IF Listed(c, ch) \subseteq {a} THEN @ \ {ch} ELSE @]
    /\ Ended(Head(queue[c]), c)
    /\ UNCHANGED <<pool, made, status, held, fired, calls, link, breaks, refusals,
                   refused, garbled, unowned>>

\* A message is sent on to the actors listed (a task each); those that are not in
\* the registry are taken off the list, which may be left empty.
Message(c, ch) ==
  /\ link[c] = "up" /\ ch \in broker[c] /\ ch \in Known(c)
  /\ table' = [table EXCEPT ![c][ch] = {a \in @ : status[a] = "running"}]
  /\ UNCHANGED <<pool, made, actorVars, link, broker, queue, breaks, refusals, refused,
                 garbled, unowned>>

\* get_payload().unwrap() panics: the task is gone, its queue with it, and who
\* waits for an answer gets an error.  The pool stays where it is.
Garbled(c) ==
  /\ link[c] = "up" /\ broker[c] # {}
  /\ garbled < MaxGarbled
  /\ garbled' = garbled + 1
  /\ link' = [link EXCEPT ![c] = "ended"]
  /\ table' = [table EXCEPT ![c] = NoChannel]
  /\ broker' = [broker EXCEPT ![c] = {}]
  /\ queue' = [queue EXCEPT ![c] = <<>>]
  /\ call' = [a \in Actors |->
       IF call[a] # None /\ call[a].coordinator = c THEN None ELSE call[a]]
  /\ UNCHANGED <<pool, made, status, held, fired, calls, told, breaks, refusals, refused,
                 unowned>>

\* The connection breaks; the server forgets it.
Break(c) ==
  /\ link[c] = "up"
  /\ breaks < MaxBreaks
  /\ breaks' = breaks + 1
  /\ link' = [link EXCEPT ![c] = "broken"]
  /\ broker' = [broker EXCEPT ![c] = {}]
  /\ UNCHANGED <<pool, made, actorVars, table, queue, refusals, refused, garbled, unowned>>

\* Mutation of Reconnect: the channels that have lost their subscriptions are
\* not subscribed to again.
ReconnectBare(c) ==
  /\ link[c] = "broken"
  /\ link' = [link EXCEPT ![c] = "up"]
  /\ UNCHANGED <<pool, made, actorVars, table, broker, queue, breaks, refusals, refused,
                 garbled, unowned>>

\* The stream has ended, a new connection is made, and each channel in the table
\* is subscribed to again; what the server refuses is only logged.
Reconnect(c) ==
  /\ link[c] = "broken"
  /\ link' = [link EXCEPT ![c] = "up"]
  /\ \E lost \in SUBSET Known(c) :
       /\ refusals + Cardinality(lost) <= MaxRefusals
       /\ refusals' = refusals + Cardinality(lost)
       /\ broker' = [broker EXCEPT ![c] = Known(c) \ lost]
       /\ refused' = {s \in refused : s.coordinator # c} \cup {Sub(ch, c) : ch \in lost}
  /\ UNCHANGED <<pool, made, actorVars, table, queue, breaks, garbled, unowned>>

\* No handle is left.
EndCoordinator(c) ==
  /\ Alive(c) /\ ~HasHandle(c)
  /\ link' = [link EXCEPT ![c] = "ended"]
  /\ table' = [table EXCEPT ![c] = NoChannel]
  /\ broker' = [broker EXCEPT ![c] = {}]
  /\ UNCHANGED <<pool, made, actorVars, queue, breaks, refusals, refused, garbled, unowned>>

-----------------------------------------------------------------------------
CoordinatorStep(c) == HandleSubscribe(c) \/ HandleUnsubscribe(c) \/ EndCoordinator(c)

Next ==
  \/ \E a \in Actors :
       \/ GetConnection(a) \/ Connected(a) \/ ConnectFails(a) \/ DropConnection(a)
       \/ \E ch \in Channels : Subscribe(a, ch) \/ Unsubscribe(a, ch)
       \/ Terminate(a) \/ EndActor(a)
  \/ \E f \in fired : Cancel(f)
  \/ \E c \in Coordinators :
       \/ CoordinatorStep(c)
       \/ \E ch \in Channels : Message(c, ch)
       \/ Garbled(c) \/ Break(c) \/ Reconnect(c)

Spec == Init /\ [][Next]_vars

\* Tasks that are ready are polled, the select! of a coordinator passes none of
\* its branches over for ever, and the server answers or is found gone.
FairSpec ==
  /\ Spec
  /\ \A c \in Coordinators : SF_vars(CoordinatorStep(c))
  /\ \A a \in Actors : WF_vars(Connected(a) \/ ConnectFails(a))
  /\ WF_vars(\E f \in fired : Cancel(f))

-----------------------------------------------------------------------------
(* Properties.                                                             *)

\* Whatever other actors do, terminate or fail to do, and however often the
\* connection breaks: an actor that was told that it is subscribed is listed, and
\* when the connection is up the server knows of its channel, unless it has
\* refused it: then only the first to subscribe was told (redis.rs:622), the ones
\* after it were answered with Ok without asking.
SubscribedAreServed ==
  \A a \in Actors : \A s \in told[a] :
    status[a] = "running" /\ Alive(s.coordinator) =>
      /\ a \in Listed(s.coordinator, s.channel)
      /\ link[s.coordinator] = "up" =>
           s.channel \in broker[s.coordinator] \/ s \in refused

\* An actor that has ended is forgotten by every coordinator, also by one whose
\* pool was dropped or replaced and whose connection is broken, and a coordinator
\* whose pool is gone and whose subscribers have all ended ends.  Who was listed
\* by a subscribe that failed has no cancellation, and stays until a message comes.
EndedAreForgotten ==
  /\ \A a \in Actors :
       status[a] = "ended" ~>
         \A c \in Coordinators, ch \in Channels :
           a \notin Listed(c, ch) \/ <<a, Sub(ch, c)>> \in unowned
  /\ (\A a \in Actors : status[a] = "ended")
       ~> (\A c \in Coordinators : Alive(c) => pool = c)

=============================================================================
