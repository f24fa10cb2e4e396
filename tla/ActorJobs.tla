------------------------------ MODULE ActorJobs ------------------------------
(***************************************************************************)
(* The background jobs of one actor: alarms, intervals and cronjobs         *)
(* (modules/alarms.rs), subscriptions to a channel (modules/pubsub.rs),     *)
(* continuous tasks (modules/tasks.rs), file watchers (modules/fs.rs) and   *)
(* WebSocket clients (modules/websocket_client.rs), beside Worker::stop,    *)
(* which terminates the actor (worker.rs).                                  *)
(*                                                                         *)
(* Each job is a tokio task of its own.  It looks the actor up in the       *)
(* registry and sends it a command, blocking while the mailbox is full.     *)
(* The actor holds a Cancellation for the job in its resources; the task    *)
(* runs tokio::select! over its work and the cancellation's receiver, which *)
(* resolves when the cancellation is sent to or dropped.  An alarm that has *)
(* fired sends in the arm of the select!, out of the cancellation's reach.  *)
(* Of a watcher the cancellation reaches the source of events only, and a   *)
(* socket's tasks also end when the actor has given up its client.          *)
(*                                                                         *)
(* Worker::stop first has the actor run a stopper, then terminates it.  It   *)
(* holds a lock of the actor's shard of the registry while it waits for     *)
(* room in the mailbox, a shared one for the stopper: whoever removes the   *)
(* actor waits for that lock, and whoever looks it up for the second one.   *)
(***************************************************************************)
EXTENDS Naturals, Sequences, SequencesExt

CONSTANTS
  Jobs,          \* the jobs the actor may start, each once
  Workloads,     \* what programs there are: each says what sort of job j is,
                 \* None if it starts no such job
  None,          \* stands for an absent job
  Capacity,      \* mpsc::channel::<ActorCommand>(16)
  FeedCapacity,  \* broadcast::channel(32)
  MaxEvents,     \* bound: commands from outside
  MaxPublished   \* bound: values published on the channel, changes of files, for
                 \* each program

Kinds == {"alarm", "interval", "cronjob", "subscription", "task", "watcher", "socket"}
ASSUME JobsAssumption ==
  Workloads \subseteq [Jobs -> Kinds \cup {None}] /\ None \notin Jobs \cup Kinds
ASSUME BoundsAssumption ==
  /\ Capacity \in Nat \ {0} /\ FeedCapacity \in Nat \ {0}
  /\ MaxEvents \in Nat /\ MaxPublished \in [Workloads -> Nat]

VARIABLES
  kind,        \* the program this actor runs, one of Workloads
  registered,  \* the actor has an entry in the registry
  mailbox,     \* its queued commands
  actor,       \* its task: "idle", "busy" in a handler, "looking" for an actor
               \* while the registry is locked, or "ended"
  running,     \* the job whose command the handler answers, and its value
  resources,   \* resources.cancellations, a stack
  clients,     \* resources.websocket_clients, a stack
  state,       \* state[j]: where the task of job j is
  signal,      \* signal[j]: j's cancellation was sent to or dropped
  feed,        \* feed[j]: what subscription or watcher j has yet to receive
  held,        \* held[j]: the value j is sending
  lagged,      \* lagged[j]: subscription j missed values
  published,   \* values published so far on the channel, changes of the files
  events,      \* commands from outside so far
  stop         \* Worker::stop at this actor: "unused", sending the "stopper", which
               \* was "told", sending Terminate with the entry "locked", or "done"

vars == <<kind, registered, mailbox, actor, running, resources, clients, state, signal,
          feed, held, lagged, published, events, stop>>
jobVars == <<signal, feed, held, lagged>>

Run(j, v) == [op |-> "run", job |-> j, value |-> v]
TerminateCmd == [op |-> "terminate", job |-> None, value |-> 0]
Idle == Run(None, 0)

Init ==
  /\ kind \in Workloads
  /\ registered = TRUE
  /\ mailbox = <<>>
  /\ actor = "idle"
  /\ running = Idle
  /\ resources = <<>> /\ clients = <<>>
  /\ state = [j \in Jobs |-> "unset"]
  /\ signal = [j \in Jobs |-> FALSE]
  /\ feed = [j \in Jobs |-> <<>>]
  /\ held = [j \in Jobs |-> 0]
  /\ lagged = [j \in Jobs |-> FALSE]
  /\ published = [channel |-> 0, files |-> 0]
  /\ events = 0
  /\ stop = "unused"

-----------------------------------------------------------------------------
\* The select! of j still listens to the cancellation.
Listening(j) == state[j] \notin {"unset", "firing", "ended"}

\* A job that has looked the actor up holds a clone of its link.
HoldsLink(j) == state[j] \in {"sending", "firing", "parting"}

\* The registry can be read, or written, where this actor's entry is.
Free == stop # "locked"
Removable == stop \notin {"stopper", "locked"}

HasRoom == Len(mailbox) < Capacity

\* Mutation of Push: the newest command is handled first.
PushFront(c) == mailbox' = <<c>> \o mailbox

Push(c) == mailbox' = Append(mailbox, c)

Become(j, s) == state' = [state EXCEPT ![j] = s]

-----------------------------------------------------------------------------
(* The outside: commands of other actors, Worker::stop, values, files.      *)

Outside(c) ==
  /\ registered /\ Free
  /\ HasRoom
  /\ events < MaxEvents
  /\ Push(c)
  /\ events' = events + 1
  /\ UNCHANGED <<kind, registered, actor, running, resources, clients, state, jobVars,
                 published, stop>>

OutsideRun == Outside(Idle)
OutsideTerminate == Outside(TerminateCmd)

\* Worker::stop finds the manager of a module that has a stopper.
StopFinds ==
  /\ registered /\ stop = "unused"
  /\ stop' = "stopper"
  /\ UNCHANGED <<kind, registered, mailbox, actor, running, resources, clients, state,
                 jobVars, published, events>>

\* Its send completes; the stopper's result is of no interest.
StopTells ==
  /\ stop = "stopper" /\ HasRoom
  /\ Push(Idle)
  /\ stop' = "told"
  /\ UNCHANGED <<kind, registered, actor, running, resources, clients, state, jobVars,
                 published, events>>

\* It iterates over the actors with iter_mut and comes to this one, if it is
\* still there.
StopReaches ==
  /\ registered /\ stop \in {"unused", "told"}
  /\ stop' = "locked"
  /\ UNCHANGED <<kind, registered, mailbox, actor, running, resources, clients, state,
                 jobVars, published, events>>

\* Mutation of StopSends: it keeps the entry until the actor has removed it.
StopSendsAndWaits ==
  /\ stop = "locked" /\ HasRoom
  /\ \A i \in DOMAIN mailbox : mailbox[i].op # "terminate"
  /\ Push(TerminateCmd)
  /\ UNCHANGED <<kind, registered, actor, running, resources, clients, state, jobVars,
                 published, events, stop>>

\* Its send of Terminate completes, and it goes on to the next entry.
StopSends ==
  /\ stop = "locked" /\ HasRoom
  /\ Push(TerminateCmd)
  /\ stop' = "done"
  /\ UNCHANGED <<kind, registered, actor, running, resources, clients, state, jobVars,
                 published, events>>

Subscribed(j) == kind[j] = "subscription" /\ state[j] \notin {"unset", "ended"}

\* broadcast::Sender::send: every receiver gets the value, and one that is
\* FeedCapacity behind loses its oldest.  With no receiver nothing happens.
Publish ==
  LET full(j) == Len(feed[j]) = FeedCapacity
      later(j) == Append(IF full(j) THEN Tail(feed[j]) ELSE feed[j], published.channel + 1)
  IN
    /\ published.channel < MaxPublished[kind] /\ \E j \in Jobs : Subscribed(j)
    /\ published' = [published EXCEPT !.channel = @ + 1]
    /\ feed' = [j \in Jobs |-> IF Subscribed(j) THEN later(j) ELSE feed[j]]
    /\ lagged' = [j \in Jobs |-> lagged[j] \/ (Subscribed(j) /\ full(j))]
    /\ UNCHANGED <<kind, registered, mailbox, actor, running, resources, clients, state,
                   signal, held, events, stop>>

\* A file changes: the debouncer of every watcher that is not cancelled will
\* send it, and waits while the reader's channel is full.
Change ==
  LET watching == {j \in Jobs : kind[j] = "watcher" /\ state[j] # "unset" /\ ~signal[j]} IN
    /\ published.files < MaxPublished[kind] /\ watching # {}
    /\ \A j \in watching : Len(feed[j]) < FeedCapacity
    /\ published' = [published EXCEPT !.files = @ + 1]
    /\ feed' = [j \in Jobs |-> IF j \in watching THEN Append(feed[j], published.files + 1)
                                                ELSE feed[j]]
    /\ UNCHANGED <<kind, registered, mailbox, actor, running, resources, clients, state,
                   signal, held, lagged, events, stop>>

-----------------------------------------------------------------------------
(* The tasks of the jobs.                                                  *)

JobStep(j) ==
  UNCHANGED <<kind, registered, actor, running, resources, clients, signal, lagged,
              published, events, stop>>

\* An alarm's sleep is over: the select! has chosen its arm.
Fire(j) ==
  /\ kind[j] = "alarm" /\ state[j] = "waiting" /\ Free
  /\ Become(j, IF registered THEN "firing" ELSE "ended")
  /\ UNCHANGED <<mailbox, feed, held>> /\ JobStep(j)

\* An interval or cronjob ticks; if the actor is not found it just goes on.
Tick(j) ==
  /\ kind[j] \in {"interval", "cronjob"} /\ state[j] = "waiting"
  /\ registered /\ Free
  /\ Become(j, "sending")
  /\ UNCHANGED <<mailbox, feed, held>> /\ JobStep(j)

\* A cronjob finds no next occurrence.
RunOut(j) ==
  /\ kind[j] = "cronjob" /\ state[j] = "waiting"
  /\ Become(j, "ended")
  /\ UNCHANGED <<mailbox, feed, held>> /\ JobStep(j)

\* A subscription or a watcher's reader takes the next value and looks the
\* actor up.  If it is not found a subscription ends, and a reader goes on.
ReceiveValue(j) ==
  /\ state[j] = "waiting" /\ feed[j] # <<>> /\ Free
  /\ IF registered \/ kind[j] = "watcher"
       THEN feed' = [feed EXCEPT ![j] = Tail(@)]
       ELSE feed' = [feed EXCEPT ![j] = <<>>]
  /\ CASE registered -> /\ held' = [held EXCEPT ![j] = Head(feed[j])]
                        /\ Become(j, "sending")
       [] OTHER -> /\ UNCHANGED held
                   /\ Become(j, IF kind[j] = "watcher" THEN "waiting" ELSE "ended")
  /\ UNCHANGED mailbox /\ JobStep(j)

\* The socket's message task: a message is passed on, if the actor is found;
\* after a close frame or an error the task ends, and with it the other one.
ReceiveMessage(j) ==
  /\ kind[j] = "socket" /\ state[j] = "waiting" /\ Free
  /\ \/ registered /\ Become(j, "sending")
     \/ Become(j, IF registered THEN "parting" ELSE "ended")
  /\ UNCHANGED <<mailbox, feed, held>> /\ JobStep(j)

\* The actor has given up the client: no sender is left for the command task,
\* which ends, and the message task is aborted.
HangUp(j) ==
  /\ kind[j] = "socket" /\ state[j] \notin {"unset", "ended"}
  /\ j \notin ToSet(clients)
  /\ Become(j, "ended")
  /\ UNCHANGED <<mailbox, feed, held>> /\ JobStep(j)

\* A task looks the actor up; if it is not found, it awaits an answer whose
\* sender is its own.
Ask(j) ==
  /\ kind[j] = "task" /\ state[j] = "waiting" /\ Free
  /\ Become(j, IF registered THEN "sending" ELSE "stuck")
  /\ UNCHANGED <<mailbox, feed, held>> /\ JobStep(j)

\* Mutation of AfterSend: a task does not wait for its run.
AfterSendAtOnce(j) == IF kind[j] = "alarm" THEN "ended" ELSE "waiting"

AfterSend(j) ==
  CASE kind[j] = "alarm" \/ state[j] = "parting" -> "ended"
    [] kind[j] = "task" -> "asking"
    [] OTHER -> "waiting"

Deliver(j) ==
  /\ HoldsLink(j)
  /\ HasRoom
  /\ Push(Run(j, held[j]))
  /\ Become(j, AfterSend(j))
  /\ held' = [held EXCEPT ![j] = 0]
  /\ UNCHANGED feed /\ JobStep(j)

\* A task's run was answered; after a failure it first sleeps.
Resume(j) ==
  /\ state[j] \in {"answered", "failed"}
  /\ Become(j, "waiting")
  /\ UNCHANGED <<mailbox, feed, held>> /\ JobStep(j)

\* Mutation of Cancelled: the signal is looked at between two rounds only.
CancelledLate(j) ==
  /\ signal[j] /\ Listening(j) /\ state[j] = "waiting" /\ kind[j] # "watcher"
  /\ Become(j, "ended")
  /\ feed' = [feed EXCEPT ![j] = <<>>]
  /\ held' = [held EXCEPT ![j] = 0]
  /\ UNCHANGED mailbox /\ JobStep(j)

\* select! takes the cancellation's arm and drops the work.  When both arms
\* are ready it may take either.  A watcher's reader ends when its source is
\* gone and it has handed over what came before.
Cancelled(j) ==
  /\ signal[j] /\ Listening(j)
  /\ kind[j] = "watcher" => state[j] = "waiting" /\ feed[j] = <<>>
  /\ Become(j, "ended")
  /\ feed' = [feed EXCEPT ![j] = <<>>]
  /\ held' = [held EXCEPT ![j] = 0]
  /\ UNCHANGED mailbox /\ JobStep(j)

-----------------------------------------------------------------------------
(* The actor.                                                              *)

Handle ==
  /\ actor = "idle" /\ mailbox # <<>>
  /\ Head(mailbox).op = "run"
  /\ running' = Head(mailbox)
  /\ mailbox' = Tail(mailbox)
  /\ actor' = "busy"
  /\ UNCHANGED <<kind, registered, resources, clients, state, jobVars, published, events, stop>>

\* terminate(): every cancellation is popped and sent, the other resources are
\* dropped, the entry removed.
Terminate ==
  /\ actor = "idle" /\ mailbox # <<>>
  /\ Head(mailbox).op = "terminate" /\ Removable
  /\ mailbox' = Tail(mailbox)
  /\ signal' = [j \in Jobs |-> signal[j] \/ j \in ToSet(resources)]
  /\ resources' = <<>> /\ clients' = <<>>
  /\ registered' = FALSE
  /\ UNCHANGED <<kind, actor, running, state, feed, held, lagged, published, events, stop>>

\* No sender is left: the actor is dropped, its cancellations with it.
EndActor ==
  /\ actor = "idle" /\ mailbox = <<>>
  /\ ~registered /\ ~ \E j \in Jobs : HoldsLink(j)
  /\ actor' = "ended"
  /\ signal' = [j \in Jobs |-> signal[j] \/ j \in ToSet(resources)]
  /\ resources' = <<>> /\ clients' = <<>>
  /\ UNCHANGED <<kind, registered, mailbox, running, state, feed, held, lagged,
                 published, events, stop>>

\* A handler looks up an actor whose entry is locked: its thread waits.
LookUp ==
  /\ actor = "busy" /\ ~Free
  /\ actor' = "looking"
  /\ UNCHANGED <<kind, registered, mailbox, running, resources, clients, state, jobVars,
                 published, events, stop>>

Found ==
  /\ actor = "looking" /\ Free
  /\ actor' = "busy"
  /\ UNCHANGED <<kind, registered, mailbox, running, resources, clients, state, jobVars,
                 published, events, stop>>

\* A handler starts a job: its task is spawned, its cancellation pushed.
Start(j, sort, tasks) ==
  /\ actor = "busy" /\ state[j] = "unset" /\ kind[j] = sort
  /\ resources' = Append(resources, j)
  /\ \E task \in tasks : Become(j, task)
  /\ UNCHANGED <<kind, registered, mailbox, actor, running, jobVars, published, events,
                 stop>>

SetAlarm(j) == Start(j, "alarm", {"waiting"}) /\ UNCHANGED clients
\* tokio::time::interval panics on a period of zero, which set_interval lets
\* through: the task of such an interval is gone at once.
SetInterval(j) == Start(j, "interval", {"waiting", "ended"}) /\ UNCHANGED clients
SetupCronjob(j) == Start(j, "cronjob", {"waiting"}) /\ UNCHANGED clients
Subscribe(j) == Start(j, "subscription", {"waiting"}) /\ UNCHANGED clients
RunTaskContinuously(j) == Start(j, "task", {"waiting"}) /\ UNCHANGED clients
SetupWatcher(j) == Start(j, "watcher", {"waiting"}) /\ UNCHANGED clients
Connect(j) == Start(j, "socket", {"waiting"}) /\ clients' = Append(clients, j)

\* Mutation of IsLastOf: the oldest.
IsFirstOf(i, sorts) ==
  /\ kind[resources[i]] \in sorts
  /\ \A m \in DOMAIN resources : kind[resources[m]] \in sorts => i <= m

\* Position i is that of the newest cancellation of these subjects.
IsLastOf(i, sorts) ==
  /\ kind[resources[i]] \in sorts
  /\ \A m \in DOMAIN resources : kind[resources[m]] \in sorts => m <= i

\* Mutation of Popped: the cancellation is dropped from the stack unsent.
PoppedUnsent(i) ==
  /\ resources' = RemoveAt(resources, i)
  /\ signal' = signal

Popped(i) ==
  /\ resources' = RemoveAt(resources, i)
  /\ signal' = [signal EXCEPT ![resources[i]] = TRUE]

\* The newest cancellation of a subject is taken and sent to.  When its job is
\* already gone the send fails and the call with it, the cancellation popped
\* all the same.
CancelLast(sorts) ==
  /\ actor = "busy"
  /\ \E i \in DOMAIN resources : IsLastOf(i, sorts) /\ Popped(i)
  /\ UNCHANGED <<kind, registered, mailbox, actor, running, clients, state, feed, held,
                 lagged, published, events, stop>>

\* Intervals share the subject of alarms, cronjobs have one that no native
\* function cancels.
CancelAlarm == CancelLast({"alarm", "interval"})
CancelTask == CancelLast({"task"})
Unsubscribe == CancelLast({"subscription"})
CancelWatcher == CancelLast({"watcher"})

\* close: the newest client is given up.  If its task is gone, so that the
\* close frame cannot be sent, the call fails; else the newest cancellation of
\* any client is popped and sent.
CloseSocket ==
  /\ actor = "busy" /\ clients # <<>>
  /\ clients' = Front(clients)
  /\ IF state[Last(clients)] = "ended" \/ \A j \in ToSet(resources) : kind[j] # "socket"
       THEN UNCHANGED <<resources, signal>>
       ELSE \E i \in DOMAIN resources : IsLastOf(i, {"socket"}) /\ Popped(i)
  /\ UNCHANGED <<kind, registered, mailbox, actor, running, state, feed, held, lagged,
                 published, events, stop>>

\* Only the cancellations at these positions are kept, in their order.
OnlyKept(positions) ==
  \E kept \in [1..Cardinality(positions) -> positions] :
    /\ \A m, n \in DOMAIN kept : m < n => kept[m] < kept[n]
    /\ Range(kept) = positions
    /\ resources' = [n \in DOMAIN kept |-> resources[kept[n]]]

\* unsubscribe with no channel: all of them, newest first, up to the first
\* whose job is gone, on which the call fails.
UnsubscribeAll ==
  LET subs == {i \in DOMAIN resources : kind[resources[i]] = "subscription"}
      gone == {i \in subs : ~Listening(resources[i])}
      taken == {i \in subs : \A g \in gone : i >= g}
  IN
    /\ actor = "busy" /\ subs # {}
    /\ OnlyKept(DOMAIN resources \ taken)
    /\ signal' = [j \in Jobs |-> signal[j] \/ \E i \in taken : resources[i] = j]
    /\ UNCHANGED <<kind, registered, mailbox, actor, running, clients, state, feed, held,
                   lagged, published, events, stop>>

\* The handler ends; the sender of a task's run gets the result.
Finish(result) ==
  LET j == running.job IN
    /\ actor = "busy"
    /\ actor' = "idle"
    /\ running' = Idle
    /\ state' = IF j # None /\ state[j] = "asking" THEN [state EXCEPT ![j] = result]
                                                   ELSE state
    /\ UNCHANGED <<kind, registered, mailbox, resources, clients, jobVars, published,
                   events, stop>>

-----------------------------------------------------------------------------
Progress(j) == Fire(j) \/ Ask(j) \/ ReceiveValue(j) \/ Resume(j) \/ HangUp(j)

ActorStep ==
  \/ Handle \/ Terminate \/ EndActor \/ Found
  \/ \E result \in {"answered", "failed"} : Finish(result)

Next ==
  \/ OutsideRun \/ OutsideTerminate \/ Publish \/ Change
  \/ StopFinds \/ StopTells \/ StopReaches \/ StopSends
  \/ \E j \in Jobs : \/ Progress(j) \/ Tick(j) \/ RunOut(j) \/ ReceiveMessage(j)
                     \/ Deliver(j) \/ Cancelled(j)
  \/ ActorStep \/ LookUp
  \/ \E j \in Jobs : \/ SetAlarm(j) \/ SetInterval(j) \/ SetupCronjob(j)
                     \/ Subscribe(j) \/ RunTaskContinuously(j)
                     \/ SetupWatcher(j) \/ Connect(j)
  \/ CancelAlarm \/ CancelTask \/ Unsubscribe \/ UnsubscribeAll
  \/ CancelWatcher \/ CloseSocket

Spec == Init /\ [][Next]_vars

\* Handlers end and are followed by the next command, timers elapse, ready
\* tasks are polled, and waiting sends are served in order.  That an interval
\* ticks is not needed.
Fairness ==
  /\ WF_vars(ActorStep)
  /\ SF_vars(StopTells \/ StopSends)
  /\ \A j \in Jobs : /\ WF_vars(Progress(j))
                     /\ WF_vars(Cancelled(j))
                     /\ SF_vars(Deliver(j))

FairSpec == Spec /\ Fairness

-----------------------------------------------------------------------------
(* Properties.                                                             *)

\* No job escapes its actor: whichever still listens can be cancelled from
\* the actor's resources, or has been.
JobsAreOwned ==
  \A j \in Jobs : Listening(j) => j \in ToSet(resources) \/ signal[j]

\* A continuous task never overlaps itself: at most one of its runs is being
\* sent, queued or handled, even across Terminate and cancel_task.
TaskIsSequential ==
  \A j \in Jobs : kind[j] = "task" =>
    LET queued == {i \in DOMAIN mailbox : mailbox[i].job = j}
        handled == actor \in {"busy", "looking"} /\ running.job = j
    IN /\ \A i, k \in queued : i = k
       /\ handled => queued = {}
       /\ state[j] \in {"waiting", "sending", "answered", "failed", "stuck"} =>
            queued = {} /\ ~handled

\* The values of subscription j on their way to a handler, each with its place:
\* handled, queued, being sent, or in the broadcast ring.
InTransit(j) ==
  LET hands == Len(mailbox) + 1
      handled == IF running.job = j THEN {<<0, running.value>>} ELSE {}
      queued == {<<i, mailbox[i].value>> : i \in {k \in DOMAIN mailbox : mailbox[k].job = j}}
      sent == IF held[j] # 0 THEN {<<hands, held[j]>>} ELSE {}
      ring == {<<hands + i, feed[j][i]>> : i \in DOMAIN feed[j]}
  IN handled \cup queued \cup sent \cup ring

\* An actor handles a channel's values in the order they were published,
\* none twice, and none is missing between two unless the receiver lagged.
InPublishedOrder ==
  \A j \in Jobs : kind[j] = "subscription" =>
    \A a, b \in InTransit(j) : a[1] < b[1] =>
      /\ a[2] < b[2]
      /\ ~lagged[j] => \A v \in a[2]..b[2] : \E c \in InTransit(j) : c[2] = v

\* Worker::stop waits with a lock, the mailbox is full, and the actor waits for
\* the lock: to remove itself, or in a handler.  All of them wait for ever
\* (worker.rs:727 and 757).
Stalled ==
  /\ stop \in {"stopper", "locked"} /\ ~HasRoom
  /\ actor = "looking" \/ (actor = "idle" /\ Head(mailbox).op = "terminate")

\* Worker::stop gets the stopper and its Terminate into the mailbox of an actor,
\* whatever jobs wait for the same room or for the lock it holds, unless they all
\* stall.
StopCompletes == stop \in {"stopper", "locked"} ~> stop \in {"told", "done"} \/ Stalled

\* close takes the newest client, and the newest cancellation of any client
\* (websocket_client.rs:527): it may be that of another one, but never of one
\* that the actor still holds, also after closes that have failed.
CloseSparesOthers == \A j \in ToSet(clients) : ~signal[j]

Abandoned(j) == kind[j] = "socket" /\ state[j] # "unset" /\ j \notin ToSet(clients)

\* A cancelled job ends, however full the mailbox it may be sending to, and so
\* does a socket whose client is given up.  After Terminate the actor's task
\* ends and so does every job of it, also one that a handler run after Terminate
\* has started.
JobsEnd ==
  /\ \A j \in Jobs : signal[j] \/ Abandoned(j) ~> state[j] = "ended" \/ Stalled
  /\ ~registered ~> actor = "ended" /\ \A j \in Jobs : state[j] \in {"unset", "ended"}
=============================================================================
