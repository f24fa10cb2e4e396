---------------------------- MODULE ActorRuntime ----------------------------
(***************************************************************************)
(* The actors of turbofuro_runtime (src/turbofuro_runtime/src/actor.rs) and *)
(* the native functions with which a handler talks to other actors         *)
(* (modules/actors.rs).                                                    *)
(*                                                                         *)
(* An actor is one tokio task that owns a bounded mailbox and handles one   *)
(* command at a time, to its end.  The registry maps an actor's id to a     *)
(* link, that is, to a clone of the mailbox's sender; the task ends when no *)
(* link is left and the mailbox is empty.  A Run command may carry the      *)
(* sending half of a oneshot channel, on which the actor reports the result *)
(* of the run.                                                             *)
(*                                                                         *)
(* A root actor is one the worker creates for an event from outside (an     *)
(* HTTP request): it is registered, sent its first Run, and watched by      *)
(* spawn_ok_or_terminate.  The other actors are spawned by handlers.        *)
(***************************************************************************)
EXTENDS Naturals, Sequences

CONSTANTS
  Actors,       \* the ids the program may give to its actors
  Roots,        \* the actors the worker creates
  None,         \* stands for an absent id
  Handles,      \* Handles[a]: the handlers a's module defines
  Peers,        \* <<a, b>>: the program lets a address b
  Capacity,     \* mpsc::channel::<ActorCommand>(16)
  MaxRequests,  \* bound: requests an actor makes in its life
  MaxSteps      \* bound: MaxSteps[a] native calls a makes in its life

HandlerNames == {"onHttpRequest", "onMessage", "onRequest"}

ASSUME ActorsAssumption ==
  /\ Roots \subseteq Actors
  /\ None \notin Actors
  /\ Handles \in [Actors -> SUBSET HandlerNames]
  /\ Peers \subseteq Actors \X Actors
ASSUME BoundsAssumption ==
  /\ Capacity \in Nat \ {0}
  /\ MaxRequests \in Nat
  /\ MaxSteps \in [Actors -> Nat]

\* A oneshot reply channel, named by its receiver: <<a, 0>> is watched on
\* behalf of root a, <<a, n>> is awaited by the n-th request a makes.
ReplyIds == Actors \X (0..MaxRequests)
NoReply == <<None, 0>>

Command == [op : HandlerNames, reply : ReplyIds \cup {NoReply}]
             \cup [op : {"Terminate"}, reply : {NoReply}]

VARIABLES
  registry,  \* the ids with an entry in global.registry.actors
  mailbox,   \* mailbox[a]: the commands queued for a
  pc,        \* pc[a]: where the task of a is
  job,       \* job[a]: the reply channel of the Run a is handling
  out,       \* out[a]: the link and the command of a's pending send or request
  chan,      \* chan[r]: the state of oneshot channel r
  watcher,   \* watcher[r]: the outside task that drives root r
  asked,     \* asked[a]: requests made so far
  steps      \* steps[a]: native calls made so far

vars == <<registry, mailbox, pc, job, out, chan, watcher, asked, steps>>

NoOut == [to |-> None, cmd |-> [op |-> "Terminate", reply |-> NoReply]]
PcStates == {"unborn", "idle", "running", "sending", "waiting", "ended"}
WatcherStates == {"none", "sending", "watching", "terminating", "done"}
ChanStates == {"unused", "open", "ok", "err", "closed"}

TypeOK ==
  /\ registry \subseteq Actors
  /\ mailbox \in [Actors -> Seq(Command)]
  /\ pc \in [Actors -> PcStates]
  /\ job \in [Actors -> ReplyIds \cup {NoReply}]
  /\ out \in [Actors -> [to : Actors \cup {None}, cmd : Command]]
  /\ chan \in [ReplyIds -> ChanStates]
  /\ watcher \in [Roots -> WatcherStates]
  /\ asked \in [Actors -> 0..MaxRequests]
  /\ steps \in [Actors -> Nat]
  /\ \A a \in Actors : Len(mailbox[a]) <= Capacity

Init ==
  /\ registry = {}
  /\ mailbox = [a \in Actors |-> <<>>]
  /\ pc = [a \in Actors |-> "unborn"]
  /\ job = [a \in Actors |-> NoReply]
  /\ out = [a \in Actors |-> NoOut]
  /\ chan = [r \in ReplyIds |-> "unused"]
  /\ watcher = [r \in Roots |-> "none"]
  /\ asked = [a \in Actors |-> 0]
  /\ steps = [a \in Actors |-> 0]

-----------------------------------------------------------------------------
(* Links, mailboxes and reply channels.                                    *)

Alive(a) == pc[a] \notin {"unborn", "ended"}

\* Mutation of HasLink: a watcher never lets go of its link.
HasLinkKept(a) ==
  \/ a \in registry
  \/ \E b \in Actors : pc[b] \in {"sending", "waiting"} /\ out[b].to = a
  \/ a \in Roots /\ watcher[a] # "none"

\* Some sender of a's mailbox exists: the registry's, the one a pending send
\* or request cloned, or the watcher's.
HasLink(a) ==
  \/ a \in registry
  \/ \E b \in Actors : pc[b] \in {"sending", "waiting"} /\ out[b].to = a
  \/ a \in Roots /\ watcher[a] \in {"sending", "watching", "terminating"}

\* Mutation of HasRoom: off by one.
HasRoomLate(a) == Len(mailbox[a]) <= Capacity

HasRoom(a) == Len(mailbox[a]) < Capacity

Push(a, c) == mailbox' = [mailbox EXCEPT ![a] = Append(@, c)]

\* sender.send(result): reaches the receiver unless it was dropped.
Settled(r, result) ==
  IF r # NoReply /\ chan[r] = "open" THEN [chan EXCEPT ![r] = result] ELSE chan

-----------------------------------------------------------------------------
(* The worker's side: an actor made for a request from outside.            *)

Birth(a) ==
  /\ pc[a] = "unborn"
  /\ pc' = [pc EXCEPT ![a] = "idle"]
  /\ registry' = registry \cup {a}

CreateRoot(r) ==
  /\ Birth(r)
  /\ chan' = [chan EXCEPT ![<<r, 0>>] = "open"]
  /\ watcher' = [watcher EXCEPT ![r] = "sending"]
  /\ UNCHANGED <<mailbox, job, out, asked, steps>>

SendFirstRun(r) ==
  /\ watcher[r] = "sending"
  /\ HasRoom(r)
  /\ Push(r, [op |-> "onHttpRequest", reply |-> <<r, 0>>])
  /\ watcher' = [watcher EXCEPT ![r] = "watching"]
  /\ UNCHANGED <<registry, pc, job, out, chan, asked, steps>>

\* spawn_ok_or_terminate: nothing to do after Ok, Terminate after Err.
WatchResponse(r) ==
  /\ watcher[r] = "watching"
  /\ chan[<<r, 0>>] \in {"ok", "err"}
  /\ watcher' = [watcher EXCEPT ![r] =
                   IF chan[<<r, 0>>] = "ok" THEN "done" ELSE "terminating"]
  /\ UNCHANGED <<registry, mailbox, pc, job, out, chan, asked, steps>>

SendTerminate(r) ==
  /\ watcher[r] = "terminating"
  /\ HasRoom(r)
  /\ Push(r, [op |-> "Terminate", reply |-> NoReply])
  /\ watcher' = [watcher EXCEPT ![r] = "done"]
  /\ UNCHANGED <<registry, pc, job, out, chan, asked, steps>>

-----------------------------------------------------------------------------
(* The actor's loop.                                                       *)

\* Mutation of Receive: the command stays in the mailbox.
ReceivePeek(a) ==
  /\ pc[a] = "idle"
  /\ mailbox[a] # <<>>
  /\ UNCHANGED mailbox

Receive(a) ==
  /\ pc[a] = "idle"
  /\ mailbox[a] # <<>>
  /\ mailbox' = [mailbox EXCEPT ![a] = Tail(@)]

RunHandler(a) ==
  /\ Receive(a)
  /\ Head(mailbox[a]).op \in Handles[a]
  /\ pc' = [pc EXCEPT ![a] = "running"]
  /\ job' = [job EXCEPT ![a] = Head(mailbox[a]).reply]
  /\ UNCHANGED <<registry, out, chan, watcher, asked, steps>>

\* Mutation of RunMissingHandler: the error is logged and not reported.
RunMissingSilent(a) ==
  /\ Receive(a)
  /\ Head(mailbox[a]).op \in HandlerNames \ Handles[a]
  /\ UNCHANGED <<registry, pc, job, out, chan, watcher, asked, steps>>

\* execute_handler returns HandlerNotFound; the loop reports it and goes on.
RunMissingHandler(a) ==
  /\ Receive(a)
  /\ Head(mailbox[a]).op \in HandlerNames \ Handles[a]
  /\ chan' = Settled(Head(mailbox[a]).reply, "err")
  /\ UNCHANGED <<registry, pc, job, out, watcher, asked, steps>>

\* Mutations of Terminate: the mailbox is dropped; the loop stops at once.
TerminateDrops(a) ==
  /\ pc[a] = "idle"
  /\ mailbox[a] # <<>>
  /\ Head(mailbox[a]).op = "Terminate"
  /\ mailbox' = [mailbox EXCEPT ![a] = <<>>]
  /\ registry' = registry \ {a}
  /\ UNCHANGED <<pc, job, out, chan, watcher, asked, steps>>
TerminateStops(a) ==
  /\ Receive(a)
  /\ Head(mailbox[a]).op = "Terminate"
  /\ registry' = registry \ {a}
  /\ pc' = [pc EXCEPT ![a] = "ended"]
  /\ UNCHANGED <<job, out, chan, watcher, asked, steps>>

\* terminate() clears the resources and the registry entry.  The loop does
\* not stop: what is queued behind the command is still handled.
Terminate(a) ==
  /\ Receive(a)
  /\ Head(mailbox[a]).op = "Terminate"
  /\ registry' = registry \ {a}
  /\ UNCHANGED <<pc, job, out, chan, watcher, asked, steps>>

\* Mutation of EndTask: the task ends as soon as it is out of the registry.
EndTaskEarly(a) ==
  /\ pc[a] = "idle"
  /\ mailbox[a] = <<>>
  /\ a \notin registry
  /\ pc' = [pc EXCEPT ![a] = "ended"]
  /\ UNCHANGED <<registry, mailbox, job, out, chan, watcher, asked, steps>>

\* receiver.recv() returns None: the mailbox is empty and has no sender.
EndTask(a) ==
  /\ pc[a] = "idle"
  /\ mailbox[a] = <<>>
  /\ ~HasLink(a)
  /\ pc' = [pc EXCEPT ![a] = "ended"]
  /\ UNCHANGED <<registry, mailbox, job, out, chan, watcher, asked, steps>>

-----------------------------------------------------------------------------
(* What a running handler does.  A native call on an id with no registry    *)
(* entry returns ActorLink::missing, which the handler catches or fails     *)
(* with: both are covered by going on or by Finish.                         *)

Call(a) ==
  /\ pc[a] = "running"
  /\ steps[a] < MaxSteps[a]
  /\ steps' = [steps EXCEPT ![a] = @ + 1]

SpawnActor(a, b) ==
  /\ Call(a)
  /\ b \notin Roots
  /\ Birth(b)
  /\ UNCHANGED <<mailbox, job, out, chan, watcher, asked>>

\* The link is cloned from the registry, then the command is sent through it.
Address(a, b, c) ==
  /\ Call(a)
  /\ <<a, b>> \in Peers
  /\ b \in registry
  /\ out' = [out EXCEPT ![a] = [to |-> b, cmd |-> c]]
  /\ pc' = [pc EXCEPT ![a] = "sending"]

Send(a, b) ==
  /\ Address(a, b, [op |-> "onMessage", reply |-> NoReply])
  /\ UNCHANGED <<registry, mailbox, job, chan, watcher, asked>>

SendTerminateTo(a, b) ==
  /\ Address(a, b, [op |-> "Terminate", reply |-> NoReply])
  /\ UNCHANGED <<registry, mailbox, job, chan, watcher, asked>>

Request(a, b) ==
  /\ asked[a] < MaxRequests
  /\ Address(a, b, [op |-> "onRequest", reply |-> <<a, asked[a] + 1>>])
  /\ asked' = [asked EXCEPT ![a] = @ + 1]
  /\ chan' = [chan EXCEPT ![<<a, asked[a] + 1>>] = "open"]
  /\ UNCHANGED <<registry, mailbox, job, watcher>>

\* sender.send(command).await: completes once the mailbox has room.
Deliver(a) ==
  /\ pc[a] = "sending"
  /\ HasRoom(out[a].to)
  /\ Push(out[a].to, out[a].cmd)
  /\ pc' = [pc EXCEPT ![a] = IF out[a].cmd.reply = NoReply THEN "running"
                                                           ELSE "waiting"]
  /\ UNCHANGED <<registry, job, out, chan, watcher, asked, steps>>

TakeAnswer(a) ==
  /\ pc[a] = "waiting"
  /\ chan[out[a].cmd.reply] \in {"ok", "err"}
  /\ pc' = [pc EXCEPT ![a] = "running"]
  /\ UNCHANGED <<registry, mailbox, job, out, chan, watcher, asked, steps>>

\* timeout(..., receiver) elapses: the receiver is dropped.
TimeOut(a) ==
  /\ pc[a] = "waiting"
  /\ chan[out[a].cmd.reply] = "open"
  /\ chan' = [chan EXCEPT ![out[a].cmd.reply] = "closed"]
  /\ pc' = [pc EXCEPT ![a] = "running"]
  /\ UNCHANGED <<registry, mailbox, job, out, watcher, asked, steps>>

\* Mutation of Finish: the sender of the Run is dropped from the report.
FinishSilent(a, result) ==
  /\ pc[a] = "running"
  /\ job' = [job EXCEPT ![a] = NoReply]
  /\ pc' = [pc EXCEPT ![a] = "idle"]
  /\ UNCHANGED <<registry, mailbox, out, chan, watcher, asked, steps>>

\* The body ends; the loop sends the result on the channel of the Run.
Finish(a, result) ==
  /\ pc[a] = "running"
  /\ chan' = Settled(job[a], result)
  /\ job' = [job EXCEPT ![a] = NoReply]
  /\ pc' = [pc EXCEPT ![a] = "idle"]
  /\ UNCHANGED <<registry, mailbox, out, watcher, asked, steps>>

-----------------------------------------------------------------------------
RootStep(r) ==
  CreateRoot(r) \/ SendFirstRun(r) \/ WatchResponse(r) \/ SendTerminate(r)

LoopStep(a) ==
  RunHandler(a) \/ RunMissingHandler(a) \/ Terminate(a) \/ EndTask(a)

HandlerStep(a) ==
  \/ \E b \in Actors : \/ SpawnActor(a, b)
                       \/ Send(a, b)
                       \/ SendTerminateTo(a, b)
                       \/ Request(a, b)
  \/ Deliver(a)
  \/ TakeAnswer(a)
  \/ TimeOut(a)
  \/ \E result \in {"ok", "err"} : Finish(a, result)

Next ==
  \/ \E r \in Roots : RootStep(r)
  \/ \E a \in Actors : LoopStep(a) \/ HandlerStep(a)

Spec == Init /\ [][Next]_vars

\* tokio runs every ready task, a handler body ends (Finish), timers elapse,
\* and the mailbox semaphore is first come first served, so that a send whose
\* mailbox has room again and again completes (strong fairness).
Fairness ==
  /\ \A r \in Roots : /\ WF_vars(WatchResponse(r))
                      /\ SF_vars(SendFirstRun(r))
                      /\ SF_vars(SendTerminate(r))
  /\ \A a \in Actors : /\ WF_vars(LoopStep(a))
                       /\ SF_vars(Deliver(a))
                       /\ WF_vars(TakeAnswer(a) \/ TimeOut(a))
                       /\ WF_vars(\E result \in {"ok", "err"} : Finish(a, result))

FairSpec == Spec /\ Fairness

-----------------------------------------------------------------------------
(* Properties.                                                             *)

\* A link never outlives its actor: whatever the registry, a pending send or
\* request, or a watcher holds leads to a task that still receives, so the
\* send errors of modules/actors.rs are unreachable.
LinksAlive == \A a \in Actors : HasLink(a) => Alive(a)

\* The sending half of r is in exactly the places listed here.
InMailbox(r) == {a \in Actors : /\ Alive(a)
                                /\ \E i \in 1..Len(mailbox[a]) : mailbox[a][i].reply = r}
InJob(r) == {a \in Actors : job[a] = r}
InSend(r) == {a \in Actors : pc[a] = "sending" /\ out[a].cmd.reply = r}
InWatcher(r) == {a \in Roots : watcher[a] = "sending" /\ r = <<a, 0>>}

\* No request is lost: while the receiver of a reply waits, the sending half
\* is in a mailbox that is still served, with a run in progress, or with the
\* task about to send it; "Actor did not respond" cannot be reported.
NoLostReply ==
  \A r \in ReplyIds : chan[r] = "open" =>
    InMailbox(r) \cup InJob(r) \cup InSend(r) \cup InWatcher(r) # {}

\* A waiting actor's question is with the very actor it addressed, queued or
\* being handled, and that actor is alive to answer it.
AskedActorAnswers ==
  \A a \in Actors : pc[a] = "waiting" /\ chan[out[a].cmd.reply] = "open" =>
    LET asking == out[a].to IN
      /\ Alive(asking)
      /\ \/ job[asking] = out[a].cmd.reply /\ pc[asking] \in {"running", "sending", "waiting"}
         \/ \E i \in 1..Len(mailbox[asking]) : mailbox[asking][i].reply = out[a].cmd.reply

\* Every send of a handler completes ("This is fire and forget",
\* modules/actors.rs).
SendCompletes == \A a \in Actors : pc[a] = "sending" ~> pc[a] # "sending"

\* A terminated actor's task ends, and with it everything it owns is dropped.
Reclaimed ==
  \A a \in Actors : Alive(a) /\ a \notin registry ~> pc[a] = "ended"

-----------------------------------------------------------------------------
(* The promise of RequestReply, kept: a request is queued while its sending  *)
(* half is in a mailbox or on its way there, and running while some actor's *)
(* job is to answer it.                                                    *)

RunOf(r) ==
  IF InJob(r) # {} THEN "running"
  ELSE IF InMailbox(r) \cup InSend(r) \cup InWatcher(r) # {} THEN "queued"
  ELSE IF chan[r] = "unused" THEN "none" ELSE "done"

CallerOf(r) ==
  CASE chan[r] = "unused" -> "none"
    [] chan[r] = "open" -> "waiting"
    [] chan[r] = "closed" -> "gaveup"
    [] OTHER -> chan[r]

Promise == INSTANCE RequestReply
             WITH Requests <- ReplyIds,
                  run <- [r \in ReplyIds |-> RunOf(r)],
                  caller <- [r \in ReplyIds |-> CallerOf(r)]

\* The runtime implements RequestReply: every Run with a reply channel is run
\* at most once and its caller learns that run's result or gave up.
KeepsPromise == Promise!Spec

\* Every Run that was asked for is taken up and ends, whether or not its
\* caller still waits, and a caller gets its result or times out.
ServesAll == Promise!Served
=============================================================================
