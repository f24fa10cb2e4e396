-------------------------- MODULE ActorRuntimeProofs --------------------------
(***************************************************************************)
(* Theorems about ActorRuntime, for every set of actors, topology, mailbox  *)
(* capacity and bound: its invariants, and that it implements RequestReply.  *)
(*                                                                         *)
(* The second part follows the sending half of each oneshot channel from     *)
(* place to place: it is in at most one, and whoever awaits an answer has    *)
(* sent it to the actor it addressed and nowhere else.                      *)
(***************************************************************************)
EXTENDS ActorRuntime, TLAPS

-----------------------------------------------------------------------------
(* Mailboxes.                                                              *)

\* Pushing a command on a mailbox with room keeps mailboxes well formed, and
\* keeps what was queued where it was (mpsc::Sender::send).
LEMMA PushType ==
  ASSUME TypeOK, NEW a \in Actors, NEW c \in Command, HasRoom(a), Push(a, c)
  PROVE  /\ mailbox' \in [Actors -> Seq(Command)]
         /\ \A b \in Actors : Len(mailbox'[b]) <= Capacity
         /\ \A b \in Actors \ {a} : mailbox'[b] = mailbox[b]
         /\ Len(mailbox'[a]) = Len(mailbox[a]) + 1
         /\ \A i \in 1..Len(mailbox[a]) : mailbox'[a][i] = mailbox[a][i]
         /\ mailbox'[a][Len(mailbox[a]) + 1] = c
  <1>1. mailbox[a] \in Seq(Command) /\ Len(mailbox[a]) \in Nat
    BY DEF TypeOK
  <1>2. mailbox' = [mailbox EXCEPT ![a] = Append(mailbox[a], c)]
    BY DEF Push
  <1>3. mailbox'[a] = Append(mailbox[a], c)
    BY <1>2 DEF TypeOK
  <1>4. Append(mailbox[a], c) \in Seq(Command)
    BY <1>1
  <1>5. Len(mailbox'[a]) = Len(mailbox[a]) + 1
    BY <1>1, <1>3
  <1>6. Len(mailbox[a]) + 1 <= Capacity
    BY <1>1, BoundsAssumption DEF HasRoom
  <1>7. \A b \in Actors \ {a} : mailbox'[b] = mailbox[b]
    BY <1>2 DEF TypeOK
  <1>8. \A b \in Actors : Len(mailbox'[b]) <= Capacity
    BY <1>5, <1>6, <1>7 DEF TypeOK
  <1>9. mailbox' \in [Actors -> Seq(Command)]
    BY <1>2, <1>4 DEF TypeOK
  <1>10. /\ \A i \in 1..Len(mailbox[a]) : mailbox'[a][i] = mailbox[a][i]
         /\ mailbox'[a][Len(mailbox[a]) + 1] = c
    BY <1>1, <1>3
  <1> QED BY <1>5, <1>7, <1>8, <1>9, <1>10

\* Receiving takes the head off one mailbox: the head is a command, and what
\* was queued behind it moves up by one place (mpsc::Receiver::recv).
LEMMA ReceiveType ==
  ASSUME TypeOK, NEW a \in Actors, Receive(a)
  PROVE  /\ mailbox' \in [Actors -> Seq(Command)]
         /\ \A b \in Actors : Len(mailbox'[b]) <= Capacity
         /\ \A b \in Actors \ {a} : mailbox'[b] = mailbox[b]
         /\ Head(mailbox[a]) \in Command
         /\ Head(mailbox[a]) = mailbox[a][1]
         /\ Len(mailbox'[a]) = Len(mailbox[a]) - 1
         /\ \A i \in 2..Len(mailbox[a]) : mailbox'[a][i - 1] = mailbox[a][i]
  <1>1. mailbox[a] \in Seq(Command) /\ mailbox[a] # <<>> /\ Len(mailbox[a]) \in Nat
    BY DEF TypeOK, Receive
  <1>2. mailbox' = [mailbox EXCEPT ![a] = Tail(mailbox[a])]
    BY DEF Receive
  <1>3. mailbox'[a] = Tail(mailbox[a])
    BY <1>2 DEF TypeOK
  <1>4. Tail(mailbox[a]) \in Seq(Command) /\ Head(mailbox[a]) \in Command
    BY <1>1
  <1>5. Len(mailbox'[a]) = Len(mailbox[a]) - 1 /\ Head(mailbox[a]) = mailbox[a][1]
    BY <1>1, <1>3
  <1>6. \A i \in 2..Len(mailbox[a]) : mailbox'[a][i - 1] = mailbox[a][i]
    BY <1>1, <1>3
  <1>7. \A b \in Actors \ {a} : mailbox'[b] = mailbox[b]
    BY <1>2 DEF TypeOK
  <1>8. Len(mailbox[a]) <= Capacity
    BY DEF TypeOK
  <1>9. \A b \in Actors : Len(mailbox'[b]) <= Capacity
    BY <1>1, <1>5, <1>7, <1>8, BoundsAssumption DEF TypeOK
  <1>10. mailbox' \in [Actors -> Seq(Command)]
    BY <1>2, <1>4 DEF TypeOK
  <1> QED BY <1>4, <1>5, <1>6, <1>7, <1>9, <1>10

\* Addressing an actor leaves a well-typed pending send.
LEMMA AddressType ==
  ASSUME TypeOK, NEW a \in Actors, NEW b \in Actors, NEW c \in Command, Address(a, b, c)
  PROVE  /\ out' \in [Actors -> [to : Actors \cup {None}, cmd : Command]]
         /\ pc' \in [Actors -> PcStates]
         /\ steps' \in [Actors -> Nat]
  <1>1. [to |-> b, cmd |-> c] \in [to : Actors \cup {None}, cmd : Command]
    OBVIOUS
  <1>2. out' = [out EXCEPT ![a] = [to |-> b, cmd |-> c]]
    BY DEF Address
  <1>3. out' \in [Actors -> [to : Actors \cup {None}, cmd : Command]]
    BY <1>1, <1>2 DEF TypeOK
  <1>4. pc' \in [Actors -> PcStates] /\ steps' \in [Actors -> Nat]
    BY DEF Address, Call, TypeOK, PcStates
  <1> QED BY <1>3, <1>4

\* The names of the reply channels, and that no channel has the absent name.
LEMMA ReplyNames ==
  /\ \A a \in Actors : <<a, 0>> \in ReplyIds
  /\ \A a \in Actors : \A n \in 1..MaxRequests : <<a, n>> \in ReplyIds
  /\ NoReply \notin ReplyIds
  BY ActorsAssumption, BoundsAssumption DEF ReplyIds, NoReply

\* Reporting a result touches the one channel reported on, and only if its
\* receiver still waits (oneshot::Sender::send).
LEMMA SettledEffect ==
  ASSUME TypeOK, NEW r \in ReplyIds \cup {NoReply}, NEW result \in {"ok", "err"}
  PROVE  /\ Settled(r, result) \in [ReplyIds -> ChanStates]
         /\ \A x \in ReplyIds : chan[x] # "open" => Settled(r, result)[x] = chan[x]
         /\ \A x \in ReplyIds : x # r => Settled(r, result)[x] = chan[x]
         /\ r \in ReplyIds => Settled(r, result)[r] # "open"
         /\ \A x \in ReplyIds : Settled(r, result)[x] # chan[x] =>
              chan[x] = "open" /\ Settled(r, result)[x] = result
  BY ReplyNames DEF Settled, TypeOK, ChanStates

\* The commands the runtime builds.
LEMMA CommandTypes ==
  /\ [op |-> "Terminate", reply |-> NoReply] \in Command
  /\ [op |-> "onMessage", reply |-> NoReply] \in Command
  /\ \A r \in ReplyIds : [op |-> "onRequest", reply |-> r] \in Command
  /\ \A r \in ReplyIds : [op |-> "onHttpRequest", reply |-> r] \in Command
  /\ \A c \in Command : c.reply \in ReplyIds \cup {NoReply}
  /\ \A c \in Command : c.op = "Terminate" => c.reply = NoReply
  BY DEF Command, HandlerNames

-----------------------------------------------------------------------------
(* Type correctness.                                                       *)

\* Every state of the runtime is well typed, and no mailbox ever exceeds its
\* capacity.
THEOREM TypeCorrect == Spec => []TypeOK
  <1>1. Init => TypeOK
    <2>1. NoOut \in [to : Actors \cup {None}, cmd : Command]
      BY CommandTypes DEF NoOut
    <2> QED BY <2>1, BoundsAssumption
            DEF Init, TypeOK, PcStates, WatcherStates, ChanStates
  <1>2. TypeOK /\ [Next]_vars => TypeOK'
    <2> SUFFICES ASSUME TypeOK, [Next]_vars PROVE TypeOK'
      OBVIOUS
    <2> USE ActorsAssumption, BoundsAssumption
    <2>1. ASSUME NEW r \in Roots, RootStep(r) PROVE TypeOK'
      <3> r \in Actors /\ <<r, 0>> \in ReplyIds
        BY DEF ReplyIds
      <3>1. CASE CreateRoot(r)
        BY <3>1 DEF CreateRoot, Birth, TypeOK, PcStates, WatcherStates, ChanStates
      <3>2. CASE SendFirstRun(r)
        <4>1. [op |-> "onHttpRequest", reply |-> <<r, 0>>] \in Command
          BY CommandTypes
        <4> QED BY <3>2, <4>1, PushType DEF SendFirstRun, TypeOK, WatcherStates
      <3>3. CASE WatchResponse(r)
        BY <3>3 DEF WatchResponse, TypeOK, WatcherStates
      <3>4. CASE SendTerminate(r)
        <4> QED BY <3>4, CommandTypes, PushType DEF SendTerminate, TypeOK, WatcherStates
      <3> QED BY <2>1, <3>1, <3>2, <3>3, <3>4 DEF RootStep
    <2>2. ASSUME NEW a \in Actors, LoopStep(a) PROVE TypeOK'
      <3>1. CASE RunHandler(a)
        BY <3>1, ReceiveType, CommandTypes DEF RunHandler, TypeOK, PcStates
      <3>2. CASE RunMissingHandler(a)
        BY <3>2, ReceiveType DEF RunMissingHandler, TypeOK, ChanStates, Settled
      <3>3. CASE Terminate(a)
        BY <3>3, ReceiveType DEF Terminate, TypeOK
      <3>4. CASE EndTask(a)
        BY <3>4 DEF EndTask, TypeOK, PcStates
      <3> QED BY <2>2, <3>1, <3>2, <3>3, <3>4 DEF LoopStep
    <2>3. ASSUME NEW a \in Actors, HandlerStep(a) PROVE TypeOK'
      <3>1. ASSUME NEW b \in Actors, SpawnActor(a, b) PROVE TypeOK'
        BY <3>1 DEF SpawnActor, Call, Birth, TypeOK, PcStates
      <3>2. ASSUME NEW b \in Actors, Send(a, b) PROVE TypeOK'
        BY <3>2, AddressType, CommandTypes DEF Send, TypeOK
      <3>3. ASSUME NEW b \in Actors, SendTerminateTo(a, b) PROVE TypeOK'
        BY <3>3, AddressType, CommandTypes DEF SendTerminateTo, TypeOK
      <3>4. ASSUME NEW b \in Actors, Request(a, b) PROVE TypeOK'
        <4>1. asked[a] + 1 \in 0..MaxRequests
          BY <3>4 DEF Request, TypeOK
        <4>2. <<a, asked[a] + 1>> \in ReplyIds
          BY <4>1 DEF ReplyIds
        <4>3. [op |-> "onRequest", reply |-> <<a, asked[a] + 1>>] \in Command
          BY <4>2, CommandTypes
        <4>4. /\ out' \in [Actors -> [to : Actors \cup {None}, cmd : Command]]
              /\ pc' \in [Actors -> PcStates]
              /\ steps' \in [Actors -> Nat]
          BY <3>4, <4>3, AddressType DEF Request
        <4>5. asked' \in [Actors -> 0..MaxRequests] /\ chan' \in [ReplyIds -> ChanStates]
          BY <3>4, <4>1 DEF Request, TypeOK, ChanStates
        <4> QED BY <3>4, <4>4, <4>5 DEF Request, TypeOK
      <3>5. CASE Deliver(a)
        <4>1. out[a].cmd \in Command /\ (out[a].to \in Actors \/ out[a].to = None)
          BY DEF TypeOK
        <4>2. out[a].to \in Actors => TypeOK'
          BY <3>5, <4>1, PushType DEF Deliver, TypeOK, PcStates
        <4>3. out[a].to = None => TypeOK'
          BY <3>5 DEF Deliver, Push, TypeOK, PcStates
        <4> QED BY <4>1, <4>2, <4>3
      <3>6. CASE TakeAnswer(a)
        BY <3>6 DEF TakeAnswer, TypeOK, PcStates
      <3>7. CASE TimeOut(a)
        BY <3>7 DEF TimeOut, TypeOK, PcStates, ChanStates
      <3>8. ASSUME NEW result \in {"ok", "err"}, Finish(a, result) PROVE TypeOK'
        BY <3>8 DEF Finish, TypeOK, PcStates, ChanStates, Settled
      <3> QED BY <2>3, <3>1, <3>2, <3>3, <3>4, <3>5, <3>6, <3>7, <3>8 DEF HandlerStep
    <2>4. CASE UNCHANGED vars
      BY <2>4 DEF vars, TypeOK
    <2> QED BY <2>1, <2>2, <2>3, <2>4 DEF Next
  <1> QED BY <1>1, <1>2, PTL DEF Spec

-----------------------------------------------------------------------------
(* Links.  LinksAlive alone is not inductive: a task that a send in progress *)
(* addresses must be known to be an actor, and a task not yet born must have *)
(* neither a watcher nor an open reply channel.                            *)

\* While a handler sends or waits, it addresses an actor, and what it waits
\* for is a reply channel.
Addressed ==
  \A a \in Actors :
    /\ pc[a] \in {"sending", "waiting"} => out[a].to \in Actors
    /\ pc[a] = "waiting" => out[a].cmd.reply \in ReplyIds

\* What an actor that does not exist yet has not done, and the reply channels
\* no request has used yet.
Fresh ==
  /\ \A r \in Roots : pc[r] = "unborn" => watcher[r] = "none"
  /\ \A r \in Roots : watcher[r] = "none" => chan[<<r, 0>>] = "unused"
  /\ \A a \in Actors : \A n \in 1..MaxRequests :
       asked[a] < n => chan[<<a, n>>] = "unused"

\* Only a living actor has commands in its mailbox.
MailboxServed == \A a \in Actors : mailbox[a] # <<>> => Alive(a)

LinkInv == LinksAlive /\ Addressed /\ Fresh /\ MailboxServed

\* Before the first event no link exists and no actor is born.
LEMMA LinkInit == Init => LinkInv
  BY ActorsAssumption, ReplyNames
  DEF Init, LinkInv, LinksAlive, HasLink, Alive, Addressed, Fresh, MailboxServed, ReplyIds

\* The worker's steps (worker.rs handle_request, spawn_ok_or_terminate) hand
\* out links to living actors only and queue nothing for a dead one.
LEMMA LinkRootStep ==
  ASSUME TypeOK, LinkInv, NEW r \in Roots, RootStep(r)
  PROVE  LinkInv'
  <1> r \in Actors /\ <<r, 0>> \in ReplyIds
    BY ActorsAssumption, BoundsAssumption DEF ReplyIds
  <1>1. CASE CreateRoot(r)
    <2>1. LinksAlive' /\ Addressed' /\ MailboxServed'
      BY <1>1 DEF CreateRoot, Birth, LinkInv, LinksAlive, HasLink, Alive, Addressed,
                  MailboxServed, TypeOK
    <2>2. Fresh'
      BY <1>1, ActorsAssumption DEF CreateRoot, Birth, LinkInv, Fresh, TypeOK, ReplyIds
    <2> QED BY <2>1, <2>2 DEF LinkInv
  <1>2. CASE SendFirstRun(r)
    <2>1. Alive(r)
      BY <1>2 DEF SendFirstRun, LinkInv, LinksAlive, HasLink
    <2>2. \A b \in Actors \ {r} : mailbox'[b] = mailbox[b]
      BY <1>2, PushType, CommandTypes DEF SendFirstRun
    <2>3. LinksAlive' /\ Addressed' /\ MailboxServed'
      BY <1>2, <2>1, <2>2 DEF SendFirstRun, LinkInv, LinksAlive, HasLink, Alive, Addressed,
                              MailboxServed, TypeOK
    <2>4. Fresh'
      BY <1>2 DEF SendFirstRun, LinkInv, Fresh, TypeOK
    <2> QED BY <2>3, <2>4 DEF LinkInv
  <1>3. CASE WatchResponse(r)
    BY <1>3 DEF WatchResponse, LinkInv, LinksAlive, HasLink, Alive, Addressed, Fresh,
                MailboxServed, TypeOK
  <1>4. CASE SendTerminate(r)
    <2>1. Alive(r)
      BY <1>4 DEF SendTerminate, LinkInv, LinksAlive, HasLink
    <2>2. \A b \in Actors \ {r} : mailbox'[b] = mailbox[b]
      BY <1>4, PushType, CommandTypes DEF SendTerminate
    <2>3. LinksAlive' /\ Addressed' /\ MailboxServed'
      BY <1>4, <2>1, <2>2 DEF SendTerminate, LinkInv, LinksAlive, HasLink, Alive, Addressed,
                              MailboxServed, TypeOK
    <2>4. Fresh'
      BY <1>4 DEF SendTerminate, LinkInv, Fresh, TypeOK
    <2> QED BY <2>3, <2>4 DEF LinkInv
  <1> QED BY <1>1, <1>2, <1>3, <1>4 DEF RootStep

\* The steps of an actor's loop (activate_actor) end no task that a link leads
\* to and leave no command in the mailbox of one that ended.
LEMMA LinkLoopStep ==
  ASSUME TypeOK, LinkInv, NEW a \in Actors, LoopStep(a)
  PROVE  LinkInv'
  <1>1. CASE RunHandler(a)
    <2>1. \A b \in Actors \ {a} : mailbox'[b] = mailbox[b]
      BY <1>1, ReceiveType DEF RunHandler
    <2> QED BY <1>1, <2>1 DEF RunHandler, Receive, LinkInv, LinksAlive, HasLink, Alive,
                              Addressed, Fresh, MailboxServed, TypeOK
  <1>2. CASE RunMissingHandler(a)
    <2>1. \A b \in Actors \ {a} : mailbox'[b] = mailbox[b]
      BY <1>2, ReceiveType DEF RunMissingHandler
    <2>2. LinksAlive' /\ Addressed' /\ MailboxServed'
      BY <1>2, <2>1 DEF RunMissingHandler, Receive, LinkInv, LinksAlive, HasLink, Alive,
                        Addressed, MailboxServed, TypeOK
    <2>3. Fresh'
      <3>1. Head(mailbox[a]).reply \in ReplyIds \cup {NoReply}
        BY <1>2, ReceiveType, CommandTypes DEF RunMissingHandler
      <3>2. \A x \in ReplyIds : chan[x] = "unused" => chan'[x] = "unused"
        BY <1>2, <3>1, SettledEffect DEF RunMissingHandler
      <3> QED BY <1>2, <3>2, ReplyNames, ActorsAssumption
              DEF RunMissingHandler, LinkInv, Fresh
    <2> QED BY <2>2, <2>3 DEF LinkInv
  <1>3. CASE Terminate(a)
    <2>1. \A b \in Actors \ {a} : mailbox'[b] = mailbox[b]
      BY <1>3, ReceiveType DEF Terminate
    <2> QED BY <1>3, <2>1 DEF Terminate, Receive, LinkInv, LinksAlive, HasLink, Alive,
                              Addressed, Fresh, MailboxServed, TypeOK
  <1>4. CASE EndTask(a)
    <2>1. pc' = [pc EXCEPT ![a] = "ended"] /\ pc[a] = "idle" /\ mailbox[a] = <<>>
      BY <1>4 DEF EndTask
    <2>2. \A b \in Actors : HasLink(b)' => HasLink(b)
      BY <1>4, <2>1 DEF EndTask, HasLink, TypeOK
    <2>3. LinksAlive'
      BY <1>4, <2>1, <2>2 DEF EndTask, LinkInv, LinksAlive, Alive, TypeOK
    <2>4. Addressed' /\ MailboxServed' /\ Fresh'
      BY <1>4, <2>1, ActorsAssumption
      DEF EndTask, LinkInv, Addressed, MailboxServed, Fresh, Alive, TypeOK
    <2> QED BY <2>3, <2>4 DEF LinkInv
  <1> QED BY <1>1, <1>2, <1>3, <1>4 DEF LoopStep

\* The native calls of a handler (modules/actors.rs) take their links from the
\* registry and keep every link on a living actor.
LEMMA LinkHandlerStep ==
  ASSUME TypeOK, LinkInv, NEW a \in Actors, HandlerStep(a)
  PROVE  LinkInv'
  <1>1. ASSUME NEW b \in Actors, SpawnActor(a, b) PROVE LinkInv'
    BY <1>1, ActorsAssumption
    DEF SpawnActor, Call, Birth, LinkInv, LinksAlive, HasLink, Alive, Addressed, Fresh,
        MailboxServed, TypeOK
  <1>2. ASSUME NEW b \in Actors, NEW c \in Command, Address(a, b, c),
               UNCHANGED <<registry, mailbox, watcher>>
        PROVE  LinksAlive' /\ Addressed' /\ MailboxServed' /\
               \A r \in Roots : pc'[r] = "unborn" => watcher'[r] = "none"
    BY <1>2, ActorsAssumption
    DEF Address, Call, LinkInv, LinksAlive, HasLink, Alive, Addressed, Fresh,
        MailboxServed, TypeOK
  <1>3. ASSUME NEW b \in Actors, Send(a, b) PROVE LinkInv'
    BY <1>3, <1>2, CommandTypes DEF Send, LinkInv, Fresh
  <1>4. ASSUME NEW b \in Actors, SendTerminateTo(a, b) PROVE LinkInv'
    BY <1>4, <1>2, CommandTypes DEF SendTerminateTo, LinkInv, Fresh
  <1>5. ASSUME NEW b \in Actors, Request(a, b) PROVE LinkInv'
    <2>1. asked[a] + 1 \in 1..MaxRequests
      BY <1>5, BoundsAssumption DEF Request, TypeOK
    <2>2. <<a, asked[a] + 1>> \in ReplyIds
      BY <2>1, ReplyNames
    <2>3. LinksAlive' /\ Addressed' /\ MailboxServed' /\
          \A r \in Roots : pc'[r] = "unborn" => watcher'[r] = "none"
      BY <1>5, <1>2, <2>2, CommandTypes DEF Request
    <2>4. \A r \in Roots : watcher'[r] = "none" => chan'[<<r, 0>>] = "unused"
      BY <1>5, <2>1, ReplyNames, ActorsAssumption DEF Request, LinkInv, Fresh, TypeOK
    <2>5. \A d \in Actors : \A n \in 1..MaxRequests :
            asked'[d] < n => chan'[<<d, n>>] = "unused"
      BY <1>5, <2>1, ReplyNames DEF Request, LinkInv, Fresh, TypeOK
    <2> QED BY <2>3, <2>4, <2>5 DEF LinkInv, Fresh
  <1>6. CASE Deliver(a)
    <2>1. out[a].to \in Actors /\ out[a].cmd \in Command
      BY <1>6 DEF Deliver, LinkInv, Addressed, TypeOK
    <2>2. Alive(out[a].to)
      BY <1>6, <2>1 DEF Deliver, LinkInv, LinksAlive, HasLink
    <2>3. \A b \in Actors \ {out[a].to} : mailbox'[b] = mailbox[b]
      BY <1>6, <2>1, PushType DEF Deliver
    <2>4. out[a].cmd.reply \in ReplyIds \cup {NoReply}
      BY <2>1, CommandTypes
    <2>5. /\ pc' \in [Actors -> PcStates]
          /\ \A b \in Actors \ {a} : pc'[b] = pc[b]
          /\ pc[a] = "sending"
          /\ pc'[a] \in {"running", "waiting"}
          /\ pc'[a] = "waiting" => out[a].cmd.reply \in ReplyIds
      BY <1>6, <2>4 DEF Deliver, TypeOK, PcStates
    <2>6. UNCHANGED <<registry, out, watcher, chan, asked>>
      BY <1>6 DEF Deliver
    <2>7. \A b \in Actors : HasLink(b)' => HasLink(b)
      BY <2>5, <2>6 DEF HasLink
    <2>8. LinksAlive'
      BY <2>5, <2>7 DEF LinkInv, LinksAlive, Alive
    <2>11. Addressed'
      BY <2>5, <2>6 DEF LinkInv, Addressed
    <2>9. MailboxServed'
      <3>1. \A b \in Actors : Alive(b) => Alive(b)'
        BY <2>5 DEF Alive
      <3> QED BY <2>1, <2>2, <2>3, <3>1 DEF LinkInv, MailboxServed
    <2>10. Fresh'
      BY <2>5, <2>6, ActorsAssumption DEF LinkInv, Fresh
    <2> QED BY <2>8, <2>11, <2>9, <2>10 DEF LinkInv
  <1>7. CASE TakeAnswer(a)
    BY <1>7, ActorsAssumption
    DEF TakeAnswer, LinkInv, LinksAlive, HasLink, Alive, Addressed, Fresh, MailboxServed, TypeOK
  <1>8. CASE TimeOut(a)
    <2>1. LinksAlive' /\ Addressed' /\ MailboxServed'
      BY <1>8 DEF TimeOut, LinkInv, LinksAlive, HasLink, Alive, Addressed, MailboxServed, TypeOK
    <2>2. \A x \in ReplyIds : chan[x] = "unused" => chan'[x] = "unused"
      BY <1>8 DEF TimeOut, TypeOK
    <2>3. Fresh'
      <3>1. watcher' = watcher /\ asked' = asked
        BY <1>8 DEF TimeOut
      <3>2. \A b \in Actors : pc'[b] = "unborn" => pc[b] = "unborn"
        BY <1>8 DEF TimeOut, TypeOK
      <3> QED BY <2>2, <3>1, <3>2, ReplyNames, ActorsAssumption DEF LinkInv, Fresh
    <2> QED BY <2>1, <2>3 DEF LinkInv
  <1>9. ASSUME NEW result \in {"ok", "err"}, Finish(a, result) PROVE LinkInv'
    <2>1. LinksAlive' /\ Addressed' /\ MailboxServed'
      BY <1>9 DEF Finish, LinkInv, LinksAlive, HasLink, Alive, Addressed, MailboxServed, TypeOK
    <2>2. \A x \in ReplyIds : chan[x] = "unused" => chan'[x] = "unused"
      <3>1. job[a] \in ReplyIds \cup {NoReply} /\ chan' = Settled(job[a], result)
        BY <1>9 DEF Finish, TypeOK
      <3>2. \A x \in ReplyIds : chan[x] # "open" => Settled(job[a], result)[x] = chan[x]
        BY <3>1, SettledEffect
      <3> QED BY <3>1, <3>2
    <2>3. Fresh'
      BY <1>9, <2>2, ReplyNames, ActorsAssumption DEF Finish, LinkInv, Fresh, TypeOK
    <2> QED BY <2>1, <2>3 DEF LinkInv
  <1> QED BY <1>1, <1>3, <1>4, <1>5, <1>6, <1>7, <1>8, <1>9 DEF HandlerStep

\* The link invariant does not depend on anything outside vars.
LEMMA LinkStutter == LinkInv /\ UNCHANGED vars => LinkInv'
  BY DEF vars, LinkInv, LinksAlive, HasLink, Alive, Addressed, Fresh, MailboxServed

\* In every run the links, the registry and the mailboxes of activate_actor,
\* spawn_actor and terminate agree as LinkInv says.
THEOREM LinkInvariant == Spec => []LinkInv
  <1>1. TypeOK /\ LinkInv /\ [Next]_vars => LinkInv'
    BY LinkRootStep, LinkLoopStep, LinkHandlerStep, LinkStutter DEF Next
  <1> QED BY <1>1, LinkInit, TypeCorrect, PTL DEF Spec

\* A link never outlives its actor: every send through a link that the
\* registry, a call in progress or a watcher holds reaches a task that receives.
THEOREM LinksStayAlive == Spec => []LinksAlive
  <1>1. LinkInv => LinksAlive
    BY DEF LinkInv
  <1> QED BY <1>1, LinkInvariant, PTL

-----------------------------------------------------------------------------
(* No request is lost.                                                     *)

\* Where the sending half of r may be.
HasSender(r) == InMailbox(r) \cup InJob(r) \cup InSend(r) \cup InWatcher(r) # {}

\* Between two commands an actor owes no reply.
IdleOwesNothing == \A a \in Actors : pc[a] \in {"unborn", "idle", "ended"} => job[a] = NoReply

ReplyInv == IdleOwesNothing /\ NoLostReply

\* A queued sending half stays queued while its actor does not receive.
LEMMA QueuedStays ==
  ASSUME TypeOK, NEW r \in ReplyIds, NEW a \in InMailbox(r), Alive(a)',
         Len(mailbox'[a]) \in Nat, Len(mailbox[a]) <= Len(mailbox'[a]),
         \A i \in 1..Len(mailbox[a]) : mailbox'[a][i] = mailbox[a][i]
  PROVE  HasSender(r)'
  <1>1. PICK i \in 1..Len(mailbox[a]) : mailbox[a][i].reply = r
    BY DEF InMailbox
  <1>2. Len(mailbox[a]) \in Nat /\ a \in Actors
    BY DEF TypeOK, InMailbox
  <1>3. i \in 1..Len(mailbox'[a]) /\ mailbox'[a][i].reply = r
    BY <1>1, <1>2
  <1> QED BY <1>2, <1>3 DEF HasSender, InMailbox

\* What receiving takes from the queue is the head's sending half only.
LEMMA QueuedMovesUp ==
  ASSUME TypeOK, NEW a \in Actors, Receive(a), Alive(a)', NEW r \in ReplyIds,
         a \in InMailbox(r), Head(mailbox[a]).reply # r
  PROVE  HasSender(r)'
  <1>1. PICK i \in 1..Len(mailbox[a]) : mailbox[a][i].reply = r
    BY DEF InMailbox
  <1>2. Len(mailbox[a]) \in Nat
    BY DEF TypeOK
  <1>3. i # 1
    BY <1>1, ReceiveType
  <1>4. i \in 2..Len(mailbox[a]) /\ i - 1 \in 1..Len(mailbox'[a])
    BY <1>1, <1>2, <1>3, ReceiveType
  <1>5. mailbox'[a][i - 1].reply = r
    BY <1>1, <1>4, ReceiveType
  <1> QED BY <1>4, <1>5 DEF HasSender, InMailbox

\* Nothing alive dies in the step.
NobodyDies == \A a \in Actors : Alive(a) => Alive(a)'

\* A step that pushes a command keeps every queued sending half, and queues
\* the one in the command.
LEMMA PushKeeps ==
  ASSUME TypeOK, NobodyDies, NEW a \in Actors, Alive(a), NEW c \in Command,
         HasRoom(a), Push(a, c), NEW r \in ReplyIds
  PROVE  /\ InMailbox(r) # {} => HasSender(r)'
         /\ c.reply = r => HasSender(r)'
  <1>1. ASSUME NEW b \in InMailbox(r) PROVE HasSender(r)'
    <2>1. b \in Actors /\ Alive(b)'
      BY DEF InMailbox, NobodyDies
    <2>2. Len(mailbox[b]) \in Nat /\ Len(mailbox'[b]) \in Nat
      BY <2>1, PushType DEF TypeOK
    <2>3. Len(mailbox[b]) <= Len(mailbox'[b]) /\
          \A i \in 1..Len(mailbox[b]) : mailbox'[b][i] = mailbox[b][i]
      BY <2>1, <2>2, PushType
    <2> QED BY <2>1, <2>2, <2>3, QueuedStays
  <1>2. ASSUME c.reply = r PROVE HasSender(r)'
    <2>1. Len(mailbox[a]) \in Nat
      BY DEF TypeOK
    <2>2. Len(mailbox[a]) + 1 \in 1..Len(mailbox'[a]) /\
          mailbox'[a][Len(mailbox[a]) + 1].reply = r
      BY <1>2, <2>1, PushType
    <2>3. Alive(a)'
      BY DEF NobodyDies
    <2> QED BY <2>2, <2>3 DEF HasSender, InMailbox
  <1> QED BY <1>1, <1>2

\* A step that receives keeps every queued sending half but the head's.
LEMMA ReceiveKeeps ==
  ASSUME TypeOK, NobodyDies, NEW a \in Actors, Receive(a), NEW r \in ReplyIds,
         InMailbox(r) # {}, Head(mailbox[a]).reply # r
  PROVE  HasSender(r)'
  <1>1. PICK b \in Actors : b \in InMailbox(r)
    BY DEF InMailbox
  <1>2. Alive(b)'
    BY <1>1 DEF InMailbox, NobodyDies
  <1>3. CASE b = a
    BY <1>1, <1>2, <1>3, QueuedMovesUp
  <1>4. CASE b # a
    BY <1>1, <1>2, <1>4, ReceiveType DEF HasSender, InMailbox
  <1> QED BY <1>3, <1>4

\* A step that leaves the mailboxes alone keeps every queued sending half.
LEMMA StillKeeps ==
  ASSUME NobodyDies, mailbox' = mailbox, NEW r \in ReplyIds, InMailbox(r) # {}
  PROVE  HasSender(r)'
  BY DEF NobodyDies, HasSender, InMailbox

\* The worker's steps leave an open reply channel's sending half with someone.
LEMMA ReplyRootStep ==
  ASSUME TypeOK, LinkInv, ReplyInv, NEW x \in Roots, RootStep(x)
  PROVE  ReplyInv'
  <1>1. IdleOwesNothing'
    BY ActorsAssumption
    DEF RootStep, CreateRoot, Birth, SendFirstRun, WatchResponse, SendTerminate, ReplyInv,
        IdleOwesNothing, TypeOK
  <1>2. NobodyDies
    BY ActorsAssumption
    DEF RootStep, CreateRoot, Birth, SendFirstRun, WatchResponse, SendTerminate, NobodyDies,
        Alive, TypeOK
  <1>3. ASSUME NEW r \in ReplyIds, chan'[r] = "open" PROVE HasSender(r)'
    <2> x \in Actors /\ <<x, 0>> \in ReplyIds
      BY ActorsAssumption, ReplyNames
    <2>1. CASE CreateRoot(x)
      <3>1. CASE r = <<x, 0>>
        <4>1. watcher'[x] = "sending"
          BY <2>1 DEF CreateRoot, TypeOK
        <4> QED BY <3>1, <4>1 DEF HasSender, InWatcher
      <3>2. CASE r # <<x, 0>>
        <4>1. HasSender(r)
          BY <1>3, <2>1, <3>2 DEF CreateRoot, TypeOK, ReplyInv, NoLostReply, HasSender
        <4>2. InMailbox(r) # {} => HasSender(r)'
          BY <1>2, <2>1, StillKeeps DEF CreateRoot
        <4>3. InJob(r) \cup InSend(r) \cup InWatcher(r) # {} => HasSender(r)'
          BY <2>1, ActorsAssumption
          DEF CreateRoot, Birth, HasSender, InJob, InSend, InWatcher, TypeOK
        <4> QED BY <4>1, <4>2, <4>3 DEF HasSender
      <3> QED BY <3>1, <3>2
    <2>2. CASE SendFirstRun(x)
      <3>1. HasSender(r) /\ Alive(x)
        BY <1>3, <2>2
        DEF SendFirstRun, ReplyInv, NoLostReply, HasSender, LinkInv, LinksAlive, HasLink
      <3>2. [op |-> "onHttpRequest", reply |-> <<x, 0>>] \in Command
        BY CommandTypes
      <3>3. (InMailbox(r) # {} => HasSender(r)') /\ (<<x, 0>> = r => HasSender(r)')
        BY <1>2, <2>2, <3>1, <3>2, PushKeeps DEF SendFirstRun
      <3>4. InJob(r) \cup InSend(r) # {} => HasSender(r)'
        BY <2>2 DEF SendFirstRun, HasSender, InJob, InSend
      <3>5. <<x, 0>> # r /\ InWatcher(r) # {} => HasSender(r)'
        BY <2>2 DEF SendFirstRun, HasSender, InWatcher, TypeOK
      <3> QED BY <3>1, <3>3, <3>4, <3>5 DEF HasSender
    <2>3. CASE WatchResponse(x)
      <3>1. HasSender(r)
        BY <1>3, <2>3 DEF WatchResponse, ReplyInv, NoLostReply, HasSender
      <3>2. InMailbox(r) # {} => HasSender(r)'
        BY <1>2, <2>3, StillKeeps DEF WatchResponse
      <3>3. InJob(r) \cup InSend(r) \cup InWatcher(r) # {} => HasSender(r)'
        BY <2>3 DEF WatchResponse, HasSender, InJob, InSend, InWatcher, TypeOK
      <3> QED BY <3>1, <3>2, <3>3 DEF HasSender
    <2>4. CASE SendTerminate(x)
      <3>1. HasSender(r) /\ Alive(x)
        BY <1>3, <2>4
        DEF SendTerminate, ReplyInv, NoLostReply, HasSender, LinkInv, LinksAlive, HasLink
      <3>2. InMailbox(r) # {} => HasSender(r)'
        BY <1>2, <2>4, <3>1, CommandTypes, PushKeeps DEF SendTerminate
      <3>3. InJob(r) \cup InSend(r) \cup InWatcher(r) # {} => HasSender(r)'
        BY <2>4 DEF SendTerminate, HasSender, InJob, InSend, InWatcher, TypeOK
      <3> QED BY <3>1, <3>2, <3>3 DEF HasSender
    <2> QED BY <2>1, <2>2, <2>3, <2>4 DEF RootStep
  <1> QED BY <1>1, <1>3 DEF ReplyInv, NoLostReply, HasSender

\* Receiving, running or refusing a Run, terminating and ending a task leave
\* an open reply channel's sending half with someone.
LEMMA ReplyLoopStep ==
  ASSUME TypeOK, LinkInv, ReplyInv, NEW a \in Actors, LoopStep(a)
  PROVE  ReplyInv'
  <1>1. IdleOwesNothing'
    BY DEF LoopStep, RunHandler, RunMissingHandler, Terminate, EndTask, ReplyInv,
           IdleOwesNothing, TypeOK
  <1>2. ASSUME NEW r \in ReplyIds, chan'[r] = "open" PROVE HasSender(r)'
    <2>1. CASE RunHandler(a)
      <3>1. NobodyDies /\ Receive(a) /\ HasSender(r)
        BY <1>2, <2>1
        DEF RunHandler, Receive, NobodyDies, Alive, TypeOK, ReplyInv, NoLostReply, HasSender
      <3>2. job'[a] = Head(mailbox[a]).reply
        BY <2>1 DEF RunHandler, TypeOK
      <3>3. InMailbox(r) # {} => HasSender(r)'
        BY <3>1, <3>2, ReceiveKeeps DEF HasSender, InJob
      <3>4. InJob(r) # {} => HasSender(r)'
        <4>1. job[a] = NoReply /\ r # NoReply
          BY <2>1, ReplyNames DEF RunHandler, Receive, ReplyInv, IdleOwesNothing
        <4> QED BY <2>1, <4>1 DEF RunHandler, HasSender, InJob, TypeOK
      <3>5. InSend(r) \cup InWatcher(r) # {} => HasSender(r)'
        BY <2>1 DEF RunHandler, Receive, HasSender, InSend, InWatcher, TypeOK
      <3> QED BY <3>1, <3>3, <3>4, <3>5 DEF HasSender
    <2>2. CASE RunMissingHandler(a)
      <3>1. NobodyDies /\ Receive(a)
        BY <2>2 DEF RunMissingHandler, NobodyDies, Alive
      <3>2. Head(mailbox[a]).reply \in ReplyIds \cup {NoReply}
        BY <3>1, ReceiveType, CommandTypes
      <3>3. Head(mailbox[a]).reply # r /\ chan[r] = "open"
        BY <1>2, <2>2, <3>2, SettledEffect DEF RunMissingHandler
      <3>4. HasSender(r)
        BY <3>3 DEF ReplyInv, NoLostReply, HasSender
      <3>5. InMailbox(r) # {} => HasSender(r)'
        BY <3>1, <3>3, ReceiveKeeps
      <3>6. InJob(r) \cup InSend(r) \cup InWatcher(r) # {} => HasSender(r)'
        BY <2>2 DEF RunMissingHandler, HasSender, InJob, InSend, InWatcher
      <3> QED BY <3>4, <3>5, <3>6 DEF HasSender
    <2>3. CASE Terminate(a)
      <3>1. NobodyDies /\ Receive(a) /\ HasSender(r)
        BY <1>2, <2>3 DEF Terminate, NobodyDies, Alive, ReplyInv, NoLostReply, HasSender
      <3>2. Head(mailbox[a]).reply # r
        BY <2>3, <3>1, ReceiveType, CommandTypes, ReplyNames DEF Terminate
      <3>3. InMailbox(r) # {} => HasSender(r)'
        BY <3>1, <3>2, ReceiveKeeps
      <3>4. InJob(r) \cup InSend(r) \cup InWatcher(r) # {} => HasSender(r)'
        BY <2>3 DEF Terminate, HasSender, InJob, InSend, InWatcher
      <3> QED BY <3>1, <3>3, <3>4 DEF HasSender
    <2>4. CASE EndTask(a)
      <3>1. HasSender(r) /\ mailbox[a] = <<>>
        BY <1>2, <2>4 DEF EndTask, ReplyInv, NoLostReply, HasSender
      <3>2. InMailbox(r) # {} => HasSender(r)'
        <4>1. ASSUME NEW b \in InMailbox(r) PROVE b \in InMailbox(r)'
          <5>1. b # a
            BY <3>1 DEF InMailbox
          <5> QED BY <2>4, <5>1 DEF EndTask, InMailbox, Alive, TypeOK
        <4> QED BY <4>1 DEF HasSender
      <3>3. InJob(r) \cup InSend(r) \cup InWatcher(r) # {} => HasSender(r)'
        BY <2>4 DEF EndTask, HasSender, InJob, InSend, InWatcher, TypeOK
      <3> QED BY <3>1, <3>2, <3>3 DEF HasSender
    <2> QED BY <2>1, <2>2, <2>3, <2>4 DEF LoopStep
  <1> QED BY <1>1, <1>2 DEF ReplyInv, NoLostReply, HasSender

\* The native calls of a handler, and the end of its body, leave an open reply
\* channel's sending half with someone.
LEMMA ReplyHandlerStep ==
  ASSUME TypeOK, LinkInv, ReplyInv, NEW a \in Actors, HandlerStep(a)
  PROVE  ReplyInv'
  <1>1. IdleOwesNothing'
    BY DEF HandlerStep, SpawnActor, Birth, Call, Send, SendTerminateTo, Request, Address,
           Deliver, TakeAnswer, TimeOut, Finish, ReplyInv, IdleOwesNothing, TypeOK
  <1>2. NobodyDies
    BY DEF HandlerStep, SpawnActor, Birth, Call, Send, SendTerminateTo, Request, Address,
           Deliver, TakeAnswer, TimeOut, Finish, NobodyDies, Alive, TypeOK
  <1>3. ASSUME NEW r \in ReplyIds, chan'[r] = "open" PROVE HasSender(r)'
    <2>1. ASSUME NEW b \in Actors, SpawnActor(a, b) PROVE HasSender(r)'
      <3>1. HasSender(r)
        BY <1>3, <2>1 DEF SpawnActor, ReplyInv, NoLostReply, HasSender
      <3>2. InMailbox(r) # {} => HasSender(r)'
        BY <1>2, <2>1, StillKeeps DEF SpawnActor
      <3>3. InJob(r) \cup InSend(r) \cup InWatcher(r) # {} => HasSender(r)'
        BY <2>1 DEF SpawnActor, Birth, Call, HasSender, InJob, InSend, InWatcher, TypeOK
      <3> QED BY <3>1, <3>2, <3>3 DEF HasSender
    <2>2. ASSUME NEW b \in Actors, NEW c \in Command, Address(a, b, c),
                 UNCHANGED <<mailbox, job, watcher>>, HasSender(r)
          PROVE  HasSender(r)'
      <3>1. InMailbox(r) # {} => HasSender(r)'
        BY <1>2, <2>2, StillKeeps
      <3>2. InJob(r) \cup InSend(r) \cup InWatcher(r) # {} => HasSender(r)'
        BY <2>2 DEF Address, Call, HasSender, InJob, InSend, InWatcher, TypeOK
      <3> QED BY <2>2, <3>1, <3>2 DEF HasSender
    <2>3. ASSUME NEW b \in Actors, Send(a, b) \/ SendTerminateTo(a, b) PROVE HasSender(r)'
      <3>1. HasSender(r)
        BY <1>3, <2>3 DEF Send, SendTerminateTo, ReplyInv, NoLostReply, HasSender
      <3> QED BY <2>2, <2>3, <3>1, CommandTypes DEF Send, SendTerminateTo
    <2>4. ASSUME NEW b \in Actors, Request(a, b) PROVE HasSender(r)'
      <3>1. <<a, asked[a] + 1>> \in ReplyIds
        BY <2>4, BoundsAssumption, ReplyNames DEF Request, TypeOK
      <3>2. CASE r = <<a, asked[a] + 1>>
        <4>1. pc'[a] = "sending" /\ out'[a].cmd.reply = r
          BY <2>4, <3>2 DEF Request, Address, TypeOK
        <4> QED BY <4>1 DEF HasSender, InSend
      <3>3. CASE r # <<a, asked[a] + 1>>
        <4>1. HasSender(r)
          BY <1>3, <2>4, <3>3 DEF Request, TypeOK, ReplyInv, NoLostReply, HasSender
        <4>2. [op |-> "onRequest", reply |-> <<a, asked[a] + 1>>] \in Command
          BY <3>1, CommandTypes
        <4> QED BY <2>2, <2>4, <4>1, <4>2 DEF Request
      <3> QED BY <3>2, <3>3
    <2>5. CASE Deliver(a)
      <3>1. HasSender(r)
        BY <1>3, <2>5 DEF Deliver, ReplyInv, NoLostReply, HasSender
      <3>2. out[a].to \in Actors /\ out[a].cmd \in Command /\ Alive(out[a].to)
        BY <2>5 DEF Deliver, LinkInv, Addressed, LinksAlive, HasLink, TypeOK
      <3>3. (InMailbox(r) # {} => HasSender(r)') /\ (out[a].cmd.reply = r => HasSender(r)')
        BY <1>2, <2>5, <3>2, PushKeeps DEF Deliver
      <3>4. InJob(r) \cup InWatcher(r) # {} => HasSender(r)'
        BY <2>5 DEF Deliver, HasSender, InJob, InWatcher
      <3>5. out[a].cmd.reply # r /\ InSend(r) # {} => HasSender(r)'
        BY <2>5 DEF Deliver, HasSender, InSend, TypeOK
      <3> QED BY <3>1, <3>3, <3>4, <3>5 DEF HasSender
    <2>6. CASE TakeAnswer(a)
      <3>1. HasSender(r)
        BY <1>3, <2>6 DEF TakeAnswer, ReplyInv, NoLostReply, HasSender
      <3>2. InMailbox(r) # {} => HasSender(r)'
        BY <1>2, <2>6, StillKeeps DEF TakeAnswer
      <3>3. InJob(r) \cup InSend(r) \cup InWatcher(r) # {} => HasSender(r)'
        BY <2>6 DEF TakeAnswer, HasSender, InJob, InSend, InWatcher, TypeOK
      <3> QED BY <3>1, <3>2, <3>3 DEF HasSender
    <2>7. CASE TimeOut(a)
      <3>1. HasSender(r)
        BY <1>3, <2>7 DEF TimeOut, TypeOK, ReplyInv, NoLostReply, HasSender
      <3>2. InMailbox(r) # {} => HasSender(r)'
        BY <1>2, <2>7, StillKeeps DEF TimeOut
      <3>3. InJob(r) \cup InSend(r) \cup InWatcher(r) # {} => HasSender(r)'
        BY <2>7 DEF TimeOut, HasSender, InJob, InSend, InWatcher, TypeOK
      <3> QED BY <3>1, <3>2, <3>3 DEF HasSender
    <2>8. ASSUME NEW result \in {"ok", "err"}, Finish(a, result) PROVE HasSender(r)'
      <3>1. job[a] \in ReplyIds \cup {NoReply} /\ chan' = Settled(job[a], result)
        BY <2>8 DEF Finish, TypeOK
      <3>2. job[a] # r /\ chan[r] = "open"
        BY <1>3, <3>1, SettledEffect
      <3>3. HasSender(r)
        BY <3>2 DEF ReplyInv, NoLostReply, HasSender
      <3>4. InMailbox(r) # {} => HasSender(r)'
        BY <1>2, <2>8, StillKeeps DEF Finish
      <3>5. InJob(r) # {} => HasSender(r)'
        BY <2>8, <3>2 DEF Finish, HasSender, InJob, TypeOK
      <3>6. InSend(r) \cup InWatcher(r) # {} => HasSender(r)'
        BY <2>8 DEF Finish, HasSender, InSend, InWatcher, TypeOK
      <3> QED BY <3>3, <3>4, <3>5, <3>6 DEF HasSender
    <2> QED BY <2>1, <2>3, <2>4, <2>5, <2>6, <2>7, <2>8 DEF HandlerStep
  <1> QED BY <1>1, <1>3 DEF ReplyInv, NoLostReply, HasSender

\* In every run the reply channels of activate_actor and of the callers of
\* modules/actors.rs are accounted for as ReplyInv says.
LEMMA ReplyInvariant == Spec => []ReplyInv
  <1>1. Init => ReplyInv
    BY DEF Init, ReplyInv, IdleOwesNothing, NoLostReply
  <1>2. TypeOK /\ LinkInv /\ ReplyInv /\ [Next]_vars => ReplyInv'
    <2>1. ReplyInv /\ UNCHANGED vars => ReplyInv'
      BY DEF vars, ReplyInv, IdleOwesNothing, NoLostReply, InMailbox, InJob, InSend,
             InWatcher, Alive
    <2> QED BY <2>1, ReplyRootStep, ReplyLoopStep, ReplyHandlerStep DEF Next
  <1> QED BY <1>1, <1>2, TypeCorrect, LinkInvariant, PTL DEF Spec

\* No request is ever lost: as long as a caller waits for a run's result, the
\* channel to report it on is queued at an actor that still receives, held by
\* a run in progress, or with the task about to send it.
THEOREM RepliesAreNotLost == Spec => []NoLostReply
  <1>1. ReplyInv => NoLostReply
    BY DEF ReplyInv
  <1> QED BY <1>1, ReplyInvariant, PTL

-----------------------------------------------------------------------------
(* Places.                                                                 *)

Places == {"box", "job", "send", "watch"}

\* The sending half of r is at this place of a: the i-th command of its
\* mailbox, or with its run, its pending send or the task that drives it.
At(r, k, a, i) ==
  \/ k = "box" /\ i \in 1..Len(mailbox[a]) /\ mailbox[a][i].reply = r
  \/ k = "job" /\ i = 0 /\ job[a] = r
  \/ k = "send" /\ i = 0 /\ pc[a] = "sending" /\ out[a].cmd.reply = r
  \/ k = "watch" /\ i = 0 /\ a \in Roots /\ watcher[a] = "sending" /\ r = <<a, 0>>

\* A oneshot sender is not cloned.
OnePlace ==
  \A r \in ReplyIds : \A k, l \in Places : \A a, b \in Actors : \A i, j \in Nat :
    At(r, k, a, i) /\ At(r, l, b, j) => k = l /\ a = b /\ i = j

\* A channel that was not made yet has no sender.
UnusedNowhere ==
  \A r \in ReplyIds : chan[r] = "unused" =>
    \A k \in Places : \A a \in Actors : \A i \in Nat : ~At(r, k, a, i)

\* What an actor awaits an answer on has been made, and its sender is nowhere
\* but with the actor it addressed.
AwaitedThere ==
  \A a \in Actors : pc[a] = "waiting" =>
    /\ chan[out[a].cmd.reply] # "unused"
    /\ \A k \in Places : \A b \in Actors : \A i \in Nat :
         At(out[a].cmd.reply, k, b, i) => k \in {"box", "job"} /\ b = out[a].to

PlaceInv == OnePlace /\ UnusedNowhere /\ AwaitedThere

-----------------------------------------------------------------------------
(* How the steps move sending halves.                                      *)

\* Nothing moves: the places of r are what they were.
Unmoved(r) ==
  \A k \in Places : \A a \in Actors : \A i \in Nat : At(r, k, a, i)' <=> At(r, k, a, i)

\* Receiving takes the first command and moves the others up (recv).
LEMMA ReceivedBox ==
  ASSUME TypeOK, NEW a \in Actors, Receive(a), NEW r \in ReplyIds,
         NEW b \in Actors, NEW i \in Nat
  PROVE  At(r, "box", b, i)' <=> IF b = a THEN i # 0 /\ At(r, "box", a, i + 1)
                                          ELSE At(r, "box", b, i)
  <1>1. Len(mailbox[a]) \in Nat /\ Len(mailbox'[a]) = Len(mailbox[a]) - 1
    BY ReceiveType DEF TypeOK
  <1>2. CASE b = a
    <2>1. ASSUME i + 1 \in 2..Len(mailbox[a]) PROVE mailbox'[a][i] = mailbox[a][i + 1]
      <3>1. mailbox'[a][(i + 1) - 1] = mailbox[a][i + 1]
        BY <2>1, ReceiveType
      <3> QED BY <3>1
    <2>2. i \in 1..Len(mailbox'[a]) <=> i + 1 \in 2..Len(mailbox[a])
      BY <1>1
    <2>3. i # 0 /\ i + 1 \in 1..Len(mailbox[a]) <=> i + 1 \in 2..Len(mailbox[a])
      BY <1>1
    <2> QED BY <1>2, <2>1, <2>2, <2>3 DEF At
  <1>3. CASE b # a
    <2>1. mailbox'[b] = mailbox[b]
      BY <1>3, ReceiveType
    <2> QED BY <1>3, <2>1 DEF At
  <1> QED BY <1>2, <1>3

\* Sending adds the sending half in the command behind the others (send).
LEMMA PushedBox ==
  ASSUME TypeOK, NEW a \in Actors, NEW c \in Command, HasRoom(a), Push(a, c),
         NEW r \in ReplyIds, NEW b \in Actors, NEW i \in Nat
  PROVE  At(r, "box", b, i)' <=> \/ At(r, "box", b, i)
                                 \/ b = a /\ i = Len(mailbox[a]) + 1 /\ c.reply = r
  <1>1. Len(mailbox[a]) \in Nat /\ Len(mailbox'[a]) = Len(mailbox[a]) + 1
    BY PushType DEF TypeOK
  <1>2. CASE b = a
    <2>1. i \in 1..Len(mailbox'[a]) <=> i \in 1..Len(mailbox[a]) \/ i = Len(mailbox[a]) + 1
      BY <1>1
    <2>2. i \in 1..Len(mailbox[a]) => mailbox'[a][i] = mailbox[a][i]
      BY PushType
    <2>3. mailbox'[a][Len(mailbox[a]) + 1] = c
      BY PushType
    <2> QED BY <1>1, <1>2, <2>1, <2>2, <2>3 DEF At
  <1>3. CASE b # a
    <2>1. mailbox'[b] = mailbox[b]
      BY <1>3, PushType
    <2> QED BY <1>3, <2>1 DEF At
  <1> QED BY <1>2, <1>3

\* What a step does that neither makes nor moves a sending half.
Quiet ==
  \/ \E r \in Roots : WatchResponse(r) \/ SendTerminate(r)
  \/ \E a \in Actors : EndTask(a) \/ TakeAnswer(a) \/ TimeOut(a)
  \/ \E a, b \in Actors : SpawnActor(a, b) \/ Send(a, b) \/ SendTerminateTo(a, b)

\* The other steps leave every reply where it is.
LEMMA QuietMovesNothing ==
  ASSUME TypeOK, Quiet, NEW r \in ReplyIds
  PROVE  Unmoved(r)
  <1>0. r # NoReply
    BY ReplyNames
  <1>1. ASSUME NEW x \in Roots, WatchResponse(x) PROVE Unmoved(r)
    BY <1>1 DEF WatchResponse, Unmoved, At, Places, TypeOK
  <1>2. ASSUME NEW x \in Roots, SendTerminate(x) PROVE Unmoved(r)
    <2>1. \A a \in Actors, i \in Nat : At(r, "box", a, i)' <=> At(r, "box", a, i)
      BY <1>0, <1>2, PushedBox, CommandTypes, ActorsAssumption DEF SendTerminate
    <2>2. \A k \in Places \ {"box"}, a \in Actors, i \in Nat : At(r, k, a, i)' <=> At(r, k, a, i)
      BY <1>2 DEF SendTerminate, At, Places, TypeOK
    <2> QED BY <2>1, <2>2 DEF Unmoved
  <1>3. ASSUME NEW a \in Actors, EndTask(a) \/ TakeAnswer(a) \/ TimeOut(a) PROVE Unmoved(r)
    BY <1>3 DEF EndTask, TakeAnswer, TimeOut, Unmoved, At, Places, TypeOK
  <1>4. ASSUME NEW a \in Actors, NEW b \in Actors, SpawnActor(a, b) PROVE Unmoved(r)
    BY <1>4 DEF SpawnActor, Call, Birth, Unmoved, At, Places, TypeOK
  <1>5. ASSUME NEW a \in Actors, NEW b \in Actors, NEW c \in Command, c.reply = NoReply,
               Address(a, b, c), UNCHANGED <<mailbox, job, watcher>>
        PROVE  Unmoved(r)
    BY <1>0, <1>5 DEF Address, Call, Unmoved, At, Places, TypeOK
  <1>6. ASSUME NEW a \in Actors, NEW b \in Actors, Send(a, b) \/ SendTerminateTo(a, b)
        PROVE  Unmoved(r)
    BY <1>5, <1>6, CommandTypes DEF Send, SendTerminateTo
  <1> QED BY <1>1, <1>2, <1>3, <1>4, <1>6 DEF Quiet

\* Receiving a Run moves its sending half from the mailbox to the run, or, as
\* that of a Terminate, out of sight.
LEMMA ReceivedPlaces ==
  ASSUME TypeOK, NEW a \in Actors, RunHandler(a) \/ RunMissingHandler(a) \/ Terminate(a),
         NEW r \in ReplyIds
  PROVE  /\ \A b \in Actors, i \in Nat :
              At(r, "box", b, i)' <=> IF b = a THEN i # 0 /\ At(r, "box", a, i + 1)
                                               ELSE At(r, "box", b, i)
         /\ \A b \in Actors, i \in Nat :
              At(r, "job", b, i)' <=> IF b = a /\ RunHandler(a) THEN i = 0 /\ At(r, "box", a, 1)
                                                                ELSE At(r, "job", b, i)
         /\ \A k \in {"send", "watch"}, b \in Actors, i \in Nat :
              At(r, k, b, i)' <=> At(r, k, b, i)
  <1>1. Receive(a)
    BY DEF RunHandler, RunMissingHandler, Terminate
  <1>2. 1 \in 1..Len(mailbox[a]) /\ Head(mailbox[a]) = mailbox[a][1]
    BY <1>1, ReceiveType DEF Receive, TypeOK
  <1>3. \A b \in Actors, i \in Nat :
          At(r, "box", b, i)' <=> IF b = a THEN i # 0 /\ At(r, "box", a, i + 1)
                                           ELSE At(r, "box", b, i)
    BY <1>1, ReceivedBox
  <1>4. CASE RunHandler(a)
    BY <1>2, <1>3, <1>4 DEF RunHandler, Receive, At, TypeOK
  <1>5. CASE ~RunHandler(a)
    BY <1>3, <1>5 DEF RunMissingHandler, Terminate, Receive, At, TypeOK
  <1> QED BY <1>4, <1>5

\* A new request, from the worker or from a handler, puts the sending half of
\* the channel it makes in one place.
Makes(r) ==
  \/ \E x \in Roots : r = <<x, 0>> /\ CreateRoot(x)
  \/ \E a, b \in Actors : r = <<a, asked[a] + 1>> /\ Request(a, b)

\* A reply is made at one place, where nothing else is.
LEMMA MadePlaces ==
  ASSUME TypeOK, LinkInv, NEW r, Makes(r)
  PROVE  /\ r \in ReplyIds /\ chan[r] = "unused" /\ chan' = [chan EXCEPT ![r] = "open"]
         /\ \E k \in {"send", "watch"} : \E a \in Actors :
              \A x \in ReplyIds, l \in Places, b \in Actors, i \in Nat :
                At(x, l, b, i)' <=> \/ At(x, l, b, i)
                                    \/ x = r /\ l = k /\ b = a /\ i = 0
  <1>1. ASSUME NEW x \in Roots, r = <<x, 0>>, CreateRoot(x)
        PROVE  /\ r \in ReplyIds /\ chan[r] = "unused" /\ chan' = [chan EXCEPT ![r] = "open"]
               /\ \A y \in ReplyIds, l \in Places, b \in Actors, i \in Nat :
                    At(y, l, b, i)' <=> \/ At(y, l, b, i)
                                        \/ y = r /\ l = "watch" /\ b = x /\ i = 0
    <2>1. r \in ReplyIds /\ chan[r] = "unused" /\ watcher[x] = "none" /\ x \in Actors
      BY <1>1, ReplyNames, ActorsAssumption DEF CreateRoot, Birth, LinkInv, Fresh
    <2>2. \A y \in ReplyIds, l \in Places \ {"watch"}, b \in Actors, i \in Nat :
            At(y, l, b, i)' <=> At(y, l, b, i)
      BY <1>1, <2>1 DEF CreateRoot, Birth, At, Places, TypeOK
    <2>3. \A y \in ReplyIds, b \in Actors, i \in Nat :
            At(y, "watch", b, i)' <=> At(y, "watch", b, i) \/ (y = r /\ b = x /\ i = 0)
      BY <1>1, <2>1 DEF CreateRoot, At, TypeOK
    <2> QED BY <1>1, <2>1, <2>2, <2>3 DEF CreateRoot, Places
  <1>2. ASSUME NEW a \in Actors, NEW c \in Actors, r = <<a, asked[a] + 1>>, Request(a, c)
        PROVE  /\ r \in ReplyIds /\ chan[r] = "unused" /\ chan' = [chan EXCEPT ![r] = "open"]
               /\ \A y \in ReplyIds, l \in Places, b \in Actors, i \in Nat :
                    At(y, l, b, i)' <=> \/ At(y, l, b, i)
                                        \/ y = r /\ l = "send" /\ b = a /\ i = 0
    <2>1. asked[a] + 1 \in 1..MaxRequests /\ asked[a] < asked[a] + 1
      BY <1>2, BoundsAssumption DEF Request, TypeOK
    <2>2. r \in ReplyIds /\ chan[r] = "unused"
      BY <1>2, <2>1, ReplyNames DEF LinkInv, Fresh
    <2>3. \A y \in ReplyIds, l \in Places, b \in Actors, i \in Nat :
            At(y, l, b, i)' <=> At(y, l, b, i) \/ (y = r /\ l = "send" /\ b = a /\ i = 0)
      BY <1>2 DEF Request, Address, Call, At, Places, TypeOK
    <2> QED BY <1>2, <2>2, <2>3 DEF Request
  <1>3. CASE \E x \in Roots : r = <<x, 0>> /\ CreateRoot(x)
    <2>1. PICK x \in Roots : r = <<x, 0>> /\ CreateRoot(x)
      BY <1>3
    <2>2. x \in Actors /\ "watch" \in {"send", "watch"}
      BY ActorsAssumption
    <2> HIDE DEF Places
    <2> QED BY <1>1, <2>1, <2>2
  <1>4. CASE \E a, b \in Actors : r = <<a, asked[a] + 1>> /\ Request(a, b)
    <2>1. PICK a \in Actors, b \in Actors : r = <<a, asked[a] + 1>> /\ Request(a, b)
      BY <1>4
    <2>2. "send" \in {"send", "watch"}
      OBVIOUS
    <2> QED BY <1>2, <2>1, <2>2
  <1> QED BY <1>3, <1>4 DEF Makes

\* A task's send that completes moves a sending half from the task to the
\* mailbox: of a handler (Deliver), or of the worker (SendFirstRun).
Sends(a, k, b, r) ==
  \/ k = "send" /\ Deliver(a) /\ b = out[a].to /\ r = out[a].cmd.reply
  \/ k = "watch" /\ a \in Roots /\ SendFirstRun(a) /\ b = a /\ r = <<a, 0>>

\* A reply that is sent goes to the end of a mailbox.
LEMMA SentPlaces ==
  ASSUME TypeOK, LinkInv, NEW a \in Actors, NEW k, NEW b, NEW r, Sends(a, k, b, r)
  PROVE  /\ b \in Actors /\ k \in {"send", "watch"} /\ r \in ReplyIds \cup {NoReply}
         /\ Len(mailbox[b]) + 1 \in Nat
         /\ At(r, k, a, 0)
         /\ \A x \in ReplyIds, l \in Places, c \in Actors, i \in Nat :
              At(x, l, c, i)' <=>
                \/ At(x, l, c, i) /\ ~(l = k /\ c = a)
                \/ x = r /\ l = "box" /\ c = b /\ i = Len(mailbox[b]) + 1
  <1>1. CASE k = "send" /\ Deliver(a) /\ b = out[a].to /\ r = out[a].cmd.reply
    <2>1. b \in Actors /\ out[a].cmd \in Command /\ r \in ReplyIds \cup {NoReply}
      BY <1>1, CommandTypes DEF Deliver, LinkInv, Addressed, TypeOK
    <2>2. \A x \in ReplyIds, c \in Actors, i \in Nat :
            At(x, "box", c, i)' <=> \/ At(x, "box", c, i)
                                    \/ c = b /\ i = Len(mailbox[b]) + 1 /\ r = x
      BY <1>1, <2>1, PushedBox DEF Deliver
    <2>3. \A x \in ReplyIds, l \in Places \ {"box"}, c \in Actors, i \in Nat :
            At(x, l, c, i)' <=> At(x, l, c, i) /\ ~(l = "send" /\ c = a)
      BY <1>1 DEF Deliver, At, Places, TypeOK
    <2>4. At(r, k, a, 0) /\ Len(mailbox[b]) + 1 \in Nat
      BY <1>1, <2>1 DEF Deliver, At, TypeOK
    <2> QED BY <1>1, <2>1, <2>2, <2>3, <2>4 DEF Places
  <1>2. CASE k = "watch" /\ a \in Roots /\ SendFirstRun(a) /\ b = a /\ r = <<a, 0>>
    <2>1. r \in ReplyIds /\ [op |-> "onHttpRequest", reply |-> r] \in Command
      BY <1>2, ReplyNames, CommandTypes
    <2>2. \A x \in ReplyIds, c \in Actors, i \in Nat :
            At(x, "box", c, i)' <=> \/ At(x, "box", c, i)
                                    \/ c = b /\ i = Len(mailbox[b]) + 1 /\ r = x
      BY <1>2, <2>1, PushedBox DEF SendFirstRun
    <2>3. \A x \in ReplyIds, l \in Places \ {"box"}, c \in Actors, i \in Nat :
            At(x, l, c, i)' <=> At(x, l, c, i) /\ ~(l = "watch" /\ c = a)
      BY <1>2 DEF SendFirstRun, At, Places, TypeOK
    <2>4. At(r, k, a, 0) /\ Len(mailbox[b]) + 1 \in Nat
      BY <1>2 DEF SendFirstRun, At, TypeOK
    <2> QED BY <1>2, <2>1, <2>2, <2>3, <2>4 DEF Places
  <1> QED BY <1>1, <1>2 DEF Sends

\* The end of a run gives up its sending half.
LEMMA FinishedPlaces ==
  ASSUME TypeOK, NEW a \in Actors, NEW result \in {"ok", "err"}, Finish(a, result),
         NEW r \in ReplyIds
  PROVE  \A l \in Places, b \in Actors, i \in Nat :
           At(r, l, b, i)' <=> At(r, l, b, i) /\ ~(l = "job" /\ b = a)
  <1>1. r # NoReply
    BY ReplyNames
  <1> QED BY <1>1 DEF Finish, At, Places, TypeOK

\* Every step of the runtime is one of these.
LEMMA StepKinds ==
  ASSUME Next
  PROVE  \/ Quiet
         \/ \E r : Makes(r)
         \/ \E a \in Actors : \E k, b, r : Sends(a, k, b, r)
         \/ \E a \in Actors : RunHandler(a) \/ RunMissingHandler(a) \/ Terminate(a)
         \/ \E a \in Actors, result \in {"ok", "err"} : Finish(a, result)
  <1>1. ASSUME NEW r \in Roots, RootStep(r)
        PROVE  Quiet \/ (\E x : Makes(x)) \/ \E a \in Actors : \E k, b, x : Sends(a, k, b, x)
    <2>1. r \in Actors
      BY ActorsAssumption
    <2>2. CASE CreateRoot(r)
      <3>1. Makes(<<r, 0>>)
        BY <2>2 DEF Makes
      <3> QED BY <3>1
    <2>3. CASE SendFirstRun(r)
      <3>1. Sends(r, "watch", r, <<r, 0>>)
        BY <2>3 DEF Sends
      <3> QED BY <2>1, <3>1
    <2>4. CASE WatchResponse(r) \/ SendTerminate(r)
      BY <2>4 DEF Quiet
    <2> QED BY <1>1, <2>2, <2>3, <2>4 DEF RootStep
  <1>2. ASSUME NEW a \in Actors, HandlerStep(a)
        PROVE  \/ Quiet \/ (\E x : Makes(x)) \/ (\E k, b, x : Sends(a, k, b, x))
               \/ \E result \in {"ok", "err"} : Finish(a, result)
    <2>1. ASSUME NEW b \in Actors, Request(a, b) PROVE \E x : Makes(x)
      <3>1. Makes(<<a, asked[a] + 1>>)
        BY <2>1 DEF Makes
      <3> QED BY <3>1
    <2>2. CASE Deliver(a)
      <3>1. Sends(a, "send", out[a].to, out[a].cmd.reply)
        BY <2>2 DEF Sends
      <3> QED BY <3>1
    <2> QED BY <1>2, <2>1, <2>2 DEF HandlerStep, Quiet
  <1> QED BY <1>1, <1>2 DEF Next, LoopStep, Quiet

-----------------------------------------------------------------------------
(* The invariant.                                                          *)

\* A settled result is no unused channel: no step makes one unused again.
LEMMA NeverUnusedAgain ==
  ASSUME TypeOK, LinkInv, Next, NEW r \in ReplyIds, chan'[r] = "unused"
  PROVE  chan[r] = "unused"
  <1>1. ASSUME NEW a \in Actors, RunMissingHandler(a) PROVE chan[r] = "unused"
    <2>1. Head(mailbox[a]).reply \in ReplyIds \cup {NoReply}
      BY <1>1, ReceiveType, CommandTypes DEF RunMissingHandler
    <2> QED BY <1>1, <2>1, SettledEffect DEF RunMissingHandler
  <1>2. ASSUME NEW a \in Actors, NEW result \in {"ok", "err"}, Finish(a, result)
        PROVE  chan[r] = "unused"
    <2>1. job[a] \in ReplyIds \cup {NoReply} /\ chan' = Settled(job[a], result)
      BY <1>2 DEF Finish, TypeOK
    <2> QED BY <2>1, SettledEffect
  <1>3. ASSUME NEW a \in Actors, TimeOut(a) PROVE chan[r] = "unused"
    BY <1>3 DEF TimeOut, TypeOK
  <1>4. ASSUME NEW x, Makes(x) PROVE chan[r] = "unused"
    BY <1>4, MadePlaces DEF TypeOK
  <1>5. ASSUME NEW a \in Actors, NEW k, NEW b, NEW x, Sends(a, k, b, x) PROVE chan[r] = "unused"
    BY <1>5 DEF Sends, Deliver, SendFirstRun
  <1>6. CASE Quiet
    BY <1>3, <1>6
    DEF Quiet, WatchResponse, SendTerminate, EndTask, TakeAnswer, SpawnActor, Send,
        SendTerminateTo
  <1>7. ASSUME NEW a \in Actors, RunHandler(a) \/ Terminate(a) PROVE chan[r] = "unused"
    BY <1>7 DEF RunHandler, Terminate
  <1> QED BY <1>1, <1>2, <1>4, <1>5, <1>6, <1>7, StepKinds

\* Only the end of its own send makes a task wait.
LEMMA NewlyWaiting ==
  ASSUME TypeOK, LinkInv, Next, NEW a \in Actors, pc'[a] = "waiting"
  PROVE  /\ out'[a] = out[a]
         /\ pc[a] = "waiting" \/ (Sends(a, "send", out[a].to, out[a].cmd.reply)
                                    /\ out[a].cmd.reply \in ReplyIds)
  <1>1. ASSUME NEW x \in Roots, RootStep(x)
        PROVE  pc[a] = "waiting" /\ out'[a] = out[a]
    BY <1>1 DEF RootStep, CreateRoot, Birth, SendFirstRun, WatchResponse, SendTerminate, TypeOK
  <1>2. ASSUME NEW b \in Actors, LoopStep(b)
        PROVE  pc[a] = "waiting" /\ out'[a] = out[a]
    BY <1>2 DEF LoopStep, RunHandler, RunMissingHandler, Terminate, EndTask, TypeOK
  <1>3. ASSUME NEW b \in Actors, HandlerStep(b)
        PROVE  /\ out'[a] = out[a]
               /\ pc[a] = "waiting" \/ (Sends(a, "send", out[a].to, out[a].cmd.reply)
                                          /\ out[a].cmd.reply \in ReplyIds)
    <2>1. CASE Deliver(b)
      <3>1. out[b].cmd.reply \in ReplyIds \cup {NoReply}
        BY CommandTypes DEF TypeOK
      <3> QED BY <2>1, <3>1 DEF Deliver, Sends, TypeOK
    <2>2. CASE ~Deliver(b)
      BY <1>3, <2>2
      DEF HandlerStep, SpawnActor, Birth, Call, Send, SendTerminateTo, Request, Address,
          TakeAnswer, TimeOut, Finish, TypeOK
    <2> QED BY <2>1, <2>2
  <1> QED BY <1>1, <1>2, <1>3 DEF Next

\* The sending half of what an actor awaits an answer on goes from its own
\* send to the mailbox it addressed, and from there to a run of that actor.
LEMMA AwaitedStep ==
  ASSUME TypeOK, LinkInv, PlaceInv, Next,
         NEW a \in Actors, NEW r \in ReplyIds, r = out[a].cmd.reply, pc'[a] = "waiting"
  PROVE  /\ chan'[r] # "unused"
         /\ \A k \in Places, b \in Actors, i \in Nat :
              At(r, k, b, i)' => k \in {"box", "job"} /\ b = out[a].to
  <1>1. CASE pc[a] = "waiting"
    <2>1. chan[r] # "unused"
      BY <1>1 DEF PlaceInv, AwaitedThere
    <2>2. \A k \in Places, b \in Actors, i \in Nat :
            At(r, k, b, i) => k \in {"box", "job"} /\ b = out[a].to
      BY <1>1 DEF PlaceInv, AwaitedThere
    <2>3. ASSUME NEW k \in Places, NEW b \in Actors, NEW i \in Nat, At(r, k, b, i)'
          PROVE  k \in {"box", "job"} /\ b = out[a].to
      <3>1. CASE Quiet
        BY <2>2, <2>3, <3>1, QuietMovesNothing DEF Unmoved
      <3>2. ASSUME NEW x, Makes(x) PROVE k \in {"box", "job"} /\ b = out[a].to
        BY <2>1, <2>2, <2>3, <3>2, MadePlaces
      <3>3. ASSUME NEW c \in Actors, NEW m, NEW d, NEW x, Sends(c, m, d, x)
            PROVE  k \in {"box", "job"} /\ b = out[a].to
        <4>1. m \in Places /\ m \in {"send", "watch"} /\ At(x, m, c, 0) /\ 0 \in Nat
          BY <3>3, SentPlaces DEF Places
        <4>2. x # r
          BY <2>2, <4>1
        <4>3. At(r, k, b, i)
          BY <2>3, <3>3, <4>2, SentPlaces
        <4> QED BY <2>2, <4>3
      <3>4. ASSUME NEW c \in Actors, RunHandler(c) \/ RunMissingHandler(c) \/ Terminate(c)
            PROVE  k \in {"box", "job"} /\ b = out[a].to
        <4>1. "box" \in Places /\ i + 1 \in Nat /\ 1 \in Nat
          BY DEF Places
        <4>2. CASE k = "box"
          <5>1. At(r, "box", b, i) \/ At(r, "box", b, i + 1)
            BY <2>3, <3>4, <4>2, ReceivedPlaces
          <5> QED BY <2>2, <4>1, <4>2, <5>1
        <4>3. CASE k = "job"
          <5>1. At(r, "job", b, i) \/ At(r, "box", b, 1)
            BY <2>3, <3>4, <4>3, ReceivedPlaces
          <5> QED BY <2>2, <4>1, <4>3, <5>1
        <4>4. CASE k \in {"send", "watch"}
          <5>1. At(r, k, b, i)
            BY <2>3, <3>4, <4>4, ReceivedPlaces
          <5> QED BY <2>2, <5>1
        <4> QED BY <4>2, <4>3, <4>4 DEF Places
      <3>5. ASSUME NEW c \in Actors, NEW result \in {"ok", "err"}, Finish(c, result)
            PROVE  k \in {"box", "job"} /\ b = out[a].to
        BY <2>2, <2>3, <3>5, FinishedPlaces
      <3> QED BY <3>1, <3>2, <3>3, <3>4, <3>5, StepKinds
    <2> QED BY <2>1, <2>3, NeverUnusedAgain
  <1>2. CASE pc[a] # "waiting"
    <2>1. Sends(a, "send", out[a].to, r) /\ "send" \in Places /\ 0 \in Nat
      BY <1>2, NewlyWaiting DEF Places
    <2>2. At(r, "send", a, 0)
      BY <2>1, SentPlaces
    <2>3. chan[r] # "unused"
      BY <2>1, <2>2 DEF PlaceInv, UnusedNowhere
    <2>4. \A k \in Places, b \in Actors, i \in Nat :
            At(r, k, b, i) => k = "send" /\ b = a
      BY <2>1, <2>2 DEF PlaceInv, OnePlace
    <2>5. \A k \in Places, b \in Actors, i \in Nat :
            At(r, k, b, i)' => k = "box" /\ b = out[a].to
      BY <2>1, <2>4, SentPlaces
    <2> QED BY <2>3, <2>5, NeverUnusedAgain
  <1> QED BY <1>1, <1>2

\* Where a sending half is after a step: where it was, or where this step has
\* moved it.
LEMMA PlaceStep ==
  ASSUME TypeOK, LinkInv, PlaceInv, Next
  PROVE  PlaceInv'
  <1>1. ASSUME NEW r \in ReplyIds, chan'[r] = "unused",
               NEW k \in Places, NEW a \in Actors, NEW i \in Nat, At(r, k, a, i)'
        PROVE  FALSE
    <2>1. chan[r] = "unused" /\ \A l \in Places, b \in Actors, j \in Nat : ~At(r, l, b, j)
      BY <1>1, NeverUnusedAgain DEF PlaceInv, UnusedNowhere
    <2>2. CASE Quiet
      BY <1>1, <2>1, <2>2, QuietMovesNothing DEF Unmoved
    <2>3. ASSUME NEW x, Makes(x) PROVE FALSE
      <3>1. x \in ReplyIds /\ chan' = [chan EXCEPT ![x] = "open"]
        BY <2>3, MadePlaces
      <3>2. r # x
        BY <1>1, <3>1 DEF TypeOK
      <3> QED BY <1>1, <2>1, <2>3, <3>2, MadePlaces
    <2>4. ASSUME NEW c \in Actors, NEW m, NEW b, NEW x, Sends(c, m, b, x) PROVE FALSE
      BY <1>1, <2>1, <2>4, SentPlaces DEF Places
    <2>5. ASSUME NEW c \in Actors, RunHandler(c) \/ RunMissingHandler(c) \/ Terminate(c)
          PROVE  FALSE
      <3>1. k = "box" => FALSE
        BY <1>1, <2>1, <2>5, ReceivedPlaces DEF Places
      <3>2. k = "job" => FALSE
        BY <1>1, <2>1, <2>5, ReceivedPlaces DEF Places
      <3>3. k \in {"send", "watch"} => FALSE
        BY <1>1, <2>1, <2>5, ReceivedPlaces DEF Places
      <3> QED BY <3>1, <3>2, <3>3 DEF Places
    <2>6. ASSUME NEW c \in Actors, NEW result \in {"ok", "err"}, Finish(c, result)
          PROVE  FALSE
      BY <1>1, <2>1, <2>6, FinishedPlaces
    <2> QED BY <2>2, <2>3, <2>4, <2>5, <2>6, StepKinds
  <1>2. ASSUME NEW r \in ReplyIds, NEW k \in Places, NEW l \in Places,
               NEW a \in Actors, NEW b \in Actors, NEW i \in Nat, NEW j \in Nat,
               At(r, k, a, i)', At(r, l, b, j)'
        PROVE  k = l /\ a = b /\ i = j
    <2>1. \A m, n \in Places : \A c, d \in Actors : \A g, h \in Nat :
            At(r, m, c, g) /\ At(r, n, d, h) => m = n /\ c = d /\ g = h
      BY DEF PlaceInv, OnePlace
    <2>2. CASE Quiet
      BY <1>2, <2>1, <2>2, QuietMovesNothing DEF Unmoved
    <2>3. ASSUME NEW x, Makes(x) PROVE k = l /\ a = b /\ i = j
      <3>1. CASE r = x
        <4>1. \A m \in Places, c \in Actors, g \in Nat : ~At(r, m, c, g)
          BY <2>3, <3>1, MadePlaces DEF PlaceInv, UnusedNowhere
        <4> QED BY <1>2, <2>3, <4>1, MadePlaces
      <3>2. CASE r # x
        BY <1>2, <2>1, <2>3, <3>2, MadePlaces
      <3> QED BY <3>1, <3>2
    <2>4. ASSUME NEW c \in Actors, NEW m, NEW d, NEW x, Sends(c, m, d, x)
          PROVE  k = l /\ a = b /\ i = j
      BY <1>2, <2>1, <2>4, SentPlaces DEF Places
    <2>5. ASSUME NEW c \in Actors, RunHandler(c) \/ RunMissingHandler(c) \/ Terminate(c)
          PROVE  k = l /\ a = b /\ i = j
      \* The place a sending half was at before the step.
      <3> DEFINE Before(m, d, g) ==
            IF m = "box" /\ d = c THEN g # 0 /\ At(r, "box", c, g + 1)
            ELSE IF m = "job" /\ d = c /\ RunHandler(c) THEN g = 0 /\ At(r, "box", c, 1)
            ELSE At(r, m, d, g)
      <3>1. ASSUME NEW m \in Places, NEW d \in Actors, NEW g \in Nat, At(r, m, d, g)'
            PROVE  Before(m, d, g)
        <4>1. m = "box" => Before(m, d, g)
          BY <2>5, <3>1, ReceivedPlaces
        <4>2. m = "job" => Before(m, d, g)
          BY <2>5, <3>1, ReceivedPlaces
        <4>3. m \in {"send", "watch"} => Before(m, d, g)
          BY <2>5, <3>1, ReceivedPlaces
        <4> QED BY <4>1, <4>2, <4>3 DEF Places
      <3>2. Before(k, a, i) /\ Before(l, b, j)
        BY <1>2, <3>1
      <3>3. "box" \in Places /\ "job" \in Places /\ i + 1 \in Nat /\ j + 1 \in Nat
        BY DEF Places
      <3> QED BY <2>1, <3>2, <3>3
    <2>6. ASSUME NEW c \in Actors, NEW result \in {"ok", "err"}, Finish(c, result)
          PROVE  k = l /\ a = b /\ i = j
      BY <1>2, <2>1, <2>6, FinishedPlaces
    <2> QED BY <2>2, <2>3, <2>4, <2>5, <2>6, StepKinds
  <1>3. ASSUME NEW a \in Actors, pc'[a] = "waiting"
        PROVE  /\ chan'[out'[a].cmd.reply] # "unused"
               /\ \A k \in Places : \A b \in Actors : \A i \in Nat :
                    At(out[a].cmd.reply, k, b, i)' => k \in {"box", "job"} /\ b = out'[a].to
    <2>1. PICK r \in ReplyIds : r = out'[a].cmd.reply
      BY <1>3, NewlyWaiting DEF LinkInv, Addressed
    <2>2. out'[a] = out[a] /\ r = out[a].cmd.reply
      BY <1>3, <2>1, NewlyWaiting
    <2>3. /\ chan'[r] # "unused"
          /\ \A k \in Places, b \in Actors, i \in Nat :
               At(r, k, b, i)' => k \in {"box", "job"} /\ b = out[a].to
      BY <1>3, <2>2, AwaitedStep
    <2> QED BY <2>1, <2>2, <2>3 DEF At
  <1> QED BY <1>1, <1>2, <1>3 DEF PlaceInv, OnePlace, UnusedNowhere, AwaitedThere

\* In every run of the actors a oneshot sender is in one place at most, and the
\* sender that a caller's receiver listens to is with the actor it asked.
THEOREM PlacesAreKept == Spec => []PlaceInv
  <1>1. Init => PlaceInv
    BY ReplyNames
    DEF Init, PlaceInv, OnePlace, UnusedNowhere, AwaitedThere, At, NoOut
  <1>2. PlaceInv /\ UNCHANGED vars => PlaceInv'
    BY DEF vars, PlaceInv, OnePlace, UnusedNowhere, AwaitedThere, At
  <1>3. TypeOK /\ LinkInv /\ PlaceInv /\ [Next]_vars => PlaceInv'
    BY <1>2, PlaceStep
  <1> QED BY <1>1, <1>3, TypeCorrect, LinkInvariant, PTL DEF Spec

\* Whoever waits for an answer (modules/actors.rs request) has its question
\* with the very actor it addressed, queued there or being run by it, and that
\* actor is alive.
THEOREM AskedActorsAnswer == Spec => []AskedActorAnswers
  <1>1. TypeOK /\ LinkInv /\ ReplyInv /\ PlaceInv => AskedActorAnswers
    <2> SUFFICES ASSUME TypeOK, LinkInv, ReplyInv, PlaceInv,
                        NEW a \in Actors, pc[a] = "waiting", chan[out[a].cmd.reply] = "open"
                 PROVE  LET asking == out[a].to IN
                          /\ Alive(asking)
                          /\ \/ /\ job[asking] = out[a].cmd.reply
                                /\ pc[asking] \in {"running", "sending", "waiting"}
                             \/ \E i \in 1..Len(mailbox[asking]) :
                                  mailbox[asking][i].reply = out[a].cmd.reply
      BY DEF AskedActorAnswers
    <2>1. PICK r \in ReplyIds : r = out[a].cmd.reply
      BY DEF LinkInv, Addressed
    <2>2. PICK b \in Actors : b = out[a].to
      BY DEF LinkInv, Addressed
    <2>3. Alive(b)
      BY <2>2 DEF LinkInv, LinksAlive, HasLink
    <2>4. \A k \in Places, c \in Actors, i \in Nat :
            At(r, k, c, i) => k \in {"box", "job"} /\ c = b
      BY <2>1, <2>2 DEF PlaceInv, AwaitedThere
    <2>5. InMailbox(r) \cup InJob(r) \cup InSend(r) \cup InWatcher(r) # {}
      BY <2>1 DEF ReplyInv, NoLostReply
    <2>6. InSend(r) = {} /\ InWatcher(r) = {}
      BY <2>4, ActorsAssumption DEF InSend, InWatcher, At, Places
    <2>7. CASE InMailbox(r) # {}
      <3>1. PICK c \in Actors : \E i \in 1..Len(mailbox[c]) : mailbox[c][i].reply = r
        BY <2>7 DEF InMailbox
      <3>2. PICK i \in 1..Len(mailbox[c]) : mailbox[c][i].reply = r
        BY <3>1
      <3>3. i \in Nat /\ At(r, "box", c, i) /\ "box" \in Places
        BY <3>2 DEF At, Places, TypeOK
      <3>4. c = b
        BY <2>4, <3>3
      <3> QED BY <2>1, <2>2, <2>3, <3>1, <3>4
    <2>8. CASE InJob(r) # {}
      <3>1. PICK c \in Actors : job[c] = r
        BY <2>8 DEF InJob
      <3>2. At(r, "job", c, 0) /\ "job" \in Places
        BY <3>1 DEF At, Places
      <3>3. c = b
        BY <2>4, <3>2
      <3>4. pc[b] # "idle"
        BY <3>1, <3>3, ReplyNames DEF ReplyInv, IdleOwesNothing
      <3> QED BY <2>1, <2>2, <2>3, <3>1, <3>3, <3>4 DEF Alive, TypeOK, PcStates
    <2> QED BY <2>5, <2>6, <2>7, <2>8
  <1> QED BY <1>1, TypeCorrect, LinkInvariant, ReplyInvariant, PlacesAreKept, PTL

-----------------------------------------------------------------------------
(* The refinement.  What RequestReply sees of a request follows from where  *)
(* its sending half is.                                                    *)

Running(r) == \E a \in Actors : At(r, "job", a, 0)

Pending(r) == \E k \in {"box", "send", "watch"} : \E a \in Actors : \E i \in Nat :
                At(r, k, a, i)

RunFrom(r) == IF Running(r) THEN "running"
              ELSE IF Pending(r) THEN "queued"
              ELSE IF chan[r] = "unused" THEN "none" ELSE "done"

RunTells == \A r \in ReplyIds : RunOf(r) = RunFrom(r)

\* The refinement mapping reads the places: a mailbox that still holds a sending
\* half is one that is served.
LEMMA PlacesTell == TypeOK /\ LinkInv => RunTells
  <1> SUFFICES ASSUME TypeOK, LinkInv, NEW r \in ReplyIds PROVE RunOf(r) = RunFrom(r)
    BY DEF RunTells
  <1>1. InJob(r) # {} <=> Running(r)
    BY DEF InJob, Running, At
  <1>2. InMailbox(r) # {} <=> \E a \in Actors : \E i \in Nat : At(r, "box", a, i)
    <2>1. ASSUME NEW a \in Actors, NEW i \in Nat, At(r, "box", a, i) PROVE a \in InMailbox(r)
      <3>1. i \in 1..Len(mailbox[a]) /\ mailbox[a][i].reply = r
        BY <2>1 DEF At
      <3>2. mailbox[a] # <<>>
        BY <3>1
      <3> QED BY <3>1, <3>2 DEF InMailbox, LinkInv, MailboxServed
    <2>2. ASSUME NEW a \in InMailbox(r) PROVE \E i \in Nat : At(r, "box", a, i)
      BY <2>2 DEF InMailbox, At
    <2> QED BY <2>1, <2>2 DEF InMailbox
  <1>3. InSend(r) # {} <=> \E a \in Actors : \E i \in Nat : At(r, "send", a, i)
    BY DEF InSend, At
  <1>4. InWatcher(r) # {} <=> \E a \in Actors : \E i \in Nat : At(r, "watch", a, i)
    BY ActorsAssumption DEF InWatcher, At
  <1>5. Pending(r) <=> InMailbox(r) \cup InSend(r) \cup InWatcher(r) # {}
    BY <1>2, <1>3, <1>4 DEF Pending
  <1> QED BY <1>1, <1>5 DEF RunOf, RunFrom

\* A step that RequestReply does not see x take part in.
Same(x) == RunFrom(x)' = RunFrom(x) /\ CallerOf(x)' = CallerOf(x)

\* A step in which no request takes part stutters.
LEMMA NoneMoves ==
  ASSUME RunTells, RunTells', \A x \in ReplyIds : Same(x)
  PROVE  UNCHANGED Promise!vars
  <1>1. \A x \in ReplyIds : RunOf(x)' = RunOf(x) /\ CallerOf(x)' = CallerOf(x)
    BY DEF RunTells, Same
  <1> QED BY <1>1 DEF Promise!vars

\* A step in which one request takes part changes both maps there.
LEMMA OneMoves ==
  ASSUME RunTells, RunTells', NEW r \in ReplyIds, \A x \in ReplyIds \ {r} : Same(x),
         NEW v, NEW w, RunFrom(r)' = v, CallerOf(r)' = w
  PROVE  /\ [x \in ReplyIds |-> RunOf(x)]' = [[x \in ReplyIds |-> RunOf(x)] EXCEPT ![r] = v]
         /\ [x \in ReplyIds |-> CallerOf(x)]'
              = [[x \in ReplyIds |-> CallerOf(x)] EXCEPT ![r] = w]
  <1>1. \A x \in ReplyIds \ {r} : RunOf(x)' = RunOf(x) /\ CallerOf(x)' = CallerOf(x)
    BY DEF RunTells, Same
  <1>2. RunOf(r)' = v
    BY DEF RunTells
  <1> QED BY <1>1, <1>2

\* What a settled channel tells its caller.
LEMMA SettledTells ==
  ASSUME TypeOK, NEW r \in ReplyIds, NEW result \in {"ok", "err"}, chan' = Settled(r, result),
         chan[r] # "unused"
  PROVE  /\ CallerOf(r)' = IF CallerOf(r) = "waiting" THEN result ELSE CallerOf(r)
         /\ \A x \in ReplyIds \ {r} : chan'[x] = chan[x]
         /\ chan'[r] # "unused"
  BY ReplyNames DEF Settled, CallerOf, TypeOK, ChanStates

\* A quiet step is a stutter, but for a timeout, in which a caller gives up.
LEMMA QuietKeeps ==
  ASSUME TypeOK, LinkInv, RunTells, RunTells', Quiet
  PROVE  Promise!Next \/ UNCHANGED Promise!vars
  <1>1. \A x \in ReplyIds : (Running(x)' <=> Running(x)) /\ (Pending(x)' <=> Pending(x))
    <2> TAKE x \in ReplyIds
    <2>1. Unmoved(x)
      BY QuietMovesNothing
    <2> QED BY <2>1 DEF Unmoved, Running, Pending, Places
  <1>2. CASE chan' = chan
    <2>1. \A x \in ReplyIds : Same(x)
      BY <1>1, <1>2 DEF Same, RunFrom, CallerOf
    <2> QED BY <2>1, NoneMoves
  <1>3. ASSUME NEW a \in Actors, TimeOut(a) PROVE Promise!Next
    <2>1. PICK r \in ReplyIds : r = out[a].cmd.reply
      BY <1>3 DEF TimeOut, LinkInv, Addressed
    <2>2. /\ chan[r] = "open" /\ chan'[r] = "closed"
          /\ \A x \in ReplyIds \ {r} : chan'[x] = chan[x]
      BY <1>3, <2>1 DEF TimeOut, TypeOK
    <2>3. \A x \in ReplyIds \ {r} : Same(x)
      BY <1>1, <2>2 DEF Same, RunFrom, CallerOf
    <2>4. RunFrom(r)' = RunFrom(r) /\ CallerOf(r) = "waiting" /\ CallerOf(r)' = "gaveup"
      BY <1>1, <2>2 DEF RunFrom, CallerOf
    <2>5. /\ [x \in ReplyIds |-> RunOf(x)]'
              = [[x \in ReplyIds |-> RunOf(x)] EXCEPT ![r] = RunFrom(r)]
          /\ [x \in ReplyIds |-> CallerOf(x)]'
              = [[x \in ReplyIds |-> CallerOf(x)] EXCEPT ![r] = "gaveup"]
      BY <2>3, <2>4, OneMoves
    <2>6. Promise!GiveUp(r)
      BY <2>4, <2>5 DEF Promise!GiveUp, RunTells
    <2> QED BY <2>6 DEF Promise!Next
  <1>4. chan' = chan \/ \E a \in Actors : TimeOut(a)
    BY DEF Quiet, WatchResponse, SendTerminate, EndTask, TakeAnswer, SpawnActor, Send,
           SendTerminateTo
  <1> QED BY <1>2, <1>3, <1>4

\* A step that makes a reply channel asks.
LEMMA MakingAsks ==
  ASSUME TypeOK, LinkInv, PlaceInv, RunTells, RunTells', NEW r, Makes(r)
  PROVE  Promise!Next
  <1>1. /\ r \in ReplyIds /\ chan[r] = "unused" /\ chan'[r] = "open"
        /\ \A x \in ReplyIds \ {r} : chan'[x] = chan[x]
    BY MadePlaces DEF TypeOK
  <1>2. PICK k \in {"send", "watch"}, a \in Actors :
          \A x \in ReplyIds, l \in Places, b \in Actors, i \in Nat :
            At(x, l, b, i)' <=> At(x, l, b, i) \/ (x = r /\ l = k /\ b = a /\ i = 0)
    BY MadePlaces
  <1>3. \A l \in Places, b \in Actors, i \in Nat : ~At(r, l, b, i)
    BY <1>1 DEF PlaceInv, UnusedNowhere
  <1>4. RunFrom(r) = "none" /\ CallerOf(r)' = "waiting"
    BY <1>1, <1>3 DEF RunFrom, Running, Pending, CallerOf, Places
  <1>5. RunFrom(r)' = "queued"
    <2>1. ~Running(r)'
      BY <1>1, <1>2, <1>3 DEF Running, Places
    <2>2. Pending(r)'
      BY <1>1, <1>2 DEF Pending, Places
    <2> QED BY <2>1, <2>2 DEF RunFrom
  <1>6. \A x \in ReplyIds \ {r} : Same(x)
    BY <1>1, <1>2 DEF Same, RunFrom, CallerOf, Running, Pending, Places
  <1>7. Promise!Ask(r)
    BY <1>1, <1>4, <1>5, <1>6, OneMoves DEF Promise!Ask, RunTells
  <1> QED BY <1>1, <1>7 DEF Promise!Next

\* A send that completes leaves a request queued.
LEMMA SendingStutters ==
  ASSUME TypeOK, LinkInv, RunTells, RunTells',
         NEW a \in Actors, NEW k, NEW b, NEW r, Sends(a, k, b, r)
  PROVE  UNCHANGED Promise!vars
  <1>1. chan' = chan
    BY DEF Sends, Deliver, SendFirstRun
  <1>2. /\ b \in Actors /\ k \in {"send", "watch"} /\ Len(mailbox[b]) + 1 \in Nat
        /\ At(r, k, a, 0) /\ 0 \in Nat
    BY SentPlaces
  <1>3. \A x \in ReplyIds, l \in Places, c \in Actors, i \in Nat :
          At(x, l, c, i)' <=> \/ At(x, l, c, i) /\ ~(l = k /\ c = a)
                              \/ x = r /\ l = "box" /\ c = b /\ i = Len(mailbox[b]) + 1
    BY SentPlaces
  <1>4. ASSUME NEW x \in ReplyIds PROVE Same(x)
    <2>1. Running(x)' <=> Running(x)
      BY <1>2, <1>3 DEF Running, Places
    <2>2. CASE x = r
      <3>1. Pending(x) /\ Pending(x)'
        BY <1>2, <1>3, <2>2 DEF Pending, Places
      <3> QED BY <1>1, <2>1, <3>1 DEF Same, RunFrom, CallerOf
    <2>3. CASE x # r
      <3>1. \A i \in Nat : ~At(x, k, a, i)
        BY <2>3 DEF At, Sends
      <3>2. Pending(x)' <=> Pending(x)
        BY <1>3, <2>3, <3>1 DEF Pending, Places
      <3> QED BY <1>1, <2>1, <3>2 DEF Same, RunFrom, CallerOf
    <2> QED BY <2>2, <2>3
  <1> QED BY <1>4, NoneMoves

\* Receiving a command concerns the request whose sending half it carries, and
\* no other: that one is queued before, and is run or rejected by the step.
LEMMA ReceivingMoves ==
  ASSUME TypeOK, ReplyInv, PlaceInv,
         NEW a \in Actors, RunHandler(a) \/ RunMissingHandler(a) \/ Terminate(a),
         NEW x \in ReplyIds
  PROVE  /\ Head(mailbox[a]).reply # x => /\ Running(x)' <=> Running(x)
                                          /\ Pending(x)' <=> Pending(x)
         /\ Head(mailbox[a]).reply = x => /\ ~Running(x) /\ Pending(x) /\ ~Pending(x)'
                                          /\ chan[x] # "unused"
                                          /\ Running(x)' <=> RunHandler(a)
  <1>1. /\ Receive(a) /\ 0 \in Nat /\ 1 \in Nat
        /\ "box" \in Places /\ "job" \in Places /\ "send" \in Places /\ "watch" \in Places
    BY DEF RunHandler, RunMissingHandler, Terminate, Places
  <1>2. At(x, "box", a, 1) <=> Head(mailbox[a]).reply = x
    <2>1. 1 \in 1..Len(mailbox[a]) /\ Head(mailbox[a]) = mailbox[a][1]
      BY <1>1, ReceiveType DEF Receive, TypeOK
    <2> QED BY <2>1 DEF At
  <1>3. \A i \in Nat : ~At(x, "job", a, i)
    <2>1. job[a] = NoReply /\ x # NoReply
      BY <1>1, ReplyNames DEF Receive, ReplyInv, IdleOwesNothing
    <2> QED BY <2>1 DEF At
  <1>4. ~At(x, "box", a, 0)
    BY DEF At
  <1>5. \A b \in Actors, i \in Nat :
          At(x, "box", b, i)' <=> IF b = a THEN i # 0 /\ At(x, "box", a, i + 1)
                                           ELSE At(x, "box", b, i)
    BY ReceivedPlaces
  <1>6. \A b \in Actors, i \in Nat :
          At(x, "job", b, i)' <=> IF b = a /\ RunHandler(a) THEN i = 0 /\ At(x, "box", a, 1)
                                                            ELSE At(x, "job", b, i)
    BY ReceivedPlaces
  <1>7. \A k \in {"send", "watch"}, b \in Actors, i \in Nat : At(x, k, b, i)' <=> At(x, k, b, i)
    BY ReceivedPlaces
  <1>8. CASE Head(mailbox[a]).reply # x
    <2>1. Running(x)' <=> Running(x)
      BY <1>2, <1>3, <1>6, <1>8 DEF Running
    <2>2. (\E b \in Actors, i \in Nat : At(x, "box", b, i)')
            <=> \E b \in Actors, i \in Nat : At(x, "box", b, i)
      <3>1. ASSUME NEW b \in Actors, NEW i \in Nat, At(x, "box", b, i)'
            PROVE  \E c \in Actors, j \in Nat : At(x, "box", c, j)
        <4>1. i + 1 \in Nat
          OBVIOUS
        <4> QED BY <1>5, <3>1, <4>1
      <3>2. ASSUME NEW b \in Actors, NEW i \in Nat, At(x, "box", b, i)
            PROVE  \E c \in Actors, j \in Nat : At(x, "box", c, j)'
        <4>1. CASE b # a
          BY <1>5, <3>2, <4>1
        <4>2. CASE b = a
          <5>1. i # 0 /\ i # 1
            BY <1>2, <1>4, <1>8, <3>2, <4>2
          <5>2. PICK j \in Nat : j # 0 /\ i = j + 1
            <6>1. i - 1 \in Nat /\ i - 1 # 0 /\ i = (i - 1) + 1
              BY <5>1
            <6> QED BY <6>1
          <5>3. At(x, "box", b, j)'
            BY <1>5, <3>2, <4>2, <5>2
          <5> QED BY <5>3
        <4> QED BY <4>1, <4>2
      <3> QED BY <3>1, <3>2
    <2>3. Pending(x)' <=> Pending(x)
      BY <1>7, <2>2 DEF Pending
    <2> QED BY <1>8, <2>1, <2>3
  <1>9. CASE Head(mailbox[a]).reply = x
    <2>1. At(x, "box", a, 1)
      BY <1>2, <1>9
    <2>2. \A k \in Places, b \in Actors, i \in Nat :
            At(x, k, b, i) => k = "box" /\ b = a /\ i = 1
      BY <1>1, <2>1 DEF PlaceInv, OnePlace
    <2>3. chan[x] # "unused"
      BY <1>1, <2>1 DEF PlaceInv, UnusedNowhere
    <2>4. Pending(x) /\ ~Running(x)
      BY <1>1, <2>1, <2>2 DEF Pending, Running
    <2>5. Running(x)' <=> RunHandler(a)
      BY <1>1, <1>6, <2>1, <2>2 DEF Running
    <2>6. \A b \in Actors, i \in Nat : ~At(x, "box", b, i)'
      <3>1. \A i \in Nat : i # 0 => i + 1 \in Nat /\ i + 1 # 1
        OBVIOUS
      <3> QED BY <1>1, <1>5, <2>2, <3>1
    <2>7. ~Pending(x)'
      BY <1>1, <1>7, <2>2, <2>6 DEF Pending
    <2> QED BY <1>9, <2>3, <2>4, <2>5, <2>7
  <1> QED BY <1>8, <1>9

\* What the loop does with a command is what RequestReply lets a request do.
LEMMA ReceivingImplements ==
  ASSUME TypeOK, ReplyInv, PlaceInv, RunTells, RunTells',
         NEW a \in Actors, RunHandler(a) \/ RunMissingHandler(a) \/ Terminate(a)
  PROVE  Promise!Next \/ UNCHANGED Promise!vars
  <1>1. Receive(a)
    BY DEF RunHandler, RunMissingHandler, Terminate
  <1>2. Head(mailbox[a]) \in Command
    BY <1>1, ReceiveType
  <1>3. PICK r \in ReplyIds \cup {NoReply} : r = Head(mailbox[a]).reply
    BY <1>2, CommandTypes
  <1>4. \A x \in ReplyIds \ {r} : (Running(x)' <=> Running(x)) /\ (Pending(x)' <=> Pending(x))
    BY <1>3, ReceivingMoves
  <1>5. \A x \in ReplyIds \ {r} : chan'[x] = chan[x]
    BY <1>3, SettledEffect DEF RunHandler, RunMissingHandler, Terminate
  <1>6. \A x \in ReplyIds \ {r} : Same(x)
    BY <1>4, <1>5 DEF Same, RunFrom, CallerOf
  <1>7. CASE r = NoReply
    <2>1. \A x \in ReplyIds : Same(x)
      BY <1>6, <1>7, ReplyNames
    <2> QED BY <2>1, NoneMoves
  <1>8. CASE r \in ReplyIds
    <2>1. ~Running(r) /\ Pending(r) /\ ~Pending(r)' /\ chan[r] # "unused" /\
          (Running(r)' <=> RunHandler(a))
      BY <1>3, <1>8, ReceivingMoves
    <2>2. RunOf(r) = "queued"
      BY <1>8, <2>1 DEF RunFrom, RunTells
    <2>3. CASE RunHandler(a)
      <3>1. RunFrom(r)' = "running" /\ CallerOf(r)' = CallerOf(r)
        BY <2>1, <2>3 DEF RunFrom, CallerOf, RunHandler
      <3>2. /\ [x \in ReplyIds |-> RunOf(x)]'
                = [[x \in ReplyIds |-> RunOf(x)] EXCEPT ![r] = "running"]
            /\ [x \in ReplyIds |-> CallerOf(x)]'
                = [[x \in ReplyIds |-> CallerOf(x)] EXCEPT ![r] = CallerOf(r)]
        BY <1>6, <1>8, <3>1, OneMoves
      <3>3. Promise!Start(r)
        BY <1>8, <2>2, <3>2 DEF Promise!Start
      <3> QED BY <1>8, <3>3 DEF Promise!Next
    <2>4. CASE RunMissingHandler(a)
      <3>1. chan' = Settled(r, "err")
        BY <1>3, <2>4 DEF RunMissingHandler
      <3>2. /\ CallerOf(r)' = IF CallerOf(r) = "waiting" THEN "err" ELSE CallerOf(r)
            /\ chan'[r] # "unused"
        BY <1>8, <2>1, <3>1, SettledTells
      <3>3. ~RunHandler(a)
        BY <2>4 DEF RunMissingHandler, RunHandler
      <3>4. RunFrom(r)' = "done"
        BY <2>1, <3>2, <3>3 DEF RunFrom
      <3>5. /\ [x \in ReplyIds |-> RunOf(x)]'
                = [[x \in ReplyIds |-> RunOf(x)] EXCEPT ![r] = "done"]
            /\ [x \in ReplyIds |-> CallerOf(x)]'
                = [[x \in ReplyIds |-> CallerOf(x)] EXCEPT ![r] =
                     IF CallerOf(r) = "waiting" THEN "err" ELSE CallerOf(r)]
        BY <1>6, <1>8, <3>2, <3>4, OneMoves
      <3>6. Promise!Reject(r)
        BY <1>8, <2>2, <3>5 DEF Promise!Reject, Promise!Told
      <3> QED BY <1>8, <3>6 DEF Promise!Next
    <2>5. CASE Terminate(a)
      BY <1>2, <1>3, <1>8, <2>5, CommandTypes, ReplyNames DEF Terminate
    <2> QED BY <2>3, <2>4, <2>5
  <1> QED BY <1>7, <1>8

\* The end of a run is the end of the request it was for.
LEMMA FinishingImplements ==
  ASSUME TypeOK, PlaceInv, RunTells, RunTells',
         NEW a \in Actors, NEW result \in {"ok", "err"}, Finish(a, result)
  PROVE  Promise!Next \/ UNCHANGED Promise!vars
  <1>1. PICK r \in ReplyIds \cup {NoReply} : r = job[a]
    BY DEF TypeOK
  <1>2. chan' = Settled(r, result)
    BY <1>1 DEF Finish
  <1>3. ASSUME NEW x \in ReplyIds \ {r} PROVE Same(x)
    <2>1. chan'[x] = chan[x]
      BY <1>2, SettledEffect
    <2>2. \A i \in Nat : ~At(x, "job", a, i)
      BY <1>1 DEF At
    <2>3. (Running(x)' <=> Running(x)) /\ (Pending(x)' <=> Pending(x))
      BY <2>2, FinishedPlaces DEF Running, Pending, Places
    <2> QED BY <2>1, <2>3 DEF Same, RunFrom, CallerOf
  <1>4. CASE r = NoReply
    <2>1. \A x \in ReplyIds : Same(x)
      BY <1>3, <1>4, ReplyNames
    <2> QED BY <2>1, NoneMoves
  <1>5. CASE r \in ReplyIds
    <2>1. At(r, "job", a, 0) /\ 0 \in Nat /\ "job" \in Places
      BY <1>1 DEF At, Places
    <2>2. \A k \in Places, b \in Actors, i \in Nat : At(r, k, b, i) => k = "job" /\ b = a
      BY <1>5, <2>1 DEF PlaceInv, OnePlace
    <2>3. chan[r] # "unused"
      BY <1>5, <2>1 DEF PlaceInv, UnusedNowhere
    <2>4. /\ CallerOf(r)' = IF CallerOf(r) = "waiting" THEN result ELSE CallerOf(r)
          /\ chan'[r] # "unused"
      BY <1>2, <1>5, <2>3, SettledTells
    <2>5. RunOf(r) = "running"
      BY <1>5, <2>1 DEF RunTells, RunFrom, Running
    <2>6. \A k \in Places, b \in Actors, i \in Nat : ~At(r, k, b, i)'
      BY <1>5, <2>2, FinishedPlaces
    <2>7. RunFrom(r)' = "done"
      BY <2>4, <2>6 DEF RunFrom, Running, Pending, Places
    <2>8. /\ [x \in ReplyIds |-> RunOf(x)]'
              = [[x \in ReplyIds |-> RunOf(x)] EXCEPT ![r] = "done"]
          /\ [x \in ReplyIds |-> CallerOf(x)]'
              = [[x \in ReplyIds |-> CallerOf(x)] EXCEPT ![r] =
                   IF CallerOf(r) = "waiting" THEN result ELSE CallerOf(r)]
      BY <1>3, <1>5, <2>4, <2>7, OneMoves
    <2>9. Promise!Complete(r, result)
      BY <1>5, <2>5, <2>8 DEF Promise!Complete, Promise!Told
    <2> QED BY <1>5, <2>9 DEF Promise!Next
  <1> QED BY <1>4, <1>5

\* The actor runtime (actor.rs, modules/actors.rs) keeps the promise of
\* RequestReply: a Run that carries a oneshot sender is taken up at most once,
\* and its caller learns the result of that very run, or gives up.
THEOREM PromiseKept == Spec => KeepsPromise
  <1>1. Init => Promise!Init
    <2> SUFFICES ASSUME Init PROVE Promise!Init
      OBVIOUS
    <2>1. \A r \in ReplyIds : RunOf(r) = "none" /\ CallerOf(r) = "none"
      BY ReplyNames
      DEF Init, RunOf, CallerOf, InJob, InMailbox, InSend, InWatcher, Alive
    <2> QED BY <2>1 DEF Promise!Init
  <1>2. TypeOK /\ LinkInv /\ ReplyInv /\ PlaceInv /\ RunTells /\ RunTells' /\ [Next]_vars
          => [Promise!Next]_(Promise!vars)
    <2> SUFFICES ASSUME TypeOK, LinkInv, ReplyInv, PlaceInv, RunTells, RunTells', [Next]_vars
                 PROVE  Promise!Next \/ UNCHANGED Promise!vars
      OBVIOUS
    <2>1. CASE UNCHANGED vars
      BY <2>1 DEF vars, Promise!vars, RunOf, CallerOf, InJob, InMailbox, InSend, InWatcher, Alive
    <2>2. CASE Next
      BY <2>2, StepKinds, QuietKeeps, MakingAsks, SendingStutters, ReceivingImplements,
         FinishingImplements
    <2> QED BY <2>1, <2>2
  <1> QED BY <1>1, <1>2, PlacesTell, TypeCorrect, LinkInvariant, ReplyInvariant, PlacesAreKept,
             PTL
          DEF Spec, KeepsPromise, Promise!Spec
=============================================================================
