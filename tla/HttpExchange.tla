---------------------------- MODULE HttpExchange ----------------------------
(***************************************************************************)
(* One HTTP request and the actor made for it: handle_request and           *)
(* handle_websocket in src/turbofuro_worker/src/worker.rs, the native        *)
(* functions that answer a request (modules/http_server/mod.rs and          *)
(* modules/websocket_server.rs of the runtime) and the actor's loop.        *)
(*                                                                         *)
(* The actor's resources hold the sending half of the response channel; its *)
(* handler sends a plain response, a WebSocket acceptance or an event       *)
(* stream on it and waits for the HTTP side to confirm.  The HTTP side is a  *)
(* future that may be dropped while it waits, by the TimeoutLayer or because *)
(* the client is gone.                                                     *)
(***************************************************************************)
EXTENDS Naturals, Sequences

CONSTANTS
  Capacity,     \* mpsc::channel::<ActorCommand>(16)
  MaxMessages,  \* bound: messages the WebSocket peer sends
  MaxSteps      \* bound: native calls of the handlers

ASSUME ExchangeAssumption ==
  /\ Capacity \in Nat \ {0}
  /\ MaxMessages \in Nat
  /\ MaxSteps \in Nat

SocketHandlers == {"onWebSocketConnection", "onWebSocketMessage", "onWebSocketDisconnection"}

VARIABLES
  http,        \* the future of handle_request
  answer,      \* what the client got
  upgradable,  \* the request has the upgrade headers
  slot,        \* the response channel: what was sent and not yet taken
  confirm,     \* the responder of that response
  held,        \* what the actor's resources hold: "request", "socket", "stream"
  hpc,         \* the actor's task
  cur,         \* the handler it runs
  mailbox,     \* the commands queued for it
  registered,  \* it has an entry in the registry
  watch,       \* spawn_ok_or_terminate
  report,      \* the channel of the onHttpRequest run
  socket,      \* handle_websocket
  peerOpen,    \* the WebSocket peer has not closed
  received,    \* messages it sent
  stream,      \* the event stream's body and its disconnect task
  steps        \* native calls made

vars == <<http, answer, upgradable, slot, confirm, held, hpc, cur, mailbox, registered,
          watch, report, socket, peerOpen, received, stream, steps>>
worker == <<http, answer, upgradable, watch, socket, peerOpen, received, stream>>

Init ==
  /\ http = "none" /\ answer = "none" /\ upgradable \in BOOLEAN
  /\ slot = "empty" /\ confirm = "none"
  /\ held = {} /\ hpc = "unborn" /\ cur = "onHttpRequest" /\ mailbox = <<>>
  /\ registered = FALSE
  /\ watch = "none" /\ report = "none"
  /\ socket = "none" /\ peerOpen = FALSE /\ received = 0
  /\ stream = "none" /\ steps = 0

HasRoom == Len(mailbox) < Capacity
Push(c) == HasRoom /\ mailbox' = Append(mailbox, c)

-----------------------------------------------------------------------------
(* handle_request.                                                         *)

Begin ==
  /\ http = "none"
  /\ http' = "waiting"
  /\ hpc' = "idle"
  /\ held' = {"request"}
  /\ registered' = TRUE
  /\ Push("onHttpRequest")
  /\ watch' = "watching"
  /\ UNCHANGED <<answer, upgradable, slot, confirm, cur, report, socket, peerOpen,
                 received, stream, steps>>

\* The response is taken off the channel and confirmed; what is left to do is
\* in http', answer', socket' and stream'.
Take(kind) ==
  /\ http = "waiting"
  /\ slot = kind
  /\ slot' = "empty"
  /\ UNCHANGED <<upgradable, held, hpc, cur, mailbox, registered, watch, report,
                 received, steps>>

TakeResponse ==
  /\ Take("normal")
  /\ confirm' = "ok"
  /\ http' = "terminating"
  /\ UNCHANGED <<answer, socket, peerOpen, stream>>

FinishResponse ==
  /\ http = "terminating"
  /\ Push("Terminate")
  /\ http' = "done"
  /\ answer' = "response"
  /\ UNCHANGED <<upgradable, slot, confirm, held, hpc, cur, registered, watch, report,
                 socket, peerOpen, received, stream, steps>>

TakeWebSocket ==
  /\ Take("ws")
  /\ http' = "done"
  /\ confirm' = IF upgradable THEN "ok" ELSE "err"
  /\ answer' = IF upgradable THEN "upgrade" ELSE "500"
  /\ socket' = IF upgradable THEN "upgrading" ELSE socket
  /\ UNCHANGED <<peerOpen, stream>>

TakeStream ==
  /\ Take("sse")
  /\ confirm' = "ok"
  /\ http' = "done"
  /\ answer' = "stream"
  /\ stream' = "open"
  /\ UNCHANGED <<socket, peerOpen>>

\* The sending half of the response channel is gone: 500.
SenderDropped ==
  /\ http = "waiting"
  /\ slot = "empty"
  /\ "request" \notin held
  /\ http' = "done"
  /\ answer' = "500"
  /\ UNCHANGED <<upgradable, slot, confirm, held, hpc, cur, mailbox, registered, watch,
                 report, socket, peerOpen, received, stream, steps>>

\* Mutation of DropRequest: the response in the channel outlives the future.
DropRequestOnly ==
  /\ http \in {"waiting", "terminating"}
  /\ http' = "done"
  /\ answer' = "dropped"
  /\ UNCHANGED <<upgradable, slot, confirm, held, hpc, cur, mailbox, registered, watch,
                 report, socket, peerOpen, received, stream, steps>>

\* The TimeoutLayer or the client drops the future, with what is in the channel.
DropRequest ==
  /\ http \in {"waiting", "terminating"}
  /\ http' = "done"
  /\ answer' = "dropped"
  /\ slot' = "empty"
  /\ confirm' = IF slot = "empty" THEN confirm ELSE "lost"
  /\ stream' = IF slot = "sse" THEN "over" ELSE stream
  /\ UNCHANGED <<upgradable, held, hpc, cur, mailbox, registered, watch, report, socket,
                 peerOpen, received, steps>>

\* Mutation of WatchReport: an error is only logged.
WatchReportOnly ==
  /\ watch = "watching"
  /\ report # "none"
  /\ watch' = "done"
  /\ UNCHANGED <<http, answer, upgradable, slot, confirm, held, hpc, cur, mailbox,
                 registered, report, socket, peerOpen, received, stream, steps>>

\* spawn_ok_or_terminate.
WatchReport ==
  /\ watch = "watching"
  /\ report # "none"
  /\ watch' = IF report = "ok" THEN "done" ELSE "terminating"
  /\ UNCHANGED <<http, answer, upgradable, slot, confirm, held, hpc, cur, mailbox,
                 registered, report, socket, peerOpen, received, stream, steps>>

TerminateFailed ==
  /\ watch = "terminating"
  /\ Push("Terminate")
  /\ watch' = "done"
  /\ UNCHANGED <<http, answer, upgradable, slot, confirm, held, hpc, cur, registered,
                 report, socket, peerOpen, received, stream, steps>>

-----------------------------------------------------------------------------
(* handle_websocket, once the connection was upgraded.                     *)

Upgrade ==
  /\ socket = "upgrading"
  /\ socket' = "handover"
  /\ peerOpen' = TRUE
  /\ UNCHANGED <<http, answer, upgradable, slot, confirm, held, hpc, cur, mailbox,
                 registered, watch, report, received, stream, steps>>

\* The client is gone before the upgrade: the callback is never called.
UpgradeFails ==
  /\ socket = "upgrading"
  /\ socket' = "gone"
  /\ UNCHANGED <<http, answer, upgradable, slot, confirm, held, hpc, cur, mailbox,
                 registered, watch, report, peerOpen, received, stream, steps>>

SocketSend(from, c, to) ==
  /\ socket = from
  /\ Push(c)
  /\ socket' = to
  /\ UNCHANGED <<http, answer, upgradable, slot, confirm, held, hpc, cur, registered,
                 watch, report, stream, steps>>

HandOver == SocketSend("handover", "TakeResources", "connected")
            /\ UNCHANGED <<peerOpen, received>>
Connected == SocketSend("connected", "onWebSocketConnection", "reading")
             /\ UNCHANGED <<peerOpen, received>>

ReadMessage ==
  /\ peerOpen
  /\ received < MaxMessages
  /\ received' = received + 1
  /\ SocketSend("reading", "onWebSocketMessage", "reading")
  /\ UNCHANGED peerOpen

\* A close frame or a read error; then the stream of messages ends.
ReadClose ==
  /\ peerOpen
  /\ peerOpen' = FALSE
  /\ SocketSend("reading", "onWebSocketDisconnection", "closing")
  /\ UNCHANGED received

CloseSocket == SocketSend("closing", "Terminate", "gone")
               /\ UNCHANGED <<peerOpen, received>>

-----------------------------------------------------------------------------
(* The event stream's body, and the task that waits for its end.           *)

EndStream ==
  /\ stream = "open"
  /\ stream' = "ended"
  /\ UNCHANGED <<http, answer, upgradable, slot, confirm, held, hpc, cur, mailbox,
                 registered, watch, report, socket, peerOpen, received, steps>>

\* The disconnect task looks the actor up and clones its link.
FindStreamActor ==
  /\ stream = "ended"
  /\ stream' = IF registered THEN "terminating" ELSE "over"
  /\ UNCHANGED <<http, answer, upgradable, slot, confirm, held, hpc, cur, mailbox,
                 registered, watch, report, socket, peerOpen, received, steps>>

TerminateStream ==
  /\ stream = "terminating"
  /\ Push("Terminate")
  /\ stream' = "over"
  /\ UNCHANGED <<http, answer, upgradable, slot, confirm, held, hpc, cur, registered,
                 watch, report, socket, peerOpen, received, steps>>

-----------------------------------------------------------------------------
(* The actor.                                                              *)

Receive ==
  /\ hpc = "idle"
  /\ mailbox # <<>>
  /\ mailbox' = Tail(mailbox)
  /\ UNCHANGED worker

RunHandler ==
  /\ Receive
  /\ Head(mailbox) \in SocketHandlers \cup {"onHttpRequest"}
  /\ hpc' = "running"
  /\ cur' = Head(mailbox)
  /\ UNCHANGED <<slot, confirm, held, registered, report, steps>>

TakeResources ==
  /\ Receive
  /\ Head(mailbox) = "TakeResources"
  /\ held' = held \cup {"socket"}
  /\ UNCHANGED <<slot, confirm, hpc, cur, registered, report, steps>>

\* Mutation of Terminate: the resources are kept.
TerminateOnly ==
  /\ hpc = "idle"
  /\ mailbox # <<>> /\ Head(mailbox) = "Terminate"
  /\ mailbox' = Tail(mailbox)
  /\ registered' = FALSE
  /\ UNCHANGED <<http, answer, upgradable, slot, confirm, held, hpc, cur, watch, report,
                 socket, peerOpen, received, stream, steps>>

\* What the resources held is dropped, and with its sender an event stream ends.
Terminate ==
  /\ hpc = "idle"
  /\ mailbox # <<>> /\ Head(mailbox) = "Terminate"
  /\ mailbox' = Tail(mailbox)
  /\ held' = {}
  /\ stream' = IF "stream" \in held /\ stream = "open" THEN "ended" ELSE stream
  /\ registered' = FALSE
  /\ UNCHANGED <<http, answer, upgradable, slot, confirm, hpc, cur, watch, report, socket,
                 peerOpen, received, steps>>

HasLink ==
  \/ registered
  \/ http \in {"waiting", "terminating"}
  \/ watch \in {"watching", "terminating"}
  \/ socket \notin {"none", "gone"}
  \/ stream = "terminating"

\* The task ends, and drops what terminated actors were still handed.
EndTask ==
  /\ hpc = "idle"
  /\ mailbox = <<>>
  /\ ~HasLink
  /\ hpc' = "ended"
  /\ held' = {}
  /\ UNCHANGED <<worker, slot, confirm, cur, mailbox, registered, report, steps>>

Call ==
  /\ hpc = "running"
  /\ steps < MaxSteps
  /\ steps' = steps + 1

\* The request is popped, then the response is built, which may fail, then
\* sent: to nobody when the HTTP future is gone.
Respond(kind) ==
  /\ Call
  /\ "request" \in held
  /\ held' = (held \ {"request"})
               \cup (IF kind = "sse" /\ http = "waiting" THEN {"stream"} ELSE {})
  /\ IF http = "waiting"
     THEN slot' = kind /\ confirm' = "waiting" /\ hpc' = "confirming"
     ELSE UNCHANGED <<slot, confirm, hpc>>
  /\ UNCHANGED <<worker, cur, mailbox, registered, report>>

RespondWith == Respond("normal")
AcceptWs == Respond("ws")
RespondWithSseStream == Respond("sse")

\* respond_with: the headers, the cookies or the body are refused.
FailToBuild ==
  /\ Call
  /\ "request" \in held
  /\ held' = held \ {"request"}
  /\ UNCHANGED <<worker, slot, confirm, hpc, cur, mailbox, registered, report>>

\* receiver.await: Ok, the HTTP side's error, or the responder was dropped.
Confirmed ==
  /\ hpc = "confirming"
  /\ confirm # "waiting"
  /\ hpc' = "running"
  /\ UNCHANGED <<worker, slot, confirm, held, cur, mailbox, registered, report, steps>>

\* send_message and close_websocket hand a command to the writer task and wait
\* for its responder; closing pops the socket and the peer answers the close.
WriteSocket(close) ==
  /\ Call
  /\ "socket" \in held
  /\ held' = IF close THEN held \ {"socket"} ELSE held
  /\ hpc' = "writing"
  /\ UNCHANGED <<worker, slot, confirm, cur, mailbox, registered, report>>

\* send_sse: waits for room in the channel of the stream's body.
SendSse ==
  /\ Call
  /\ "stream" \in held
  /\ hpc' = "writing"
  /\ UNCHANGED <<worker, slot, confirm, held, cur, mailbox, registered, report>>

\* The writer task answers, or the body takes the event; with an error when
\* the peer is gone.
Written ==
  /\ hpc = "writing"
  /\ hpc' = "running"
  /\ UNCHANGED <<worker, slot, confirm, held, cur, mailbox, registered, report, steps>>

CloseStream ==
  /\ Call
  /\ "stream" \in held
  /\ held' = held \ {"stream"}
  /\ stream' = IF stream = "open" THEN "ended" ELSE stream
  /\ UNCHANGED <<http, answer, upgradable, slot, confirm, hpc, cur, mailbox, registered,
                 watch, report, socket, peerOpen, received>>

\* Only the onHttpRequest run carries a reply channel.
Finish(result) ==
  /\ hpc = "running"
  /\ hpc' = "idle"
  /\ report' = IF cur = "onHttpRequest" THEN result ELSE report
  /\ UNCHANGED <<worker, slot, confirm, held, cur, mailbox, registered, steps>>

-----------------------------------------------------------------------------
HttpStep == \/ Begin \/ TakeResponse \/ FinishResponse \/ TakeWebSocket \/ TakeStream
            \/ SenderDropped \/ DropRequest
WatchStep == WatchReport \/ TerminateFailed
SocketStep == \/ Upgrade \/ UpgradeFails \/ HandOver \/ Connected
              \/ ReadMessage \/ ReadClose \/ CloseSocket
StreamStep == EndStream \/ FindStreamActor \/ TerminateStream
LoopStep == RunHandler \/ TakeResources \/ Terminate \/ EndTask
HandlerStep == \/ RespondWith \/ AcceptWs \/ RespondWithSseStream \/ FailToBuild
               \/ Confirmed
               \/ \E close \in BOOLEAN : WriteSocket(close)
               \/ SendSse \/ Written \/ CloseStream
               \/ \E result \in {"ok", "err"} : Finish(result)

Next == HttpStep \/ WatchStep \/ SocketStep \/ StreamStep \/ LoopStep \/ HandlerStep

Spec == Init /\ [][Next]_vars

\* tokio runs every ready task, a handler body ends, and what is written to a
\* client is read by it in the end or refused; the client need not send
\* anything, close its socket or keep its stream open.
Fairness ==
  /\ WF_vars(TakeResponse \/ TakeWebSocket \/ TakeStream \/ SenderDropped)
  /\ SF_vars(FinishResponse)
  /\ WF_vars(WatchReport) /\ SF_vars(TerminateFailed)
  /\ WF_vars(Upgrade \/ UpgradeFails)
  /\ SF_vars(HandOver) /\ SF_vars(Connected) /\ SF_vars(CloseSocket)
  /\ WF_vars(FindStreamActor) /\ SF_vars(TerminateStream)
  /\ WF_vars(LoopStep)
  /\ WF_vars(Confirmed) /\ WF_vars(Written)
  /\ WF_vars(\E result \in {"ok", "err"} : Finish(result))

FairSpec == Spec /\ Fairness

-----------------------------------------------------------------------------
(* Properties.                                                             *)

\* A handler that waits for the confirmation of its response waits for an
\* HTTP side that is there to take it: a dropped request wakes it up.
ConfirmationComes ==
  hpc = "confirming" /\ confirm = "waiting" => http = "waiting" /\ slot # "empty"

\* "Worker is now throwing 500 errors immediately when actor fails to run to
\* response to HTTP request" (CHANGELOG.md): also when no timeout comes to help.
FailedIsAnswered == report = "err" ~> http = "done"

\* No actor is left behind: it leaves the registry when its handler has failed,
\* whatever became of the request; when its plain response was taken, unless
\* the request is dropped before it could be told to; when its WebSocket is
\* closed, or its event stream ended.  Then its task ends, once its peer has
\* closed the socket.
ActorReclaimed ==
  /\ report = "err" ~> ~registered
  /\ http = "terminating" ~> ~registered \/ answer = "dropped"
  /\ socket = "closing" \/ stream = "ended" ~> ~registered
  /\ hpc # "unborn" /\ ~registered /\ socket \in {"none", "gone"} ~> hpc = "ended"
=============================================================================
