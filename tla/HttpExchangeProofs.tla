-------------------------- MODULE HttpExchangeProofs --------------------------
(***************************************************************************)
(* Theorems about HttpExchange, for every mailbox capacity and bound.       *)
(***************************************************************************)
EXTENDS HttpExchange, TLAPS

Commands == SocketHandlers \cup {"onHttpRequest", "TakeResources", "Terminate"}

TypeOK ==
  /\ http \in {"none", "waiting", "terminating", "done"}
  /\ slot \in {"empty", "normal", "ws", "sse"}
  /\ confirm \in {"none", "waiting", "ok", "err", "lost"}
  /\ held \subseteq {"request", "socket", "stream"}
  /\ hpc \in {"unborn", "idle", "running", "confirming", "writing", "ended"}
  /\ mailbox \in Seq(Commands)
  /\ registered \in BOOLEAN
  /\ watch \in {"none", "watching", "terminating", "done"}
  /\ socket \in {"none", "upgrading", "handover", "connected", "reading", "closing", "gone"}
  /\ stream \in {"none", "open", "ended", "terminating", "over"}

\* Every step leaves the mailbox alone, queues a command or takes the first.
LEMMA MailboxStep ==
  ASSUME TypeOK, [Next]_vars
  PROVE  mailbox' \in Seq(Commands)
  <1>1. ASSUME NEW c \in Commands, Push(c) PROVE mailbox' \in Seq(Commands)
    BY <1>1 DEF Push, TypeOK
  <1>2. ASSUME mailbox # <<>>, mailbox' = Tail(mailbox) PROVE mailbox' \in Seq(Commands)
    BY <1>2 DEF TypeOK
  <1>3. ASSUME UNCHANGED mailbox PROVE mailbox' \in Seq(Commands)
    BY <1>3 DEF TypeOK
  <1>4. /\ "onHttpRequest" \in Commands /\ "Terminate" \in Commands
        /\ "TakeResources" \in Commands /\ "onWebSocketConnection" \in Commands
        /\ "onWebSocketMessage" \in Commands /\ "onWebSocketDisconnection" \in Commands
    BY DEF Commands, SocketHandlers
  <1>5. CASE HttpStep \/ WatchStep
    BY <1>1, <1>3, <1>4, <1>5
    DEF HttpStep, Begin, TakeResponse, FinishResponse, TakeWebSocket, TakeStream, Take,
        SenderDropped, DropRequest, WatchStep, WatchReport, TerminateFailed
  <1>6. CASE SocketStep
    BY <1>1, <1>3, <1>4, <1>6
    DEF SocketStep, Upgrade, UpgradeFails, HandOver, Connected, ReadMessage, ReadClose,
        CloseSocket, SocketSend
  <1>7. CASE StreamStep
    BY <1>1, <1>3, <1>4, <1>7 DEF StreamStep, EndStream, FindStreamActor, TerminateStream
  <1>8. CASE LoopStep
    BY <1>2, <1>3, <1>8
    DEF LoopStep, RunHandler, TakeResources, Terminate, EndTask, Receive
  <1>9. CASE HandlerStep
    BY <1>3, <1>9
    DEF HandlerStep, RespondWith, AcceptWs, RespondWithSseStream, Respond, FailToBuild,
        Confirmed, WriteSocket, SendSse, Written, CloseStream, Finish
  <1> QED BY <1>3, <1>5, <1>6, <1>7, <1>8, <1>9 DEF Next, vars

\* Every state of a request and its actor is well typed (worker.rs
\* handle_request and handle_websocket, actor.rs activate_actor).
THEOREM TypeCorrect == Spec => []TypeOK
  <1>1. Init => TypeOK
    <2> SUFFICES ASSUME Init PROVE TypeOK
      OBVIOUS
    <2>1. registered \in BOOLEAN
      BY Zenon DEF Init
    <2>2. mailbox \in Seq(Commands)
      BY DEF Init
    <2> QED BY <2>1, <2>2 DEF Init, TypeOK
  <1>2. TypeOK /\ [Next]_vars => TypeOK'
    <2> SUFFICES ASSUME TypeOK, [Next]_vars PROVE TypeOK'
      OBVIOUS
    <2> mailbox' \in Seq(Commands)
      BY MailboxStep
    <2> USE DEF TypeOK
    <2>1. CASE Begin
      BY <2>1 DEF Begin
    <2>2. CASE TakeResponse
      BY <2>2 DEF TakeResponse, Take
    <2>3. CASE FinishResponse
      BY <2>3 DEF FinishResponse
    <2>4. CASE TakeWebSocket
      BY <2>4 DEF TakeWebSocket, Take
    <2>5. CASE TakeStream
      BY <2>5 DEF TakeStream, Take
    <2>6. CASE SenderDropped
      BY <2>6 DEF SenderDropped
    <2>7. CASE DropRequest
      BY <2>7 DEF DropRequest
    <2>8. CASE WatchReport
      BY <2>8 DEF WatchReport
    <2>9. CASE TerminateFailed
      BY <2>9 DEF TerminateFailed
    <2>10. CASE Upgrade
      BY <2>10 DEF Upgrade
    <2>11. CASE UpgradeFails
      BY <2>11 DEF UpgradeFails
    <2>12. CASE HandOver \/ Connected \/ ReadMessage \/ ReadClose \/ CloseSocket
      BY <2>12 DEF HandOver, Connected, ReadMessage, ReadClose, CloseSocket, SocketSend
    <2>13. CASE EndStream
      BY <2>13 DEF EndStream
    <2>14. CASE FindStreamActor
      BY <2>14 DEF FindStreamActor
    <2>15. CASE TerminateStream
      BY <2>15 DEF TerminateStream
    <2>16. CASE RunHandler
      BY <2>16 DEF RunHandler, Receive, worker
    <2>17. CASE TakeResources
      BY <2>17 DEF TakeResources, Receive, worker
    <2>18. CASE Terminate
      BY <2>18 DEF Terminate
    <2>19. CASE EndTask
      BY <2>19 DEF EndTask, worker
    <2>20. CASE FailToBuild
      BY <2>20 DEF FailToBuild, Call, worker
    <2>21. CASE Confirmed
      BY <2>21 DEF Confirmed, worker
    <2>22. CASE SendSse
      BY <2>22 DEF SendSse, Call, worker
    <2>23. CASE Written
      BY <2>23 DEF Written, worker
    <2>24. CASE CloseStream
      BY <2>24 DEF CloseStream, Call, worker
    <2>25. ASSUME NEW kind \in {"normal", "ws", "sse"}, Respond(kind) PROVE TypeOK'
      BY <2>25 DEF Respond, Call, worker
    <2>26. ASSUME NEW close \in BOOLEAN, WriteSocket(close) PROVE TypeOK'
      BY <2>26 DEF WriteSocket, Call, worker
    <2>27. ASSUME NEW result \in {"ok", "err"}, Finish(result) PROVE TypeOK'
      BY <2>27 DEF Finish, worker
    <2>28. CASE UNCHANGED vars
      BY <2>28 DEF vars
    <2> QED
      BY <2>1, <2>2, <2>3, <2>4, <2>5, <2>6, <2>7, <2>8, <2>9, <2>10, <2>11, <2>12, <2>13, <2>14,
         <2>15, <2>16, <2>17, <2>18, <2>19, <2>20, <2>21, <2>22, <2>23, <2>24, <2>25, <2>26, <2>27, <2>28
      DEF Next, HttpStep, WatchStep, SocketStep, StreamStep, LoopStep, HandlerStep, RespondWith,
          AcceptWs, RespondWithSseStream
  <1> QED BY <1>1, <1>2, PTL DEF Spec

-----------------------------------------------------------------------------
(* The response.  ConfirmationComes alone is not inductive: a responder that *)
(* waits must be in the channel whoever waits for it, and an actor that can  *)
(* still answer must not have answered.                                    *)

\* The responder that waits is in the channel, and the HTTP side is there.
ResponderKept == confirm = "waiting" => http = "waiting" /\ slot # "empty"

\* While the actor holds the request, no response was ever sent on its channel,
\* and a response in the channel was not answered.
AnsweredOnce ==
  /\ "request" \in held => slot = "empty" /\ confirm = "none"
  /\ slot # "empty" => confirm = "waiting"
  /\ hpc = "unborn" => held = {} /\ slot = "empty" /\ confirm = "none"
  /\ http = "none" => hpc = "unborn"

\* In every run the response channel and its responder (handle_request,
\* respond_with, accept_ws, respond_with_sse_stream) agree.
THEOREM ResponseIsSentOnce == Spec => [](ResponderKept /\ AnsweredOnce)
  <1>1. Init => ResponderKept /\ AnsweredOnce
    BY DEF Init, ResponderKept, AnsweredOnce
  <1>2. TypeOK /\ ResponderKept /\ AnsweredOnce /\ [Next]_vars
          => ResponderKept' /\ AnsweredOnce'
    <2> SUFFICES ASSUME TypeOK, ResponderKept, AnsweredOnce, [Next]_vars
                 PROVE  ResponderKept' /\ AnsweredOnce'
      OBVIOUS
    <2> USE DEF ResponderKept, AnsweredOnce
    <2>1. CASE HttpStep
      BY <2>1
      DEF HttpStep, Begin, TakeResponse, FinishResponse, TakeWebSocket, TakeStream, Take,
          SenderDropped, DropRequest, TypeOK
    <2>2. CASE WatchStep \/ SocketStep
      BY <2>2
      DEF WatchStep, WatchReport, TerminateFailed, SocketStep, Upgrade, UpgradeFails, HandOver,
          Connected, ReadMessage, ReadClose, CloseSocket, SocketSend
    <2>3. CASE StreamStep
      BY <2>3 DEF StreamStep, EndStream, FindStreamActor, TerminateStream
    <2>4. CASE LoopStep
      BY <2>4
      DEF LoopStep, RunHandler, TakeResources, Terminate, EndTask, Receive, worker
    <2>5. ASSUME NEW kind \in {"normal", "ws", "sse"}, Respond(kind)
          PROVE  ResponderKept' /\ AnsweredOnce'
      BY <2>5 DEF Respond, Call, worker, TypeOK
    <2>6. CASE FailToBuild \/ Confirmed \/ SendSse \/ Written \/ CloseStream
      BY <2>6 DEF FailToBuild, Confirmed, SendSse, Written, CloseStream, Call, worker
    <2>7. ASSUME NEW close \in BOOLEAN, WriteSocket(close)
          PROVE  ResponderKept' /\ AnsweredOnce'
      BY <2>7 DEF WriteSocket, Call, worker
    <2>8. ASSUME NEW result \in {"ok", "err"}, Finish(result)
          PROVE  ResponderKept' /\ AnsweredOnce'
      BY <2>8 DEF Finish, worker
    <2>9. CASE UNCHANGED vars
      BY <2>9 DEF vars
    <2> QED
      BY <2>1, <2>2, <2>3, <2>4, <2>5, <2>6, <2>7, <2>8, <2>9
      DEF Next, HandlerStep, RespondWith, AcceptWs, RespondWithSseStream
  <1> QED BY <1>1, <1>2, TypeCorrect, PTL DEF Spec

\* A handler never waits for a confirmation that cannot come: while it waits
\* its response is in the channel of an HTTP side that takes it or drops it.
THEOREM ConfirmationsCome == Spec => []ConfirmationComes
  <1>1. ResponderKept => ConfirmationComes
    BY DEF ResponderKept, ConfirmationComes
  <1> QED BY <1>1, ResponseIsSentOnce, PTL

-----------------------------------------------------------------------------
(* Links.                                                                  *)

\* An actor with a link, or with commands in its mailbox, has a task that
\* receives them; before handle_request there is none.
LinkLives ==
  /\ HasLink \/ mailbox # <<>> => hpc \notin {"unborn", "ended"}
  /\ hpc = "unborn" => http = "none"
  /\ http = "none" => /\ hpc = "unborn" /\ slot = "empty"
                      /\ watch = "none" /\ socket = "none" /\ stream = "none"
  /\ stream = "ended" => hpc # "unborn"

\* Whatever still leads to the request's actor - the registry, the future of
\* handle_request, its watcher, its WebSocket, its stream's disconnect task -
\* leads to a task that is alive, so that none of their sends fails.
THEOREM SendersReachTheActor == Spec => [](HasLink => hpc \notin {"unborn", "ended"})
  <1>1. Init => LinkLives
    BY DEF Init, LinkLives, HasLink
  <1>2. TypeOK /\ LinkLives /\ [Next]_vars => LinkLives'
    <2> SUFFICES ASSUME TypeOK, LinkLives, [Next]_vars PROVE LinkLives'
      OBVIOUS
    <2> USE DEF LinkLives, HasLink
    <2>1. CASE HttpStep
      BY <2>1
      DEF HttpStep, Begin, TakeResponse, FinishResponse, TakeWebSocket, TakeStream, Take,
          SenderDropped, DropRequest, TypeOK
    <2>2. CASE WatchStep
      BY <2>2 DEF WatchStep, WatchReport, TerminateFailed
    <2>3. CASE SocketStep
      BY <2>3
      DEF SocketStep, Upgrade, UpgradeFails, HandOver, Connected, ReadMessage, ReadClose,
          CloseSocket, SocketSend
    <2>4. CASE StreamStep
      BY <2>4 DEF StreamStep, EndStream, FindStreamActor, TerminateStream
    <2>5. CASE LoopStep
      BY <2>5
      DEF LoopStep, RunHandler, TakeResources, Terminate, EndTask, Receive, worker
    <2>6. ASSUME NEW kind \in {"normal", "ws", "sse"}, Respond(kind) PROVE LinkLives'
      BY <2>6 DEF Respond, Call, worker, TypeOK
    <2>7. CASE FailToBuild \/ Confirmed \/ SendSse \/ Written \/ CloseStream
      BY <2>7 DEF FailToBuild, Confirmed, SendSse, Written, CloseStream, Call, worker
    <2>8. ASSUME NEW close \in BOOLEAN, WriteSocket(close) PROVE LinkLives'
      BY <2>8 DEF WriteSocket, Call, worker
    <2>9. ASSUME NEW result \in {"ok", "err"}, Finish(result) PROVE LinkLives'
      BY <2>9 DEF Finish, worker
    <2>10. CASE UNCHANGED vars
      BY <2>10 DEF vars
    <2> QED
      BY <2>1, <2>2, <2>3, <2>4, <2>5, <2>6, <2>7, <2>8, <2>9, <2>10
      DEF Next, HandlerStep, RespondWith, AcceptWs, RespondWithSseStream
  <1>3. LinkLives => (HasLink => hpc \notin {"unborn", "ended"})
    BY DEF LinkLives
  <1> QED BY <1>1, <1>2, <1>3, TypeCorrect, PTL DEF Spec
=============================================================================
