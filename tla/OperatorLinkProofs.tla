-------------------------- MODULE OperatorLinkProofs --------------------------
(***************************************************************************)
(* Theorems about OperatorLink, for any modules, questions, capacity of the *)
(* mailboxes and bounds.                                                    *)
(*                                                                         *)
(* They rest on following what is on its way: where in a channel, or among  *)
(* what a task is still to send, a message of some set is.                  *)
(***************************************************************************)
EXTENDS OperatorLink, FiniteSetTheorems, SequenceTheorems, WellFoundedInduction, TLAPS

-----------------------------------------------------------------------------
(* Types.                                                                  *)

Statuses == 0..MaxEvents
Reports == [status : Statuses, entries : SUBSET Modules]
Kinds(kinds, args) == [kind : kinds, arg : args]

\* What the operator sends, and what each channel takes.
FromOperator ==
  Kinds({"enable", "disable"}, Modules) \cup Kinds({"fulfill"}, Questions) \cup Kinds({"run"}, {Nothing})
ToOperator ==
  Kinds({"command"}, Reports) \cup Kinds({"action"}, Questions) \cup Kinds({"error"}, {Nothing})
Accepts(c) ==
  CASE c = "agentMain" -> Kinds({"start"}, {Nothing}) \cup Kinds({"event"}, Statuses)
    [] c = "agentChild" -> FromOperator \cup Kinds({"setup"}, Questions)
                             \cup Kinds({"connected", "disconnected"}, {Nothing})
    [] c = "opMain" -> ToOperator \cup Kinds({"connect"}, {Nothing})
    [] c = "opChild" -> Kinds({"receive"}, FromOperator) \cup Kinds({"connect", "reconnect"}, {Nothing})
    [] OTHER -> ToOperator

Messages == UNION {Accepts(c) : c \in Channels}
Sends == {s \in [to : Channels, msg : Messages] : s.msg \in Accepts(s.to)}

MailTypes ==
  /\ queue \in [Channels -> Seq(Messages)]
  /\ \A c \in Channels : queue[c] \in Seq(Accepts(c)) /\ Len(queue[c]) <= Capacity
  /\ todo \in [Tasks -> Seq(Sends)]

LinkTypes ==
  /\ MailTypes
  /\ entries \subseteq Modules
  /\ status \in Statuses
  /\ listeners \subseteq Questions
  /\ writing \in BOOLEAN
  /\ link \in {"none", "up", "broken", "closed"}
  /\ sleeping \in BOOLEAN
  /\ view \in Reports
  /\ shown \subseteq Questions
  /\ budget \in [commands : 0..MaxCommands, failures : 0..MaxFailures, asks : SUBSET Questions]

\* Only the client tells of a disconnection, and it sends one message at a time.
ClientSends ==
  /\ Len(todo["operator"]) <= 1
  /\ \A t \in Tasks : \A i \in DOMAIN todo[t] : todo[t][i].msg.kind = "disconnected" => t = "operator"

-----------------------------------------------------------------------------
(* What is on its way.                                                     *)

\* A message of M is at place i of channel x, or of what task x is to send.
At(M, k, x, i) ==
  \/ k = "queue" /\ x \in Channels /\ i \in DOMAIN queue[x] /\ queue[x][i] \in M
  \/ k = "todo" /\ x \in Tasks /\ i \in DOMAIN todo[x] /\ todo[x][i].msg \in M

Gone(M) == \A k, x, i : ~At(M, k, x, i)
Lone(M) == \A k, x, i, l, y, j : At(M, k, x, i) /\ At(M, l, y, j) => k = l /\ x = y /\ i = j

\* The requests to connect.
Ways == {m \in Messages : m.kind \in {"start", "connect", "reconnect"}}

\* The client is about to tell of a disconnection.
Telling == todo["operator"] # <<>> /\ Head(todo["operator"]).msg.kind = "disconnected"

\* There is one way to a connection: one request for it, a disconnection to be
\* told, the sleep that follows, or the socket.
OneWay ==
  /\ Lone(Ways)
  /\ Gone(Ways) \/ ~(Telling \/ sleeping \/ link \in {"up", "broken"})
  /\ ~(Telling /\ sleeping) /\ ~(Telling /\ link \in {"up", "broken"})
  /\ ~(sleeping /\ link \in {"up", "broken"})

\* A question on its way to the operator, and its answer on the way back.
Trace(q) == {Msg("action", q), Msg("receive", Msg("fulfill", q)), Msg("fulfill", q)}
Setup(q) == {Msg("setup", q)}

\* A question is yet to be asked, on its way, or with the operator.
Single(q) ==
  /\ Lone(Trace(q))
  /\ Gone(Trace(q)) \/ (q \notin shown /\ q \notin budget.asks)
  /\ ~(q \in shown /\ q \in budget.asks)

\* The listener of q is set up, or will be before what is at that place is handled.
Prepared(q) == q \in listeners \/ \E j : At(Setup(q), "queue", "agentChild", j)
Ahead(q, k, x, i) ==
  \/ q \in listeners
  \/ \E j : /\ At(Setup(q), "queue", "agentChild", j)
            /\ (k = "queue" /\ x = "agentChild" => j < i)
  \/ k = "todo" /\ x = q /\ \E j : j < i /\ At(Setup(q), "todo", q, j)
Due(q) ==
  /\ \A k, x, i : At(Trace(q), k, x, i) => Ahead(q, k, x, i)
  /\ q \in shown => Prepared(q)

ListenersDue == \A q \in Questions : Single(q) /\ Due(q)

-----------------------------------------------------------------------------
(* Operators.                                                              *)

\* Each channel and each task by its name.
LEMMA Names ==
  /\ Channels = {"agentMain", "agentChild", "opMain", "opChild", "writer"}
  /\ {"agent", "operator", "reader", "sleeper"} \subseteq Tasks /\ Questions \subseteq Tasks
  /\ \A q \in Questions : q # "agent" /\ q # "operator" /\ q # "reader" /\ q # "sleeper"
  <1> QED BY LinkAssumption DEF Channels, Tasks

\* The channels take these messages.
LEMMA Accepted ==
  /\ Accepts("agentMain") = Kinds({"start"}, {Nothing}) \cup Kinds({"event"}, Statuses)
  /\ Accepts("agentChild") = FromOperator \cup Kinds({"setup"}, Questions)
                               \cup Kinds({"connected", "disconnected"}, {Nothing})
  /\ Accepts("opMain") = ToOperator \cup Kinds({"connect"}, {Nothing})
  /\ Accepts("opChild") = Kinds({"receive"}, FromOperator) \cup Kinds({"connect", "reconnect"}, {Nothing})
  /\ Accepts("writer") = ToOperator
  /\ \A c \in Channels : Accepts(c) \subseteq Messages
  <1>1. \A c \in Channels : Accepts(c) \subseteq Messages
    BY DEF Messages
  <1> QED BY <1>1 DEF Accepts

\* What is taken from a channel, and what is left.
LEMMA Taking ==
  ASSUME NEW S, NEW s \in Seq(S), s # <<>>
  PROVE  /\ Head(s) = s[1] /\ Head(s) \in S /\ 1 \in DOMAIN s /\ Len(s) \in Nat /\ Len(s) > 0
         /\ Tail(s) \in Seq(S) /\ Len(Tail(s)) = Len(s) - 1
         /\ \A i : i \in DOMAIN Tail(s) <=> i \in Nat \ {0} /\ i + 1 \in DOMAIN s
         /\ \A i \in DOMAIN Tail(s) : Tail(s)[i] = s[i + 1]
  <1>1. /\ Head(s) = s[1] /\ Head(s) \in S /\ 1 \in DOMAIN s /\ Len(s) \in Nat /\ Len(s) > 0
        /\ Tail(s) \in Seq(S) /\ Len(Tail(s)) = Len(s) - 1
        /\ \A i \in 1..(Len(s) - 1) : Tail(s)[i] = s[i + 1]
    OBVIOUS
  <1>2. DOMAIN Tail(s) = 1..(Len(s) - 1) /\ DOMAIN s = 1..Len(s)
    BY <1>1
  <1> QED BY <1>1, <1>2

\* Of one message none is left.
LEMMA LastTaken ==
  ASSUME NEW S, NEW s \in Seq(S), s # <<>>, Len(s) <= 1
  PROVE  Tail(s) = <<>>
  <1>1. \A n \in Nat : n <= 1 /\ n # 0 => n = 1
    OBVIOUS
  <1>2. Len(s) \in Nat
    BY LenProperties
  <1>3. Len(s) # 0
    BY EmptySeq
  <1>4. Len(s) = 1
    BY <1>1, <1>2, <1>3
  <1>5. Tail(s) \in Seq(S) /\ Len(Tail(s)) = Len(s) - 1
    BY HeadTailProperties
  <1>6. Len(Tail(s)) = 0
    BY <1>4, <1>5, 1 - 1 = 0
  <1> QED BY <1>5, <1>6, EmptySeq

\* What is put into a channel is its last.
LEMMA Putting ==
  ASSUME NEW S, NEW s \in Seq(S), NEW e \in S
  PROVE  /\ Append(s, e) \in Seq(S) /\ Len(Append(s, e)) = Len(s) + 1 /\ Len(s) \in Nat
         /\ \A i : i \in DOMAIN Append(s, e) <=> i \in DOMAIN s \/ i = Len(s) + 1
         /\ \A i \in DOMAIN s : Append(s, e)[i] = s[i] /\ i \in Nat /\ i < Len(s) + 1
         /\ Append(s, e)[Len(s) + 1] = e
  OBVIOUS

\* A task that sends one message, to a channel that takes it.
LEMMA OneSend ==
  ASSUME NEW c \in Channels, NEW m \in Accepts(c)
  PROVE  /\ To(c, m) \in Seq(Sends) /\ Len(To(c, m)) = 1
         /\ To(c, m)[1] = [to |-> c, msg |-> m] /\ [to |-> c, msg |-> m] \in Sends
  <1>1. m \in Messages
    BY Accepted
  <1>2. [to |-> c, msg |-> m] \in Sends
    BY <1>1 DEF Sends
  <1> QED BY <1>2 DEF To

-----------------------------------------------------------------------------
(* Each step keeps the types.                                              *)

\* The head of a channel is one of its messages.
LEMMA HeadTyped ==
  ASSUME MailTypes, NEW c \in Channels, queue[c] # <<>>
  PROVE  Head(queue[c]) \in Accepts(c) /\ Head(queue[c]) \in Messages /\ Head(queue[c]) = queue[c][1]
  <1>1. queue[c] \in Seq(Accepts(c))
    BY DEF MailTypes
  <1> QED BY <1>1, Taking, Accepted

\* Taking a message keeps them.
LEMMA TakeTyped ==
  ASSUME MailTypes, NEW t \in Tasks, NEW c \in Channels, NEW what \in Seq(Sends),
         queue[c] # <<>>, Take(t, c, what)
  PROVE  MailTypes'
  <1>1. /\ queue[c] \in Seq(Accepts(c)) /\ queue[c] \in Seq(Messages) /\ Len(queue[c]) <= Capacity
        /\ queue' = [queue EXCEPT ![c] = Tail(queue[c])] /\ todo' = [todo EXCEPT ![t] = what]
        /\ queue \in [Channels -> Seq(Messages)] /\ todo \in [Tasks -> Seq(Sends)]
    BY DEF MailTypes, Take
  <1>2. /\ Tail(queue[c]) \in Seq(Accepts(c)) /\ Tail(queue[c]) \in Seq(Messages)
        /\ Len(Tail(queue[c])) <= Capacity
    <2>1. /\ Tail(queue[c]) \in Seq(Accepts(c)) /\ Tail(queue[c]) \in Seq(Messages)
          /\ Len(Tail(queue[c])) = Len(queue[c]) - 1 /\ Len(queue[c]) \in Nat
      BY <1>1, Taking
    <2> QED BY <1>1, <2>1, LinkAssumption
  <1>3. \A d \in Channels : queue'[d] = IF d = c THEN Tail(queue[c]) ELSE queue[d]
    BY <1>1
  <1>4. queue' \in [Channels -> Seq(Messages)] /\ todo' \in [Tasks -> Seq(Sends)]
    BY <1>1, <1>2
  <1> QED BY <1>2, <1>3, <1>4 DEF MailTypes

\* A task that turns to other messages keeps them.
LEMMA TurnTyped ==
  ASSUME MailTypes, NEW t \in Tasks, NEW what \in Seq(Sends),
         queue' = queue, todo' = [todo EXCEPT ![t] = what]
  PROVE  MailTypes'
  BY DEF MailTypes

\* What a task sends, its channel takes.
LEMMA SendTyped ==
  ASSUME MailTypes, NEW t \in Tasks, Send(t)
  PROVE  /\ MailTypes'
         /\ todo[t] # <<>> /\ todo[t] \in Seq(Sends) /\ Head(todo[t]) \in Sends
         /\ Head(todo[t]).to \in Channels /\ Head(todo[t]).msg \in Accepts(Head(todo[t]).to)
         /\ queue' = [queue EXCEPT ![Head(todo[t]).to] =
                        Append(queue[Head(todo[t]).to], Head(todo[t]).msg)]
         /\ todo' = [todo EXCEPT ![t] = Tail(todo[t])]
  <1>1. /\ todo[t] # <<>> /\ todo[t] \in Seq(Sends)
        /\ queue \in [Channels -> Seq(Messages)] /\ todo \in [Tasks -> Seq(Sends)]
    BY DEF MailTypes, Send
  <1>2. Head(todo[t]) \in Sends /\ Tail(todo[t]) \in Seq(Sends)
    BY <1>1, Taking
  <1>3. PICK c \in Channels : c = Head(todo[t]).to
    BY <1>2 DEF Sends
  <1>4. PICK m \in Accepts(c) : m = Head(todo[t]).msg /\ m \in Messages
    BY <1>2, <1>3 DEF Sends
  <1>5. /\ queue' = [queue EXCEPT ![c] = Append(queue[c], m)]
        /\ todo' = [todo EXCEPT ![t] = Tail(todo[t])] /\ Len(queue[c]) < Capacity
    BY <1>3, <1>4 DEF Send, HasRoom
  <1>6. queue[c] \in Seq(Accepts(c)) /\ queue[c] \in Seq(Messages)
    BY DEF MailTypes
  <1>7. /\ Append(queue[c], m) \in Seq(Accepts(c)) /\ Append(queue[c], m) \in Seq(Messages)
        /\ Len(Append(queue[c], m)) <= Capacity
    <2>1. /\ Append(queue[c], m) \in Seq(Accepts(c)) /\ Append(queue[c], m) \in Seq(Messages)
          /\ Len(Append(queue[c], m)) = Len(queue[c]) + 1 /\ Len(queue[c]) \in Nat
      BY <1>4, <1>6, Putting
    <2> QED BY <1>5, <2>1, LinkAssumption
  <1>8. \A d \in Channels : queue'[d] = IF d = c THEN Append(queue[c], m) ELSE queue[d]
    BY <1>1, <1>5
  <1>9. queue' \in [Channels -> Seq(Messages)] /\ todo' \in [Tasks -> Seq(Sends)]
    BY <1>1, <1>2, <1>5, <1>7
  <1>10. MailTypes'
    BY <1>7, <1>8, <1>9 DEF MailTypes
  <1> QED BY <1>1, <1>2, <1>3, <1>4, <1>5, <1>10

\* What the agent's tick is to send: the disables and the report.
LEMMA TickSends ==
  ASSUME LinkTypes, NEW old \in SUBSET entries,
         NEW what, what = [i \in DOMAIN SetToSeq(old) |->
             [to |-> "agentChild", msg |-> Msg("disable", SetToSeq(old)[i])]] \o To("opMain", UpdateState)
  PROVE  /\ what \in Seq(Sends)
         /\ \A i \in DOMAIN what : what[i].msg.kind \in {"disable", "command"}
  <1>1. old \subseteq Modules /\ IsFiniteSet(old)
    BY LinkAssumption, FS_Subset DEF LinkTypes
  <1>2. PICK n \in Nat : n = Cardinality(old) /\ ExistsBijection(1..n, old)
    BY <1>1, FS_CardinalityType
  <1>3. PICK f : f = SetToSeq(old)
    OBVIOUS
  <1>4. f \in [1..n -> old]
    <2>1. \E g \in [1..n -> old] : IsInjective(g)
      BY <1>2 DEF ExistsBijection, Bijection, Injection
    <2> QED BY <1>2, <1>3, <2>1 DEF SetToSeq
  <1>5. PICK r : r = [i \in DOMAIN f |-> [to |-> "agentChild", msg |-> Msg("disable", f[i])]]
    OBVIOUS
  <1>6. \A i \in 1..n : /\ Msg("disable", f[i]) \in Accepts("agentChild")
                        /\ [to |-> "agentChild", msg |-> Msg("disable", f[i])] \in Sends
    <2> TAKE i \in 1..n
    <2>1. Msg("disable", f[i]) \in Accepts("agentChild")
      BY <1>1, <1>4, Accepted DEF FromOperator, Kinds, Msg
    <2> QED BY <2>1, Accepted, Names DEF Sends
  <1>7. r \in Seq(Sends) /\ \A i \in DOMAIN r : r[i].msg.kind = "disable"
    <2>1. r \in [1..n -> Sends]
      BY <1>4, <1>5, <1>6
    <2> QED BY <1>4, <1>5, <2>1 DEF Msg
  <1>8. Report \in Reports
    BY DEF Report, Reports, LinkTypes
  <1>9. UpdateState \in Accepts("opMain") /\ UpdateState.kind = "command"
    BY <1>8, Accepted DEF UpdateState, ToOperator, Kinds, Msg
  <1>10. PICK z \in Seq(Sends) : z = To("opMain", UpdateState) /\ Len(z) = 1 /\ z[1].msg.kind = "command"
    <2>1. /\ To("opMain", UpdateState) \in Seq(Sends) /\ Len(To("opMain", UpdateState)) = 1
          /\ To("opMain", UpdateState)[1] = [to |-> "opMain", msg |-> UpdateState]
      BY <1>9, Names, OneSend
    <2>2. [to |-> "opMain", msg |-> UpdateState].msg = UpdateState
      OBVIOUS
    <2> QED BY <1>9, <2>1, <2>2
  <1>11. what = r \o z
    BY <1>3, <1>5, <1>10
  <1>12. r \o z \in Seq(Sends)
    BY <1>7, <1>10
  <1>13. \A i \in DOMAIN (r \o z) : (r \o z)[i].msg.kind \in {"disable", "command"}
    <2>1. \A i \in DOMAIN (r \o z) : \/ i \in DOMAIN r /\ (r \o z)[i] = r[i]
                                     \/ (r \o z)[i] = z[1]
      BY <1>7, <1>10
    <2> QED BY <1>7, <1>10, <2>1
  <1> QED BY <1>11, <1>12, <1>13

\* The number of the next event is in bounds, as its guard says.
LEMMA LastOf ==
  ASSUME NEW S, NEW n \in Nat, S \subseteq 0..n, S # {}
  PROVE  (CHOOSE x \in S : \A y \in S : y <= x) \in S
  <1> DEFINE D == {k \in Nat : n - k \in S}
  <1>1. D \in SUBSET Nat /\ D # {}
    <2>1. PICK x \in S : x \in 0..n
      OBVIOUS
    <2>2. n - x \in Nat /\ n - (n - x) = x
      BY <2>1
    <2> QED BY <2>2
  <1>2. IsWellFoundedOn(OpToRel(<, Nat), Nat)
    BY NatLessThanWellFounded
  <1>3. PICK k \in D : \A l \in D : <<l, k>> \notin OpToRel(<, Nat)
    BY <1>1, <1>2, WFMin
  <1>4. \A l \in D : ~(l < k)
    BY <1>1, <1>3 DEF OpToRel
  <1>5. n - k \in S
    OBVIOUS
  <1>6. \A y \in S : y <= n - k
    <2> SUFFICES ASSUME NEW y \in S PROVE y <= n - k
      OBVIOUS
    <2>1. y \in 0..n /\ n - y \in Nat /\ n - (n - y) = y
      OBVIOUS
    <2>2. n - y \in D
      BY <2>1
    <2>3. ~(n - y < k) /\ k \in Nat
      BY <1>4, <2>2
    <2> QED BY <2>1, <2>3
  <1> QED BY <1>5, <1>6

-----------------------------------------------------------------------------
(* What the agent and the client do with a message.                        *)

\* What is sent on account of a message: a request to connect, or news of the
\* disconnection, only for such a request, a question or an answer only for it.
Follows(h, w) ==
  /\ w \in Ways \/ w.kind = "disconnected" => h \in Ways
  /\ \A q \in Questions : w \in Trace(q) => h \in Trace(q)

Handles(t, c, what) ==
  /\ queue[c] # <<>> /\ Take(t, c, what)
  /\ what # <<>> => /\ Len(what) = 1 /\ Follows(Head(queue[c]), what[1].msg)
                    /\ what[1].msg.kind = "disconnected" => t = "operator"
  /\ link' = link /\ sleeping' = sleeping /\ shown' = shown /\ budget'.asks = budget.asks
  /\ \A q \in Questions :
       /\ q \in listeners /\ q \notin listeners' =>
            c = "agentChild" /\ Head(queue[c]) = Msg("fulfill", q) /\ what = <<>>
       /\ c = "agentChild" /\ Head(queue[c]) = Msg("setup", q) => q \in listeners'
  /\ entries' \subseteq Modules /\ status' \in Statuses /\ listeners' \subseteq Questions
  /\ budget' \in [commands : 0..MaxCommands, failures : 0..MaxFailures, asks : SUBSET Questions]
  /\ writing' = writing /\ view' = view

\* A message that has nothing to do with them.
Plain(w) == w.kind \in {"command", "error", "connected", "enable", "disable", "run"}

\* What is plain follows from anything.
LEMMA PlainFollows ==
  ASSUME NEW h, NEW w, Plain(w)
  PROVE  Follows(h, w) /\ w.kind # "disconnected"
  BY DEF Plain, Follows, Ways, Trace, Msg

\* A handler that sends nothing.
LEMMA HandlesSilently ==
  ASSUME LinkTypes, NEW t \in {"agent", "operator"}, NEW c \in Channels, queue[c] # <<>>,
         Take(t, c, <<>>),
         link' = link, sleeping' = sleeping, shown' = shown, budget' = budget,
         \A q \in Questions :
           /\ q \in listeners /\ q \notin listeners' =>
                c = "agentChild" /\ Head(queue[c]) = Msg("fulfill", q)
           /\ c = "agentChild" /\ Head(queue[c]) = Msg("setup", q) => q \in listeners',
         listeners' \subseteq Questions, entries' = entries, status' = status,
         writing' = writing, view' = view
  PROVE  \E what \in Seq(Sends) : Handles(t, c, what)
  <1>1. <<>> \in Seq(Sends)
    OBVIOUS
  <1>2. Handles(t, c, <<>>)
    BY DEF Handles, LinkTypes
  <1> QED BY <1>1, <1>2

\* A handler that sends one message, and leaves the listeners alone.
LEMMA HandlesBySending ==
  ASSUME LinkTypes, NEW t \in {"agent", "operator"}, NEW c \in Channels, queue[c] # <<>>,
         NEW d \in Channels, NEW w \in Accepts(d), Take(t, c, To(d, w)),
         Follows(Head(queue[c]), w), w.kind = "disconnected" => t = "operator",
         link' = link, sleeping' = sleeping, shown' = shown, budget'.asks = budget.asks,
         listeners' = listeners, c = "agentChild" => Head(queue[c]).kind # "setup",
         entries' \subseteq Modules, status' \in Statuses,
         budget' \in [commands : 0..MaxCommands, failures : 0..MaxFailures, asks : SUBSET Questions],
         writing' = writing, view' = view
  PROVE  \E what \in Seq(Sends) : Handles(t, c, what)
  <1>1. PICK what \in Seq(Sends) : /\ what = To(d, w) /\ Len(what) = 1
                                   /\ what[1] = [to |-> d, msg |-> w]
    <2>1. To(d, w) \in Seq(Sends) /\ Len(To(d, w)) = 1 /\ To(d, w)[1] = [to |-> d, msg |-> w]
      BY OneSend
    <2> QED BY <2>1
  <1>2. what[1].msg = w
    BY <1>1
  <1>3. c = "agentChild" => \A q \in Questions : Head(queue[c]) # Msg("setup", q)
    BY DEF Msg
  <1>4. Take(t, c, what)
    BY <1>1
  <1>5. Handles(t, c, what)
    BY <1>1, <1>2, <1>3, <1>4 DEF Handles, LinkTypes
  <1> QED BY <1>5

\* Every handler of the agent, and every one of the client but the one that
\* connects, is such a step.
LEMMA Handlers ==
  ASSUME LinkTypes,
         \/ AgentMainStep \/ AgentChildStep \/ OpReconnect \/ OpReceiveCommand \/ OpSendCommand
         \/ \E c \in {"opMain", "opChild"} : OpConnectFails(c)
  PROVE  \E t \in {"agent", "operator"}, c \in Channels : \E what \in Seq(Sends) : Handles(t, c, what)
  <1>1. /\ MailTypes /\ entries \subseteq Modules /\ status \in Statuses /\ listeners \subseteq Questions
        /\ budget \in [commands : 0..MaxCommands, failures : 0..MaxFailures, asks : SUBSET Questions]
    BY DEF LinkTypes
  <1>2. \A c \in Channels : queue[c] # <<>> => Head(queue[c]) \in Accepts(c) /\ Head(queue[c]) \in Messages
    BY <1>1, HeadTyped
  <1>3. \A s, e : s \in Statuses /\ e \subseteq Modules =>
          LET w == Msg("command", [status |-> s, entries |-> e]) IN
            w \in Accepts("opMain") /\ Plain(w)
    BY Accepted DEF ToOperator, Kinds, Reports, Msg, Plain
  <1>4. CASE AgentStart
    <2>1. /\ queue["agentMain"] # <<>> /\ Head(queue["agentMain"]).kind = "start"
          /\ Take("agent", "agentMain", To("opMain", Msg("connect", Nothing)))
          /\ UNCHANGED <<entries, status, listeners, writing, link, sleeping, view, shown, budget>>
      BY <1>4 DEF AgentStart, Holds
    <2>2. Msg("connect", Nothing) \in Accepts("opMain") /\ Msg("connect", Nothing).kind = "connect"
      BY Accepted DEF Kinds, Msg
    <2>3. Head(queue["agentMain"]) \in Ways
      BY <1>2, <2>1, Names DEF Ways
    <2>4. Follows(Head(queue["agentMain"]), Msg("connect", Nothing))
      BY <2>2, <2>3 DEF Follows, Trace, Msg
    <2> QED BY <1>1, <2>1, <2>2, <2>4, Names, HandlesBySending
  <1>5. CASE AgentWorkerEvent
    <2>1. /\ queue["agentMain"] # <<>> /\ Head(queue["agentMain"]).kind = "event"
          /\ status' = Head(queue["agentMain"]).arg
          /\ Take("agent", "agentMain", To("opMain", Msg("command", [Report EXCEPT !.status = status'])))
          /\ UNCHANGED <<entries, listeners, writing, link, sleeping, view, shown, budget>>
      BY <1>5 DEF AgentWorkerEvent, Holds
    <2>2. status' \in Statuses
      BY <1>2, <2>1, Accepted, Names DEF Kinds
    <2>3. [Report EXCEPT !.status = status'] = [status |-> status', entries |-> entries]
      BY DEF Report
    <2>4. PICK w \in Accepts("opMain") :
            w = Msg("command", [Report EXCEPT !.status = status']) /\ Plain(w)
      BY <1>1, <1>3, <2>2, <2>3
    <2> QED BY <1>1, <2>1, <2>2, <2>4, Names, PlainFollows, HandlesBySending
  <1>6. ASSUME NEW kind \in {"enable", "disable"}, NEW after \in SUBSET Modules, AgentDebugger(kind, after)
        PROVE  \E what \in Seq(Sends) : Handles("agent", "agentChild", what)
    <2>1. /\ queue["agentChild"] # <<>> /\ Head(queue["agentChild"]).kind = kind /\ entries' = after
          /\ Take("agent", "agentChild", To("opMain", Msg("command", [Report EXCEPT !.entries = entries'])))
          /\ UNCHANGED <<status, listeners, writing, link, sleeping, view, shown, budget>>
      BY <1>6 DEF AgentDebugger, Holds
    <2>2. [Report EXCEPT !.entries = entries'] = [status |-> status, entries |-> entries']
      BY DEF Report
    <2>3. PICK w \in Accepts("opMain") :
            w = Msg("command", [Report EXCEPT !.entries = entries']) /\ Plain(w)
      BY <1>1, <1>3, <2>1, <2>2
    <2> QED BY <1>1, <2>1, <2>3, Names, PlainFollows, HandlesBySending
  <1>7. CASE AgentEnable
    <2>1. Holds("agentChild", "enable")
      BY <1>7 DEF AgentEnable, AgentDebugger
    <2>2. Addressed \in Modules
      BY <1>2, <2>1, Accepted, Names DEF Holds, Addressed, Kinds, FromOperator
    <2> QED BY <1>1, <1>6, <1>7, <2>2, Names DEF AgentEnable
  <1>8. CASE AgentDisable
    BY <1>1, <1>6, <1>8, Names DEF AgentDisable
  <1>9. CASE AgentPerformRun
    <2>1. PICK what \in {<<>>, To("opMain", Msg("error", Nothing))} :
            /\ queue["agentChild"] # <<>> /\ Head(queue["agentChild"]).kind = "run"
            /\ Take("agent", "agentChild", what)
            /\ UNCHANGED <<entries, status, listeners, writing, link, sleeping, view, shown, budget>>
      BY <1>9 DEF AgentPerformRun, Holds
    <2>2. Msg("error", Nothing) \in Accepts("opMain") /\ Plain(Msg("error", Nothing))
      BY Accepted DEF Kinds, Msg, ToOperator, Plain
    <2>3. \A q \in Questions : Head(queue["agentChild"]) # Msg("setup", q)
      BY <2>1 DEF Msg
    <2>4. CASE what = <<>>
      BY <1>1, <2>1, <2>3, <2>4, Names, HandlesSilently
    <2>5. CASE what = To("opMain", Msg("error", Nothing))
      BY <1>1, <2>1, <2>2, <2>5, Names, PlainFollows, HandlesBySending
    <2> QED BY <2>4, <2>5
  <1>10. CASE AgentSetup
    <2>1. /\ queue["agentChild"] # <<>> /\ Head(queue["agentChild"]).kind = "setup"
          /\ listeners' = listeners \cup {Head(queue["agentChild"]).arg}
          /\ Take("agent", "agentChild", <<>>)
          /\ UNCHANGED <<entries, status, writing, link, sleeping, view, shown, budget>>
      BY <1>10 DEF AgentSetup, Holds, Addressed
    <2>2. Head(queue["agentChild"]).arg \in Questions
      BY <1>2, <2>1, Accepted, Names DEF Kinds, FromOperator
    <2>3. \A q \in Questions : Head(queue["agentChild"]) = Msg("setup", q) => q \in listeners'
      BY <2>1 DEF Msg
    <2> QED BY <1>1, <2>1, <2>2, <2>3, Names, HandlesSilently
  <1>11. CASE AgentFulfill
    <2>1. /\ queue["agentChild"] # <<>> /\ Head(queue["agentChild"]).kind = "fulfill"
          /\ listeners' = listeners \ {Head(queue["agentChild"]).arg}
          /\ Take("agent", "agentChild", <<>>)
          /\ UNCHANGED <<entries, status, writing, link, sleeping, view, shown, budget>>
      BY <1>11 DEF AgentFulfill, Holds, Addressed
    <2>2. /\ \A q \in Questions : Head(queue["agentChild"]) # Msg("setup", q)
          /\ Head(queue["agentChild"]) = Msg("fulfill", Head(queue["agentChild"]).arg)
      <3>1. Head(queue["agentChild"]) \in Kinds({"fulfill"}, Questions)
        BY <1>2, <2>1, Accepted, Names DEF Kinds, FromOperator
      <3> QED BY <3>1 DEF Kinds, Msg
    <2> QED BY <1>1, <2>1, <2>2, Names, HandlesSilently
  <1>12. CASE AgentConnected
    <2>1. /\ queue["agentChild"] # <<>> /\ Head(queue["agentChild"]).kind = "connected"
          /\ Take("agent", "agentChild", To("opMain", UpdateState))
          /\ UNCHANGED <<entries, status, listeners, writing, link, sleeping, view, shown, budget>>
      BY <1>12 DEF AgentConnected, Holds
    <2>2. UpdateState \in Accepts("opMain") /\ Plain(UpdateState)
      BY <1>1, <1>3 DEF UpdateState, Report
    <2> QED BY <1>1, <2>1, <2>2, Names, PlainFollows, HandlesBySending
  <1>13. CASE AgentDisconnected
    <2>1. /\ queue["agentChild"] # <<>> /\ Head(queue["agentChild"]).kind = "disconnected"
          /\ Take("agent", "agentChild", <<>>)
          /\ UNCHANGED <<entries, status, listeners, writing, link, sleeping, view, shown, budget>>
      BY <1>13 DEF AgentDisconnected, Holds
    <2>2. \A q \in Questions : Head(queue["agentChild"]) # Msg("setup", q)
      BY <2>1 DEF Msg
    <2> QED BY <1>1, <2>1, <2>2, Names, HandlesSilently
  <1>14. CASE OpReconnect
    <2>1. /\ queue["opChild"] # <<>> /\ Head(queue["opChild"]).kind = "reconnect"
          /\ Take("operator", "opChild", To("agentChild", Msg("disconnected", Nothing)))
          /\ UNCHANGED <<entries, status, listeners, writing, link, sleeping, view, shown, budget>>
      BY <1>14 DEF OpReconnect, Holds
    <2>2. Msg("disconnected", Nothing) \in Accepts("agentChild")
      BY Accepted DEF Kinds, Msg
    <2>3. Head(queue["opChild"]) \in Ways
      BY <1>2, <2>1, Names DEF Ways
    <2>4. Follows(Head(queue["opChild"]), Msg("disconnected", Nothing))
      BY <2>3 DEF Follows, Trace, Msg
    <2> QED BY <1>1, <2>1, <2>2, <2>4, Names, HandlesBySending
  <1>15. CASE OpReceiveCommand
    <2>1. /\ queue["opChild"] # <<>> /\ Head(queue["opChild"]).kind = "receive"
          /\ Take("operator", "opChild", To("agentChild", Head(queue["opChild"]).arg))
          /\ UNCHANGED <<entries, status, listeners, writing, link, sleeping, view, shown, budget>>
      BY <1>15 DEF OpReceiveCommand, Holds
    <2>2. PICK w \in FromOperator : w = Head(queue["opChild"]).arg /\ Head(queue["opChild"]) = Msg("receive", w)
      <3>1. Head(queue["opChild"]) \in Kinds({"receive"}, FromOperator)
        BY <1>2, <2>1, Accepted, Names DEF Kinds
      <3> QED BY <3>1 DEF Kinds, Msg
    <2>3. w \in Accepts("agentChild")
      BY Accepted
    <2>4. CASE w.kind = "fulfill"
      <3>1. PICK q \in Questions : w = Msg("fulfill", q)
        BY <2>4 DEF FromOperator, Kinds, Msg
      <3>2. w.kind # "disconnected" /\ w \notin Ways /\ \A p \in Questions : w \in Trace(p) => p = q
        BY <3>1 DEF Ways, Trace, Msg
      <3>3. Head(queue["opChild"]) \in Trace(q)
        BY <2>2, <3>1 DEF Trace
      <3>4. Follows(Head(queue["opChild"]), w)
        BY <3>2, <3>3 DEF Follows
      <3> QED BY <1>1, <2>1, <2>2, <2>3, <3>2, <3>4, Names, HandlesBySending
    <2>5. CASE w.kind # "fulfill"
      <3>1. Plain(w)
        BY <2>5 DEF FromOperator, Kinds, Plain
      <3> QED BY <1>1, <2>1, <2>2, <2>3, <3>1, Names, PlainFollows, HandlesBySending
    <2> QED BY <2>4, <2>5
  <1>16. CASE OpSendCommand
    <2>1. /\ queue["opMain"] # <<>> /\ Head(queue["opMain"]).kind \in {"command", "error", "action"}
          /\ Take("operator", "opMain", IF writing THEN To("writer", Head(queue["opMain"])) ELSE <<>>)
          /\ UNCHANGED <<entries, status, listeners, writing, link, sleeping, view, shown, budget>>
      BY <1>16 DEF OpSendCommand, Holds
    <2>2. PICK w \in Accepts("writer") : w = Head(queue["opMain"])
      <3>1. Head(queue["opMain"]) \in ToOperator \cup Kinds({"connect"}, {Nothing})
        BY <1>2, <2>1, Accepted, Names
      <3> QED BY <2>1, <3>1, Accepted DEF Kinds
    <2>3. Follows(w, w) /\ w.kind # "disconnected"
      BY <2>1, <2>2 DEF Follows
    <2>4. CASE writing
      BY <1>1, <2>1, <2>2, <2>3, <2>4, Names, HandlesBySending
    <2>5. CASE ~writing
      BY <1>1, <2>1, <2>5, Names, HandlesSilently
    <2> QED BY <2>4, <2>5
  <1>17. ASSUME NEW c \in {"opMain", "opChild"}, OpConnectFails(c)
         PROVE  \E what \in Seq(Sends) : Handles("operator", c, what)
    <2>1. /\ queue[c] # <<>> /\ Head(queue[c]).kind = "connect"
          /\ Take("operator", c, To("opChild", Msg("reconnect", Nothing)))
          /\ UNCHANGED <<entries, status, listeners, writing, link, sleeping, view, shown>>
          /\ budget' = [budget EXCEPT !.failures = @ - 1] /\ budget.failures > 0
      BY <1>17 DEF OpConnectFails, Holds
    <2>2. Msg("reconnect", Nothing) \in Accepts("opChild")
      BY Accepted DEF Kinds, Msg
    <2>3. c \in Channels /\ Head(queue[c]) \in Ways
      BY <1>2, <2>1, Names DEF Ways
    <2>4. Follows(Head(queue[c]), Msg("reconnect", Nothing))
      BY <2>3 DEF Follows, Trace, Msg
    <2>5. /\ budget' \in [commands : 0..MaxCommands, failures : 0..MaxFailures, asks : SUBSET Questions]
          /\ budget'.asks = budget.asks
      BY <1>1, <2>1, LinkAssumption
    <2> QED BY <1>1, <2>1, <2>2, <2>3, <2>4, <2>5, Names, HandlesBySending
  <1>18. CASE AgentMainStep
    BY <1>4, <1>5, <1>18, Names DEF AgentMainStep
  <1>19. CASE AgentChildStep
    BY <1>7, <1>8, <1>9, <1>10, <1>11, <1>12, <1>13, <1>19 DEF AgentChildStep
  <1>20. CASE \E c \in {"opMain", "opChild"} : OpConnectFails(c)
    BY <1>17, <1>20, Names
  <1> QED BY <1>14, <1>15, <1>16, <1>18, <1>19, <1>20

\* The client connects: the channel of the old writer is dropped.
LEMMA ConnectTyped ==
  ASSUME LinkTypes, NEW c \in {"opMain", "opChild"}, OpConnect(c)
  PROVE  /\ MailTypes' /\ c \in Channels /\ c # "writer"
         /\ queue[c] # <<>> /\ Head(queue[c]) \in Ways
         /\ queue' = [[queue EXCEPT ![c] = Tail(queue[c])] EXCEPT !["writer"] = <<>>]
         /\ todo["operator"] = <<>>
         /\ todo' = [todo EXCEPT !["operator"] = To("agentChild", Msg("connected", Nothing))]
         /\ To("agentChild", Msg("connected", Nothing)) \in Seq(Sends)
         /\ Len(To("agentChild", Msg("connected", Nothing))) = 1
         /\ To("agentChild", Msg("connected", Nothing))[1].msg = Msg("connected", Nothing)
  <1>1. /\ queue \in [Channels -> Seq(Messages)] /\ todo \in [Tasks -> Seq(Sends)] /\ MailTypes
        /\ c \in Channels /\ "writer" \in Channels /\ c # "writer" /\ "agentChild" \in Channels
        /\ "operator" \in Tasks
    BY Names DEF LinkTypes, MailTypes
  <1>2. /\ queue[c] # <<>> /\ Head(queue[c]).kind = "connect"
        /\ queue' = [queue EXCEPT ![c] = Tail(@), !["writer"] = <<>>] /\ todo["operator"] = <<>>
        /\ todo' = [todo EXCEPT !["operator"] = To("agentChild", Msg("connected", Nothing))]
    BY DEF OpConnect, Holds, Ready
  <1>3. Head(queue[c]) \in Ways
    BY <1>1, <1>2, HeadTyped DEF Ways
  <1>4. queue' = [[queue EXCEPT ![c] = Tail(queue[c])] EXCEPT !["writer"] = <<>>]
    BY <1>1, <1>2
  <1>5. Msg("connected", Nothing) \in Accepts("agentChild")
    BY Accepted DEF Kinds, Msg
  <1>6. /\ To("agentChild", Msg("connected", Nothing)) \in Seq(Sends)
        /\ Len(To("agentChild", Msg("connected", Nothing))) = 1
        /\ To("agentChild", Msg("connected", Nothing))[1]
             = [to |-> "agentChild", msg |-> Msg("connected", Nothing)]
    BY <1>1, <1>5, OneSend
  <1>7. todo' \in [Tasks -> Seq(Sends)]
    BY <1>1, <1>2, <1>6
  <1>8. /\ Tail(queue[c]) \in Seq(Accepts(c)) /\ Tail(queue[c]) \in Seq(Messages)
        /\ Len(Tail(queue[c])) <= Capacity
    <2>1. queue[c] \in Seq(Accepts(c)) /\ queue[c] \in Seq(Messages) /\ Len(queue[c]) <= Capacity
      BY <1>1 DEF MailTypes
    <2>2. /\ Tail(queue[c]) \in Seq(Accepts(c)) /\ Tail(queue[c]) \in Seq(Messages)
          /\ Len(Tail(queue[c])) = Len(queue[c]) - 1 /\ Len(queue[c]) \in Nat
      BY <1>2, <2>1, Taking
    <2> QED BY <2>1, <2>2, LinkAssumption
  <1>9. <<>> \in Seq(Accepts("writer")) /\ <<>> \in Seq(Messages) /\ Len(<<>>) <= Capacity
    BY LinkAssumption
  <1>10. \A d \in Channels : queue'[d] = IF d = "writer" THEN <<>>
                                         ELSE IF d = c THEN Tail(queue[c]) ELSE queue[d]
    BY <1>1, <1>4
  <1>11. queue' \in [Channels -> Seq(Messages)]
    BY <1>1, <1>4, <1>8, <1>9
  <1>12. MailTypes'
    BY <1>1, <1>7, <1>8, <1>9, <1>10, <1>11 DEF MailTypes
  <1>13. To("agentChild", Msg("connected", Nothing))[1].msg = Msg("connected", Nothing)
    BY <1>6
  <1> QED BY <1>1, <1>2, <1>3, <1>4, <1>6, <1>12, <1>13

\* What the steps have a task send that has nothing on its mind: one message
\* (Wake, the reader), or the two that a question starts with.
LEMMA ReaderSends ==
  ASSUME NEW m, m \in FromOperator
  PROVE  Msg("receive", m) \in Accepts("opChild")
  BY Accepted DEF Kinds, Msg

\* A question's messages.
LEMMA AskSends ==
  ASSUME NEW q \in Questions
  PROVE  \E what \in Seq(Sends) :
           /\ what = To("agentChild", Msg("setup", q)) \o To("opMain", Msg("action", q))
           /\ Len(what) = 2 /\ what[1].msg = Msg("setup", q) /\ what[2].msg = Msg("action", q)
  <1>1. Msg("setup", q) \in Accepts("agentChild") /\ Msg("action", q) \in Accepts("opMain")
    BY Accepted DEF Kinds, Msg, ToOperator
  <1>2. PICK x \in Seq(Sends) : /\ x = To("agentChild", Msg("setup", q)) /\ Len(x) = 1
                                /\ x[1].msg = Msg("setup", q)
    <2>1. /\ To("agentChild", Msg("setup", q)) \in Seq(Sends)
          /\ Len(To("agentChild", Msg("setup", q))) = 1
          /\ To("agentChild", Msg("setup", q))[1] = [to |-> "agentChild", msg |-> Msg("setup", q)]
      BY <1>1, Names, OneSend
    <2> QED BY <2>1
  <1>3. PICK y \in Seq(Sends) : /\ y = To("opMain", Msg("action", q)) /\ Len(y) = 1
                                /\ y[1].msg = Msg("action", q)
    <2>1. /\ To("opMain", Msg("action", q)) \in Seq(Sends) /\ Len(To("opMain", Msg("action", q))) = 1
          /\ To("opMain", Msg("action", q))[1] = [to |-> "opMain", msg |-> Msg("action", q)]
      BY <1>1, Names, OneSend
    <2> QED BY <2>1
  <1>4. x \o y \in Seq(Sends) /\ Len(x \o y) = 2 /\ (x \o y)[1] = x[1] /\ (x \o y)[2] = y[1]
    BY <1>2, <1>3
  <1> QED BY <1>2, <1>3, <1>4

\* The worker's next event.
LEMMA EventTyped ==
  ASSUME LinkTypes, WorkerEvent
  PROVE  /\ MailTypes' /\ todo' = todo
         /\ \E e \in Accepts("agentMain") :
              e.kind = "event" /\ queue' = [queue EXCEPT !["agentMain"] = Append(queue["agentMain"], e)]
  <1> DEFINE last == {queue["agentMain"][i].arg : i \in DOMAIN queue["agentMain"]} \cup {status}
             n == 1 + CHOOSE x \in last : \A y \in last : y <= x
  <1>1. \A i \in DOMAIN queue["agentMain"] : queue["agentMain"][i].arg \in Statuses
    <2>1. queue["agentMain"] \in Seq(Accepts("agentMain"))
      BY Names DEF LinkTypes, MailTypes
    <2>2. \A m \in Accepts("agentMain") : m.arg \in Statuses
      BY Accepted, LinkAssumption DEF Kinds, Statuses, Nothing
    <2> QED BY <2>1, <2>2
  <1>2. last \subseteq 0..MaxEvents /\ last # {}
    BY <1>1 DEF LinkTypes, Statuses
  <1>3. n \in Nat
    <2>1. MaxEvents \in Nat
      BY LinkAssumption
    <2> HIDE DEF last
    <2>2. (CHOOSE x \in last : \A y \in last : y <= x) \in last
      BY <1>2, <2>1, LastOf
    <2>3. PICK k \in last : k = CHOOSE x \in last : \A y \in last : y <= x
      BY <2>2
    <2>4. n = 1 + k
      BY <2>3
    <2> QED BY <1>2, <2>1, <2>4
  <1>4. /\ n <= MaxEvents /\ Len(queue["agentMain"]) < Capacity
        /\ queue' = [queue EXCEPT !["agentMain"] = Append(@, Msg("event", n))]
        /\ todo' = todo
    BY DEF WorkerEvent, HasRoom
  <1> HIDE DEF n
  <1>5. PICK e \in Accepts("agentMain") : e = Msg("event", n) /\ e.kind = "event" /\ e \in Messages
    <2>1. n \in Statuses
      BY <1>3, <1>4, LinkAssumption DEF Statuses
    <2>2. Msg("event", n) \in Accepts("agentMain")
      BY <2>1, Accepted DEF Kinds, Msg
    <2> QED BY <2>2, Names, Accepted DEF Msg
  <1>6. queue \in [Channels -> Seq(Messages)] /\ "agentMain" \in Channels /\ MailTypes
    BY Names DEF LinkTypes, MailTypes
  <1>7. queue' = [queue EXCEPT !["agentMain"] = Append(queue["agentMain"], e)]
    BY <1>4, <1>5, <1>6
  <1>8. /\ Append(queue["agentMain"], e) \in Seq(Accepts("agentMain"))
        /\ Append(queue["agentMain"], e) \in Seq(Messages)
        /\ Len(Append(queue["agentMain"], e)) <= Capacity
    <2>1. /\ queue["agentMain"] \in Seq(Accepts("agentMain")) /\ queue["agentMain"] \in Seq(Messages)
      BY <1>6 DEF MailTypes
    <2>2. /\ Append(queue["agentMain"], e) \in Seq(Accepts("agentMain"))
          /\ Append(queue["agentMain"], e) \in Seq(Messages)
          /\ Len(Append(queue["agentMain"], e)) = Len(queue["agentMain"]) + 1
          /\ Len(queue["agentMain"]) \in Nat
      BY <1>5, <2>1, Putting
    <2> QED BY <1>4, <2>2, LinkAssumption
  <1>9. MailTypes'
    <2>1. queue' \in [Channels -> Seq(Messages)]
      BY <1>6, <1>7, <1>8
    <2>2. \A d \in Channels : queue'[d] = IF d = "agentMain" THEN Append(queue["agentMain"], e) ELSE queue[d]
      BY <1>6, <1>7
    <2> QED BY <1>4, <1>6, <1>8, <2>1, <2>2 DEF MailTypes
  <1> QED BY <1>4, <1>5, <1>7, <1>9

\* Every step keeps the types.
LEMMA TypesStay ==
  ASSUME LinkTypes, [Next]_vars
  PROVE  LinkTypes'
  <1>1. /\ MailTypes /\ entries \subseteq Modules /\ status \in Statuses /\ listeners \subseteq Questions
        /\ writing \in BOOLEAN /\ link \in {"none", "up", "broken", "closed"} /\ sleeping \in BOOLEAN
        /\ view \in Reports /\ shown \subseteq Questions
        /\ budget \in [commands : 0..MaxCommands, failures : 0..MaxFailures, asks : SUBSET Questions]
    BY DEF LinkTypes
  <1>2. CASE UNCHANGED vars
    BY <1>1, <1>2 DEF vars, LinkTypes, MailTypes
  <1>3. ASSUME NEW t \in Tasks, Send(t)
        PROVE  LinkTypes'
    <2>1. MailTypes' /\ sleeping' \in BOOLEAN
      BY <1>1, <1>3, SendTyped DEF Send
    <2> QED BY <1>1, <1>3, <2>1 DEF Send, LinkTypes
  <1>4. ASSUME NEW t \in {"agent", "operator"}, NEW c \in Channels, NEW what \in Seq(Sends),
               Handles(t, c, what)
        PROVE  LinkTypes'
    <2>1. MailTypes'
      BY <1>1, <1>4, Names, TakeTyped DEF Handles
    <2> QED BY <1>1, <1>4, <2>1 DEF Handles, LinkTypes
  <1>5. CASE AgentTick
    <2>1. PICK old \in SUBSET entries :
            /\ todo' = [todo EXCEPT !["agent"] = [i \in DOMAIN SetToSeq(old) |->
                 [to |-> "agentChild", msg |-> Msg("disable", SetToSeq(old)[i])]] \o To("opMain", UpdateState)]
            /\ UNCHANGED <<queue, entries, status, listeners, writing, link, sleeping, view, shown, budget>>
      BY <1>5 DEF AgentTick
    <2>2. MailTypes'
      BY <1>1, <2>1, TickSends, TurnTyped, Names
    <2> QED BY <1>1, <2>1, <2>2 DEF LinkTypes
  <1>6. ASSUME NEW c \in {"opMain", "opChild"}, OpConnect(c)
        PROVE  LinkTypes'
    <2>1. MailTypes'
      BY <1>6, ConnectTyped
    <2> QED BY <1>1, <1>6, <2>1 DEF OpConnect, LinkTypes
  <1>7. CASE Wake
    <2>1. To("opChild", Msg("connect", Nothing)) \in Seq(Sends)
      BY Accepted, Names, OneSend DEF Kinds, Msg
    <2>2. MailTypes'
      BY <1>1, <1>7, <2>1, TurnTyped, Names DEF Wake
    <2> QED BY <1>1, <1>7, <2>2 DEF Wake, LinkTypes
  <1>8. CASE Write
    <2>1. /\ queue["writer"] # <<>> /\ queue' = [queue EXCEPT !["writer"] = Tail(queue["writer"])]
          /\ todo' = todo /\ "writer" \in Channels
          /\ UNCHANGED <<entries, status, listeners, writing, link, sleeping, budget>>
      BY <1>8, Names DEF Write
    <2>2. MailTypes'
      <3>1. /\ queue["writer"] \in Seq(Accepts("writer")) /\ queue["writer"] \in Seq(Messages)
            /\ Len(queue["writer"]) <= Capacity
        BY <1>1, <2>1 DEF MailTypes
      <3>2. /\ Tail(queue["writer"]) \in Seq(Accepts("writer")) /\ Tail(queue["writer"]) \in Seq(Messages)
            /\ Len(Tail(queue["writer"])) = Len(queue["writer"]) - 1 /\ Len(queue["writer"]) \in Nat
        BY <2>1, <3>1, Taking
      <3>3. Len(Tail(queue["writer"])) <= Capacity
        BY <3>1, <3>2, LinkAssumption
      <3>4. queue' \in [Channels -> Seq(Messages)]
        BY <1>1, <2>1, <3>2 DEF MailTypes
      <3>5. \A d \in Channels : queue'[d] = IF d = "writer" THEN Tail(queue["writer"]) ELSE queue[d]
        BY <1>1, <2>1 DEF MailTypes
      <3> QED BY <1>1, <2>1, <3>2, <3>3, <3>4, <3>5 DEF MailTypes
    <2>3. PICK m \in ToOperator : m = Head(queue["writer"])
      BY <1>1, <2>1, HeadTyped, Accepted
    <2>4. /\ view' = IF link = "up" /\ m.kind = "command" THEN m.arg ELSE view
          /\ shown' = IF link = "up" /\ m.kind = "action" THEN shown \cup {m.arg} ELSE shown
      BY <1>8, <2>3 DEF Write
    <2>5. view' \in Reports /\ shown' \subseteq Questions
      BY <1>1, <2>4 DEF ToOperator, Kinds
    <2> QED BY <1>1, <2>1, <2>2, <2>5 DEF LinkTypes
  <1>9. ASSUME NEW m \in FromOperator, Reads(m)
        PROVE  MailTypes' /\ UNCHANGED <<entries, status, listeners, writing, link, sleeping, view>>
    <2>1. To("opChild", Msg("receive", m)) \in Seq(Sends)
      BY ReaderSends, Names, OneSend
    <2>2. MailTypes'
      BY <1>1, <1>9, <2>1, TurnTyped, Names DEF Reads
    <2> QED BY <1>9, <2>2 DEF Reads
  <1>10. CASE ReadCommand
    <2>1. PICK m \in Commands : Reads(m)
      BY <1>10 DEF ReadCommand
    <2>2. m \in FromOperator
      BY DEF Commands, FromOperator, Kinds, Msg
    <2>3. /\ budget' \in [commands : 0..MaxCommands, failures : 0..MaxFailures, asks : SUBSET Questions]
          /\ shown' = shown
      BY <1>1, <1>10, LinkAssumption DEF ReadCommand
    <2> QED BY <1>1, <1>9, <2>1, <2>2, <2>3 DEF LinkTypes
  <1>11. ASSUME NEW q \in Questions, ReadAnswer(q)
         PROVE  LinkTypes'
    <2>1. Msg("fulfill", q) \in FromOperator
      BY DEF FromOperator, Kinds, Msg
    <2> QED BY <1>1, <1>9, <1>11, <2>1 DEF ReadAnswer, LinkTypes
  <1>12. CASE Break
    <2>1. /\ budget' \in [commands : 0..MaxCommands, failures : 0..MaxFailures, asks : SUBSET Questions]
          /\ UNCHANGED <<queue, todo, entries, status, listeners, writing, sleeping, view, shown>>
          /\ link' = "broken"
      BY <1>1, <1>12, LinkAssumption DEF Break
    <2> QED BY <1>1, <2>1 DEF LinkTypes, MailTypes
  <1>13. CASE ReadError
    <2>1. To("opChild", Msg("reconnect", Nothing)) \in Seq(Sends)
      BY Accepted, Names, OneSend DEF Kinds, Msg
    <2>2. MailTypes'
      BY <1>1, <1>13, <2>1, TurnTyped, Names DEF ReadError
    <2> QED BY <1>1, <1>13, <2>2 DEF ReadError, LinkTypes
  <1>14. CASE ReadClose
    BY <1>1, <1>14 DEF ReadClose, LinkTypes, MailTypes
  <1>15. ASSUME NEW q \in Questions, Ask(q)
         PROVE  LinkTypes'
    <2>1. PICK what \in Seq(Sends) : what = To("agentChild", Msg("setup", q)) \o To("opMain", Msg("action", q))
      BY AskSends
    <2>2. MailTypes'
      BY <1>1, <1>15, <2>1, TurnTyped, Names DEF Ask
    <2> QED BY <1>1, <1>15, <2>2 DEF Ask, LinkTypes
  <1>16. CASE WorkerEvent
    <2>1. MailTypes'
      BY <1>16, EventTyped
    <2> QED BY <1>1, <1>16, <2>1 DEF WorkerEvent, LinkTypes
  <1>17. CASE \/ AgentMainStep \/ AgentChildStep \/ OpReconnect \/ OpReceiveCommand \/ OpSendCommand
              \/ \E c \in {"opMain", "opChild"} : OpConnectFails(c)
    BY <1>4, <1>17, Handlers
  <1> QED
    BY <1>2, <1>3, <1>5, <1>6, <1>7, <1>8, <1>10, <1>11, <1>12, <1>13, <1>14, <1>15, <1>16, <1>17
    DEF Next, OpMainStep, OpChildStep

\* The types hold before the first step.
LEMMA InitTyped == Init => LinkTypes
  <1> SUFFICES ASSUME Init PROVE LinkTypes
    OBVIOUS
  <1>1. Msg("start", Nothing) \in Accepts("agentMain") /\ Msg("start", Nothing) \in Messages
    BY Accepted, Names DEF Kinds, Msg
  <1>2. \A c \in Channels : /\ queue[c] = IF c = "agentMain" THEN <<Msg("start", Nothing)>> ELSE <<>>
                            /\ queue[c] \in Seq(Accepts(c)) /\ queue[c] \in Seq(Messages)
                            /\ Len(queue[c]) <= Capacity
    BY <1>1, LinkAssumption DEF Init
  <1>3. queue \in [Channels -> Seq(Messages)] /\ todo \in [Tasks -> Seq(Sends)]
    BY <1>2 DEF Init
  <1>4. MailTypes
    BY <1>2, <1>3 DEF MailTypes
  <1>5. 0 \in Statuses
    BY LinkAssumption DEF Statuses
  <1>6. view \in Reports
    BY <1>5 DEF Init, Reports
  <1>7. budget \in [commands : 0..MaxCommands, failures : 0..MaxFailures, asks : SUBSET Questions]
    BY LinkAssumption DEF Init
  <1> QED BY <1>4, <1>5, <1>6, <1>7 DEF Init, LinkTypes

\* Every mailbox holds at most its capacity, of messages that its task handles.
THEOREM TypeCorrect == Spec => []TypeOK
  <1>2. LinkTypes => TypeOK
    BY DEF LinkTypes, MailTypes, TypeOK, Reports, Statuses
  <1> QED BY <1>2, InitTyped, TypesStay, PTL DEF Spec

-----------------------------------------------------------------------------
(* Where a step leaves what is on its way.                                 *)

\* A message that is sent goes from the head of its task to the end of the channel.
LEMMA SendMoves ==
  ASSUME MailTypes, NEW t \in Tasks, Send(t), NEW M
  PROVE  \E c \in Channels : \E n \in Nat :
           /\ c = Head(todo[t]).to /\ n = Len(queue[c]) + 1
           /\ Head(todo[t]).msg \in Accepts(c)
           /\ \A i : At(M, "queue", c, i) => i \in Nat /\ i < n
           /\ \A k, x, i : At(M, k, x, i)' <=>
                \/ k = "queue" /\ At(M, "queue", x, i)
                \/ k = "queue" /\ x = c /\ i = n /\ At(M, "todo", t, 1)
                \/ k = "todo" /\ x = t /\ i \in Nat \ {0} /\ At(M, "todo", t, i + 1)
                \/ k = "todo" /\ x # t /\ At(M, "todo", x, i)
  <1>1. /\ todo[t] # <<>> /\ todo[t] \in Seq(Sends) /\ Head(todo[t]) \in Sends
        /\ queue \in [Channels -> Seq(Messages)] /\ todo \in [Tasks -> Seq(Sends)]
    BY SendTyped DEF MailTypes
  <1>2. PICK c \in Channels : c = Head(todo[t]).to /\ Head(todo[t]).msg \in Accepts(c)
    BY SendTyped
  <1>3. PICK m \in Messages : m = Head(todo[t]).msg
    BY <1>2, Accepted
  <1>4. queue' = [queue EXCEPT ![c] = Append(queue[c], m)] /\ todo' = [todo EXCEPT ![t] = Tail(todo[t])]
    BY <1>2, <1>3, SendTyped
  <1>5. PICK s \in Seq(Messages) : s = queue[c]
    BY <1>1
  <1>6. PICK n \in Nat : n = Len(s) + 1
    BY <1>5
  <1>7. /\ \A d \in Channels : queue'[d] = IF d = c THEN Append(s, m) ELSE queue[d]
        /\ \A u \in Tasks : todo'[u] = IF u = t THEN Tail(todo[t]) ELSE todo[u]
    BY <1>1, <1>4, <1>5
  <1>8. /\ \A i : i \in DOMAIN Append(s, m) <=> i \in DOMAIN s \/ i = n
        /\ \A i \in DOMAIN s : Append(s, m)[i] = s[i] /\ i \in Nat /\ i < n
        /\ Append(s, m)[n] = m
    BY <1>5, <1>6, Putting
  <1>9. /\ Head(todo[t]) = todo[t][1] /\ 1 \in DOMAIN todo[t]
        /\ \A i : i \in DOMAIN Tail(todo[t]) <=> i \in Nat \ {0} /\ i + 1 \in DOMAIN todo[t]
        /\ \A i \in DOMAIN Tail(todo[t]) : Tail(todo[t])[i] = todo[t][i + 1]
    BY <1>1, Taking
  <1>10. At(M, "todo", t, 1) <=> m \in M
    BY <1>3, <1>9 DEF At
  <1>11. \A i : At(M, "queue", c, i) => i \in Nat /\ i < n
    BY <1>5, <1>8 DEF At
  <1>12. \A x, i : At(M, "queue", x, i)' <=> At(M, "queue", x, i) \/ (x = c /\ i = n /\ m \in M)
    <2>1. \A i : At(M, "queue", c, i)' <=> At(M, "queue", c, i) \/ (i = n /\ m \in M)
      <3>1. n \in DOMAIN s => n < n
        BY <1>8
      <3>2. n \notin DOMAIN s
        BY <3>1
      <3>3. queue'[c] = Append(s, m)
        BY <1>7
      <3> QED BY <1>5, <1>8, <3>2, <3>3 DEF At
    <2>2. \A x, i : x # c => (At(M, "queue", x, i)' <=> At(M, "queue", x, i))
      BY <1>7 DEF At
    <2> QED BY <2>1, <2>2
  <1>13. \A i : At(M, "todo", t, i)' <=> i \in Nat \ {0} /\ At(M, "todo", t, i + 1)
    BY <1>7, <1>9 DEF At
  <1>14. \A x, i : x # t => (At(M, "todo", x, i)' <=> At(M, "todo", x, i))
    BY <1>7 DEF At
  <1>15. \A k, x, i : At(M, k, x, i)' => k \in {"queue", "todo"}
    BY DEF At
  <1>16. \A k, x, i : At(M, k, x, i)' <=>
                \/ k = "queue" /\ At(M, "queue", x, i)
                \/ k = "queue" /\ x = c /\ i = n /\ At(M, "todo", t, 1)
                \/ k = "todo" /\ x = t /\ i \in Nat \ {0} /\ At(M, "todo", t, i + 1)
                \/ k = "todo" /\ x # t /\ At(M, "todo", x, i)
    <2> TAKE k, x, i
    <2>1. CASE k = "queue"
      BY <1>10, <1>12, <2>1
    <2>2. CASE k = "todo" /\ x = t
      BY <1>13, <2>2
    <2>3. CASE k = "todo" /\ x # t
      BY <1>14, <2>3
    <2> QED BY <1>15, <2>1, <2>2, <2>3
  <1>17. c = Head(todo[t]).to /\ n = Len(queue[c]) + 1 /\ Head(todo[t]).msg \in Accepts(c)
    BY <1>2, <1>5, <1>6
  <1> WITNESS c \in Channels
  <1> WITNESS n \in Nat
  <1> QED BY <1>11, <1>16, <1>17, Zenon

\* A message that is taken leaves the channel, and its task is to send what.
LEMMA TakeMoves ==
  ASSUME MailTypes, NEW t \in Tasks, NEW c \in Channels, NEW what \in Seq(Sends),
         queue[c] # <<>>, Take(t, c, what), NEW M
  PROVE  /\ \A i : ~At(M, "todo", t, i)
         /\ At(M, "queue", c, 1) <=> Head(queue[c]) \in M
         /\ \A k, x, i : At(M, k, x, i)' <=>
              \/ k = "queue" /\ x # c /\ At(M, "queue", x, i)
              \/ k = "queue" /\ x = c /\ i \in Nat \ {0} /\ At(M, "queue", c, i + 1)
              \/ k = "todo" /\ x = t /\ i \in DOMAIN what /\ what[i].msg \in M
              \/ k = "todo" /\ x # t /\ At(M, "todo", x, i)
  <1>1. /\ queue \in [Channels -> Seq(Messages)] /\ todo \in [Tasks -> Seq(Sends)]
        /\ queue' = [queue EXCEPT ![c] = Tail(queue[c])] /\ todo' = [todo EXCEPT ![t] = what]
        /\ todo[t] = <<>>
    BY DEF MailTypes, Take, Ready
  <1>2. /\ \A d \in Channels : queue'[d] = IF d = c THEN Tail(queue[c]) ELSE queue[d]
        /\ \A u \in Tasks : todo'[u] = IF u = t THEN what ELSE todo[u]
    BY <1>1
  <1>3. queue[c] \in Seq(Messages)
    BY <1>1
  <1>4. /\ Head(queue[c]) = queue[c][1] /\ 1 \in DOMAIN queue[c]
        /\ \A i : i \in DOMAIN Tail(queue[c]) <=> i \in Nat \ {0} /\ i + 1 \in DOMAIN queue[c]
        /\ \A i \in DOMAIN Tail(queue[c]) : Tail(queue[c])[i] = queue[c][i + 1]
    BY <1>3, Taking
  <1>5. \A i : ~At(M, "todo", t, i)
    BY <1>1 DEF At
  <1>6. At(M, "queue", c, 1) <=> Head(queue[c]) \in M
    BY <1>4 DEF At
  <1>7. \A i : At(M, "queue", c, i)' <=> i \in Nat \ {0} /\ At(M, "queue", c, i + 1)
    BY <1>2, <1>4 DEF At
  <1>8. \A x, i : x # c => (At(M, "queue", x, i)' <=> At(M, "queue", x, i))
    BY <1>2 DEF At
  <1>9. \A i : At(M, "todo", t, i)' <=> i \in DOMAIN what /\ what[i].msg \in M
    BY <1>2 DEF At
  <1>10. \A x, i : x # t => (At(M, "todo", x, i)' <=> At(M, "todo", x, i))
    BY <1>2 DEF At
  <1>11. \A k, x, i : At(M, k, x, i)' => k \in {"queue", "todo"}
    BY DEF At
  <1>12. \A k, x, i : At(M, k, x, i)' <=>
              \/ k = "queue" /\ x # c /\ At(M, "queue", x, i)
              \/ k = "queue" /\ x = c /\ i \in Nat \ {0} /\ At(M, "queue", c, i + 1)
              \/ k = "todo" /\ x = t /\ i \in DOMAIN what /\ what[i].msg \in M
              \/ k = "todo" /\ x # t /\ At(M, "todo", x, i)
    <2> TAKE k, x, i
    <2>1. CASE k = "queue" /\ x = c
      BY <1>7, <2>1
    <2>2. CASE k = "queue" /\ x # c
      BY <1>8, <2>2
    <2>3. CASE k = "todo" /\ x = t
      BY <1>9, <2>3
    <2>4. CASE k = "todo" /\ x # t
      BY <1>10, <2>4
    <2> QED BY <1>11, <2>1, <2>2, <2>3, <2>4
  <1> QED BY <1>5, <1>6, <1>12

\* A task turns to what; what it had to send is dropped.
LEMMA TurnMoves ==
  ASSUME MailTypes, NEW t \in Tasks, NEW what \in Seq(Sends),
         queue' = queue, todo' = [todo EXCEPT ![t] = what], NEW M
  PROVE  \A k, x, i : At(M, k, x, i)' <=>
           \/ k = "queue" /\ At(M, "queue", x, i)
           \/ k = "todo" /\ x = t /\ i \in DOMAIN what /\ what[i].msg \in M
           \/ k = "todo" /\ x # t /\ At(M, "todo", x, i)
  <1>1. \A u \in Tasks : todo'[u] = IF u = t THEN what ELSE todo[u]
    BY DEF MailTypes
  <1>2. \A x, i : At(M, "queue", x, i)' <=> At(M, "queue", x, i)
    BY DEF At
  <1>3. \A i : At(M, "todo", t, i)' <=> i \in DOMAIN what /\ what[i].msg \in M
    BY <1>1 DEF At
  <1>4. \A x, i : x # t => (At(M, "todo", x, i)' <=> At(M, "todo", x, i))
    BY <1>1 DEF At
  <1>5. \A k, x, i : At(M, k, x, i)' => k \in {"queue", "todo"}
    BY DEF At
  <1> QED BY <1>2, <1>3, <1>4, <1>5, Zenon

\* One at most stays one at most, and none stays none, if what a step makes is
\* made of what it takes.
LEMMA SendKeeps ==
  ASSUME MailTypes, NEW t \in Tasks, Send(t), NEW M
  PROVE  (Lone(M) => Lone(M)') /\ (Gone(M) => Gone(M)')
  <1>0. PICK c \in Channels : \E n \in Nat :
           /\ c = Head(todo[t]).to /\ n = Len(queue[c]) + 1
           /\ Head(todo[t]).msg \in Accepts(c)
           /\ \A i : At(M, "queue", c, i) => i \in Nat /\ i < n
           /\ \A k, x, i : At(M, k, x, i)' <=>
                \/ k = "queue" /\ At(M, "queue", x, i)
                \/ k = "queue" /\ x = c /\ i = n /\ At(M, "todo", t, 1)
                \/ k = "todo" /\ x = t /\ i \in Nat \ {0} /\ At(M, "todo", t, i + 1)
                \/ k = "todo" /\ x # t /\ At(M, "todo", x, i)
    BY SendMoves
  <1>1. PICK n \in Nat :
           /\ c = Head(todo[t]).to /\ n = Len(queue[c]) + 1
           /\ Head(todo[t]).msg \in Accepts(c)
           /\ \A i : At(M, "queue", c, i) => i \in Nat /\ i < n
           /\ \A k, x, i : At(M, k, x, i)' <=>
                \/ k = "queue" /\ At(M, "queue", x, i)
                \/ k = "queue" /\ x = c /\ i = n /\ At(M, "todo", t, 1)
                \/ k = "todo" /\ x = t /\ i \in Nat \ {0} /\ At(M, "todo", t, i + 1)
                \/ k = "todo" /\ x # t /\ At(M, "todo", x, i)
    BY <1>0
  <1>2. Gone(M) => Gone(M)'
    BY <1>1 DEF Gone
  <1>3. ASSUME Lone(M), NEW k, NEW x, NEW i, NEW l, NEW y, NEW j, At(M, k, x, i)', At(M, l, y, j)'
        PROVE  k = l /\ x = y /\ i = j
    <2>1. \A p, a, b, r, d, e : At(M, p, a, b) /\ At(M, r, d, e) => p = r /\ a = d /\ b = e
      BY <1>3 DEF Lone
    <2>2. \/ k = "queue" /\ At(M, "queue", x, i)
          \/ k = "queue" /\ x = c /\ i = n /\ At(M, "todo", t, 1)
          \/ k = "todo" /\ x = t /\ i \in Nat \ {0} /\ At(M, "todo", t, i + 1)
          \/ k = "todo" /\ x # t /\ At(M, "todo", x, i)
      BY <1>1, <1>3
    <2>3. \/ l = "queue" /\ At(M, "queue", y, j)
          \/ l = "queue" /\ y = c /\ j = n /\ At(M, "todo", t, 1)
          \/ l = "todo" /\ y = t /\ j \in Nat \ {0} /\ At(M, "todo", t, j + 1)
          \/ l = "todo" /\ y # t /\ At(M, "todo", y, j)
      BY <1>1, <1>3
    <2> QED BY <2>1, <2>2, <2>3
  <1> QED BY <1>2, <1>3 DEF Lone

\* As for a message that is handled.
LEMMA TakeKeeps ==
  ASSUME MailTypes, NEW t \in Tasks, NEW c \in Channels, NEW what \in Seq(Sends),
         queue[c] # <<>>, Take(t, c, what), NEW M,
         what # <<>> => Len(what) = 1 /\ (what[1].msg \in M => Head(queue[c]) \in M)
  PROVE  /\ Lone(M) => Lone(M)'
         /\ Gone(M) => Gone(M)'
         /\ Lone(M) /\ Head(queue[c]) \in M /\ (what # <<>> => what[1].msg \notin M) => Gone(M)'
  <1>1. /\ \A i : ~At(M, "todo", t, i)
        /\ At(M, "queue", c, 1) <=> Head(queue[c]) \in M
        /\ \A k, x, i : At(M, k, x, i)' <=>
             \/ k = "queue" /\ x # c /\ At(M, "queue", x, i)
             \/ k = "queue" /\ x = c /\ i \in Nat \ {0} /\ At(M, "queue", c, i + 1)
             \/ k = "todo" /\ x = t /\ i \in DOMAIN what /\ what[i].msg \in M
             \/ k = "todo" /\ x # t /\ At(M, "todo", x, i)
    BY TakeMoves
  <1>2. \A i : i \in DOMAIN what /\ what[i].msg \in M =>
                 i = 1 /\ what # <<>> /\ what[1].msg \in M /\ At(M, "queue", c, 1)
    BY <1>1
  <1>3. Gone(M) => Gone(M)'
    BY <1>1, <1>2 DEF Gone
  <1>4. ASSUME Lone(M), NEW k, NEW x, NEW i, At(M, k, x, i)'
        PROVE  \/ k = "queue" /\ x # c /\ At(M, "queue", x, i)
               \/ k = "queue" /\ x = c /\ i \in Nat \ {0} /\ At(M, "queue", c, i + 1)
               \/ /\ k = "todo" /\ x = t /\ i = 1 /\ At(M, "queue", c, 1)
                  /\ what # <<>> /\ what[1].msg \in M
               \/ k = "todo" /\ x # t /\ At(M, "todo", x, i)
    BY <1>1, <1>2, <1>4
  <1>5. ASSUME Lone(M), NEW k, NEW x, NEW i, NEW l, NEW y, NEW j, At(M, k, x, i)', At(M, l, y, j)'
        PROVE  k = l /\ x = y /\ i = j
    <2>1. \A p, a, b, r, d, e : At(M, p, a, b) /\ At(M, r, d, e) => p = r /\ a = d /\ b = e
      BY <1>5 DEF Lone
    <2>2. \/ k = "queue" /\ x # c /\ At(M, "queue", x, i)
          \/ k = "queue" /\ x = c /\ i \in Nat \ {0} /\ At(M, "queue", c, i + 1)
          \/ k = "todo" /\ x = t /\ i = 1 /\ At(M, "queue", c, 1)
          \/ k = "todo" /\ x # t /\ At(M, "todo", x, i)
      BY <1>4, <1>5
    <2>3. \/ l = "queue" /\ y # c /\ At(M, "queue", y, j)
          \/ l = "queue" /\ y = c /\ j \in Nat \ {0} /\ At(M, "queue", c, j + 1)
          \/ l = "todo" /\ y = t /\ j = 1 /\ At(M, "queue", c, 1)
          \/ l = "todo" /\ y # t /\ At(M, "todo", y, j)
      BY <1>4, <1>5
    <2> QED BY <2>1, <2>2, <2>3
  <1>6. ASSUME Lone(M), At(M, "queue", c, 1), what # <<>> => what[1].msg \notin M,
               NEW k, NEW x, NEW i, At(M, k, x, i)'
        PROVE  FALSE
    <2>1. \A p, a, b : At(M, p, a, b) => p = "queue" /\ a = c /\ b = 1
      BY <1>6 DEF Lone
    <2>2. \/ k = "queue" /\ x # c /\ At(M, "queue", x, i)
          \/ k = "queue" /\ x = c /\ i \in Nat \ {0} /\ At(M, "queue", c, i + 1)
          \/ k = "todo" /\ x # t /\ At(M, "todo", x, i)
      BY <1>4, <1>6
    <2> QED BY <2>1, <2>2
  <1> QED BY <1>1, <1>3, <1>5, <1>6 DEF Lone, Gone

\* None becomes one at most when a task is to send one.
LEMMA TurnKeeps ==
  ASSUME MailTypes, NEW t \in Tasks, NEW what \in Seq(Sends),
         queue' = queue, todo' = [todo EXCEPT ![t] = what], NEW M
  PROVE  /\ Gone(M) /\ (\A i \in DOMAIN what : what[i].msg \notin M) => Gone(M)'
         /\ Lone(M) /\ (\A i \in DOMAIN what : what[i].msg \notin M) => Lone(M)'
         /\ \A n : Gone(M) /\ (\A i \in DOMAIN what : what[i].msg \in M => i = n) => Lone(M)'
  <1>1. \A k, x, i : At(M, k, x, i)' <=>
           \/ k = "queue" /\ At(M, "queue", x, i)
           \/ k = "todo" /\ x = t /\ i \in DOMAIN what /\ what[i].msg \in M
           \/ k = "todo" /\ x # t /\ At(M, "todo", x, i)
    BY TurnMoves
  <1>2. Gone(M) /\ (\A i \in DOMAIN what : what[i].msg \notin M) => Gone(M)'
    BY <1>1 DEF Gone
  <1>3. (\A i \in DOMAIN what : what[i].msg \notin M) =>
          \A k, x, i : At(M, k, x, i)' => At(M, k, x, i)
    BY <1>1
  <1>4. ASSUME NEW n, Gone(M), \A i \in DOMAIN what : what[i].msg \in M => i = n
        PROVE  Lone(M)'
    <2>1. \A k, x, i : At(M, k, x, i)' => k = "todo" /\ x = t /\ i = n
      BY <1>1, <1>4 DEF Gone
    <2> QED BY <2>1 DEF Lone
  <1> QED BY <1>2, <1>3, <1>4 DEF Lone

\* A channel loses its head, and perhaps another one all that it holds.
LEMMA LossMoves ==
  ASSUME MailTypes, NEW c \in Channels, queue[c] # <<>>, queue'[c] = Tail(queue[c]),
         \A d \in Channels : d # c => queue'[d] = queue[d] \/ queue'[d] = <<>>,
         NEW M,
         \A u \in Tasks : todo'[u] = todo[u] \/ \A i \in DOMAIN todo'[u] : todo'[u][i].msg \notin M
  PROVE  /\ \A k, x, i : At(M, k, x, i)' =>
              \/ k = "queue" /\ x # c /\ At(M, "queue", x, i)
              \/ k = "queue" /\ x = c /\ i \in Nat \ {0} /\ At(M, "queue", c, i + 1)
              \/ k = "todo" /\ At(M, "todo", x, i)
         /\ Lone(M) => Lone(M)'
         /\ Gone(M) => Gone(M)'
         /\ Lone(M) /\ Head(queue[c]) \in M => Gone(M)'
  <1>1. queue[c] \in Seq(Messages)
    BY DEF MailTypes
  <1>2. /\ Head(queue[c]) = queue[c][1] /\ 1 \in DOMAIN queue[c]
        /\ \A i : i \in DOMAIN Tail(queue[c]) <=> i \in Nat \ {0} /\ i + 1 \in DOMAIN queue[c]
        /\ \A i \in DOMAIN Tail(queue[c]) : Tail(queue[c])[i] = queue[c][i + 1]
    BY <1>1, Taking
  <1>3. \A i : At(M, "queue", c, i)' => i \in Nat \ {0} /\ At(M, "queue", c, i + 1)
    BY <1>2 DEF At
  <1>4. \A x, i : x # c /\ At(M, "queue", x, i)' => At(M, "queue", x, i)
    <2>1. \A i : i \notin DOMAIN <<>>
      OBVIOUS
    <2> QED BY <2>1 DEF At
  <1>5. \A x, i : At(M, "todo", x, i)' => At(M, "todo", x, i)
    BY DEF At
  <1>6. \A k, x, i : At(M, k, x, i)' =>
              \/ k = "queue" /\ x # c /\ At(M, "queue", x, i)
              \/ k = "queue" /\ x = c /\ i \in Nat \ {0} /\ At(M, "queue", c, i + 1)
              \/ k = "todo" /\ At(M, "todo", x, i)
    <2> TAKE k, x, i
    <2>1. At(M, k, x, i)' => k \in {"queue", "todo"}
      BY DEF At
    <2>2. CASE k = "queue"
      BY <1>3, <1>4, <2>2
    <2>3. CASE k = "todo"
      BY <1>5, <2>3
    <2> QED BY <2>1, <2>2, <2>3
  <1>7. ASSUME Lone(M), NEW k, NEW x, NEW i, NEW l, NEW y, NEW j, At(M, k, x, i)', At(M, l, y, j)'
        PROVE  k = l /\ x = y /\ i = j
    <2>1. \A p, a, b, r, d, e : At(M, p, a, b) /\ At(M, r, d, e) => p = r /\ a = d /\ b = e
      BY <1>7 DEF Lone
    <2>2. \/ k = "queue" /\ x # c /\ At(M, "queue", x, i)
          \/ k = "queue" /\ x = c /\ i \in Nat \ {0} /\ At(M, "queue", c, i + 1)
          \/ k = "todo" /\ At(M, "todo", x, i)
      BY <1>6, <1>7
    <2>3. \/ l = "queue" /\ y # c /\ At(M, "queue", y, j)
          \/ l = "queue" /\ y = c /\ j \in Nat \ {0} /\ At(M, "queue", c, j + 1)
          \/ l = "todo" /\ At(M, "todo", y, j)
      BY <1>6, <1>7
    <2> QED BY <2>1, <2>2, <2>3
  <1>8. ASSUME Lone(M), Head(queue[c]) \in M, NEW k, NEW x, NEW i, At(M, k, x, i)'
        PROVE  FALSE
    <2>1. At(M, "queue", c, 1)
      BY <1>2, <1>8 DEF At
    <2>2. \A p, a, b : At(M, p, a, b) => p = "queue" /\ a = c /\ b = 1
      BY <1>8, <2>1 DEF Lone
    <2>3. \/ k = "queue" /\ x # c /\ At(M, "queue", x, i)
          \/ k = "queue" /\ x = c /\ i \in Nat \ {0} /\ At(M, "queue", c, i + 1)
          \/ k = "todo" /\ At(M, "todo", x, i)
      BY <1>6, <1>8
    <2> QED BY <2>2, <2>3
  <1> QED BY <1>6, <1>7, <1>8 DEF Lone, Gone

\* A channel gets one that is not in M, or none does.
LEMMA GainMoves ==
  ASSUME MailTypes, NEW M, todo' = todo,
         \/ queue' = queue
         \/ \E c \in Channels : \E e \in Accepts(c) :
              e \notin M /\ queue' = [queue EXCEPT ![c] = Append(queue[c], e)]
  PROVE  /\ \A k, x, i : At(M, k, x, i)' <=> At(M, k, x, i)
         /\ Lone(M) => Lone(M)'
         /\ Gone(M) => Gone(M)'
  <1>1. \A k, x, i : At(M, k, x, i)' <=> At(M, k, x, i)
    <2>1. CASE queue' = queue
      BY <2>1 DEF At
    <2>2. ASSUME NEW c \in Channels, NEW e \in Accepts(c), e \notin M,
                 queue' = [queue EXCEPT ![c] = Append(queue[c], e)]
          PROVE  \A k, x, i : At(M, k, x, i)' <=> At(M, k, x, i)
      <3>1. PICK s \in Seq(Messages) : s = queue[c]
        BY DEF MailTypes
      <3>2. e \in Messages
        BY Accepted
      <3>3. /\ \A i : i \in DOMAIN Append(s, e) <=> i \in DOMAIN s \/ i = Len(s) + 1
            /\ \A i \in DOMAIN s : Append(s, e)[i] = s[i]
            /\ Append(s, e)[Len(s) + 1] = e
        BY <3>1, <3>2, Putting
      <3>4. \A d \in Channels : queue'[d] = IF d = c THEN Append(s, e) ELSE queue[d]
        BY <2>2, <3>1 DEF MailTypes
      <3>5. \A i : i \in DOMAIN queue'[c] /\ queue'[c][i] \in M <=> i \in DOMAIN s /\ s[i] \in M
        BY <2>2, <3>3, <3>4
      <3>6. \A x, i : At(M, "queue", x, i)' <=> At(M, "queue", x, i)
        BY <3>1, <3>4, <3>5 DEF At
      <3>7. \A x, i : At(M, "todo", x, i)' <=> At(M, "todo", x, i)
        BY DEF At
      <3>8. \A k, x, i : At(M, k, x, i) \/ At(M, k, x, i)' => k \in {"queue", "todo"}
        BY DEF At
      <3> QED BY <3>6, <3>7, <3>8
    <2> QED BY <2>1, <2>2
  <1> QED BY <1>1 DEF Lone, Gone

-----------------------------------------------------------------------------
(* One way to a connection.                                                *)

\* A step in which the client's messages, the sleeper and the socket stay keeps
\* one way, if it makes no request.
LEMMA OtherWays ==
  ASSUME OneWay, Lone(Ways) => Lone(Ways)', Gone(Ways) => Gone(Ways)',
         Telling' => Telling, sleeping' => sleeping,
         link' \in {"up", "broken"} => link \in {"up", "broken"}
  PROVE  OneWay'
  BY DEF OneWay

\* Handling a message keeps one way: a request is made of a request only.
LEMMA HandlingWays ==
  ASSUME LinkTypes, ClientSends, OneWay,
         NEW t \in {"agent", "operator"}, NEW c \in Channels, NEW what \in Seq(Sends),
         Handles(t, c, what)
  PROVE  ClientSends' /\ OneWay'
  <1>1. /\ MailTypes /\ queue[c] # <<>> /\ Take(t, c, what) /\ link' = link /\ sleeping' = sleeping
        /\ t \in Tasks /\ "operator" \in Tasks
    BY Names DEF LinkTypes, Handles
  <1>2. what # <<>> => /\ Len(what) = 1
                       /\ what[1].msg.kind = "disconnected" => t = "operator"
                       /\ what[1].msg \in Ways \/ what[1].msg.kind = "disconnected" => Head(queue[c]) \in Ways
    BY DEF Handles, Follows
  <1>3. \A u \in Tasks : todo'[u] = IF u = t THEN what ELSE todo[u]
    BY <1>1 DEF MailTypes, Take
  <1>4. DOMAIN what = 1..Len(what) /\ Len(what) \in Nat /\ (what = <<>> <=> Len(what) = 0)
        /\ (what # <<>> => Head(what) = what[1])
    OBVIOUS
  <1>5. ClientSends'
    BY <1>2, <1>3, <1>4, <1>1 DEF ClientSends
  <1>6. /\ Lone(Ways) => Lone(Ways)'
        /\ Gone(Ways) => Gone(Ways)'
        /\ Lone(Ways) /\ Head(queue[c]) \in Ways /\ (what # <<>> => what[1].msg \notin Ways) => Gone(Ways)'
    BY <1>1, <1>2, TakeKeeps
  <1>7. Head(queue[c]) \in Ways => ~Gone(Ways)
    <2>1. At(Ways, "queue", c, 1) <=> Head(queue[c]) \in Ways
      BY <1>1, TakeMoves, Zenon
    <2> QED BY <2>1 DEF Gone
  <1>8. CASE t = "operator" /\ what # <<>> /\ what[1].msg.kind = "disconnected"
    <2>1. Head(queue[c]) \in Ways /\ what[1].msg \notin Ways
      BY <1>2, <1>8 DEF Ways
    <2>2. Gone(Ways)' /\ ~sleeping /\ link \notin {"up", "broken"} /\ Lone(Ways)'
      BY <1>6, <1>7, <2>1 DEF OneWay
    <2> QED BY <1>1, <1>5, <2>2 DEF OneWay
  <1>9. CASE ~(t = "operator" /\ what # <<>> /\ what[1].msg.kind = "disconnected")
    <2>1. Telling' => Telling
      BY <1>1, <1>3, <1>4, <1>9 DEF Telling
    <2> QED BY <1>1, <1>5, <1>6, <2>1, OtherWays
  <1> QED BY <1>8, <1>9

\* A task other than the client turns to messages of its own.
LEMMA TurningWays ==
  ASSUME LinkTypes, ClientSends, OneWay, NEW t \in Tasks \ {"operator"}, NEW what \in Seq(Sends),
         queue' = queue, todo' = [todo EXCEPT ![t] = what],
         \A i \in DOMAIN what : what[i].msg.kind # "disconnected"
  PROVE  /\ ClientSends' /\ Telling' = Telling
         /\ (\A i \in DOMAIN what : what[i].msg \notin Ways) =>
              (Lone(Ways) => Lone(Ways)') /\ (Gone(Ways) => Gone(Ways)')
         /\ Gone(Ways) /\ Len(what) = 1 => Lone(Ways)'
  <1>1. MailTypes /\ "operator" \in Tasks
    BY Names DEF LinkTypes
  <1>2. \A u \in Tasks : todo'[u] = IF u = t THEN what ELSE todo[u]
    BY <1>1 DEF MailTypes
  <1>3. ClientSends' /\ Telling' = Telling
    BY <1>1, <1>2 DEF ClientSends, Telling
  <1>4. (\A i \in DOMAIN what : what[i].msg \notin Ways) =>
              (Lone(Ways) => Lone(Ways)') /\ (Gone(Ways) => Gone(Ways)')
    BY <1>1, TurnKeeps
  <1>5. ASSUME Gone(Ways), Len(what) = 1 PROVE Lone(Ways)'
    <2>1. \A i \in DOMAIN what : what[i].msg \in Ways => i = 1
      BY <1>5
    <2> QED BY <1>1, <1>5, <2>1, TurnKeeps
  <1> QED BY <1>3, <1>4, <1>5

\* Every step keeps one way to a connection.
LEMMA WaysStay ==
  ASSUME LinkTypes, ClientSends, OneWay, [Next]_vars
  PROVE  ClientSends' /\ OneWay'
  <1>1. /\ MailTypes /\ "operator" \in Tasks /\ "agent" \in Tasks /\ "reader" \in Tasks
        /\ "sleeper" \in Tasks /\ Questions \subseteq Tasks /\ "operator" \notin Questions
        /\ todo \in [Tasks -> Seq(Sends)]
    BY Names DEF LinkTypes, MailTypes
  <1>2. CASE UNCHANGED vars
    <2>1. queue' = queue /\ todo' = todo /\ link' = link /\ sleeping' = sleeping
      BY <1>2 DEF vars
    <2>2. /\ Lone(Ways) => Lone(Ways)'
          /\ Gone(Ways) => Gone(Ways)'
      BY <1>1, <2>1, GainMoves
    <2> QED BY <2>1, <2>2, OtherWays DEF ClientSends, Telling
  <1>3. ASSUME NEW t \in Tasks, Send(t)
        PROVE  ClientSends' /\ OneWay'
    <2>1. /\ todo[t] # <<>> /\ todo[t] \in Seq(Sends) /\ todo' = [todo EXCEPT ![t] = Tail(todo[t])]
          /\ sleeping' = (sleeping \/ Head(todo[t]).msg.kind = "disconnected") /\ link' = link
      BY <1>1, <1>3, SendTyped DEF Send
    <2>2. \A u \in Tasks : todo'[u] = IF u = t THEN Tail(todo[t]) ELSE todo[u]
      BY <1>1, <2>1
    <2>3. PICK r \in Seq(Sends) : /\ r = Tail(todo[t]) /\ Len(r) = Len(todo[t]) - 1
                                  /\ \A i \in DOMAIN r : r[i] = todo[t][i + 1] /\ i + 1 \in DOMAIN todo[t]
      <3>1. /\ Tail(todo[t]) \in Seq(Sends) /\ Len(Tail(todo[t])) = Len(todo[t]) - 1
            /\ \A i : i \in DOMAIN Tail(todo[t]) <=> i \in Nat \ {0} /\ i + 1 \in DOMAIN todo[t]
            /\ \A i \in DOMAIN Tail(todo[t]) : Tail(todo[t])[i] = todo[t][i + 1]
        BY <2>1, Taking
      <3> QED BY <3>1
    <2>4. Head(todo[t]).msg.kind = "disconnected" => t = "operator" /\ Telling
      <3>1. Head(todo[t]) = todo[t][1] /\ 1 \in DOMAIN todo[t]
        BY <2>1, Taking
      <3> QED BY <2>1, <3>1 DEF ClientSends, Telling
    <2>5. Lone(Ways)' /\ (Gone(Ways) => Gone(Ways)')
      BY <1>1, <1>3, SendKeeps DEF OneWay
    <2>6. CASE t = "operator"
      <3>1. Len(todo[t]) \in Nat /\ Len(todo[t]) <= 1 /\ Len(r) \in Nat
        BY <2>1, <2>6 DEF ClientSends
      <3>2. r = <<>> /\ todo'["operator"] = r
        <4>5. r = <<>>
          BY <2>1, <2>3, <3>1, LastTaken
        <4>6. todo'["operator"] = r
          BY <1>1, <2>2, <2>3, <2>6
        <4> QED BY <4>5, <4>6
      <3>3. ~Telling' /\ Len(todo'["operator"]) <= 1
        BY <3>2 DEF Telling
      <3>4. ClientSends'
        BY <1>1, <2>2, <2>3, <2>6, <3>2, <3>3 DEF ClientSends
      <3>5. sleeping' => sleeping \/ Telling
        BY <2>1, <2>4
      <3> QED BY <2>1, <2>5, <3>3, <3>4, <3>5 DEF OneWay
    <2>7. CASE t # "operator"
      <3>1. todo'["operator"] = todo["operator"] /\ sleeping' = sleeping
        BY <1>1, <2>1, <2>2, <2>4, <2>7, Zenon DEF LinkTypes
      <3>2. Telling' = Telling
        BY <3>1 DEF Telling
      <3>3. ClientSends'
        <4>1. \A u \in Tasks : \A i \in DOMAIN todo'[u] : todo'[u][i].msg.kind = "disconnected" => u = "operator"
          <5> SUFFICES ASSUME NEW u \in Tasks, NEW i \in DOMAIN todo'[u],
                              todo'[u][i].msg.kind = "disconnected"
                       PROVE  u = "operator"
            OBVIOUS
          <5>1. CASE u = t
            <6>1. i \in DOMAIN r /\ r[i].msg.kind = "disconnected"
              BY <2>2, <2>3, <5>1
            <6>2. i + 1 \in DOMAIN todo[t] /\ todo[t][i + 1].msg.kind = "disconnected"
              BY <2>3, <6>1
            <6> QED BY <5>1, <6>2 DEF ClientSends
          <5>2. CASE u # t
            BY <2>2, <5>2 DEF ClientSends
          <5> QED BY <5>1, <5>2
        <4> QED BY <3>1, <4>1 DEF ClientSends
      <3> QED BY <2>1, <2>5, <3>1, <3>2, <3>3 DEF OneWay
    <2> QED BY <2>6, <2>7
  <1>4. CASE \/ AgentMainStep \/ AgentChildStep \/ OpReconnect \/ OpReceiveCommand \/ OpSendCommand
             \/ \E c \in {"opMain", "opChild"} : OpConnectFails(c)
    BY <1>4, Handlers, HandlingWays
  <1>5. CASE AgentTick
    <2>1. PICK old, what :
            /\ old \subseteq entries
            /\ what = [i \in DOMAIN SetToSeq(old) |->
                 [to |-> "agentChild", msg |-> Msg("disable", SetToSeq(old)[i])]] \o To("opMain", UpdateState)
            /\ todo' = [todo EXCEPT !["agent"] = what]
            /\ UNCHANGED <<queue, link, sleeping>>
      BY <1>5 DEF AgentTick
    <2>2. what \in Seq(Sends) /\ \A i \in DOMAIN what : what[i].msg.kind \in {"disable", "command"}
      BY <2>1, TickSends
    <2>3. \A i \in DOMAIN what : what[i].msg \notin Ways /\ what[i].msg.kind # "disconnected"
      BY <2>2 DEF Ways
    <2>4. /\ ClientSends' /\ Telling' = Telling
          /\ Lone(Ways) => Lone(Ways)'
          /\ Gone(Ways) => Gone(Ways)'
      BY <1>1, <2>1, <2>2, <2>3, TurningWays
    <2> QED BY <2>1, <2>4, OtherWays
  <1>6. ASSUME NEW c \in {"opMain", "opChild"}, OpConnect(c)
        PROVE  ClientSends' /\ OneWay'
    <2>1. PICK what \in Seq(Sends) : /\ what = To("agentChild", Msg("connected", Nothing))
                                     /\ Len(what) = 1 /\ what[1].msg.kind = "connected"
      BY <1>6, ConnectTyped DEF Msg
    <2>2. /\ c \in Channels /\ c # "writer" /\ queue[c] # <<>> /\ Head(queue[c]) \in Ways
          /\ queue' = [[queue EXCEPT ![c] = Tail(queue[c])] EXCEPT !["writer"] = <<>>]
          /\ todo["operator"] = <<>> /\ todo' = [todo EXCEPT !["operator"] = what]
          /\ link' = "up" /\ sleeping' = sleeping
      BY <1>6, <2>1, ConnectTyped DEF OpConnect
    <2>3. /\ \A u \in Tasks : todo'[u] = IF u = "operator" THEN what ELSE todo[u]
          /\ queue'[c] = Tail(queue[c])
          /\ \A d \in Channels : d # c => queue'[d] = queue[d] \/ queue'[d] = <<>>
      BY <1>1, <2>2 DEF MailTypes
    <2>4. \A i \in DOMAIN what : i = 1 /\ what[i].msg \notin Ways /\ what[i].msg.kind # "disconnected"
      BY <2>1 DEF Ways
    <2>5. \A u \in Tasks : todo'[u] = todo[u] \/ \A i \in DOMAIN todo'[u] : todo'[u][i].msg \notin Ways
      BY <2>3, <2>4
    <2>6. Gone(Ways)'
      BY <1>1, <2>2, <2>3, <2>5, LossMoves DEF OneWay
    <2>7. ~Telling' /\ ClientSends'
      <3>1. what # <<>> /\ Head(what) = what[1] /\ 1 \in DOMAIN what
        BY <2>1
      <3>2. todo'["operator"] = what /\ Len(what) <= 1
        <4>1. "operator" \in Tasks
          BY DEF Tasks
        <4>2. todo'["operator"] = what
          BY <2>3, <4>1, Zenon
        <4>3. Len(what) <= 1
          <5>1. Len(what) = 1
            BY <2>1, Zenon
          <5> QED BY <5>1
        <4> QED BY <4>2, <4>3
      <3>3. \A u \in Tasks : u # "operator" => todo'[u] = todo[u]
        BY <2>3
      <3>4. ~Telling'
        BY <2>4, <3>1, <3>2 DEF Telling
      <3>5. ClientSends
        BY <1>1
      <3> QED BY <3>2, <3>3, <3>4, <3>5 DEF ClientSends
    <2>8. ~sleeping
      <3>1. At(Ways, "queue", c, 1)
        <4>1. queue[c] \in Seq(Messages)
          BY <1>1, <2>2 DEF MailTypes
        <4> QED BY <2>2, <4>1, Taking DEF At
      <3> QED BY <3>1 DEF OneWay, Gone
    <2> QED BY <2>2, <2>6, <2>7, <2>8 DEF OneWay, Lone, Gone
  <1>7. CASE Wake
    <2>1. PICK what \in Seq(Sends) : /\ what = To("opChild", Msg("connect", Nothing))
                                     /\ Len(what) = 1 /\ what[1].msg.kind = "connect"
      <3>1. Msg("connect", Nothing) \in Accepts("opChild")
        BY Accepted DEF Kinds, Msg
      <3>2. PICK w \in Accepts("opChild") : w = Msg("connect", Nothing) /\ w.kind = "connect"
        BY <3>1 DEF Msg
      <3>3. /\ To("opChild", w) \in Seq(Sends) /\ Len(To("opChild", w)) = 1
            /\ To("opChild", w)[1] = [to |-> "opChild", msg |-> w]
        BY Names, OneSend
      <3> QED BY <3>2, <3>3
    <2>2. /\ sleeping /\ sleeping' = FALSE /\ todo' = [todo EXCEPT !["sleeper"] = what]
          /\ queue' = queue /\ link' = link
      BY <1>7, <2>1 DEF Wake
    <2>3. \A i \in DOMAIN what : what[i].msg.kind # "disconnected"
      BY <2>1
    <2>4. /\ ClientSends' /\ Telling' = Telling
          /\ Gone(Ways) => Lone(Ways)'
      BY <1>1, <2>1, <2>2, <2>3, TurningWays
    <2> QED BY <2>2, <2>4 DEF OneWay
  <1>8. CASE Write
    <2>1. /\ queue["writer"] # <<>> /\ queue' = [queue EXCEPT !["writer"] = Tail(queue["writer"])]
          /\ todo' = todo /\ link' = link /\ sleeping' = sleeping /\ "writer" \in Channels
      BY <1>8, Names DEF Write
    <2>2. /\ queue'["writer"] = Tail(queue["writer"])
          /\ \A d \in Channels : d # "writer" => queue'[d] = queue[d]
      BY <1>1, <2>1 DEF MailTypes
    <2>3. /\ Lone(Ways) => Lone(Ways)'
          /\ Gone(Ways) => Gone(Ways)'
      BY <1>1, <2>1, <2>2, LossMoves
    <2> QED BY <2>1, <2>3, OtherWays DEF ClientSends, Telling
  <1>9. ASSUME NEW m \in FromOperator, Reads(m)
        PROVE  ClientSends' /\ OneWay'
    <2>1. PICK what \in Seq(Sends) : /\ what = To("opChild", Msg("receive", m))
                                     /\ Len(what) = 1 /\ what[1].msg.kind = "receive"
      <3>1. PICK w \in Accepts("opChild") : w = Msg("receive", m) /\ w.kind = "receive"
        <4>1. Msg("receive", m) \in Accepts("opChild")
          BY ReaderSends
        <4>2. Msg("receive", m).kind = "receive"
          BY DEF Msg
        <4> QED BY <4>1, <4>2
      <3>2. /\ To("opChild", w) \in Seq(Sends) /\ Len(To("opChild", w)) = 1
            /\ To("opChild", w)[1] = [to |-> "opChild", msg |-> w]
        BY Names, OneSend
      <3> QED BY <3>1, <3>2
    <2>2. /\ todo' = [todo EXCEPT !["reader"] = what] /\ queue' = queue /\ link' = link
          /\ sleeping' = sleeping
      BY <1>9, <2>1 DEF Reads
    <2>3. \A i \in DOMAIN what : what[i].msg \notin Ways /\ what[i].msg.kind # "disconnected"
      BY <2>1 DEF Ways
    <2>4. /\ ClientSends' /\ Telling' = Telling
          /\ Lone(Ways) => Lone(Ways)'
          /\ Gone(Ways) => Gone(Ways)'
      BY <1>1, <2>1, <2>2, <2>3, TurningWays
    <2> QED BY <2>2, <2>4, OtherWays
  <1>10. CASE ReadCommand \/ \E q \in Questions : ReadAnswer(q)
    <2>1. PICK m \in FromOperator : Reads(m)
      <3>1. Commands \subseteq FromOperator /\ \A q \in Questions : Msg("fulfill", q) \in FromOperator
        BY DEF Commands, FromOperator, Kinds, Msg
      <3> QED BY <1>10, <3>1 DEF ReadCommand, ReadAnswer
    <2> QED BY <1>9, <2>1
  <1>11. CASE Break \/ ReadClose
    <2>1. queue' = queue /\ todo' = todo /\ sleeping' = sleeping /\ link = "up"
      BY <1>11 DEF Break, ReadClose
    <2>2. /\ Lone(Ways) => Lone(Ways)'
          /\ Gone(Ways) => Gone(Ways)'
      BY <1>1, <2>1, GainMoves
    <2> QED BY <2>1, <2>2, OtherWays DEF ClientSends, Telling
  <1>12. CASE ReadError
    <2>1. PICK what \in Seq(Sends) : /\ what = To("opChild", Msg("reconnect", Nothing))
                                     /\ Len(what) = 1 /\ what[1].msg.kind = "reconnect"
      <3>1. Msg("reconnect", Nothing) \in Accepts("opChild")
        BY Accepted DEF Kinds, Msg
      <3>2. PICK w \in Accepts("opChild") : w = Msg("reconnect", Nothing) /\ w.kind = "reconnect"
        BY <3>1 DEF Msg
      <3>3. /\ To("opChild", w) \in Seq(Sends) /\ Len(To("opChild", w)) = 1
            /\ To("opChild", w)[1] = [to |-> "opChild", msg |-> w]
        BY Names, OneSend
      <3> QED BY <3>2, <3>3
    <2>2. /\ link = "broken" /\ link' = "none" /\ todo' = [todo EXCEPT !["reader"] = what]
          /\ queue' = queue /\ sleeping' = sleeping
      BY <1>12, <2>1 DEF ReadError
    <2>3. \A i \in DOMAIN what : what[i].msg.kind # "disconnected"
      BY <2>1
    <2>4. /\ ClientSends' /\ Telling' = Telling
          /\ Gone(Ways) => Lone(Ways)'
      BY <1>1, <2>1, <2>2, <2>3, TurningWays
    <2> QED BY <2>2, <2>4 DEF OneWay
  <1>13. ASSUME NEW q \in Questions, Ask(q)
         PROVE  ClientSends' /\ OneWay'
    <2>1. PICK what \in Seq(Sends) :
            /\ what = To("agentChild", Msg("setup", q)) \o To("opMain", Msg("action", q))
            /\ Len(what) = 2 /\ what[1].msg = Msg("setup", q) /\ what[2].msg = Msg("action", q)
      BY AskSends
    <2>2. /\ todo' = [todo EXCEPT ![q] = what] /\ queue' = queue /\ link' = link /\ sleeping' = sleeping
      BY <1>13, <2>1 DEF Ask
    <2>3. \A i \in DOMAIN what : what[i].msg \notin Ways /\ what[i].msg.kind # "disconnected"
      <3>1. \A i \in DOMAIN what : i = 1 \/ i = 2
        BY <2>1
      <3> QED BY <2>1, <3>1 DEF Ways, Msg
    <2>4. /\ ClientSends' /\ Telling' = Telling
          /\ Lone(Ways) => Lone(Ways)'
          /\ Gone(Ways) => Gone(Ways)'
      BY <1>1, <2>1, <2>2, <2>3, TurningWays
    <2> QED BY <2>2, <2>4, OtherWays
  <1>14. CASE WorkerEvent
    <2>1. todo' = todo /\ link' = link /\ sleeping' = sleeping
      BY <1>14 DEF WorkerEvent
    <2>2. PICK e \in Accepts("agentMain") :
            e.kind = "event" /\ queue' = [queue EXCEPT !["agentMain"] = Append(queue["agentMain"], e)]
      BY <1>14, EventTyped
    <2>3. e \notin Ways
      BY <2>2 DEF Ways
    <2>4. /\ Lone(Ways) => Lone(Ways)'
          /\ Gone(Ways) => Gone(Ways)'
      BY <1>1, <2>1, <2>2, <2>3, Names, GainMoves
    <2> QED BY <2>1, <2>4, OtherWays DEF ClientSends, Telling
  <1> QED
    BY <1>2, <1>3, <1>4, <1>5, <1>6, <1>7, <1>8, <1>10, <1>11, <1>12, <1>13, <1>14
    DEF Next, OpMainStep, OpChildStep

\* Both the start of the process and a lost link lead to one socket, never to
\* two: the retries of operator_client.rs do not multiply, nor overtake the delay.
THEOREM OneConnectionOnly == Spec => []OneConnection
  <1> DEFINE Inv == LinkTypes /\ ClientSends /\ OneWay
  <1>1. Init => ClientSends /\ OneWay
    <2> SUFFICES ASSUME Init PROVE ClientSends /\ OneWay
      OBVIOUS
    <2>1. /\ \A t \in Tasks : todo[t] = <<>>
          /\ \A c \in Channels : queue[c] = IF c = "agentMain" THEN <<Msg("start", Nothing)>> ELSE <<>>
          /\ sleeping = FALSE /\ link = "none" /\ "operator" \in Tasks
      BY Names DEF Init
    <2>2. ClientSends /\ ~Telling
      BY <2>1 DEF ClientSends, Telling
    <2>3. \A k, x, i : At(Ways, k, x, i) => k = "queue" /\ x = "agentMain" /\ i = 1
      BY <2>1 DEF At
    <2> QED BY <2>1, <2>2, <2>3 DEF OneWay, Lone
  <1>2. Inv /\ [Next]_vars => Inv'
    BY TypesStay, WaysStay
  <1>3. Inv => OneConnection
    <2> SUFFICES ASSUME Inv PROVE Cardinality(Attempts) <= 1
      BY DEF OneConnection
    <2>1. /\ \A c \in Channels : queue[c] \in Seq(Messages)
          /\ \A t \in Tasks : todo[t] \in Seq(Sends)
          /\ "operator" \in Tasks
      BY Names DEF LinkTypes, MailTypes
    <2>2. \A c \in Channels, kind \in {"connect", "reconnect"} : \A i \in InQueue(c, kind) :
            At(Ways, "queue", c, i)
      BY <2>1 DEF InQueue, At, Ways
    <2>3. \A t \in Tasks, kind \in {"connect", "reconnect"} : \A i \in InTodo(t, kind) :
            At(Ways, "todo", t, i)
      <3>1. \A t \in Tasks : \A i \in DOMAIN todo[t] : todo[t][i].msg \in Messages
        <4>1. \A x \in Sends : x.msg \in Messages
          BY DEF Sends
        <4> QED BY <2>1, <4>1
      <3> QED BY <3>1 DEF InTodo, At, Ways
    <2>4. \A t \in Tasks : \A i \in InTodo(t, "disconnected") : t = "operator" /\ i = 1 /\ Telling
      <3> SUFFICES ASSUME NEW t \in Tasks, NEW i \in InTodo(t, "disconnected")
                   PROVE  t = "operator" /\ i = 1 /\ Telling
        OBVIOUS
      <3>1. i \in DOMAIN todo[t] /\ todo[t][i].msg.kind = "disconnected" /\ t = "operator"
        BY DEF InTodo, ClientSends
      <3>2. i = 1 /\ todo["operator"] # <<>>
        BY <2>1, <3>1 DEF ClientSends
      <3> QED BY <2>1, <3>1, <3>2 DEF Telling
    <2>5. \A x \in Attempts :
            \/ x[2] = "main" /\ At(Ways, "queue", "opMain", x[1])
            \/ x[2] = "child" /\ At(Ways, "queue", "opChild", x[1])
            \/ x[2] \in Tasks /\ At(Ways, "todo", x[2], x[1])
            \/ x = <<1, "operator">> /\ Telling
            \/ x = <<1, "sleep">> /\ sleeping
            \/ x = <<1, "socket">> /\ link \in {"up", "broken"}
      BY <2>2, <2>3, <2>4, Names DEF Attempts
    <2>6. \A x \in Attempts : x = <<x[1], x[2]>>
      BY DEF Attempts
    <2>7. \A x, y \in Attempts : x = y
      <3> SUFFICES ASSUME NEW x \in Attempts, NEW y \in Attempts PROVE x[1] = y[1] /\ x[2] = y[2]
        BY <2>6
      <3> QED BY <2>5 DEF OneWay, Lone, Gone
    <2>8. CASE Attempts = {}
      BY <2>8, FS_EmptySet
    <2>9. ASSUME NEW x \in Attempts
          PROVE  Cardinality(Attempts) <= 1
      <3>1. Attempts = {x}
        BY <2>7
      <3>2. Cardinality({x}) = 1
        BY FS_Singleton
      <3> QED BY <3>1, <3>2
    <2> QED BY <2>8, <2>9
  <1>4. Init => LinkTypes
    BY InitTyped
  <1> HIDE DEF Inv
  <1> QED BY <1>1, <1>2, <1>3, <1>4, PTL DEF Spec, Inv

-----------------------------------------------------------------------------
(* The listener of an answer.                                              *)

\* What is ahead of a place stays ahead of it.
LEMMA StaysAhead ==
  ASSUME NEW q, NEW k, NEW x, NEW i, NEW n, Ahead(q, k, x, n),
         n = i \/ (k = "queue" /\ x # "agentChild"),
         q \in listeners => q \in listeners',
         \A j : At(Setup(q), "queue", "agentChild", j) => At(Setup(q), "queue", "agentChild", j)',
         \A j : At(Setup(q), "todo", q, j) => At(Setup(q), "todo", q, j)'
  PROVE  Ahead(q, k, x, i)'
  <1>1. CASE q \in listeners
    BY <1>1 DEF Ahead
  <1>2. ASSUME NEW j, At(Setup(q), "queue", "agentChild", j), k = "queue" /\ x = "agentChild" => j < n
        PROVE  Ahead(q, k, x, i)'
    <2>1. At(Setup(q), "queue", "agentChild", j)' /\ (k = "queue" /\ x = "agentChild" => j < i)
      BY <1>2
    <2> QED BY <2>1 DEF Ahead
  <1>3. ASSUME NEW j, k = "todo", x = q, j < n, At(Setup(q), "todo", q, j)
        PROVE  Ahead(q, k, x, i)'
    <2>1. At(Setup(q), "todo", q, j)' /\ j < i
      BY <1>3
    <2> QED BY <1>3, <2>1 DEF Ahead
  <1> QED BY <1>1, <1>2, <1>3 DEF Ahead

\* A step that leaves the question alone, and neither its listener nor the
\* message that sets it up gets lost.
LEMMA Quiet ==
  ASSUME NEW q, Single(q), Due(q),
         q \in shown' => q \in shown, q \in budget'.asks => q \in budget.asks,
         Lone(Trace(q)) => Lone(Trace(q))', Gone(Trace(q)) => Gone(Trace(q))',
         q \in listeners => q \in listeners',
         \A j : At(Setup(q), "queue", "agentChild", j) => At(Setup(q), "queue", "agentChild", j)',
         \A j : At(Setup(q), "todo", q, j) => At(Setup(q), "todo", q, j)',
         \A k, x, i : At(Trace(q), k, x, i)' =>
           \E n : At(Trace(q), k, x, n) /\ (n = i \/ (k = "queue" /\ x # "agentChild"))
  PROVE  Single(q)' /\ Due(q)'
  <1>1. Single(q)'
    BY DEF Single
  <1>2. ASSUME NEW k, NEW x, NEW i, At(Trace(q), k, x, i)'
        PROVE  Ahead(q, k, x, i)'
    <2>1. PICK n : At(Trace(q), k, x, n) /\ (n = i \/ (k = "queue" /\ x # "agentChild"))
      BY <1>2
    <2>2. Ahead(q, k, x, n)
      BY <2>1 DEF Due
    <2> QED BY <2>1, <2>2, StaysAhead
  <1>3. q \in shown' => Prepared(q)'
    BY DEF Due, Prepared
  <1> QED BY <1>1, <1>2, <1>3 DEF Due

\* A send keeps the setting up ahead of the answer.
LEMMA SendingDue ==
  ASSUME LinkTypes, NEW q \in Questions, Single(q), Due(q), NEW t \in Tasks, Send(t)
  PROVE  Single(q)' /\ Due(q)'
  <1>1. MailTypes
    BY DEF LinkTypes
  <1>2. shown' = shown /\ budget' = budget /\ listeners' = listeners
    BY DEF Send
  <1>3. Single(q)'
    BY <1>1, <1>2, SendKeeps DEF Single
  <1>4. PICK c \in Channels : \E n \in Nat :
           /\ c = Head(todo[t]).to /\ n = Len(queue[c]) + 1
           /\ Head(todo[t]).msg \in Accepts(c)
           /\ \A i : At(Trace(q), "queue", c, i) => i \in Nat /\ i < n
           /\ \A k, x, i : At(Trace(q), k, x, i)' <=>
                \/ k = "queue" /\ At(Trace(q), "queue", x, i)
                \/ k = "queue" /\ x = c /\ i = n /\ At(Trace(q), "todo", t, 1)
                \/ k = "todo" /\ x = t /\ i \in Nat \ {0} /\ At(Trace(q), "todo", t, i + 1)
                \/ k = "todo" /\ x # t /\ At(Trace(q), "todo", x, i)
    BY <1>1, SendMoves
  <1>5. PICK n \in Nat :
           /\ c = Head(todo[t]).to /\ n = Len(queue[c]) + 1
           /\ Head(todo[t]).msg \in Accepts(c)
           /\ \A k, x, i : At(Trace(q), k, x, i)' <=>
                \/ k = "queue" /\ At(Trace(q), "queue", x, i)
                \/ k = "queue" /\ x = c /\ i = n /\ At(Trace(q), "todo", t, 1)
                \/ k = "todo" /\ x = t /\ i \in Nat \ {0} /\ At(Trace(q), "todo", t, i + 1)
                \/ k = "todo" /\ x # t /\ At(Trace(q), "todo", x, i)
    BY <1>4
  <1>6. /\ \A i : At(Setup(q), "queue", c, i) => i \in Nat /\ i < n
        /\ \A k, x, i : At(Setup(q), k, x, i)' <=>
             \/ k = "queue" /\ At(Setup(q), "queue", x, i)
             \/ k = "queue" /\ x = c /\ i = n /\ At(Setup(q), "todo", t, 1)
             \/ k = "todo" /\ x = t /\ i \in Nat \ {0} /\ At(Setup(q), "todo", t, i + 1)
             \/ k = "todo" /\ x # t /\ At(Setup(q), "todo", x, i)
    <2>1. PICK d \in Channels : \E m \in Nat :
           /\ d = Head(todo[t]).to /\ m = Len(queue[d]) + 1
           /\ Head(todo[t]).msg \in Accepts(d)
           /\ \A i : At(Setup(q), "queue", d, i) => i \in Nat /\ i < m
           /\ \A k, x, i : At(Setup(q), k, x, i)' <=>
                \/ k = "queue" /\ At(Setup(q), "queue", x, i)
                \/ k = "queue" /\ x = d /\ i = m /\ At(Setup(q), "todo", t, 1)
                \/ k = "todo" /\ x = t /\ i \in Nat \ {0} /\ At(Setup(q), "todo", t, i + 1)
                \/ k = "todo" /\ x # t /\ At(Setup(q), "todo", x, i)
      BY <1>1, SendMoves
    <2>2. d = c
      BY <1>5, <2>1
    <2> QED BY <1>5, <2>1, <2>2
  <1>7. At(Setup(q), "todo", t, 1) => c = "agentChild"
    <2>1. At(Setup(q), "todo", t, 1) => Head(todo[t]).msg = Msg("setup", q)
      <3>1. Head(todo[t]) = todo[t][1]
        BY <1>1, SendTyped, Taking
      <3> QED BY <3>1 DEF At, Setup
    <2>2. \A d \in Channels : Msg("setup", q) \in Accepts(d) => d = "agentChild"
      BY Names, Accepted DEF Kinds, ToOperator, FromOperator, Msg
    <2> QED BY <1>5, <2>1, <2>2
  <1>8. \A j : At(Setup(q), "queue", "agentChild", j) => At(Setup(q), "queue", "agentChild", j)'
    BY <1>6
  <1>9. ASSUME NEW k, NEW x, NEW i, At(Trace(q), k, x, i)'
        PROVE  Ahead(q, k, x, i)'
    <2>1. CASE q \in listeners
      BY <1>2, <2>1 DEF Ahead
    <2>2. CASE k = "queue" /\ At(Trace(q), "queue", x, i)
      <3>1. Ahead(q, k, x, i)
        BY <2>2 DEF Due
      <3> QED BY <1>2, <1>8, <2>2, <3>1 DEF Ahead
    <2>3. CASE k = "queue" /\ x = c /\ i = n /\ At(Trace(q), "todo", t, 1)
      <3>1. Ahead(q, "todo", t, 1)
        BY <2>3 DEF Due
      <3>2. \A j : At(Setup(q), "todo", q, j) => j \in Nat /\ ~(j < 1)
        <4>1. \A j : At(Setup(q), "todo", q, j) => j \in DOMAIN todo[q] /\ todo[q] \in Seq(Sends)
          BY <1>1, Names DEF At, MailTypes
        <4> QED BY <4>1
      <3>3. q \in listeners \/ \E j : At(Setup(q), "queue", "agentChild", j)
        BY <3>1, <3>2 DEF Ahead
      <3>4. ASSUME NEW j, At(Setup(q), "queue", "agentChild", j)
            PROVE  Ahead(q, k, x, i)'
        <4>1. At(Setup(q), "queue", "agentChild", j)' /\ (c = "agentChild" => j < n)
          BY <1>6, <1>8, <3>4
        <4> QED BY <2>3, <4>1 DEF Ahead
      <3> QED BY <2>1, <3>3, <3>4
    <2>4. CASE k = "todo" /\ x = t /\ i \in Nat \ {0} /\ At(Trace(q), "todo", t, i + 1)
      <3>1. Ahead(q, "todo", t, i + 1)
        BY <2>4 DEF Due
      <3>2. ASSUME NEW j, At(Setup(q), "queue", "agentChild", j)
            PROVE  Ahead(q, k, x, i)'
        <4>1. At(Setup(q), "queue", "agentChild", j)'
          BY <1>8, <3>2
        <4> QED BY <2>4, <4>1 DEF Ahead
      <3>3. ASSUME NEW j, t = q, j < i + 1, At(Setup(q), "todo", q, j)
            PROVE  Ahead(q, k, x, i)'
        <4>1. j \in Nat \ {0}
          <5>1. j \in DOMAIN todo[q] /\ todo[q] \in Seq(Sends)
            BY <1>1, <3>3, Names DEF At, MailTypes
          <5> QED BY <5>1
        <4>2. CASE j = 1
          <5>1. c = "agentChild" /\ At(Setup(q), "queue", "agentChild", n)'
            BY <1>6, <1>7, <3>3, <4>2
          <5> QED BY <2>4, <5>1 DEF Ahead
        <4>3. CASE j # 1
          <5>1. PICK l \in Nat \ {0} : j = l + 1
            <6>1. j - 1 \in Nat \ {0} /\ j = (j - 1) + 1
              BY <4>1, <4>3
            <6> QED BY <6>1
          <5>2. l < i /\ At(Setup(q), "todo", t, l)'
            BY <1>6, <2>4, <3>3, <5>1
          <5> QED BY <2>4, <3>3, <5>2 DEF Ahead
        <4> QED BY <4>2, <4>3
      <3> QED BY <2>1, <3>1, <3>2, <3>3 DEF Ahead
    <2>5. CASE k = "todo" /\ x # t /\ At(Trace(q), "todo", x, i)
      <3>1. Ahead(q, k, x, i)
        BY <2>5 DEF Due
      <3>2. ASSUME NEW j, At(Setup(q), "queue", "agentChild", j)
            PROVE  Ahead(q, k, x, i)'
        <4>1. At(Setup(q), "queue", "agentChild", j)'
          BY <1>8, <3>2
        <4> QED BY <2>5, <4>1 DEF Ahead
      <3>3. ASSUME NEW j, x = q, j < i, At(Setup(q), "todo", q, j)
            PROVE  Ahead(q, k, x, i)'
        <4>1. At(Setup(q), "todo", q, j)'
          BY <1>6, <2>5, <3>3
        <4> QED BY <2>5, <3>3, <4>1 DEF Ahead
      <3> QED BY <2>1, <3>1, <3>2, <3>3 DEF Ahead
    <2> QED BY <1>5, <1>9, <2>2, <2>3, <2>4, <2>5
  <1>10. q \in shown' => Prepared(q)'
    BY <1>2, <1>8 DEF Due, Prepared
  <1> QED BY <1>3, <1>9, <1>10 DEF Due

\* Handling a message keeps it too: the setting up leaves the agent's channel
\* when the listener is there, and the listener is lost to the answer only.
LEMMA HandlingDue ==
  ASSUME LinkTypes, NEW q \in Questions, Single(q), Due(q),
         NEW t \in {"agent", "operator"}, NEW c \in Channels, NEW what \in Seq(Sends),
         Handles(t, c, what)
  PROVE  Single(q)' /\ Due(q)'
  <1>1. /\ MailTypes /\ queue[c] # <<>> /\ Take(t, c, what) /\ t \in Tasks /\ t # q
        /\ shown' = shown /\ budget'.asks = budget.asks
    BY Names DEF LinkTypes, Handles
  <1>2. /\ what # <<>> => Len(what) = 1 /\ (what[1].msg \in Trace(q) => Head(queue[c]) \in Trace(q))
        /\ q \in listeners /\ q \notin listeners' =>
             c = "agentChild" /\ Head(queue[c]) = Msg("fulfill", q) /\ what = <<>>
        /\ c = "agentChild" /\ Head(queue[c]) = Msg("setup", q) => q \in listeners'
    BY DEF Handles, Follows
  <1>3. /\ Lone(Trace(q)) => Lone(Trace(q))'
        /\ Gone(Trace(q)) => Gone(Trace(q))'
        /\ Lone(Trace(q)) /\ Head(queue[c]) \in Trace(q) /\ (what # <<>> => what[1].msg \notin Trace(q)) =>
             Gone(Trace(q))'
    BY <1>1, <1>2, TakeKeeps
  <1>4. Single(q)'
    BY <1>1, <1>3 DEF Single
  <1>5. /\ At(Trace(q), "queue", c, 1) <=> Head(queue[c]) \in Trace(q)
        /\ \A k, x, i : At(Trace(q), k, x, i)' <=>
             \/ k = "queue" /\ x # c /\ At(Trace(q), "queue", x, i)
             \/ k = "queue" /\ x = c /\ i \in Nat \ {0} /\ At(Trace(q), "queue", c, i + 1)
             \/ k = "todo" /\ x = t /\ i \in DOMAIN what /\ what[i].msg \in Trace(q)
             \/ k = "todo" /\ x # t /\ At(Trace(q), "todo", x, i)
    BY <1>1, TakeMoves, Zenon
  <1>6. /\ At(Setup(q), "queue", c, 1) <=> Head(queue[c]) = Msg("setup", q)
        /\ \A k, x, i : At(Setup(q), k, x, i)' <=>
             \/ k = "queue" /\ x # c /\ At(Setup(q), "queue", x, i)
             \/ k = "queue" /\ x = c /\ i \in Nat \ {0} /\ At(Setup(q), "queue", c, i + 1)
             \/ k = "todo" /\ x = t /\ i \in DOMAIN what /\ what[i].msg \in Setup(q)
             \/ k = "todo" /\ x # t /\ At(Setup(q), "todo", x, i)
    <2>1. /\ At(Setup(q), "queue", c, 1) <=> Head(queue[c]) \in Setup(q)
          /\ \A k, x, i : At(Setup(q), k, x, i)' <=>
               \/ k = "queue" /\ x # c /\ At(Setup(q), "queue", x, i)
               \/ k = "queue" /\ x = c /\ i \in Nat \ {0} /\ At(Setup(q), "queue", c, i + 1)
               \/ k = "todo" /\ x = t /\ i \in DOMAIN what /\ what[i].msg \in Setup(q)
               \/ k = "todo" /\ x # t /\ At(Setup(q), "todo", x, i)
      BY <1>1, TakeMoves, Zenon
    <2>2. Head(queue[c]) \in Setup(q) <=> Head(queue[c]) = Msg("setup", q)
      BY DEF Setup
    <2> QED BY <2>1, <2>2
  <1>7. CASE q \in listeners /\ q \notin listeners'
    <2>1. Head(queue[c]) \in Trace(q) /\ what = <<>>
      BY <1>2, <1>7 DEF Trace
    <2>2. Gone(Trace(q))' /\ q \notin shown
      BY <1>3, <1>5, <2>1 DEF Single, Gone
    <2> QED BY <1>1, <1>4, <2>2 DEF Due, Gone
  <1>8. CASE q \in listeners'
    BY <1>4, <1>8 DEF Due, Ahead, Prepared
  <1>9. CASE q \notin listeners /\ q \notin listeners'
    <2>1. \A j : At(Setup(q), "queue", "agentChild", j) =>
                   \/ c # "agentChild" /\ At(Setup(q), "queue", "agentChild", j)'
                   \/ /\ c = "agentChild" /\ j \in Nat \ {0, 1}
                      /\ At(Setup(q), "queue", "agentChild", j - 1)'
      <3> SUFFICES ASSUME NEW j, At(Setup(q), "queue", "agentChild", j), c = "agentChild"
                   PROVE  j \in Nat \ {0, 1} /\ At(Setup(q), "queue", "agentChild", j - 1)'
        BY <1>6
      <3>1. j # 1
        BY <1>2, <1>6, <1>9
      <3>2. j \in Nat \ {0}
        <4>1. j \in DOMAIN queue["agentChild"] /\ queue["agentChild"] \in Seq(Messages)
          BY <1>1, Names DEF At, MailTypes
        <4> QED BY <4>1
      <3>3. PICK l \in Nat \ {0} : j = l + 1
        <4>1. j - 1 \in Nat \ {0} /\ j = (j - 1) + 1
          BY <3>1, <3>2
        <4> QED BY <4>1
      <3>4. At(Setup(q), "queue", "agentChild", l)'
        BY <1>6, <3>3
      <3> QED BY <3>1, <3>2, <3>3, <3>4
    <2>2. (\E j : At(Setup(q), "queue", "agentChild", j)) =>
            \E j : At(Setup(q), "queue", "agentChild", j)'
      BY <2>1
    <2>3. q \in shown' => Prepared(q)'
      BY <1>1, <1>9, <2>2 DEF Due, Prepared
    <2>4. ASSUME NEW k, NEW x, NEW i, At(Trace(q), k, x, i)'
          PROVE  Ahead(q, k, x, i)'
      <3>1. CASE k = "queue" /\ x # c /\ At(Trace(q), "queue", x, i)
        <4>1. PICK j : At(Setup(q), "queue", "agentChild", j) /\ (x = "agentChild" => j < i)
          BY <1>9, <3>1 DEF Due, Ahead
        <4>2. CASE c # "agentChild"
          BY <2>1, <3>1, <4>1, <4>2 DEF Ahead
        <4>3. CASE c = "agentChild"
          BY <2>2, <3>1, <4>1, <4>3 DEF Ahead
        <4> QED BY <4>2, <4>3
      <3>2. CASE k = "queue" /\ x = c /\ i \in Nat \ {0} /\ At(Trace(q), "queue", c, i + 1)
        <4>1. PICK j : At(Setup(q), "queue", "agentChild", j) /\ (c = "agentChild" => j < i + 1)
          BY <1>9, <3>2 DEF Due, Ahead
        <4>2. CASE c # "agentChild"
          BY <2>1, <3>2, <4>1, <4>2 DEF Ahead
        <4>3. CASE c = "agentChild"
          <5>1. j \in Nat \ {0, 1} /\ At(Setup(q), "queue", "agentChild", j - 1)'
            BY <2>1, <4>1, <4>3
          <5>2. j - 1 < i
            BY <3>2, <4>1, <4>3, <5>1
          <5> QED BY <3>2, <4>3, <5>1, <5>2 DEF Ahead
        <4> QED BY <4>2, <4>3
      <3>3. CASE k = "todo" /\ x = t /\ i \in DOMAIN what /\ what[i].msg \in Trace(q)
        <4>1. At(Trace(q), "queue", c, 1)
          <5>1. what # <<>> /\ i = 1
            BY <1>2, <3>3
          <5> QED BY <1>2, <1>5, <3>3, <5>1
        <4>2. \E j : At(Setup(q), "queue", "agentChild", j)
          BY <1>9, <4>1 DEF Due, Ahead
        <4> QED BY <2>2, <3>3, <4>2 DEF Ahead
      <3>4. CASE k = "todo" /\ x # t /\ At(Trace(q), "todo", x, i)
        <4>1. \/ \E j : At(Setup(q), "queue", "agentChild", j)
              \/ x = q /\ \E j : j < i /\ At(Setup(q), "todo", q, j)
          BY <1>9, <3>4 DEF Due, Ahead
        <4>2. \A j : At(Setup(q), "todo", q, j) => At(Setup(q), "todo", q, j)'
          BY <1>1, <1>6
        <4> QED BY <2>2, <3>4, <4>1, <4>2 DEF Ahead
      <3> QED BY <1>5, <2>4, <3>1, <3>2, <3>3, <3>4
    <2> QED BY <1>4, <2>3, <2>4 DEF Due
  <1> QED BY <1>7, <1>8, <1>9

\* A task other than the one of the question turns to messages that are not about it.
LEMMA TurningDue ==
  ASSUME LinkTypes, NEW q \in Questions, Single(q), Due(q),
         NEW t \in Tasks \ {q}, NEW what \in Seq(Sends),
         queue' = queue, todo' = [todo EXCEPT ![t] = what],
         \A i \in DOMAIN what : what[i].msg \notin Trace(q),
         q \in shown' => q \in shown, q \in budget'.asks => q \in budget.asks,
         listeners' = listeners
  PROVE  Single(q)' /\ Due(q)'
  <1>1. MailTypes
    BY DEF LinkTypes
  <1>2. \A k, x, i : At(Trace(q), k, x, i)' =>
           \/ k = "queue" /\ At(Trace(q), "queue", x, i)
           \/ k = "todo" /\ x # t /\ At(Trace(q), "todo", x, i)
    BY <1>1, TurnMoves
  <1>3. \A k, x, i : At(Setup(q), k, x, i)' <=>
           \/ k = "queue" /\ At(Setup(q), "queue", x, i)
           \/ k = "todo" /\ x = t /\ i \in DOMAIN what /\ what[i].msg \in Setup(q)
           \/ k = "todo" /\ x # t /\ At(Setup(q), "todo", x, i)
    BY <1>1, TurnMoves
  <1>4. /\ \A j : At(Setup(q), "queue", "agentChild", j) => At(Setup(q), "queue", "agentChild", j)'
        /\ \A j : At(Setup(q), "todo", q, j) => At(Setup(q), "todo", q, j)'
    BY <1>3
  <1>5. /\ Lone(Trace(q)) => Lone(Trace(q))'
        /\ Gone(Trace(q)) => Gone(Trace(q))'
    BY <1>1, TurnKeeps
  <1> QED BY <1>2, <1>4, <1>5, Quiet

\* A channel other than the agent's loses its head, and the writer's may be dropped.
LEMMA LosingDue ==
  ASSUME LinkTypes, NEW q \in Questions, Single(q), Due(q),
         NEW c \in Channels \ {"agentChild"}, queue[c] # <<>>, queue'[c] = Tail(queue[c]),
         \A d \in Channels : d # c => queue'[d] = queue[d] \/ queue'[d] = <<>>,
         queue'["agentChild"] = queue["agentChild"], todo'[q] = todo[q],
         \A u \in Tasks : todo'[u] = todo[u] \/ \A i \in DOMAIN todo'[u] : todo'[u][i].msg \notin Trace(q),
         q \in shown' => q \in shown, q \in budget'.asks => q \in budget.asks,
         listeners' = listeners
  PROVE  Single(q)' /\ Due(q)'
  <1>1. MailTypes
    BY DEF LinkTypes
  <1>2. /\ \A k, x, i : At(Trace(q), k, x, i)' =>
              \/ k = "queue" /\ x # c /\ At(Trace(q), "queue", x, i)
              \/ k = "queue" /\ x = c /\ i \in Nat \ {0} /\ At(Trace(q), "queue", c, i + 1)
              \/ k = "todo" /\ At(Trace(q), "todo", x, i)
        /\ Lone(Trace(q)) => Lone(Trace(q))'
        /\ Gone(Trace(q)) => Gone(Trace(q))'
    BY <1>1, LossMoves
  <1>3. /\ \A j : At(Setup(q), "queue", "agentChild", j) => At(Setup(q), "queue", "agentChild", j)'
        /\ \A j : At(Setup(q), "todo", q, j) => At(Setup(q), "todo", q, j)'
    BY DEF At
  <1>4. \A k, x, i : At(Trace(q), k, x, i)' =>
           \E n : At(Trace(q), k, x, n) /\ (n = i \/ (k = "queue" /\ x # "agentChild"))
    <2> SUFFICES ASSUME NEW k, NEW x, NEW i, At(Trace(q), k, x, i)'
                 PROVE  \E n : At(Trace(q), k, x, n) /\ (n = i \/ (k = "queue" /\ x # "agentChild"))
      OBVIOUS
    <2> QED BY <1>2
  <1> QED BY <1>2, <1>3, <1>4, Quiet

\* The question goes to the operator: it was alone on its way.
LEMMA ShowingDue ==
  ASSUME LinkTypes, NEW q \in Questions, Single(q), Due(q), Write, queue["writer"] # <<>>,
         Head(queue["writer"]) = Msg("action", q)
  PROVE  Single(q)' /\ Due(q)'
  <1>1. /\ MailTypes /\ "writer" \in Channels
        /\ queue' = [queue EXCEPT !["writer"] = Tail(queue["writer"])]
        /\ todo' = todo /\ listeners' = listeners /\ budget' = budget
    BY Names DEF Write, LinkTypes
  <1>2. /\ queue'["writer"] = Tail(queue["writer"])
        /\ \A d \in Channels : d # "writer" => queue'[d] = queue[d]
    BY <1>1 DEF MailTypes
  <1>3. Head(queue["writer"]) \in Trace(q)
    BY DEF Trace
  <1>4. At(Trace(q), "queue", "writer", 1)
    <2>1. queue["writer"] \in Seq(Messages)
      BY <1>1 DEF MailTypes
    <2> QED BY <1>1, <1>3, <2>1, Taking DEF At
  <1>5. Gone(Trace(q))'
    BY <1>1, <1>2, <1>3, LossMoves DEF Single
  <1>6. q \notin shown /\ q \notin budget.asks
    BY <1>4 DEF Single, Gone
  <1>7. Prepared(q)
    BY <1>4 DEF Due, Ahead, Prepared
  <1>8. Prepared(q)'
    <2>1. queue'["agentChild"] = queue["agentChild"]
      BY <1>2, Names
    <2> QED BY <1>1, <1>7, <2>1 DEF Prepared, At
  <1> QED BY <1>1, <1>5, <1>6, <1>8 DEF Single, Due, Gone, Lone

\* The operator answers: the answer takes the question's place.
LEMMA AnsweringDue ==
  ASSUME LinkTypes, NEW q \in Questions, Single(q), Due(q), ReadAnswer(q)
  PROVE  Single(q)' /\ Due(q)'
  <1>1. MailTypes /\ "reader" \in Tasks /\ q # "reader"
    BY Names DEF LinkTypes
  <1>2. PICK what \in Seq(Sends) : what = To("opChild", Msg("receive", Msg("fulfill", q))) /\ Len(what) = 1
    <2>1. Msg("receive", Msg("fulfill", q)) \in Accepts("opChild")
      BY ReaderSends DEF FromOperator, Kinds, Msg
    <2> QED BY <2>1, Names, OneSend
  <1>3. /\ queue' = queue /\ todo' = [todo EXCEPT !["reader"] = what] /\ listeners' = listeners
        /\ q \in shown /\ shown' = shown \ {q} /\ budget' = budget
    BY <1>2 DEF ReadAnswer, Reads
  <1>4. Gone(Trace(q)) /\ q \notin budget.asks
    BY <1>3 DEF Single
  <1>5. Lone(Trace(q))'
    <2>1. \A i \in DOMAIN what : what[i].msg \in Trace(q) => i = 1
      BY <1>2
    <2> QED BY <1>1, <1>3, <1>4, <2>1, TurnKeeps
  <1>6. \A k, x, i : At(Trace(q), k, x, i)' => k = "todo" /\ x = "reader"
    <2>1. \A k, x, i : At(Trace(q), k, x, i)' =>
            \/ k = "queue" /\ At(Trace(q), "queue", x, i)
            \/ k = "todo" /\ x = "reader"
            \/ k = "todo" /\ x # "reader" /\ At(Trace(q), "todo", x, i)
      BY <1>1, <1>3, TurnMoves
    <2> QED BY <1>4, <2>1 DEF Gone
  <1>7. Prepared(q)'
    <2>1. Prepared(q)
      BY <1>3 DEF Due
    <2> QED BY <1>3, <2>1 DEF Prepared, At
  <1>8. \A k, x, i : At(Trace(q), k, x, i)' => Ahead(q, k, x, i)'
    <2> SUFFICES ASSUME NEW k, NEW x, NEW i, At(Trace(q), k, x, i)' PROVE Ahead(q, k, x, i)'
      OBVIOUS
    <2>1. k = "todo"
      BY <1>6
    <2> QED BY <1>7, <2>1 DEF Prepared, Ahead
  <1>9. q \notin shown' /\ q \notin budget'.asks
    BY <1>3, <1>4
  <1> QED BY <1>5, <1>8, <1>9 DEF Single, Due

\* A question is asked: the message that sets up its listener goes ahead.
LEMMA AskingDue ==
  ASSUME LinkTypes, NEW q \in Questions, Single(q), Due(q), Ask(q)
  PROVE  Single(q)' /\ Due(q)'
  <1>1. MailTypes /\ q \in Tasks
    BY Names DEF LinkTypes
  <1>2. PICK what \in Seq(Sends) :
            /\ what = To("agentChild", Msg("setup", q)) \o To("opMain", Msg("action", q))
            /\ Len(what) = 2 /\ what[1].msg = Msg("setup", q) /\ what[2].msg = Msg("action", q)
    BY AskSends
  <1>3. /\ queue' = queue /\ todo' = [todo EXCEPT ![q] = what] /\ shown' = shown
        /\ q \in budget.asks /\ budget' = [budget EXCEPT !.asks = @ \ {q}]
    BY <1>2 DEF Ask
  <1>4. Gone(Trace(q)) /\ q \notin shown
    BY <1>3 DEF Single
  <1>5. \A i \in DOMAIN what : what[i].msg \in Trace(q) => i = 2
    <2>1. \A i \in DOMAIN what : i = 1 \/ i = 2
      BY <1>2
    <2>2. Msg("setup", q) \notin Trace(q)
      BY DEF Trace, Msg
    <2> QED BY <1>2, <2>1, <2>2
  <1>6. Lone(Trace(q))'
    BY <1>1, <1>3, <1>4, <1>5, TurnKeeps
  <1>7. \A k, x, i : At(Trace(q), k, x, i)' => k = "todo" /\ x = q /\ i = 2
    <2>1. \A k, x, i : At(Trace(q), k, x, i)' =>
            \/ k = "queue" /\ At(Trace(q), "queue", x, i)
            \/ k = "todo" /\ x = q /\ i \in DOMAIN what /\ what[i].msg \in Trace(q)
            \/ k = "todo" /\ x # q /\ At(Trace(q), "todo", x, i)
      BY <1>1, <1>3, TurnMoves
    <2> QED BY <1>4, <1>5, <2>1 DEF Gone
  <1>8. At(Setup(q), "todo", q, 1)'
    <2>1. \A i : At(Setup(q), "todo", q, i)' <=>
            \/ i \in DOMAIN what /\ what[i].msg \in Setup(q)
            \/ q # q /\ At(Setup(q), "todo", q, i)
      BY <1>1, <1>3, TurnMoves
    <2>2. 1 \in DOMAIN what
      BY <1>2
    <2> QED BY <1>2, <2>1, <2>2 DEF Setup
  <1>9. \A k, x, i : At(Trace(q), k, x, i)' => Ahead(q, k, x, i)'
    <2> SUFFICES ASSUME NEW k, NEW x, NEW i, At(Trace(q), k, x, i)' PROVE Ahead(q, k, x, i)'
      OBVIOUS
    <2>1. k = "todo" /\ x = q /\ i = 2 /\ 1 < 2
      BY <1>7
    <2> QED BY <1>8, <2>1 DEF Ahead
  <1>10. q \notin shown' /\ q \notin budget'.asks
    <2>1. budget'.asks = budget.asks \ {q}
      BY <1>3 DEF LinkTypes
    <2> QED BY <1>3, <1>4, <2>1
  <1> QED BY <1>6, <1>9, <1>10 DEF Single, Due

\* Every step keeps the listeners due.
LEMMA DuesStay ==
  ASSUME LinkTypes, NEW q \in Questions, Single(q), Due(q), [Next]_vars
  PROVE  Single(q)' /\ Due(q)'
  <1>1. /\ MailTypes /\ "operator" \in Tasks /\ "agent" \in Tasks /\ "reader" \in Tasks
        /\ "sleeper" \in Tasks /\ Questions \subseteq Tasks
        /\ q # "operator" /\ q # "agent" /\ q # "reader" /\ q # "sleeper" /\ q \in Tasks
        /\ todo \in [Tasks -> Seq(Sends)]
    BY Names DEF LinkTypes, MailTypes
  <1>2. CASE UNCHANGED vars \/ Break \/ ReadClose \/ WorkerEvent
    <2>1. /\ todo' = todo /\ listeners' = listeners /\ shown' = shown /\ budget'.asks = budget.asks
          /\ \/ queue' = queue
             \/ \E c \in Channels : \E e \in Accepts(c) :
                  /\ e \notin Trace(q) /\ e \notin Setup(q)
                  /\ queue' = [queue EXCEPT ![c] = Append(queue[c], e)]
      <3>1. CASE UNCHANGED vars \/ ReadClose
        BY <3>1 DEF vars, ReadClose
      <3>2. CASE Break
        BY <3>2 DEF Break, LinkTypes
      <3>3. CASE WorkerEvent
        <4>1. PICK e \in Accepts("agentMain") :
                e.kind = "event" /\ queue' = [queue EXCEPT !["agentMain"] = Append(queue["agentMain"], e)]
          BY <3>3, EventTyped
        <4>2. e \notin Trace(q) /\ e \notin Setup(q)
          BY <4>1 DEF Trace, Setup, Msg
        <4> QED BY <3>3, <4>1, <4>2, Names DEF WorkerEvent
      <3> QED BY <1>2, <3>1, <3>2, <3>3
    <2>2. /\ \A k, x, i : At(Trace(q), k, x, i)' <=> At(Trace(q), k, x, i)
          /\ Lone(Trace(q)) => Lone(Trace(q))'
          /\ Gone(Trace(q)) => Gone(Trace(q))'
      BY <1>1, <2>1, GainMoves
    <2>3. \A k, x, i : At(Setup(q), k, x, i)' <=> At(Setup(q), k, x, i)
      BY <1>1, <2>1, GainMoves
    <2> QED BY <2>1, <2>2, <2>3, Quiet
  <1>3. ASSUME NEW t \in Tasks, Send(t)
        PROVE  Single(q)' /\ Due(q)'
    BY <1>3, SendingDue
  <1>4. CASE \/ AgentMainStep \/ AgentChildStep \/ OpReconnect \/ OpReceiveCommand \/ OpSendCommand
             \/ \E c \in {"opMain", "opChild"} : OpConnectFails(c)
    BY <1>4, Handlers, HandlingDue
  <1>5. CASE AgentTick
    <2>1. PICK old, what :
            /\ old \subseteq entries
            /\ what = [i \in DOMAIN SetToSeq(old) |->
                 [to |-> "agentChild", msg |-> Msg("disable", SetToSeq(old)[i])]] \o To("opMain", UpdateState)
            /\ todo' = [todo EXCEPT !["agent"] = what]
            /\ UNCHANGED <<queue, listeners, shown, budget>>
      BY <1>5 DEF AgentTick
    <2>2. what \in Seq(Sends) /\ \A i \in DOMAIN what : what[i].msg.kind \in {"disable", "command"}
      BY <2>1, TickSends
    <2>3. \A i \in DOMAIN what : what[i].msg \notin Trace(q)
      BY <2>2 DEF Trace, Msg
    <2> QED BY <1>1, <2>1, <2>2, <2>3, TurningDue
  <1>6. ASSUME NEW c \in {"opMain", "opChild"}, OpConnect(c)
        PROVE  Single(q)' /\ Due(q)'
    <2>1. PICK what \in Seq(Sends) : /\ what = To("agentChild", Msg("connected", Nothing))
                                     /\ Len(what) = 1 /\ what[1].msg.kind = "connected"
      BY <1>6, ConnectTyped DEF Msg
    <2>2. /\ c \in Channels /\ c # "writer" /\ queue[c] # <<>>
          /\ queue' = [[queue EXCEPT ![c] = Tail(queue[c])] EXCEPT !["writer"] = <<>>]
          /\ todo' = [todo EXCEPT !["operator"] = what]
          /\ listeners' = listeners /\ shown' = shown /\ budget' = budget
      BY <1>6, <2>1, ConnectTyped DEF OpConnect
    <2>3. /\ \A u \in Tasks : todo'[u] = IF u = "operator" THEN what ELSE todo[u]
          /\ queue'[c] = Tail(queue[c])
          /\ \A d \in Channels : d # c => queue'[d] = queue[d] \/ queue'[d] = <<>>
          /\ queue'["agentChild"] = queue["agentChild"]
      BY <1>1, <2>2, Names DEF MailTypes
    <2>4. \A i \in DOMAIN what : what[i].msg \notin Trace(q)
      BY <2>1 DEF Trace, Msg
    <2>5. /\ \A u \in Tasks : todo'[u] = todo[u] \/ \A i \in DOMAIN todo'[u] : todo'[u][i].msg \notin Trace(q)
          /\ todo'[q] = todo[q]
      BY <1>1, <2>3, <2>4
    <2>6. c \in Channels \ {"agentChild"}
      BY <2>2
    <2> QED BY <2>2, <2>3, <2>5, <2>6, LosingDue
  <1>7. CASE Wake
    <2>1. PICK what \in Seq(Sends) : /\ what = To("opChild", Msg("connect", Nothing))
                                     /\ \A i \in DOMAIN what : what[i].msg.kind = "connect"
      <3>1. Msg("connect", Nothing) \in Accepts("opChild")
        BY Accepted DEF Kinds, Msg
      <3>2. PICK w \in Accepts("opChild") : w = Msg("connect", Nothing) /\ w.kind = "connect"
        BY <3>1 DEF Msg
      <3>3. /\ To("opChild", w) \in Seq(Sends) /\ Len(To("opChild", w)) = 1
            /\ To("opChild", w)[1] = [to |-> "opChild", msg |-> w]
        BY Names, OneSend
      <3> QED BY <3>2, <3>3
    <2>2. /\ todo' = [todo EXCEPT !["sleeper"] = what]
          /\ queue' = queue /\ listeners' = listeners /\ shown' = shown /\ budget' = budget
      BY <1>7, <2>1 DEF Wake
    <2>3. \A i \in DOMAIN what : what[i].msg \notin Trace(q)
      BY <2>1 DEF Trace, Msg
    <2> QED BY <1>1, <2>2, <2>3, TurningDue
  <1>8. CASE Write
    <2>1. /\ queue["writer"] # <<>> /\ queue' = [queue EXCEPT !["writer"] = Tail(queue["writer"])]
          /\ todo' = todo /\ listeners' = listeners /\ budget' = budget
          /\ "writer" \in Channels \ {"agentChild"}
      BY <1>8, Names DEF Write
    <2>2. /\ queue'["writer"] = Tail(queue["writer"])
          /\ \A d \in Channels : d # "writer" => queue'[d] = queue[d]
          /\ queue'["agentChild"] = queue["agentChild"]
      BY <1>1, <2>1, Names DEF MailTypes
    <2>3. CASE Head(queue["writer"]) = Msg("action", q)
      BY <1>8, <2>1, <2>3, ShowingDue
    <2>4. CASE Head(queue["writer"]) # Msg("action", q)
      <3>1. Head(queue["writer"]) \in ToOperator
        BY <1>1, <2>1, HeadTyped, Accepted
      <3>2. q \in shown' => q \in shown
        BY <1>8, <2>4, <3>1 DEF Write, ToOperator, Kinds, Msg
      <3> QED BY <2>1, <2>2, <3>2, LosingDue
    <2> QED BY <2>3, <2>4
  <1>9. ASSUME NEW m \in FromOperator, m \notin Trace(q), Reads(m),
               q \in shown' => q \in shown, budget'.asks = budget.asks, listeners' = listeners
        PROVE  Single(q)' /\ Due(q)'
    <2>1. PICK w \in Accepts("opChild") : w = Msg("receive", m)
      BY ReaderSends
    <2>2. PICK what \in Seq(Sends) : what = To("opChild", w) /\ \A i \in DOMAIN what : what[i].msg = w
      <3>1. /\ To("opChild", w) \in Seq(Sends) /\ Len(To("opChild", w)) = 1
            /\ To("opChild", w)[1] = [to |-> "opChild", msg |-> w]
        BY Names, OneSend
      <3> QED BY <3>1
    <2>3. w \notin Trace(q)
      BY <1>9, <2>1 DEF Trace, Msg
    <2>4. todo' = [todo EXCEPT !["reader"] = what] /\ queue' = queue
      BY <1>9, <2>1, <2>2 DEF Reads
    <2> QED BY <1>1, <1>9, <2>2, <2>3, <2>4, TurningDue
  <1>10. CASE ReadCommand
    <2>1. PICK m \in Commands : Reads(m)
      BY <1>10 DEF ReadCommand
    <2>2. m \in FromOperator /\ m \notin Trace(q)
      BY DEF Commands, FromOperator, Kinds, Msg, Trace
    <2>3. shown' = shown /\ listeners' = listeners /\ budget'.asks = budget.asks
      BY <1>10, <2>1 DEF ReadCommand, Reads, LinkTypes
    <2> QED BY <1>9, <2>1, <2>2, <2>3
  <1>11. ASSUME NEW p \in Questions, ReadAnswer(p)
         PROVE  Single(q)' /\ Due(q)'
    <2>1. CASE p = q
      BY <1>11, <2>1, AnsweringDue
    <2>2. CASE p # q
      <3>1. Msg("fulfill", p) \in FromOperator /\ Msg("fulfill", p) \notin Trace(q)
        BY <2>2 DEF FromOperator, Kinds, Msg, Trace
      <3>2. /\ Reads(Msg("fulfill", p)) /\ listeners' = listeners /\ budget' = budget
            /\ q \in shown' => q \in shown
        BY <1>11 DEF ReadAnswer, Reads
      <3> QED BY <1>9, <3>1, <3>2
    <2> QED BY <2>1, <2>2
  <1>12. CASE ReadError
    <2>1. PICK what \in Seq(Sends) : /\ what = To("opChild", Msg("reconnect", Nothing))
                                     /\ \A i \in DOMAIN what : what[i].msg.kind = "reconnect"
      <3>1. Msg("reconnect", Nothing) \in Accepts("opChild")
        BY Accepted DEF Kinds, Msg
      <3>2. PICK w \in Accepts("opChild") : w = Msg("reconnect", Nothing) /\ w.kind = "reconnect"
        BY <3>1 DEF Msg
      <3>3. /\ To("opChild", w) \in Seq(Sends) /\ Len(To("opChild", w)) = 1
            /\ To("opChild", w)[1] = [to |-> "opChild", msg |-> w]
        BY Names, OneSend
      <3> QED BY <3>2, <3>3
    <2>2. /\ todo' = [todo EXCEPT !["reader"] = what]
          /\ queue' = queue /\ listeners' = listeners /\ shown' = shown /\ budget' = budget
      BY <1>12, <2>1 DEF ReadError
    <2>3. \A i \in DOMAIN what : what[i].msg \notin Trace(q)
      BY <2>1 DEF Trace, Msg
    <2> QED BY <1>1, <2>2, <2>3, TurningDue
  <1>13. ASSUME NEW p \in Questions, Ask(p)
         PROVE  Single(q)' /\ Due(q)'
    <2>1. CASE p = q
      BY <1>13, <2>1, AskingDue
    <2>2. CASE p # q
      <3>1. PICK what \in Seq(Sends) :
            /\ what = To("agentChild", Msg("setup", p)) \o To("opMain", Msg("action", p))
            /\ Len(what) = 2 /\ what[1].msg = Msg("setup", p) /\ what[2].msg = Msg("action", p)
        BY AskSends
      <3>2. /\ todo' = [todo EXCEPT ![p] = what] /\ queue' = queue /\ shown' = shown
            /\ listeners' = listeners /\ budget' = [budget EXCEPT !.asks = @ \ {p}]
        BY <1>13, <3>1 DEF Ask
      <3>3. \A i \in DOMAIN what : what[i].msg \notin Trace(q)
        <4>1. \A i \in DOMAIN what : i = 1 \/ i = 2
          BY <3>1
        <4> QED BY <2>2, <3>1, <4>1 DEF Trace, Msg
      <3>4. q \in budget'.asks => q \in budget.asks
        BY <3>2 DEF LinkTypes
      <3>5. p \in Tasks \ {q}
        BY <1>1, <2>2
      <3> QED BY <3>1, <3>2, <3>3, <3>4, <3>5, TurningDue
    <2> QED BY <2>1, <2>2
  <1> QED
    BY <1>2, <1>3, <1>4, <1>5, <1>6, <1>7, <1>8, <1>10, <1>11, <1>12, <1>13
    DEF Next, OpMainStep, OpChildStep

\* An answer that comes to the agent finds the listener set up for its question,
\* however many channels and tasks the two went through.
THEOREM AnswersFindListeners == Spec => []AnswerFindsListener
  <1>1. Init => ListenersDue
    <2> SUFFICES ASSUME Init, NEW q \in Questions PROVE Single(q) /\ Due(q)
      BY DEF ListenersDue
    <2>1. /\ \A t \in Tasks : todo[t] = <<>>
          /\ \A c \in Channels : queue[c] = IF c = "agentMain" THEN <<Msg("start", Nothing)>> ELSE <<>>
          /\ shown = {}
      BY DEF Init
    <2>2. Msg("start", Nothing) \notin Trace(q)
      BY DEF Trace, Msg
    <2>3. Gone(Trace(q))
      BY <2>1, <2>2 DEF Gone, At
    <2> QED BY <2>1, <2>3 DEF Single, Due, Gone, Lone
  <1>2. LinkTypes /\ ListenersDue /\ [Next]_vars => LinkTypes' /\ ListenersDue'
    BY TypesStay, DuesStay DEF ListenersDue
  <1>3. LinkTypes /\ ListenersDue => AnswerFindsListener
    <2> SUFFICES ASSUME LinkTypes, ListenersDue, Holds("agentChild", "fulfill")
                 PROVE  Addressed \in listeners
      BY DEF AnswerFindsListener
    <2>1. /\ queue["agentChild"] # <<>> /\ Head(queue["agentChild"]).kind = "fulfill"
          /\ "agentChild" \in Channels /\ MailTypes
      BY Names DEF Holds, LinkTypes
    <2>2. Head(queue["agentChild"]) \in Accepts("agentChild")
      BY <2>1, HeadTyped
    <2>3. Head(queue["agentChild"]) \in Kinds({"fulfill"}, Questions)
      BY <2>1, <2>2, Accepted DEF FromOperator, Kinds
    <2>4. PICK q \in Questions : Head(queue["agentChild"]) = Msg("fulfill", q)
      BY <2>3 DEF Kinds, Msg
    <2>5. queue["agentChild"] \in Seq(Messages)
      BY <2>1 DEF MailTypes
    <2>6. At(Trace(q), "queue", "agentChild", 1)
      BY <2>1, <2>4, <2>5, Taking DEF At, Trace
    <2>7. \A j : At(Setup(q), "queue", "agentChild", j) => ~(j < 1)
      <3>1. \A j : At(Setup(q), "queue", "agentChild", j) => j \in DOMAIN queue["agentChild"]
        BY DEF At
      <3> QED BY <2>5, <3>1
    <2>8. q \in listeners
      BY <2>6, <2>7 DEF ListenersDue, Due, Ahead
    <2> QED BY <2>4, <2>8 DEF Addressed, Msg
  <1> QED BY <1>1, <1>2, <1>3, InitTyped, PTL DEF Spec

=============================================================================
