-------------------------- MODULE RedisPubSubProofs --------------------------
(***************************************************************************)
(* Theorems about RedisPubSub, for any actors and channels and every bound. *)
(***************************************************************************)
EXTENDS RedisPubSub, TLAPS

-----------------------------------------------------------------------------
(* Types.                                                                  *)

Subs == [channel : Channels, coordinator : Coordinators]
Fired == [actor : Actors, channel : Channels, coordinator : Coordinators]
QueuedCommands ==
  [op : {"subscribe", "unsubscribe"}, channel : Channels, actor : Actors, by : {"handler", "task"}]

TypeOK ==
  /\ made \in 0..MaxCoordinators
  /\ pool \in 1..made \cup {None}
  /\ link \in [Coordinators -> {"up", "broken", "ended"}]
  /\ table \in [Coordinators -> UNION {[D -> SUBSET Actors] : D \in SUBSET Channels}]
  /\ broker \in [Coordinators -> SUBSET Channels]
  /\ queue \in [Coordinators -> Seq(QueuedCommands)]
  /\ status \in [Actors -> {"running", "terminated", "ended"}]
  /\ held \in [Actors -> SUBSET Subs]
  /\ fired \subseteq Fired
  /\ told \in [Actors -> SUBSET Subs]

\* Only coordinators that were made are alive, or have told anyone anything.
MadeInv ==
  /\ \A c \in Coordinators : Alive(c) => c \in 1..made
  /\ \A a \in Actors : \A s \in told[a] : s.coordinator \in 1..made

\* A cancellation's task acts for an actor that no longer runs: it cannot take
\* one off the list that still does.
TasksInv ==
  /\ \A f \in fired : status[f.actor] # "running"
  /\ \A c \in Coordinators : \A i \in DOMAIN queue[c] :
       queue[c][i].by = "task" => status[queue[c][i].actor] # "running"

\* Who was told it is subscribed is listed.
ListedInv ==
  \A a \in Actors : \A s \in told[a] :
    status[a] = "running" /\ Alive(s.coordinator) => a \in Listed(s.coordinator, s.channel)

\* While the connection is up, the server knows the channels of all who are listed,
\* but those that it has refused.  Nobody is listed by a coordinator that has ended,
\* or that is still to be made.
ServedInv ==
  \A c \in Coordinators : \A ch \in Channels :
    /\ link[c] = "up" /\ Listed(c, ch) # {} => ch \in broker[c] \/ Sub(ch, c) \in refused
    /\ link[c] = "ended" => Listed(c, ch) = {}

Inv == TypeOK /\ MadeInv /\ TasksInv /\ ListedInv /\ ServedInv

-----------------------------------------------------------------------------
(* The steps.                                                              *)

\* What a change of the list of a channel does to the lists of all.
LEMMA TableFacts ==
  ASSUME TypeOK, NEW c \in Coordinators, NEW ch \in Channels, NEW a \in Actors
  PROVE  /\ List(c, ch, a) \/ Unlist(c, ch, a) =>
              table' \in [Coordinators -> UNION {[D -> SUBSET Actors] : D \in SUBSET Channels}]
         /\ List(c, ch, a) => \A d \in Coordinators : \A k \in Channels :
              Listed(d, k)' = IF d = c /\ k = ch THEN Listed(d, k) \cup {a} ELSE Listed(d, k)
         /\ Unlist(c, ch, a) => \A d \in Coordinators : \A k \in Channels :
              Listed(d, k)' = IF d = c /\ k = ch THEN Listed(d, k) \ {a} ELSE Listed(d, k)
  <1>1. /\ \A d \in Coordinators : Known(d) \subseteq Channels
        /\ \A d \in Coordinators : \A k \in Known(d) : table[d][k] \subseteq Actors
        /\ \A d \in Coordinators : \A k \in Channels : Listed(d, k) \subseteq Actors
    BY DEF TypeOK, Known, Listed
  <1>2. ASSUME NEW known \in SUBSET Channels, NEW row \in [known -> SUBSET Actors],
               table' = [table EXCEPT ![c] = row]
        PROVE  /\ table' \in [Coordinators -> UNION {[D -> SUBSET Actors] : D \in SUBSET Channels}]
               /\ \A d \in Coordinators : \A k \in Channels :
                    Listed(d, k)' = IF d = c THEN IF k \in known THEN row[k] ELSE {}
                                             ELSE Listed(d, k)
    BY <1>2 DEF TypeOK, Listed, Known
  <1>3. ASSUME List(c, ch, a)
        PROVE  /\ table' \in [Coordinators -> UNION {[D -> SUBSET Actors] : D \in SUBSET Channels}]
               /\ \A d \in Coordinators : \A k \in Channels :
                    Listed(d, k)' = IF d = c /\ k = ch THEN Listed(d, k) \cup {a} ELSE Listed(d, k)
    <2> DEFINE known == Known(c) \cup {ch}
               row == [k \in known |-> IF k = ch THEN Listed(c, ch) \cup {a} ELSE table[c][k]]
    <2>1. known \in SUBSET Channels /\ row \in [known -> SUBSET Actors]
      BY <1>1
    <2>2. table' = [table EXCEPT ![c] = row]
      BY <1>3 DEF List
    <2>3. \A k \in Channels : (IF k \in known THEN row[k] ELSE {}) =
            IF k = ch THEN Listed(c, k) \cup {a} ELSE Listed(c, k)
      BY DEF Listed
    <2> HIDE DEF known, row
    <2>4. /\ table' \in [Coordinators -> UNION {[D -> SUBSET Actors] : D \in SUBSET Channels}]
          /\ \A d \in Coordinators : \A k \in Channels :
               Listed(d, k)' = IF d = c THEN IF k \in known THEN row[k] ELSE {} ELSE Listed(d, k)
      BY <1>2, <2>1, <2>2
    <2> QED BY <2>3, <2>4
  <1>4. ASSUME Unlist(c, ch, a)
        PROVE  /\ table' \in [Coordinators -> UNION {[D -> SUBSET Actors] : D \in SUBSET Channels}]
               /\ \A d \in Coordinators : \A k \in Channels :
                    Listed(d, k)' = IF d = c /\ k = ch THEN Listed(d, k) \ {a} ELSE Listed(d, k)
    <2> DEFINE rest == Listed(c, ch) \ {a}
               known == IF rest = {} THEN Known(c) \ {ch} ELSE Known(c)
               row == [k \in known |-> IF k = ch THEN rest ELSE table[c][k]]
    <2>1. known \in SUBSET Channels /\ row \in [known -> SUBSET Actors]
      BY <1>1
    <2>2. table' = [table EXCEPT ![c] = row]
      BY <1>4 DEF Unlist
    <2>3. \A k \in Channels : (IF k \in known THEN row[k] ELSE {}) =
            IF k = ch THEN Listed(c, k) \ {a} ELSE Listed(c, k)
      BY DEF Listed
    <2> HIDE DEF known, row
    <2>4. /\ table' \in [Coordinators -> UNION {[D -> SUBSET Actors] : D \in SUBSET Channels}]
          /\ \A d \in Coordinators : \A k \in Channels :
               Listed(d, k)' = IF d = c THEN IF k \in known THEN row[k] ELSE {} ELSE Listed(d, k)
      BY <1>2, <2>1, <2>2
    <2> QED BY <2>3, <2>4
  <1> QED BY <1>3, <1>4

\* A command is queued at the end, and the first is taken.
LEMMA QueueFacts ==
  ASSUME TypeOK, NEW c \in Coordinators
  PROVE  /\ \A m \in QueuedCommands : queue' = [queue EXCEPT ![c] = Append(@, m)] =>
              /\ queue' \in [Coordinators -> Seq(QueuedCommands)]
              /\ \A d \in Coordinators : \A i \in DOMAIN queue'[d] :
                   queue'[d][i] = m \/ \E k \in DOMAIN queue[d] : queue'[d][i] = queue[d][k]
         /\ queue[c] # <<>> /\ queue' = [queue EXCEPT ![c] = Tail(@)] =>
              /\ queue' \in [Coordinators -> Seq(QueuedCommands)]
              /\ \A d \in Coordinators : \A i \in DOMAIN queue'[d] :
                   \E k \in DOMAIN queue[d] : queue'[d][i] = queue[d][k]
         /\ queue[c] # <<>> => /\ Head(queue[c]) \in QueuedCommands
                              /\ \E k \in DOMAIN queue[c] : Head(queue[c]) = queue[c][k]
  <1>1. queue[c] \in Seq(QueuedCommands) /\ queue \in [Coordinators -> Seq(QueuedCommands)]
    BY DEF TypeOK
  <1>2. ASSUME NEW m \in QueuedCommands, queue' = [queue EXCEPT ![c] = Append(@, m)]
        PROVE  /\ queue' \in [Coordinators -> Seq(QueuedCommands)]
               /\ \A d \in Coordinators : \A i \in DOMAIN queue'[d] :
                    queue'[d][i] = m \/ \E k \in DOMAIN queue[d] : queue'[d][i] = queue[d][k]
    <2>0. PICK q \in Seq(QueuedCommands) : q = queue[c]
      BY <1>1
    <2>a. Append(q, m) \in Seq(QueuedCommands)
      BY <2>0, <1>2
    <2>1. PICK s \in Seq(QueuedCommands) : s = Append(queue[c], m)
      BY <2>0, <2>a
    <2>2. \A i \in DOMAIN s : s[i] = m \/ \E k \in DOMAIN queue[c] : s[i] = queue[c][k]
      BY <1>1, <2>1
    <2> QED BY <1>1, <1>2, <2>1, <2>2
  <1>3. ASSUME queue[c] # <<>>, queue' = [queue EXCEPT ![c] = Tail(@)]
        PROVE  /\ queue' \in [Coordinators -> Seq(QueuedCommands)]
               /\ \A d \in Coordinators : \A i \in DOMAIN queue'[d] :
                    \E k \in DOMAIN queue[d] : queue'[d][i] = queue[d][k]
    <2>0. PICK q \in Seq(QueuedCommands) : q = queue[c] /\ q # <<>>
      BY <1>1, <1>3
    <2>a. Tail(q) \in Seq(QueuedCommands)
      BY <2>0
    <2>1. PICK s \in Seq(QueuedCommands) : s = Tail(queue[c])
      BY <2>0, <2>a
    <2>2. ASSUME NEW i \in DOMAIN s
          PROVE  \E k \in DOMAIN queue[c] : s[i] = queue[c][k]
      <3>1. i + 1 \in DOMAIN queue[c] /\ s[i] = queue[c][i + 1]
        BY <1>1, <1>3, <2>1
      <3> QED BY <3>1
    <2> QED BY <1>1, <1>3, <2>1, <2>2
  <1>4. queue[c] # <<>> => /\ Head(queue[c]) \in QueuedCommands
                          /\ \E k \in DOMAIN queue[c] : Head(queue[c]) = queue[c][k]
    <2> SUFFICES ASSUME queue[c] # <<>>
                 PROVE  /\ Head(queue[c]) \in QueuedCommands
                        /\ \E k \in DOMAIN queue[c] : Head(queue[c]) = queue[c][k]
      OBVIOUS
    <2>1. Head(queue[c]) = queue[c][1] /\ 1 \in DOMAIN queue[c]
      BY <1>1
    <2> QED BY <1>1, <2>1
  <1> QED BY <1>2, <1>3, <1>4

\* An actor's cancellations are sent or dropped when it does not run any more.
LEMMA GivenUp ==
  ASSUME Inv, NEW a \in Actors, NEW s \in {"terminated", "ended"},
         status' = [status EXCEPT ![a] = s], fired' = fired \cup Cancellations(a),
         held' = [held EXCEPT ![a] = {}],
         UNCHANGED <<pool, made, told, link, table, broker, queue, refused>>
  PROVE  Inv'
  <1> USE DEF Inv
  <1>1. Cancellations(a) \subseteq Fired /\ \A f \in Cancellations(a) : f.actor = a
    BY DEF Cancellations, TypeOK, Subs, Fired
  <1>2. TypeOK'
    BY <1>1 DEF TypeOK
  <1>3. \A b \in Actors : status'[b] = "running" => status[b] = "running"
    BY DEF TypeOK
  <1>4. TasksInv'
    <2>1. \A f \in fired' : status'[f.actor] # "running"
      BY <1>1, <1>3 DEF TasksInv, TypeOK, Fired
    <2>2. \A c \in Coordinators : \A i \in DOMAIN queue[c] : queue[c][i] \in QueuedCommands
      BY DEF TypeOK
    <2> QED BY <1>3, <2>1, <2>2 DEF TasksInv, QueuedCommands
  <1>5. ListedInv'
    BY <1>3 DEF ListedInv, Alive, Listed, Known
  <1> QED BY <1>2, <1>4, <1>5 DEF MadeInv, ServedInv, Alive, Listed, Known

\* A coordinator ends, with or without commands in its queue.
LEMMA Ends ==
  ASSUME Inv, NEW c \in Coordinators, link' = [link EXCEPT ![c] = "ended"],
         table' = [table EXCEPT ![c] = NoChannel], broker' = [broker EXCEPT ![c] = {}],
         UNCHANGED queue \/ queue' = [queue EXCEPT ![c] = <<>>],
         UNCHANGED <<pool, made, status, held, fired, told, refused>>
  PROVE  Inv'
  <1> USE DEF Inv
  <1>1. NoChannel \in UNION {[D -> SUBSET Actors] : D \in SUBSET Channels}
    <2>1. NoChannel \in [{} -> SUBSET Actors] /\ {} \in SUBSET Channels
      BY DEF NoChannel
    <2> QED BY <2>1
  <1>2. queue' \in [Coordinators -> Seq(QueuedCommands)]
        /\ \A d \in Coordinators : \A i \in DOMAIN queue'[d] :
             i \in DOMAIN queue[d] /\ queue'[d][i] = queue[d][i]
    <2>1. <<>> \in Seq(QueuedCommands) /\ DOMAIN <<>> = {}
      OBVIOUS
    <2> QED BY <2>1 DEF TypeOK
  <1>3. TypeOK'
    BY <1>1, <1>2 DEF TypeOK
  <1>4. \A d \in Coordinators : \A k \in Channels :
          Listed(d, k)' = IF d = c THEN {} ELSE Listed(d, k)
    BY DEF Listed, Known, NoChannel, TypeOK
  <1>5. \A d \in Coordinators : link'[d] = IF d = c THEN "ended" ELSE link[d]
    BY DEF TypeOK
  <1>6. MadeInv'
    BY <1>5 DEF MadeInv, Alive
  <1>7. TasksInv'
    BY <1>2 DEF TasksInv
  <1>8. ListedInv'
    BY <1>4, <1>5 DEF ListedInv, Alive, TypeOK, Subs
  <1>9. ServedInv'
    BY <1>4, <1>5 DEF ServedInv, TypeOK
  <1> QED BY <1>3, <1>6, <1>7, <1>8, <1>9

\* The invariant is inductive.
LEMMA InvStep ==
  ASSUME Inv, [Next]_vars
  PROVE  Inv'
  <1> USE DEF Inv
  <1>1. ASSUME NEW a \in Actors, GetConnection(a)
        PROVE  Inv'
    BY <1>1 DEF GetConnection, TypeOK, MadeInv, TasksInv, ListedInv, ServedInv, Alive, Listed, Known, actorVars, coordinatorVars, MayCall
  <1>2. ASSUME NEW a \in Actors, Connected(a)
        PROVE  Inv'
    <2>1. /\ made' = made + 1 /\ pool' = made + 1 /\ made + 1 \in Coordinators
         /\ link' = [link EXCEPT ![made + 1] = "up"]
         /\ UNCHANGED <<status, held, fired, told, table, broker, queue, refused>>
      <3>1. made < MaxCoordinators /\ made \in Nat /\ MaxCoordinators \in Nat
        BY <1>2, RedisAssumption DEF Connected, TypeOK
      <3>2. made + 1 \in Coordinators
        BY <3>1 DEF Coordinators
      <3> QED BY <1>2, <3>2 DEF Connected
    <2>2. TypeOK'
      BY <2>1 DEF TypeOK, Coordinators
    <2>3. ~Alive(made + 1) /\ \A c \in Coordinators : c # made + 1 => link'[c] = link[c]
      BY <2>1 DEF MadeInv, TypeOK, Alive, Coordinators
    <2>4. MadeInv'
      BY <2>1, <2>3 DEF MadeInv, TypeOK, Alive, Coordinators
    <2>5. TasksInv'
      BY <2>1 DEF TasksInv
    <2>6. ListedInv'
      <3>1. \A a1 \in Actors : \A s \in told[a1] : s.coordinator \in Coordinators /\ s.coordinator # made + 1
        BY <2>1 DEF MadeInv, TypeOK, Subs, Coordinators
      <3> QED BY <2>1, <2>3, <3>1 DEF ListedInv, Alive, Listed, Known
    <2>7. ServedInv'
      <3>1. \A ch \in Channels : Listed(made + 1, ch) = {}
        BY <2>1, <2>3 DEF ServedInv, Alive
      <3> QED BY <2>1, <2>3, <3>1 DEF ServedInv, Listed, Known
    <2> QED BY <2>2, <2>4, <2>5, <2>6, <2>7
  <1>3. ASSUME NEW a \in Actors, ConnectFails(a)
        PROVE  Inv'
    BY <1>3 DEF ConnectFails, TypeOK, MadeInv, TasksInv, ListedInv, ServedInv, Alive, Listed, Known, actorVars, coordinatorVars, MayCall
  <1>4. ASSUME NEW a \in Actors, DropConnection(a)
        PROVE  Inv'
    BY <1>4 DEF DropConnection, TypeOK, MadeInv, TasksInv, ListedInv, ServedInv, Alive, Listed, Known, actorVars, coordinatorVars, MayCall
  <1>5. ASSUME NEW a \in Actors, NEW op \in {"subscribe", "unsubscribe"}, NEW ch \in Channels, Ask(a, op, ch)
        PROVE  Inv'
    <2>1. /\ pool \in Coordinators
         /\ queue' = [queue EXCEPT ![pool] = Append(@, Command(op, ch, a, "handler"))]
         /\ UNCHANGED <<pool, made, status, held, fired, told, link, table, broker, refused>>
      <3>1. made \in 0..MaxCoordinators /\ pool \in 1..made \cup {None} /\ pool # None
        BY <1>5 DEF Ask, TypeOK
      <3>2. pool \in Coordinators
        BY <3>1, RedisAssumption DEF Coordinators
      <3> QED BY <1>5, <3>2 DEF Ask
    <2>2. Command(op, ch, a, "handler") \in QueuedCommands /\ Command(op, ch, a, "handler").by = "handler"
      BY DEF Command, QueuedCommands
    <2>3. /\ queue' \in [Coordinators -> Seq(QueuedCommands)]
         /\ \A d \in Coordinators : \A i \in DOMAIN queue'[d] :
              queue'[d][i].by = "handler" \/ \E k \in DOMAIN queue[d] : queue'[d][i] = queue[d][k]
      <3>1. PICK m \in QueuedCommands : m = Command(op, ch, a, "handler") /\ m.by = "handler"
        BY <2>2
      <3>2. /\ queue' \in [Coordinators -> Seq(QueuedCommands)]
            /\ \A d \in Coordinators : \A i \in DOMAIN queue'[d] :
                 queue'[d][i] = m \/ \E k \in DOMAIN queue[d] : queue'[d][i] = queue[d][k]
        BY <2>1, <3>1, QueueFacts
      <3> QED BY <3>1, <3>2
    <2>4. TypeOK'
      BY <2>1, <2>3 DEF TypeOK
    <2>5. TasksInv'
      BY <2>1, <2>3 DEF TasksInv
    <2> QED BY <2>1, <2>4, <2>5 DEF MadeInv, ListedInv, ServedInv, Alive, Listed, Known
  <1>6. ASSUME NEW a \in Actors, Terminate(a)
        PROVE  Inv'
    <2>1. /\ status' = [status EXCEPT ![a] = "terminated"]
         /\ fired' = fired \cup Cancellations(a) /\ held' = [held EXCEPT ![a] = {}]
         /\ UNCHANGED <<pool, made, told, link, table, broker, queue, refused>>
      BY <1>6 DEF Terminate, coordinatorVars
    <2> QED BY <2>1, GivenUp
  <1>7. ASSUME NEW a \in Actors, EndActor(a)
        PROVE  Inv'
    <2>1. /\ status' = [status EXCEPT ![a] = "ended"]
         /\ fired' = fired \cup Cancellations(a) /\ held' = [held EXCEPT ![a] = {}]
         /\ UNCHANGED <<pool, made, told, link, table, broker, queue, refused>>
      BY <1>7 DEF EndActor, coordinatorVars
    <2> QED BY <2>1, GivenUp
  <1>8. ASSUME NEW f \in fired, Cancel(f)
        PROVE  Inv'
    <2>1. /\ f \in Fired /\ fired' \subseteq fired /\ status[f.actor] # "running"
         /\ UNCHANGED <<pool, made, status, held, told, link, table, broker, refused>>
      BY <1>8 DEF Cancel, TypeOK, TasksInv
    <2>2. /\ queue' \in [Coordinators -> Seq(QueuedCommands)]
         /\ \A d \in Coordinators : \A i \in DOMAIN queue'[d] :
              \/ queue'[d][i] = Command("unsubscribe", f.channel, f.actor, "task")
              \/ \E k \in DOMAIN queue[d] : queue'[d][i] = queue[d][k]
      <3>1. f.coordinator \in Coordinators /\ Command("unsubscribe", f.channel, f.actor, "task") \in QueuedCommands
        BY <2>1 DEF Fired, Command, QueuedCommands
      <3>2. CASE Alive(f.coordinator)
        <4>1. queue' = [queue EXCEPT ![f.coordinator] =
                         Append(@, Command("unsubscribe", f.channel, f.actor, "task"))]
          BY <1>8, <3>2 DEF Cancel
        <4> QED BY <3>1, <4>1, QueueFacts
      <3>3. CASE ~Alive(f.coordinator)
        <4>1. UNCHANGED queue
          BY <1>8, <3>3 DEF Cancel
        <4> QED BY <4>1 DEF TypeOK
      <3> QED BY <3>2, <3>3
    <2>3. TypeOK'
      BY <2>1, <2>2 DEF TypeOK
    <2>4. TasksInv'
      BY <2>1, <2>2 DEF TasksInv, Command
    <2> QED BY <2>1, <2>3, <2>4 DEF MadeInv, ListedInv, ServedInv, Alive, Listed, Known
  <1>9. ASSUME NEW c \in Coordinators, HandleSubscribe(c)
        PROVE  Inv'
    <2> DEFINE a == Head(queue[c]).actor
              ch == Head(queue[c]).channel
    <2>1. a \in Actors /\ ch \in Channels
      BY <1>9, QueueFacts DEF HandleSubscribe, Takes, QueuedCommands
    <2>2. /\ Alive(c) /\ queue[c] # <<>> /\ queue' = [queue EXCEPT ![c] = Tail(@)] /\ List(c, ch, a)
         /\ UNCHANGED <<pool, made, status, fired, link>>
      BY <1>9 DEF HandleSubscribe, Takes
    <2>3. \/ /\ held' = [held EXCEPT ![a] = @ \cup {Sub(ch, c)}]
            /\ told' = [told EXCEPT ![a] = @ \cup {Sub(ch, c)}]
         \/ UNCHANGED <<held, told>>
      BY <1>9 DEF HandleSubscribe
    <2>4. \/ /\ Listed(c, ch) # {} /\ UNCHANGED <<broker, refused>>
         \/ /\ broker' = [broker EXCEPT ![c] = @ \cup {ch}] /\ refused' = refused \ {Sub(ch, c)}
         \/ /\ UNCHANGED broker /\ refused' = refused \cup {Sub(ch, c)}
         \/ /\ link[c] = "broken" /\ UNCHANGED <<broker, refused>>
      BY <1>9 DEF HandleSubscribe
    <2> HIDE DEF a, ch
    <2>5. /\ queue' \in [Coordinators -> Seq(QueuedCommands)]
         /\ \A d \in Coordinators : \A i \in DOMAIN queue'[d] :
              \E k \in DOMAIN queue[d] : queue'[d][i] = queue[d][k]
      BY <2>2, QueueFacts
    <2>6. /\ table' \in [Coordinators -> UNION {[D -> SUBSET Actors] : D \in SUBSET Channels}]
         /\ \A d \in Coordinators : \A k \in Channels :
              Listed(d, k)' = IF d = c /\ k = ch THEN Listed(d, k) \cup {a} ELSE Listed(d, k)
      BY <2>1, <2>2, TableFacts
    <2>7. Sub(ch, c) \in Subs /\ Sub(ch, c).channel = ch /\ Sub(ch, c).coordinator = c
         /\ \A k \in Channels : \A d \in Coordinators : Sub(k, d) = Sub(ch, c) => k = ch /\ d = c
      BY <2>1 DEF Sub, Subs
    <2>8. TypeOK'
      <3>1. broker' \in [Coordinators -> SUBSET Channels]
        BY <2>1, <2>4 DEF TypeOK
      <3>2. held' \in [Actors -> SUBSET Subs] /\ told' \in [Actors -> SUBSET Subs]
        <4>1. held \in [Actors -> SUBSET Subs] /\ told \in [Actors -> SUBSET Subs]
          BY DEF TypeOK
        <4>2. CASE UNCHANGED <<held, told>>
          BY <4>1, <4>2
        <4>3. CASE /\ held' = [held EXCEPT ![a] = @ \cup {Sub(ch, c)}]
                   /\ told' = [told EXCEPT ![a] = @ \cup {Sub(ch, c)}]
          <5>1. held[a] \cup {Sub(ch, c)} \in SUBSET Subs /\ told[a] \cup {Sub(ch, c)} \in SUBSET Subs
            BY <2>1, <2>7, <4>1
          <5> QED BY <2>1, <4>1, <4>3, <5>1
        <4> QED BY <2>3, <4>2, <4>3
      <3> QED BY <2>2, <2>5, <2>6, <3>1, <3>2 DEF TypeOK
    <2>9. \A b \in Actors : \A s \in told'[b] : s \in told[b] \/ (b = a /\ s = Sub(ch, c))
      BY <2>1, <2>3 DEF TypeOK
    <2>10. MadeInv'
      BY <2>2, <2>7, <2>9 DEF MadeInv, Alive
    <2>11. TasksInv'
      BY <2>2, <2>5 DEF TasksInv
    <2>12. ListedInv'
      <3> SUFFICES ASSUME NEW b \in Actors, NEW s \in told'[b], status'[b] = "running",
                          Alive(s.coordinator)'
                   PROVE  b \in Listed(s.coordinator, s.channel)'
        BY DEF ListedInv
      <3>1. CASE b = a /\ s = Sub(ch, c)
        BY <2>1, <2>6, <2>7, <3>1
      <3>2. CASE s \in told[b]
        <4>1. b \in Listed(s.coordinator, s.channel) /\ s.coordinator \in Coordinators /\ s.channel \in Channels
          BY <2>2, <3>2 DEF ListedInv, Alive, TypeOK, Subs
        <4> QED BY <2>6, <4>1
      <3> QED BY <2>9, <3>1, <3>2
    <2>13. ServedInv'
      <3> SUFFICES ASSUME NEW d \in Coordinators, NEW k \in Channels
                   PROVE  /\ link'[d] = "up" /\ Listed(d, k)' # {} =>
                               k \in broker'[d] \/ Sub(k, d) \in refused'
                          /\ link'[d] = "ended" => Listed(d, k)' = {}
        BY DEF ServedInv
      <3>1. CASE d = c /\ k = ch
        <4>1. link[c] # "ended"
          BY <2>2 DEF Alive
        <4>2. link[c] = "up" => ch \in broker'[c] \/ Sub(ch, c) \in refused'
          BY <2>1, <2>4 DEF ServedInv, TypeOK
        <4> QED BY <2>2, <3>1, <4>1, <4>2
      <3>2. CASE ~(d = c /\ k = ch)
        <4>1. Listed(d, k)' = Listed(d, k)
          BY <2>6, <3>2
        <4>2. (k \in broker[d] => k \in broker'[d]) /\ (Sub(k, d) \in refused => Sub(k, d) \in refused')
          BY <2>4, <2>7, <3>2 DEF TypeOK
        <4> QED BY <2>2, <4>1, <4>2 DEF ServedInv
      <3> QED BY <3>1, <3>2
    <2> QED BY <2>8, <2>10, <2>11, <2>12, <2>13
  <1>10. ASSUME NEW c \in Coordinators, HandleUnsubscribe(c)
        PROVE  Inv'
    <2> DEFINE command == Head(queue[c])
              a == command.actor
              ch == command.channel
    <2>1. command \in QueuedCommands /\ a \in Actors /\ ch \in Channels
         /\ (command.by = "task" => status[a] # "running") /\ command.by \in {"handler", "task"}
      BY <1>10, QueueFacts DEF HandleUnsubscribe, Takes, QueuedCommands, TasksInv
    <2>2. /\ Alive(c) /\ queue[c] # <<>> /\ queue' = [queue EXCEPT ![c] = Tail(@)] /\ Unlist(c, ch, a)
         /\ broker' = [broker EXCEPT ![c] = IF Listed(c, ch) \subseteq {a} THEN @ \ {ch} ELSE @]
         /\ UNCHANGED <<pool, made, status, held, fired, link, refused>>
      BY <1>10 DEF HandleUnsubscribe, Takes
    <2>3. \/ command.by = "task" /\ UNCHANGED told
         \/ told' = [told EXCEPT ![a] = @ \ {Sub(ch, c)}]
      BY <1>10, <2>1 DEF HandleUnsubscribe, Ended
    <2> HIDE DEF command, a, ch
    <2>4. /\ queue' \in [Coordinators -> Seq(QueuedCommands)]
         /\ \A d \in Coordinators : \A i \in DOMAIN queue'[d] :
              \E k \in DOMAIN queue[d] : queue'[d][i] = queue[d][k]
      BY <2>2, QueueFacts
    <2>5. /\ table' \in [Coordinators -> UNION {[D -> SUBSET Actors] : D \in SUBSET Channels}]
         /\ \A d \in Coordinators : \A k \in Channels :
              Listed(d, k)' = IF d = c /\ k = ch THEN Listed(d, k) \ {a} ELSE Listed(d, k)
      BY <2>1, <2>2, TableFacts
    <2>6. TypeOK'
      <3>1. broker' \in [Coordinators -> SUBSET Channels]
        BY <2>2 DEF TypeOK
      <3>2. told' \in [Actors -> SUBSET Subs]
        BY <2>1, <2>3 DEF TypeOK
      <3> QED BY <2>2, <2>4, <2>5, <3>1, <3>2 DEF TypeOK
    <2>7. \A b \in Actors : told'[b] \subseteq told[b]
      BY <2>3 DEF TypeOK
    <2>8. MadeInv'
      BY <2>2, <2>7 DEF MadeInv, Alive
    <2>9. TasksInv'
      BY <2>2, <2>4 DEF TasksInv
    <2>10. ListedInv'
      <3> SUFFICES ASSUME NEW b \in Actors, NEW s \in told'[b], status'[b] = "running",
                          Alive(s.coordinator)'
                   PROVE  b \in Listed(s.coordinator, s.channel)'
        BY DEF ListedInv
      <3>1. /\ b \in Listed(s.coordinator, s.channel) /\ s \in Subs
            /\ s.coordinator \in Coordinators /\ s.channel \in Channels /\ status[b] = "running"
        BY <2>2, <2>7 DEF ListedInv, Alive, TypeOK, Subs
      <3>2. ~(b = a /\ s.coordinator = c /\ s.channel = ch)
        <4> SUFFICES ASSUME b = a, s.coordinator = c, s.channel = ch
                     PROVE  FALSE
          OBVIOUS
        <4>1. s = Sub(ch, c)
          BY <3>1 DEF Sub, Subs
        <4>2. told' = [told EXCEPT ![a] = @ \ {Sub(ch, c)}]
          BY <2>1, <2>3, <3>1
        <4> QED BY <2>1, <4>1, <4>2 DEF TypeOK
      <3> QED BY <2>5, <3>1, <3>2
    <2>11. ServedInv'
      <3> SUFFICES ASSUME NEW d \in Coordinators, NEW k \in Channels
                   PROVE  /\ link'[d] = "up" /\ Listed(d, k)' # {} =>
                               k \in broker'[d] \/ Sub(k, d) \in refused'
                          /\ link'[d] = "ended" => Listed(d, k)' = {}
        BY DEF ServedInv
      <3>1. Listed(d, k)' \subseteq Listed(d, k)
        BY <2>5
      <3>2. k \in broker[d] /\ Listed(d, k)' # {} => k \in broker'[d]
        BY <2>2, <2>5 DEF TypeOK
      <3> QED BY <2>2, <3>1, <3>2 DEF ServedInv
    <2> QED BY <2>6, <2>8, <2>9, <2>10, <2>11
  <1>11. ASSUME NEW c \in Coordinators, EndCoordinator(c)
        PROVE  Inv'
    <2>1. /\ link' = [link EXCEPT ![c] = "ended"] /\ table' = [table EXCEPT ![c] = NoChannel]
         /\ broker' = [broker EXCEPT ![c] = {}] /\ UNCHANGED queue
         /\ UNCHANGED <<pool, made, status, held, fired, told, refused>>
      BY <1>11 DEF EndCoordinator, actorVars
    <2> QED BY <2>1, Ends
  <1>12. ASSUME NEW c \in Coordinators, NEW ch \in Channels, Message(c, ch)
        PROVE  Inv'
    <2>1. /\ ch \in Known(c) /\ link[c] = "up"
         /\ table' = [table EXCEPT ![c][ch] = {a \in @ : status[a] = "running"}]
         /\ UNCHANGED <<pool, made, status, held, fired, told, link, broker, queue, refused>>
      BY <1>12 DEF Message, actorVars
    <2>2. \A d \in Coordinators : \A k \in Channels :
           Listed(d, k)' = IF d = c /\ k = ch THEN {a \in Listed(d, k) : status[a] = "running"}
                                             ELSE Listed(d, k)
      BY <2>1 DEF Listed, Known, TypeOK
    <2>3. TypeOK'
      BY <2>1 DEF TypeOK, Known
    <2>4. ListedInv'
      BY <2>1, <2>2 DEF ListedInv, Alive, TypeOK, Subs
    <2>5. ServedInv'
      BY <2>1, <2>2 DEF ServedInv
    <2> QED BY <2>1, <2>3, <2>4, <2>5 DEF MadeInv, TasksInv, Alive
  <1>13. ASSUME NEW c \in Coordinators, Garbled(c)
        PROVE  Inv'
    <2>1. /\ link' = [link EXCEPT ![c] = "ended"] /\ table' = [table EXCEPT ![c] = NoChannel]
         /\ broker' = [broker EXCEPT ![c] = {}] /\ queue' = [queue EXCEPT ![c] = <<>>]
         /\ UNCHANGED <<pool, made, status, held, fired, told, refused>>
      BY <1>13 DEF Garbled
    <2> QED BY <2>1, Ends
  <1>14. ASSUME NEW c \in Coordinators, Break(c)
        PROVE  Inv'
    BY <1>14 DEF Break, TypeOK, MadeInv, TasksInv, ListedInv, ServedInv, Alive, Listed, Known, actorVars, coordinatorVars, MayCall
  <1>15. ASSUME NEW c \in Coordinators, Reconnect(c)
        PROVE  Inv'
    <2>1. PICK lost \in SUBSET Known(c) :
           /\ broker' = [broker EXCEPT ![c] = Known(c) \ lost]
           /\ refused' = {s \in refused : s.coordinator # c} \cup {Sub(k, c) : k \in lost}
      BY <1>15 DEF Reconnect
    <2>2. /\ link[c] = "broken" /\ link' = [link EXCEPT ![c] = "up"]
         /\ UNCHANGED <<pool, made, status, held, fired, told, table, queue>>
      BY <1>15 DEF Reconnect, actorVars
    <2>3. Known(c) \subseteq Channels
      BY DEF Known, TypeOK
    <2>4. TypeOK'
      BY <2>1, <2>2, <2>3 DEF TypeOK
    <2>5. \A d \in Coordinators : Alive(d)' <=> Alive(d)
      BY <2>2 DEF Alive, TypeOK
    <2>6. MadeInv' /\ TasksInv'
      BY <2>2, <2>5 DEF MadeInv, TasksInv
    <2>7. ListedInv'
      BY <2>2, <2>5 DEF ListedInv, Listed, Known, TypeOK, Subs
    <2>8. ServedInv'
      <3> SUFFICES ASSUME NEW d \in Coordinators, NEW k \in Channels
                   PROVE  /\ link'[d] = "up" /\ Listed(d, k)' # {} =>
                               k \in broker'[d] \/ Sub(k, d) \in refused'
                          /\ link'[d] = "ended" => Listed(d, k)' = {}
        BY DEF ServedInv
      <3>1. Listed(d, k)' = Listed(d, k)
        BY <2>2 DEF Listed, Known
      <3>2. CASE d = c
        <4>1. Listed(c, k) # {} => k \in Known(c)
          BY DEF Listed
        <4> QED BY <2>1, <2>2, <3>1, <3>2, <4>1 DEF TypeOK
      <3>3. CASE d # c
        <4>1. Sub(k, d).coordinator # c
          BY <3>3 DEF Sub
        <4>2. link'[d] = link[d] /\ broker'[d] = broker[d] /\ (Sub(k, d) \in refused => Sub(k, d) \in refused')
          BY <2>1, <2>2, <3>3, <4>1 DEF TypeOK
        <4> QED BY <3>1, <4>2 DEF ServedInv
      <3> QED BY <3>2, <3>3
    <2> QED BY <2>4, <2>6, <2>7, <2>8
  <1>16. CASE UNCHANGED vars
    BY <1>16 DEF vars, TypeOK, MadeInv, TasksInv, ListedInv, ServedInv, Alive, Listed, Known, actorVars, coordinatorVars, MayCall
  <1> QED
    BY <1>1, <1>2, <1>3, <1>4, <1>5, <1>6, <1>7, <1>8,
       <1>9, <1>10, <1>11, <1>12, <1>13, <1>14, <1>15, <1>16
       DEF Next, CoordinatorStep, Subscribe, Unsubscribe

\* Whoever was told it is subscribed is listed by the coordinator, and the server
\* knows its channel or has refused it, across reconnections, cancellations and
\* lost coordinators (setup_pubsub_coordinator, redis.rs:490).
THEOREM SubscribersAreServed == Spec => []SubscribedAreServed
  <1>1. Init => Inv
    <2> SUFFICES ASSUME Init PROVE Inv
      OBVIOUS
    <2>1. \A d \in Coordinators : \A k \in Channels : Listed(d, k) = {} /\ ~Alive(d)
      BY DEF Init, Listed, Known, NoChannel, Alive
    <2>2. TypeOK
      <3>1. NoChannel \in UNION {[D -> SUBSET Actors] : D \in SUBSET Channels}
        <4>1. NoChannel \in [{} -> SUBSET Actors] /\ {} \in SUBSET Channels
          BY DEF NoChannel
        <4> QED BY <4>1
      <3>2. <<>> \in Seq(QueuedCommands)
        OBVIOUS
      <3>3. made = 0 /\ MaxCoordinators \in Nat
        BY RedisAssumption DEF Init
      <3> QED BY <3>1, <3>2, <3>3 DEF Init, TypeOK
    <2>3. MadeInv
      BY DEF Init, MadeInv, Alive
    <2>4. TasksInv
      <3>1. \A c \in Coordinators : DOMAIN queue[c] = {}
        BY DEF Init
      <3> QED BY <3>1 DEF Init, TasksInv
    <2>5. ListedInv
      BY DEF Init, ListedInv
    <2>6. ServedInv
      BY <2>1 DEF Alive, ServedInv
    <2> QED BY <2>2, <2>3, <2>4, <2>5, <2>6 DEF Inv
  <1>2. Inv /\ [Next]_vars => Inv'
    BY InvStep
  <1>3. Inv => SubscribedAreServed
    <2> SUFFICES ASSUME Inv, NEW a \in Actors, NEW s \in told[a], status[a] = "running",
                        Alive(s.coordinator)
                 PROVE  /\ a \in Listed(s.coordinator, s.channel)
                        /\ link[s.coordinator] = "up" =>
                             s.channel \in broker[s.coordinator] \/ s \in refused
      BY DEF SubscribedAreServed
    <2>1. s.coordinator \in Coordinators /\ s.channel \in Channels
          /\ s = Sub(s.channel, s.coordinator)
      BY DEF Inv, TypeOK, Subs, Sub
    <2> QED BY <2>1 DEF Inv, ListedInv, ServedInv
  <1> QED BY <1>1, <1>2, <1>3, PTL DEF Spec
=============================================================================
