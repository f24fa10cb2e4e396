--------------------------- MODULE ActorJobsProofs ---------------------------
(***************************************************************************)
(* Theorems about ActorJobs, for every set of jobs, every program and every  *)
(* capacity and bound.                                                     *)
(***************************************************************************)
EXTENDS ActorJobs, FiniteSetTheorems, SequenceTheorems, TLAPS

-----------------------------------------------------------------------------
(* Sequences.                                                              *)

\* Removing a position moves what is behind it up by one (Vec::remove).
LEMMA RemoveAtFacts ==
  ASSUME NEW S, NEW s \in Seq(S), NEW i \in 1..Len(s)
  PROVE  /\ RemoveAt(s, i) \in Seq(S)
         /\ Len(RemoveAt(s, i)) = Len(s) - 1
         /\ \A k \in 1..(Len(s) - 1) : RemoveAt(s, i)[k] = IF k < i THEN s[k] ELSE s[k + 1]
  <1> DEFINE front == SubSeq(s, 1, i - 1)
             back == SubSeq(s, i + 1, Len(s))
  <1>1. Len(s) \in Nat /\ i \in Nat /\ 1 <= i /\ i <= Len(s)
    OBVIOUS
  <1>2. front \in Seq(S) /\ Len(front) = i - 1 /\ \A k \in 1..(i - 1) : front[k] = s[k]
    BY <1>1
  <1>3. /\ back \in Seq(S) /\ Len(back) = Len(s) - i
        /\ \A k \in 1..(Len(s) - i) : back[k] = s[k + i]
    BY <1>1
  <1>4. RemoveAt(s, i) = front \o back
    BY DEF RemoveAt
  <1> HIDE DEF front, back
  <1>5. RemoveAt(s, i) \in Seq(S) /\ Len(RemoveAt(s, i)) = Len(s) - 1
    BY <1>1, <1>2, <1>3, <1>4
  <1>6. ASSUME NEW k \in 1..(Len(s) - 1)
        PROVE  RemoveAt(s, i)[k] = IF k < i THEN s[k] ELSE s[k + 1]
    <2>1. CASE k < i
      BY <1>1, <1>2, <1>3, <1>4, <1>6, <2>1
    <2>2. CASE ~(k < i)
      <3>1. k - (i - 1) \in 1..(Len(s) - i) /\ (k - (i - 1)) + i = k + 1
        BY <1>1, <1>6, <2>2
      <3>2. RemoveAt(s, i)[k] = back[k - (i - 1)]
        BY <1>1, <1>2, <1>3, <1>4, <1>6, <2>2
      <3> QED BY <1>3, <2>2, <3>1, <3>2
    <2> QED BY <2>1, <2>2
  <1> QED BY <1>5, <1>6

\* The sequence without its last element (Vec::pop).
LEMMA FrontFacts ==
  ASSUME NEW S, NEW s \in Seq(S), s # <<>>
  PROVE  /\ Front(s) \in Seq(S) /\ Len(Front(s)) = Len(s) - 1
         /\ \A k \in 1..(Len(s) - 1) : Front(s)[k] = s[k]
         /\ Len(s) \in 1..Len(s) /\ Last(s) = s[Len(s)]
  <1>1. Len(s) \in Nat /\ Len(s) > 0
    OBVIOUS
  <1>2. Front(s) = SubSeq(s, 1, Len(s) - 1)
    BY DEF Front
  <1>3. Front(s) \in Seq(S) /\ Len(Front(s)) = Len(s) - 1
    <2>1. PICK n \in Nat : n = Len(s) - 1
      BY <1>1
    <2>2. SubSeq(s, 1, n) \in Seq(S) /\ Len(SubSeq(s, 1, n)) = n
      BY <1>1, <2>1, SubSeqProperties
    <2> QED BY <1>2, <2>1, <2>2
  <1>4. \A k \in 1..(Len(s) - 1) : Front(s)[k] = s[k]
    BY <1>1, <1>2
  <1> QED BY <1>1, <1>3, <1>4 DEF Last

\* Queueing behind the others, and taking the first (mpsc, broadcast, Vec::push).
LEMMA QueueFacts ==
  ASSUME NEW S, NEW s \in Seq(S)
  PROVE  /\ \A c \in S : /\ Append(s, c) \in Seq(S) /\ Len(Append(s, c)) = Len(s) + 1
                        /\ \A k \in 1..Len(s) : Append(s, c)[k] = s[k]
                        /\ Append(s, c)[Len(s) + 1] = c
         /\ s # <<>> => /\ Tail(s) \in Seq(S) /\ Len(Tail(s)) = Len(s) - 1
                        /\ \A k \in 1..(Len(s) - 1) : Tail(s)[k] = s[k + 1]
                        /\ Head(s) = s[1] /\ Head(s) \in S /\ Len(s) > 0
  OBVIOUS

-----------------------------------------------------------------------------
(* Types.                                                                  *)

States == {"unset", "waiting", "sending", "firing", "parting", "asking", "answered",
           "failed", "stuck", "ended"}

Runs == [op : {"run"}, job : Jobs \cup {None}, value : Nat]
Commands == Runs \cup {TerminateCmd}

TypeOK ==
  /\ kind \in [Jobs -> Kinds \cup {None}]
  /\ mailbox \in Seq(Commands)
  /\ running \in Runs
  /\ resources \in Seq(Jobs) /\ clients \in Seq(Jobs)
  /\ state \in [Jobs -> States]
  /\ signal \in [Jobs -> BOOLEAN]
  /\ feed \in [Jobs -> Seq(Nat)]
  /\ held \in [Jobs -> Nat]
  /\ lagged \in [Jobs -> BOOLEAN]
  /\ published \in [channel : Nat, files : Nat]

\* Some states are those of one kind of job.
StateFits ==
  \A j \in Jobs :
    /\ state[j] = "firing" => kind[j] = "alarm"
    /\ state[j] = "parting" => kind[j] = "socket"
    /\ state[j] \in {"asking", "answered", "failed", "stuck"} => kind[j] = "task"

\* The actor runs nothing between two handlers, and only a receiver of values
\* has values of the channel or of the file system.
Bookkept ==
  /\ actor \in {"idle", "ended"} => running = Idle
  /\ \A j \in Jobs :
       /\ held[j] # 0 => state[j] = "sending" /\ kind[j] \in {"subscription", "watcher"}
       /\ feed[j] # <<>> => kind[j] \in {"subscription", "watcher"}

Typed == TypeOK /\ StateFits /\ Bookkept

\* The commands there are.
LEMMA CommandTypes ==
  /\ Idle \in Runs /\ Idle \in Commands /\ TerminateCmd \in Commands
  /\ \A j \in Jobs : \A v \in Nat : Run(j, v) \in Runs /\ Run(j, v) \in Commands
  /\ \A c \in Commands : c.op = "run" => c \in Runs
  /\ \A c \in Commands : c.op = "terminate" => c.job = None
  /\ None \notin Jobs
  BY JobsAssumption DEF Idle, Run, TerminateCmd, Commands, Runs

\* A step that keeps only some cancellations, in their order.
KeepsOnly(positions) ==
  /\ resources' \in Seq(Jobs)
  /\ \A p \in positions : \E k \in DOMAIN resources' : resources'[k] = resources[p]
  /\ \A k \in DOMAIN resources' : \E p \in positions : resources'[k] = resources[p]
  /\ \A k, l \in DOMAIN resources' : k < l =>
       \E p, q \in positions : p < q /\ resources'[k] = resources[p] /\ resources'[l] = resources[q]

\* Popping one cancellation keeps the others (pop_cancellation_where).
LEMMA PoppedKeeps ==
  ASSUME TypeOK, NEW i \in DOMAIN resources, Popped(i)
  PROVE  /\ KeepsOnly(DOMAIN resources \ {i})
         /\ signal' \in [Jobs -> BOOLEAN]
         /\ \A j \in Jobs : signal'[j] <=> signal[j] \/ j = resources[i]
  <1>1. /\ resources \in Seq(Jobs) /\ DOMAIN resources = 1..Len(resources)
        /\ Len(resources) \in Nat /\ resources[i] \in Jobs
    BY DEF TypeOK
  <1>2. /\ resources' \in Seq(Jobs) /\ Len(resources') = Len(resources) - 1
        /\ \A k \in 1..(Len(resources) - 1) :
             resources'[k] = IF k < i THEN resources[k] ELSE resources[k + 1]
    BY <1>1, RemoveAtFacts DEF Popped
  <1>3. DOMAIN resources' = 1..(Len(resources) - 1)
    BY <1>2
  <1>4. ASSUME NEW p \in DOMAIN resources \ {i}
        PROVE  \E k \in DOMAIN resources' : resources'[k] = resources[p]
    <2>1. CASE p < i
      <3>1. p \in 1..(Len(resources) - 1)
        BY <1>1, <2>1
      <3> QED BY <1>2, <1>3, <2>1, <3>1
    <2>2. CASE ~(p < i)
      <3>1. p - 1 \in 1..(Len(resources) - 1) /\ ~(p - 1 < i) /\ (p - 1) + 1 = p
        BY <1>1, <2>2
      <3> QED BY <1>2, <1>3, <3>1
    <2> QED BY <2>1, <2>2
  <1>5. ASSUME NEW k \in DOMAIN resources'
        PROVE  \E p \in DOMAIN resources \ {i} : resources'[k] = resources[p]
    <2>1. CASE k < i
      BY <1>1, <1>2, <1>3, <2>1
    <2>2. CASE ~(k < i)
      <3>1. k + 1 \in DOMAIN resources \ {i}
        BY <1>1, <1>3, <2>2
      <3> QED BY <1>2, <1>3, <2>2, <3>1
    <2> QED BY <2>1, <2>2
  <1>6. ASSUME NEW k \in DOMAIN resources', NEW l \in DOMAIN resources', k < l
        PROVE  \E p, q \in DOMAIN resources \ {i} :
                 p < q /\ resources'[k] = resources[p] /\ resources'[l] = resources[q]
    <2> DEFINE was(n) == IF n < i THEN n ELSE n + 1
    <2>1. was(k) \in DOMAIN resources \ {i} /\ was(l) \in DOMAIN resources \ {i} /\ was(k) < was(l)
      BY <1>1, <1>3, <1>6
    <2>2. resources'[k] = resources[was(k)] /\ resources'[l] = resources[was(l)]
      BY <1>2, <1>3
    <2> QED BY <2>1, <2>2
  <1>7. KeepsOnly(DOMAIN resources \ {i})
    BY <1>2, <1>4, <1>5, <1>6 DEF KeepsOnly
  <1>8. signal' \in [Jobs -> BOOLEAN] /\ \A j \in Jobs : signal'[j] <=> signal[j] \/ j = resources[i]
    BY <1>1 DEF Popped, TypeOK
  <1> QED BY <1>7, <1>8

\* So does popping several, one after the other (unsubscribe).
LEMMA OnlyKeptKeeps ==
  ASSUME TypeOK, NEW K \in SUBSET (DOMAIN resources), OnlyKept(K)
  PROVE  KeepsOnly(K)
  <1>1. PICK kept \in [1..Cardinality(K) -> K] :
          /\ \A m, n \in DOMAIN kept : m < n => kept[m] < kept[n]
          /\ Range(kept) = K
          /\ resources' = [n \in DOMAIN kept |-> resources[kept[n]]]
    BY DEF OnlyKept
  <1>2. Cardinality(K) \in Nat
    <2>1. IsFiniteSet(DOMAIN resources)
      BY FS_Interval DEF TypeOK
    <2> QED BY <2>1, FS_Subset, FS_CardinalityType
  <1>3. \A n \in 1..Cardinality(K) : resources[kept[n]] \in Jobs /\ kept[n] \in K
    <2>1. \A p \in DOMAIN resources : resources[p] \in Jobs
      BY DEF TypeOK
    <2>2. \A n \in 1..Cardinality(K) : kept[n] \in K
      OBVIOUS
    <2> QED BY <2>1, <2>2
  <1>4. resources' \in Seq(Jobs) /\ DOMAIN resources' = 1..Cardinality(K)
    BY <1>1, <1>2, <1>3, IsASeq
  <1>5. \A p \in K : \E k \in DOMAIN resources' : resources'[k] = resources[p]
    BY <1>1, <1>4 DEF Range
  <1> QED BY <1>1, <1>3, <1>4, <1>5 DEF KeepsOnly





















-----------------------------------------------------------------------------
(* The type invariant.                                                     *)

\* Every step of the actor, its jobs and Worker::stop keeps the types.
LEMMA TypesStep ==
  ASSUME Typed, [Next]_vars
  PROVE  Typed'
  <1>1. ASSUME OutsideRun PROVE Typed'
    BY <1>1, CommandTypes, QueueFacts DEF OutsideRun, Outside, Push, Typed, TypeOK, StateFits, Bookkept, jobVars, JobStep, Become, States
  <1>2. ASSUME OutsideTerminate PROVE Typed'
    BY <1>2, CommandTypes, QueueFacts DEF OutsideTerminate, Outside, Push, Typed, TypeOK, StateFits, Bookkept, jobVars, JobStep, Become, States
  <1>3. ASSUME Publish PROVE Typed'
    <2>1. published.channel + 1 \in Nat
      BY DEF Typed, TypeOK, StateFits, Bookkept
    <2>2. \A k \in Jobs : /\ feed[k] \in Seq(Nat) /\ (feed[k] # <<>> => Tail(feed[k]) \in Seq(Nat))
                         /\ (Len(feed[k]) = FeedCapacity => feed[k] # <<>>)
      BY BoundsAssumption DEF Typed, TypeOK, StateFits, Bookkept
    <2>3. \A k \in Jobs :
            Append(IF Len(feed[k]) = FeedCapacity THEN Tail(feed[k]) ELSE feed[k], published.channel + 1)
              \in Seq(Nat)
      BY <2>1, <2>2
    <2>4. feed' \in [Jobs -> Seq(Nat)] /\ \A k \in Jobs : kind[k] # "subscription" => feed'[k] = feed[k]
      BY <1>3, <2>2, <2>3 DEF Publish, Subscribed
    <2>5. lagged' \in [Jobs -> BOOLEAN]
      BY <1>3 DEF Publish, Typed, TypeOK, StateFits, Bookkept
    <2> QED BY <1>3, <2>1, <2>4, <2>5 DEF Publish, Typed, TypeOK, StateFits, Bookkept
  <1>4. ASSUME Change PROVE Typed'
    <2>1. published.files + 1 \in Nat
      BY DEF Typed, TypeOK, StateFits, Bookkept
    <2>2. \A k \in Jobs : feed[k] \in Seq(Nat)
      BY DEF Typed, TypeOK, StateFits, Bookkept
    <2>3. \A k \in Jobs : Append(feed[k], published.files + 1) \in Seq(Nat)
      BY <2>1, <2>2
    <2>4. feed' \in [Jobs -> Seq(Nat)] /\ \A k \in Jobs : kind[k] # "watcher" => feed'[k] = feed[k]
      BY <1>4, <2>2, <2>3 DEF Change
    <2> QED BY <1>4, <2>1, <2>4 DEF Change, Typed, TypeOK, StateFits, Bookkept
  <1>5. ASSUME StopFinds PROVE Typed'
    BY <1>5, CommandTypes, QueueFacts DEF StopFinds, Typed, TypeOK, StateFits, Bookkept, jobVars, JobStep, Become, States
  <1>6. ASSUME StopTells PROVE Typed'
    BY <1>6, CommandTypes, QueueFacts DEF StopTells, Push, Typed, TypeOK, StateFits, Bookkept, jobVars, JobStep, Become, States
  <1>7. ASSUME StopReaches PROVE Typed'
    BY <1>7, CommandTypes, QueueFacts DEF StopReaches, Typed, TypeOK, StateFits, Bookkept, jobVars, JobStep, Become, States
  <1>8. ASSUME StopSends PROVE Typed'
    BY <1>8, CommandTypes, QueueFacts DEF StopSends, Push, Typed, TypeOK, StateFits, Bookkept, jobVars, JobStep, Become, States
  <1>9. ASSUME NEW j \in Jobs, Fire(j) PROVE Typed'
    BY <1>9, CommandTypes, QueueFacts DEF Fire, Typed, TypeOK, StateFits, Bookkept, jobVars, JobStep, Become, States
  <1>10. ASSUME NEW j \in Jobs, Ask(j) PROVE Typed'
    BY <1>10, CommandTypes, QueueFacts DEF Ask, Typed, TypeOK, StateFits, Bookkept, jobVars, JobStep, Become, States
  <1>11. ASSUME NEW j \in Jobs, ReceiveValue(j) PROVE Typed'
    <2>1. /\ Tail(feed[j]) \in Seq(Nat) /\ Head(feed[j]) \in Nat
         /\ kind[j] \in {"subscription", "watcher"}
      BY <1>11, QueueFacts DEF ReceiveValue, Typed, TypeOK, StateFits, Bookkept
    <2>2. feed' \in [Jobs -> Seq(Nat)] /\ \A k \in Jobs \ {j} : feed'[k] = feed[k]
      <3>1. PICK f \in Seq(Nat) : feed' = [feed EXCEPT ![j] = f]
        <4>1. CASE registered \/ kind[j] = "watcher"
          BY <1>11, <2>1, <4>1, Zenon DEF ReceiveValue
        <4>2. CASE ~(registered \/ kind[j] = "watcher")
          <5>1. <<>> \in Seq(Nat)
            OBVIOUS
          <5> QED BY <1>11, <4>2, <5>1, Zenon DEF ReceiveValue
        <4> QED BY <4>1, <4>2
      <3> QED BY <3>1 DEF Typed, TypeOK, StateFits, Bookkept
    <2>3. CASE registered
      <3>1. held' = [held EXCEPT ![j] = Head(feed[j])] /\ state' = [state EXCEPT ![j] = "sending"]
        BY <1>11, <2>3 DEF ReceiveValue, Become
      <3> QED BY <1>11, <2>1, <2>2, <3>1 DEF ReceiveValue, JobStep, States, Typed, TypeOK, StateFits, Bookkept
    <2>4. CASE ~registered
      <3>1. /\ held' = held
            /\ state' = [state EXCEPT ![j] = IF kind[j] = "watcher" THEN "waiting" ELSE "ended"]
        BY <1>11, <2>4 DEF ReceiveValue, Become
      <3>2. held[j] = 0
        BY <1>11 DEF ReceiveValue, Typed, TypeOK, StateFits, Bookkept
      <3> QED BY <1>11, <2>1, <2>2, <3>1, <3>2 DEF ReceiveValue, JobStep, States, Typed, TypeOK, StateFits, Bookkept
    <2> QED BY <2>3, <2>4
  <1>12. ASSUME NEW j \in Jobs, Resume(j) PROVE Typed'
    BY <1>12, CommandTypes, QueueFacts DEF Resume, Typed, TypeOK, StateFits, Bookkept, jobVars, JobStep, Become, States
  <1>13. ASSUME NEW j \in Jobs, HangUp(j) PROVE Typed'
    BY <1>13, CommandTypes, QueueFacts DEF HangUp, Typed, TypeOK, StateFits, Bookkept, jobVars, JobStep, Become, States
  <1>14. ASSUME NEW j \in Jobs, Tick(j) PROVE Typed'
    BY <1>14, CommandTypes, QueueFacts DEF Tick, Typed, TypeOK, StateFits, Bookkept, jobVars, JobStep, Become, States
  <1>15. ASSUME NEW j \in Jobs, RunOut(j) PROVE Typed'
    BY <1>15, CommandTypes, QueueFacts DEF RunOut, Typed, TypeOK, StateFits, Bookkept, jobVars, JobStep, Become, States
  <1>16. ASSUME NEW j \in Jobs, ReceiveMessage(j) PROVE Typed'
    <2>1. PICK s \in {"sending", "parting", "ended"} : state' = [state EXCEPT ![j] = s]
      BY <1>16, Zenon DEF ReceiveMessage, Become
    <2>2. held[j] = 0
      BY <1>16 DEF ReceiveMessage, Typed, TypeOK, Bookkept
    <2> QED BY <1>16, <2>1, <2>2 DEF ReceiveMessage, JobStep, jobVars, States, Typed, TypeOK, StateFits, Bookkept
  <1>17. ASSUME NEW j \in Jobs, Deliver(j) PROVE Typed'
    BY <1>17, CommandTypes, QueueFacts DEF Deliver, AfterSend, Push, HoldsLink, Typed, TypeOK, StateFits, Bookkept, jobVars, JobStep, Become, States
  <1>18. ASSUME NEW j \in Jobs, Cancelled(j) PROVE Typed'
    BY <1>18, CommandTypes, QueueFacts DEF Cancelled, Typed, TypeOK, StateFits, Bookkept, jobVars, JobStep, Become, States
  <1>19. ASSUME Handle PROVE Typed'
    BY <1>19, CommandTypes, QueueFacts DEF Handle, Typed, TypeOK, StateFits, Bookkept, jobVars, JobStep, Become, States
  <1>20. ASSUME Terminate PROVE Typed'
    BY <1>20, CommandTypes, QueueFacts DEF Terminate, Typed, TypeOK, StateFits, Bookkept, jobVars, JobStep, Become, States
  <1>21. ASSUME EndActor PROVE Typed'
    BY <1>21, CommandTypes, QueueFacts DEF EndActor, Typed, TypeOK, StateFits, Bookkept, jobVars, JobStep, Become, States
  <1>22. ASSUME Found PROVE Typed'
    BY <1>22, CommandTypes, QueueFacts DEF Found, Typed, TypeOK, StateFits, Bookkept, jobVars, JobStep, Become, States
  <1>23. ASSUME NEW result \in {"answered", "failed"}, Finish(result) PROVE Typed'
    <2>1. state' \in [Jobs -> States] /\ \A j \in Jobs : state'[j] = state[j] \/
            (state[j] = "asking" /\ state'[j] \in {"answered", "failed"})
      BY <1>23 DEF Finish, States, Typed, TypeOK, StateFits, Bookkept
    <2> QED BY <1>23, <2>1, CommandTypes DEF Finish, jobVars, Typed, TypeOK, StateFits, Bookkept
  <1>24. ASSUME LookUp PROVE Typed'
    BY <1>24, CommandTypes, QueueFacts DEF LookUp, Typed, TypeOK, StateFits, Bookkept, jobVars, JobStep, Become, States
  <1>25. ASSUME NEW j \in Jobs, SetAlarm(j) PROVE Typed'
    BY <1>25, CommandTypes, QueueFacts DEF SetAlarm, Start, Typed, TypeOK, StateFits, Bookkept, jobVars, JobStep, Become, States
  <1>26. ASSUME NEW j \in Jobs, SetInterval(j) PROVE Typed'
    BY <1>26, CommandTypes, QueueFacts DEF SetInterval, Start, Typed, TypeOK, StateFits, Bookkept, jobVars, JobStep, Become, States
  <1>27. ASSUME NEW j \in Jobs, SetupCronjob(j) PROVE Typed'
    BY <1>27, CommandTypes, QueueFacts DEF SetupCronjob, Start, Typed, TypeOK, StateFits, Bookkept, jobVars, JobStep, Become, States
  <1>28. ASSUME NEW j \in Jobs, Subscribe(j) PROVE Typed'
    BY <1>28, CommandTypes, QueueFacts DEF Subscribe, Start, Typed, TypeOK, StateFits, Bookkept, jobVars, JobStep, Become, States
  <1>29. ASSUME NEW j \in Jobs, RunTaskContinuously(j) PROVE Typed'
    BY <1>29, CommandTypes, QueueFacts DEF RunTaskContinuously, Start, Typed, TypeOK, StateFits, Bookkept, jobVars, JobStep, Become, States
  <1>30. ASSUME NEW j \in Jobs, SetupWatcher(j) PROVE Typed'
    BY <1>30, CommandTypes, QueueFacts DEF SetupWatcher, Start, Typed, TypeOK, StateFits, Bookkept, jobVars, JobStep, Become, States
  <1>31. ASSUME NEW j \in Jobs, Connect(j) PROVE Typed'
    BY <1>31, CommandTypes, QueueFacts DEF Connect, Start, Typed, TypeOK, StateFits, Bookkept, jobVars, JobStep, Become, States
  <1>32. ASSUME CancelAlarm PROVE Typed'
    <2>1. PICK i \in DOMAIN resources : Popped(i)
      BY <1>32 DEF CancelAlarm, CancelLast
    <2>2. resources' \in Seq(Jobs) /\ signal' \in [Jobs -> BOOLEAN]
      BY <2>1, PoppedKeeps DEF Typed, KeepsOnly
    <2> QED BY <1>32, <2>2 DEF CancelAlarm, CancelLast, Typed, TypeOK, StateFits, Bookkept
  <1>33. ASSUME CancelTask PROVE Typed'
    <2>1. PICK i \in DOMAIN resources : Popped(i)
      BY <1>33 DEF CancelTask, CancelLast
    <2>2. resources' \in Seq(Jobs) /\ signal' \in [Jobs -> BOOLEAN]
      BY <2>1, PoppedKeeps DEF Typed, KeepsOnly
    <2> QED BY <1>33, <2>2 DEF CancelTask, CancelLast, Typed, TypeOK, StateFits, Bookkept
  <1>34. ASSUME Unsubscribe PROVE Typed'
    <2>1. PICK i \in DOMAIN resources : Popped(i)
      BY <1>34 DEF Unsubscribe, CancelLast
    <2>2. resources' \in Seq(Jobs) /\ signal' \in [Jobs -> BOOLEAN]
      BY <2>1, PoppedKeeps DEF Typed, KeepsOnly
    <2> QED BY <1>34, <2>2 DEF Unsubscribe, CancelLast, Typed, TypeOK, StateFits, Bookkept
  <1>35. ASSUME UnsubscribeAll PROVE Typed'
    <2>1. PICK K \in SUBSET DOMAIN resources : OnlyKept(K)
      BY <1>35 DEF UnsubscribeAll
    <2>2. resources' \in Seq(Jobs)
      BY <2>1, OnlyKeptKeeps DEF Typed, KeepsOnly
    <2> QED BY <1>35, <2>2 DEF UnsubscribeAll, Typed, TypeOK, StateFits, Bookkept
  <1>36. ASSUME CancelWatcher PROVE Typed'
    <2>1. PICK i \in DOMAIN resources : Popped(i)
      BY <1>36 DEF CancelWatcher, CancelLast
    <2>2. resources' \in Seq(Jobs) /\ signal' \in [Jobs -> BOOLEAN]
      BY <2>1, PoppedKeeps DEF Typed, KeepsOnly
    <2> QED BY <1>36, <2>2 DEF CancelWatcher, CancelLast, Typed, TypeOK, StateFits, Bookkept
  <1>37. ASSUME CloseSocket PROVE Typed'
    <2>1. clients' \in Seq(Jobs)
      BY <1>37, FrontFacts DEF CloseSocket, Typed, TypeOK
    <2>2. resources' \in Seq(Jobs) /\ signal' \in [Jobs -> BOOLEAN]
      <3>1. CASE UNCHANGED <<resources, signal>>
        BY <3>1 DEF Typed, TypeOK
      <3>2. CASE \E i \in DOMAIN resources : Popped(i)
        BY <3>2, PoppedKeeps DEF Typed, KeepsOnly
      <3> QED BY <1>37, <3>1, <3>2 DEF CloseSocket
    <2> QED BY <1>37, <2>1, <2>2 DEF CloseSocket, Typed, TypeOK, StateFits, Bookkept
  <1>38. CASE UNCHANGED vars
    BY <1>38 DEF vars, Typed, TypeOK, StateFits, Bookkept
  <1> QED
    BY <1>1, <1>2, <1>3, <1>4, <1>5, <1>6, <1>7, <1>8, <1>9, <1>10, <1>11, <1>12,
    <1>13, <1>14, <1>15, <1>16, <1>17, <1>18, <1>19, <1>20, <1>21, <1>22, <1>23,
    <1>24, <1>25, <1>26, <1>27, <1>28, <1>29, <1>30, <1>31, <1>32, <1>33, <1>34,
    <1>35, <1>36, <1>37, <1>38 DEF Next, Progress, ActorStep

\* They hold before the first job.
LEMMA TypesInit == Init => Typed
  <1> SUFFICES ASSUME Init PROVE Typed
    OBVIOUS
  <1>1. /\ kind \in [Jobs -> Kinds \cup {None}] /\ mailbox = <<>> /\ running = Idle
        /\ resources = <<>> /\ clients = <<>> /\ published = [channel |-> 0, files |-> 0]
        /\ state = [j \in Jobs |-> "unset"] /\ signal = [j \in Jobs |-> FALSE]
        /\ feed = [j \in Jobs |-> <<>>] /\ held = [j \in Jobs |-> 0]
        /\ lagged = [j \in Jobs |-> FALSE]
    BY JobsAssumption DEF Init
  <1>2. TypeOK
    <2>1. \A S : <<>> \in Seq(S)
      OBVIOUS
    <2>2. feed \in [Jobs -> Seq(Nat)]
      BY <1>1, <2>1
    <2> QED BY <1>1, <2>1, <2>2, CommandTypes DEF TypeOK, States
  <1> QED BY <1>1, <1>2 DEF Typed, StateFits, Bookkept

\* In every state the variables have their types, a task is only in states of
\* its sort of job, and nothing is handled between two handlers.
THEOREM TypeCorrect == Spec => []Typed
  BY TypesInit, TypesStep, PTL DEF Spec

-----------------------------------------------------------------------------
(* What a step does to the jobs' cancellations: nothing, or it starts a job,  *)
(* or it gives some of them up.                                            *)

\* No job is started.
Steady == UNCHANGED kind /\ \A j \in Jobs : state'[j] = "unset" <=> state[j] = "unset"

Quiet ==
  /\ UNCHANGED <<resources, clients, signal>> /\ Steady
  /\ \A j \in Jobs : Listening(j)' => Listening(j)

Starts(j) ==
  /\ state[j] = "unset" /\ state'[j] # "unset"
  /\ \A k \in Jobs \ {j} : state'[k] = state[k]
  /\ resources' = Append(resources, j) /\ UNCHANGED <<kind, signal>>
  /\ UNCHANGED clients \/ (kind[j] = "socket" /\ clients' = Append(clients, j))

Gives(K) ==
  /\ KeepsOnly(K) /\ UNCHANGED <<kind, state>>
  /\ \A j \in Jobs : signal'[j] <=> signal[j] \/ \E p \in DOMAIN resources \ K : resources[p] = j
  /\ \/ clients' = <<>>
     \/ /\ UNCHANGED clients
        /\ \A p \in DOMAIN resources \ K : kind[resources[p]] # "socket"
     \/ /\ clients # <<>> /\ clients' = Front(clients)
        /\ \A p \in DOMAIN resources \ K : IsLastOf(p, {"socket"})

Shape ==
  Quiet \/ (\E j \in Jobs : Starts(j)) \/ \E K \in SUBSET DOMAIN resources : Gives(K)

\* What a step may do to the stack of cancellations and the signals.
LEMMA ShapeOfSteps ==
  ASSUME Typed, [Next]_vars
  PROVE  Shape
  <1> USE DEF Shape
  <1>1. ASSUME OutsideRun PROVE Shape
    BY <1>1 DEF OutsideRun, Outside, jobVars, JobStep, Become, Quiet, Steady, Listening, Typed, TypeOK, StateFits, Bookkept
  <1>2. ASSUME OutsideTerminate PROVE Shape
    BY <1>2 DEF OutsideTerminate, Outside, jobVars, JobStep, Become, Quiet, Steady, Listening, Typed, TypeOK, StateFits, Bookkept
  <1>3. ASSUME Publish PROVE Shape
    BY <1>3 DEF Publish, jobVars, JobStep, Become, Quiet, Steady, Listening, Typed, TypeOK, StateFits, Bookkept
  <1>4. ASSUME Change PROVE Shape
    BY <1>4 DEF Change, jobVars, JobStep, Become, Quiet, Steady, Listening, Typed, TypeOK, StateFits, Bookkept
  <1>5. ASSUME StopFinds PROVE Shape
    BY <1>5 DEF StopFinds, jobVars, JobStep, Become, Quiet, Steady, Listening, Typed, TypeOK, StateFits, Bookkept
  <1>6. ASSUME StopTells PROVE Shape
    BY <1>6 DEF StopTells, jobVars, JobStep, Become, Quiet, Steady, Listening, Typed, TypeOK, StateFits, Bookkept
  <1>7. ASSUME StopReaches PROVE Shape
    BY <1>7 DEF StopReaches, jobVars, JobStep, Become, Quiet, Steady, Listening, Typed, TypeOK, StateFits, Bookkept
  <1>8. ASSUME StopSends PROVE Shape
    BY <1>8 DEF StopSends, jobVars, JobStep, Become, Quiet, Steady, Listening, Typed, TypeOK, StateFits, Bookkept
  <1>9. ASSUME NEW j \in Jobs, Fire(j) PROVE Shape
    BY <1>9 DEF Fire, jobVars, JobStep, Become, Quiet, Steady, Listening, Typed, TypeOK, StateFits, Bookkept
  <1>10. ASSUME NEW j \in Jobs, Ask(j) PROVE Shape
    BY <1>10 DEF Ask, jobVars, JobStep, Become, Quiet, Steady, Listening, Typed, TypeOK, StateFits, Bookkept
  <1>11. ASSUME NEW j \in Jobs, ReceiveValue(j) PROVE Shape
    BY <1>11 DEF ReceiveValue, jobVars, JobStep, Become, Quiet, Steady, Listening, Typed, TypeOK, StateFits, Bookkept
  <1>12. ASSUME NEW j \in Jobs, Resume(j) PROVE Shape
    BY <1>12 DEF Resume, jobVars, JobStep, Become, Quiet, Steady, Listening, Typed, TypeOK, StateFits, Bookkept
  <1>13. ASSUME NEW j \in Jobs, HangUp(j) PROVE Shape
    BY <1>13 DEF HangUp, jobVars, JobStep, Become, Quiet, Steady, Listening, Typed, TypeOK, StateFits, Bookkept
  <1>14. ASSUME NEW j \in Jobs, Tick(j) PROVE Shape
    BY <1>14 DEF Tick, jobVars, JobStep, Become, Quiet, Steady, Listening, Typed, TypeOK, StateFits, Bookkept
  <1>15. ASSUME NEW j \in Jobs, RunOut(j) PROVE Shape
    BY <1>15 DEF RunOut, jobVars, JobStep, Become, Quiet, Steady, Listening, Typed, TypeOK, StateFits, Bookkept
  <1>16. ASSUME NEW j \in Jobs, ReceiveMessage(j) PROVE Shape
    <2>1. PICK s \in {"sending", "parting", "ended"} : state' = [state EXCEPT ![j] = s]
      BY <1>16, Zenon DEF ReceiveMessage, Become
    <2> QED BY <1>16, <2>1 DEF ReceiveMessage, JobStep, Quiet, Steady, Listening, Typed, TypeOK, StateFits, Bookkept
  <1>17. ASSUME NEW j \in Jobs, Deliver(j) PROVE Shape
    BY <1>17 DEF Deliver, AfterSend, HoldsLink, jobVars, JobStep, Become, Quiet, Steady, Listening, Typed, TypeOK, StateFits, Bookkept
  <1>18. ASSUME NEW j \in Jobs, Cancelled(j) PROVE Shape
    BY <1>18 DEF Cancelled, jobVars, JobStep, Become, Quiet, Steady, Listening, Typed, TypeOK, StateFits, Bookkept
  <1>19. ASSUME Handle PROVE Shape
    BY <1>19 DEF Handle, jobVars, JobStep, Become, Quiet, Steady, Listening, Typed, TypeOK, StateFits, Bookkept
  <1>20. ASSUME Terminate PROVE Shape
    <2>1. /\ resources' = <<>> /\ clients' = <<>> /\ UNCHANGED <<kind, state>>
         /\ signal' = [j \in Jobs |-> signal[j] \/ j \in ToSet(resources)]
      BY <1>20 DEF Terminate
    <2>2. KeepsOnly({})
      BY <2>1 DEF KeepsOnly
    <2>3. \A j \in Jobs : signal'[j] <=> signal[j] \/ \E p \in DOMAIN resources \ {} : resources[p] = j
      BY <2>1 DEF ToSet, Typed, TypeOK, StateFits, Bookkept
    <2>4. Gives({})
      BY <2>1, <2>2, <2>3 DEF Gives, Steady
    <2> QED BY <2>4
  <1>21. ASSUME EndActor PROVE Shape
    <2>1. /\ resources' = <<>> /\ clients' = <<>> /\ UNCHANGED <<kind, state>>
         /\ signal' = [j \in Jobs |-> signal[j] \/ j \in ToSet(resources)]
      BY <1>21 DEF EndActor
    <2>2. KeepsOnly({})
      BY <2>1 DEF KeepsOnly
    <2>3. \A j \in Jobs : signal'[j] <=> signal[j] \/ \E p \in DOMAIN resources \ {} : resources[p] = j
      BY <2>1 DEF ToSet, Typed, TypeOK, StateFits, Bookkept
    <2>4. Gives({})
      BY <2>1, <2>2, <2>3 DEF Gives, Steady
    <2> QED BY <2>4
  <1>22. ASSUME Found PROVE Shape
    BY <1>22 DEF Found, jobVars, JobStep, Become, Quiet, Steady, Listening, Typed, TypeOK, StateFits, Bookkept
  <1>23. ASSUME NEW result \in {"answered", "failed"}, Finish(result) PROVE Shape
    BY <1>23 DEF Finish, jobVars, JobStep, Become, Quiet, Steady, Listening, Typed, TypeOK, StateFits, Bookkept
  <1>24. ASSUME LookUp PROVE Shape
    BY <1>24 DEF LookUp, jobVars, JobStep, Become, Quiet, Steady, Listening, Typed, TypeOK, StateFits, Bookkept
  <1>25. ASSUME NEW j \in Jobs, SetAlarm(j) PROVE Shape
    BY <1>25 DEF SetAlarm, Start, Become, jobVars, Starts, Steady, Typed, TypeOK, StateFits, Bookkept
  <1>26. ASSUME NEW j \in Jobs, SetInterval(j) PROVE Shape
    BY <1>26 DEF SetInterval, Start, Become, jobVars, Starts, Steady, Typed, TypeOK, StateFits, Bookkept
  <1>27. ASSUME NEW j \in Jobs, SetupCronjob(j) PROVE Shape
    BY <1>27 DEF SetupCronjob, Start, Become, jobVars, Starts, Steady, Typed, TypeOK, StateFits, Bookkept
  <1>28. ASSUME NEW j \in Jobs, Subscribe(j) PROVE Shape
    BY <1>28 DEF Subscribe, Start, Become, jobVars, Starts, Steady, Typed, TypeOK, StateFits, Bookkept
  <1>29. ASSUME NEW j \in Jobs, RunTaskContinuously(j) PROVE Shape
    BY <1>29 DEF RunTaskContinuously, Start, Become, jobVars, Starts, Steady, Typed, TypeOK, StateFits, Bookkept
  <1>30. ASSUME NEW j \in Jobs, SetupWatcher(j) PROVE Shape
    BY <1>30 DEF SetupWatcher, Start, Become, jobVars, Starts, Steady, Typed, TypeOK, StateFits, Bookkept
  <1>31. ASSUME NEW j \in Jobs, Connect(j) PROVE Shape
    BY <1>31 DEF Connect, Start, Become, jobVars, Starts, Steady, Typed, TypeOK, StateFits, Bookkept
  <1>32. ASSUME CancelAlarm PROVE Shape
    <2>1. PICK i \in DOMAIN resources : Popped(i) /\ kind[resources[i]] # "socket"
      BY <1>32 DEF CancelAlarm, CancelLast, IsLastOf
    <2>2. Gives(DOMAIN resources \ {i})
      BY <1>32, <2>1, PoppedKeeps DEF CancelAlarm, CancelLast, Gives, Steady, Typed, TypeOK
    <2> QED BY <2>2
  <1>33. ASSUME CancelTask PROVE Shape
    <2>1. PICK i \in DOMAIN resources : Popped(i) /\ kind[resources[i]] # "socket"
      BY <1>33 DEF CancelTask, CancelLast, IsLastOf
    <2>2. Gives(DOMAIN resources \ {i})
      BY <1>33, <2>1, PoppedKeeps DEF CancelTask, CancelLast, Gives, Steady, Typed, TypeOK
    <2> QED BY <2>2
  <1>34. ASSUME Unsubscribe PROVE Shape
    <2>1. PICK i \in DOMAIN resources : Popped(i) /\ kind[resources[i]] # "socket"
      BY <1>34 DEF Unsubscribe, CancelLast, IsLastOf
    <2>2. Gives(DOMAIN resources \ {i})
      BY <1>34, <2>1, PoppedKeeps DEF Unsubscribe, CancelLast, Gives, Steady, Typed, TypeOK
    <2> QED BY <2>2
  <1>35. ASSUME UnsubscribeAll PROVE Shape
    <2>1. PICK K \in SUBSET DOMAIN resources :
            /\ OnlyKept(K) /\ \A p \in DOMAIN resources \ K : kind[resources[p]] # "socket"
            /\ signal' = [j \in Jobs |-> signal[j] \/ \E p \in DOMAIN resources \ K : resources[p] = j]
      <3> DEFINE subs == {p \in DOMAIN resources : kind[resources[p]] = "subscription"}
                 gone == {p \in subs : ~Listening(resources[p])}
                 taken == {p \in subs : \A g \in gone : p >= g}
      <3>1. taken = DOMAIN resources \ (DOMAIN resources \ taken)
        OBVIOUS
      <3>2. \A p \in taken : kind[resources[p]] # "socket"
        OBVIOUS
      <3>3. /\ OnlyKept(DOMAIN resources \ taken)
            /\ signal' = [j \in Jobs |-> signal[j] \/ \E p \in taken : resources[p] = j]
        BY <1>35 DEF UnsubscribeAll
      <3> HIDE DEF taken
      <3> QED BY <3>1, <3>2, <3>3
    <2>2. Gives(K)
      BY <1>35, <2>1, OnlyKeptKeeps DEF UnsubscribeAll, Gives, Steady, Typed, TypeOK
    <2> QED BY <2>2
  <1>36. ASSUME CancelWatcher PROVE Shape
    <2>1. PICK i \in DOMAIN resources : Popped(i) /\ kind[resources[i]] # "socket"
      BY <1>36 DEF CancelWatcher, CancelLast, IsLastOf
    <2>2. Gives(DOMAIN resources \ {i})
      BY <1>36, <2>1, PoppedKeeps DEF CancelWatcher, CancelLast, Gives, Steady, Typed, TypeOK
    <2> QED BY <2>2
  <1>37. ASSUME CloseSocket PROVE Shape
    <2>1. CASE UNCHANGED <<resources, signal>>
      <3>1. Gives(DOMAIN resources)
        BY <1>37, <2>1 DEF CloseSocket, Gives, KeepsOnly, Steady, Typed, TypeOK
      <3> QED BY <3>1
    <2>2. ASSUME NEW i \in DOMAIN resources, IsLastOf(i, {"socket"}), Popped(i)
          PROVE  Gives(DOMAIN resources \ {i})
      BY <1>37, <2>2, PoppedKeeps DEF CloseSocket, Gives, Steady, Typed, TypeOK
    <2> QED BY <1>37, <2>1, <2>2 DEF CloseSocket
  <1>38. CASE UNCHANGED vars
    BY <1>38 DEF vars, Quiet, Steady, Listening
  <1> QED
    BY <1>1, <1>2, <1>3, <1>4, <1>5, <1>6, <1>7, <1>8, <1>9, <1>10, <1>11, <1>12,
    <1>13, <1>14, <1>15, <1>16, <1>17, <1>18, <1>19, <1>20, <1>21, <1>22, <1>23,
    <1>24, <1>25, <1>26, <1>27, <1>28, <1>29, <1>30, <1>31, <1>32, <1>33, <1>34,
    <1>35, <1>36, <1>37, <1>38 DEF Next, Progress, ActorStep

-----------------------------------------------------------------------------
(* Jobs and their cancellations.                                           *)

\* A job that listens stays on the stack, or gets its signal with its place.
LEMMA OwnedStep ==
  ASSUME Typed, JobsAreOwned, [Next]_vars
  PROVE  JobsAreOwned'
  <1> SUFFICES ASSUME NEW j \in Jobs, Listening(j)'
               PROVE  j \in ToSet(resources)' \/ signal'[j]
    BY DEF JobsAreOwned
  <1>1. CASE Quiet
    BY <1>1 DEF Quiet, JobsAreOwned
  <1>2. ASSUME NEW k \in Jobs, Starts(k)
        PROVE  j \in ToSet(resources)' \/ signal'[j]
    <2>1. /\ DOMAIN resources = 1..Len(resources) /\ Len(resources) \in Nat
          /\ DOMAIN resources' = 1..(Len(resources) + 1)
          /\ \A p \in DOMAIN resources : resources'[p] = resources[p] /\ p \in DOMAIN resources'
          /\ resources'[Len(resources) + 1] = k
      <3>1. resources \in Seq(Jobs) /\ resources' = Append(resources, k)
        BY <1>2 DEF Starts, Typed, TypeOK
      <3> QED BY <3>1, QueueFacts
    <2>2. CASE j = k
      BY <2>1, <2>2 DEF ToSet
    <2>3. CASE j # k
      <3>1. j \in ToSet(resources) \/ signal[j]
        BY <1>2, <2>3 DEF Starts, JobsAreOwned, Listening
      <3> QED BY <1>2, <2>1, <3>1 DEF Starts, ToSet
    <2> QED BY <2>2, <2>3
  <1>3. ASSUME NEW K \in SUBSET DOMAIN resources, Gives(K)
        PROVE  j \in ToSet(resources)' \/ signal'[j]
    <2>1. j \in ToSet(resources) \/ signal[j]
      BY <1>3 DEF Gives, JobsAreOwned, Listening
    <2> QED BY <1>3, <2>1 DEF Gives, KeepsOnly, ToSet
  <1> QED BY <1>1, <1>2, <1>3, ShapeOfSteps DEF Shape

\* No job escapes its actor: what listens to its cancellation can be reached
\* through the resources (alarms.rs, pubsub.rs, tasks.rs, fs.rs, websocket_client.rs
\* each spawn a task and push its cancellation) or has been told to stop.
THEOREM JobsStayOwned == Spec => []JobsAreOwned
  <1>1. Init => JobsAreOwned
    BY DEF Init, JobsAreOwned, Listening
  <1>2. Typed /\ JobsAreOwned /\ [Next]_vars => JobsAreOwned'
    BY OwnedStep
  <1> QED BY <1>1, <1>2, TypeCorrect, PTL DEF Spec

-----------------------------------------------------------------------------
(* Sockets: clients and their cancellations.                               *)

\* A cancellation is held once, and one that is held was not sent to.
HeldOnce ==
  /\ \A p, q \in DOMAIN resources : resources[p] = resources[q] => p = q
  /\ \A p \in DOMAIN resources : ~signal[resources[p]] /\ state[resources[p]] # "unset"
  /\ \A j \in Jobs : state[j] = "unset" => ~signal[j]

\* Every client has a cancellation, and the two stacks have the same order.
Paired ==
  /\ \A n \in DOMAIN clients :
       kind[clients[n]] = "socket" /\ \E p \in DOMAIN resources : resources[p] = clients[n]
  /\ \A m, n \in DOMAIN clients : \A p, q \in DOMAIN resources :
       m < n /\ resources[p] = clients[m] /\ resources[q] = clients[n] => p < q

\* A job that starts goes on top of the stack.
LEMMA StartFacts ==
  ASSUME Typed, NEW j \in Jobs, Starts(j)
  PROVE  /\ DOMAIN resources = 1..Len(resources) /\ Len(resources) \in Nat
         /\ DOMAIN resources' = 1..(Len(resources) + 1)
         /\ resources'[Len(resources) + 1] = j
         /\ \A p \in DOMAIN resources : resources[p] \in Jobs /\ resources'[p] = resources[p]
  <1>1. resources \in Seq(Jobs) /\ resources' = Append(resources, j)
    BY DEF Starts, Typed, TypeOK
  <1> QED BY <1>1, QueueFacts

\* No step puts a job on the stack twice.
LEMMA HeldOnceStep ==
  ASSUME Typed, HeldOnce, [Next]_vars
  PROVE  HeldOnce'
  <1>1. CASE Quiet
    BY <1>1 DEF Quiet, Steady, HeldOnce, Typed, TypeOK
  <1>2. ASSUME NEW j \in Jobs, Starts(j)
        PROVE  HeldOnce'
    <2>1. \A p \in DOMAIN resources : resources[p] # j
      BY <1>2 DEF Starts, HeldOnce
    <2>2. \A p \in DOMAIN resources' : p \in DOMAIN resources \/ p = Len(resources) + 1
      BY <1>2, StartFacts
    <2> QED BY <1>2, <2>1, <2>2, StartFacts DEF Starts, HeldOnce
  <1>3. ASSUME NEW K \in SUBSET DOMAIN resources, Gives(K)
        PROVE  HeldOnce'
    <2>1. DOMAIN resources \subseteq Nat /\ DOMAIN resources' \subseteq Nat
          /\ \A p \in DOMAIN resources : resources[p] \in Jobs
      <3>1. resources \in Seq(Jobs) /\ resources' \in Seq(Jobs)
        BY <1>3 DEF Gives, KeepsOnly, Typed, TypeOK
      <3> QED BY <3>1
    <2>2. ASSUME NEW k \in DOMAIN resources', NEW l \in DOMAIN resources', k < l
          PROVE  resources'[k] # resources'[l]
      <3>1. PICK p \in K, q \in K :
              p < q /\ resources'[k] = resources[p] /\ resources'[l] = resources[q]
        BY <1>3, <2>2 DEF Gives, KeepsOnly
      <3> QED BY <2>1, <3>1 DEF HeldOnce
    <2>3. \A k, l \in DOMAIN resources' : resources'[k] = resources'[l] => k = l
      BY <2>1, <2>2
    <2>4. ASSUME NEW k \in DOMAIN resources'
          PROVE  ~signal'[resources'[k]] /\ state'[resources'[k]] # "unset"
      <3>1. PICK p \in K : resources'[k] = resources[p]
        BY <1>3 DEF Gives, KeepsOnly
      <3>2. \A r \in DOMAIN resources \ K : resources[r] # resources[p]
        BY <3>1 DEF HeldOnce
      <3> QED BY <1>3, <2>1, <3>1, <3>2 DEF Gives, HeldOnce
    <2>5. \A j \in Jobs : state'[j] = "unset" => ~signal'[j]
      BY <1>3 DEF Gives, HeldOnce
    <2> QED BY <2>3, <2>4, <2>5 DEF HeldOnce
  <1> QED BY <1>1, <1>2, <1>3, ShapeOfSteps DEF Shape

\* Both stacks of the sockets keep their order when one is pushed or popped.
LEMMA PairedStep ==
  ASSUME Typed, HeldOnce, Paired, [Next]_vars
  PROVE  Paired'
  <1>0. /\ DOMAIN clients = 1..Len(clients) /\ Len(clients) \in Nat
        /\ \A n \in DOMAIN clients : clients[n] \in Jobs
        /\ DOMAIN resources \subseteq Nat
    BY DEF Typed, TypeOK
  <1>1. CASE Quiet
    BY <1>1 DEF Quiet, Steady, Paired
  <1>2. ASSUME NEW j \in Jobs, Starts(j)
        PROVE  Paired'
    <2>1. \A p \in DOMAIN resources : resources[p] # j
      BY <1>2 DEF Starts, HeldOnce
    <2>2. \A n \in DOMAIN clients : clients[n] # j
      BY <2>1 DEF Paired
    <2>3. /\ \A p \in DOMAIN resources' : p \in DOMAIN resources \/ p = Len(resources) + 1
          /\ \A p \in DOMAIN resources : p < Len(resources) + 1 /\ p \in DOMAIN resources'
          /\ Len(resources) + 1 \in DOMAIN resources'
      BY <1>2, StartFacts
    <2>4. CASE UNCHANGED clients
      BY <1>2, <2>2, <2>3, <2>4, StartFacts DEF Starts, Paired
    <2>5. CASE kind[j] = "socket" /\ clients' = Append(clients, j)
      <3>1. /\ \A n \in DOMAIN clients' : n \in DOMAIN clients \/ n = Len(clients) + 1
            /\ \A n \in DOMAIN clients : n < Len(clients) + 1 /\ clients'[n] = clients[n]
            /\ clients'[Len(clients) + 1] = j
        <4>1. clients \in Seq(Jobs)
          BY DEF Typed, TypeOK
        <4> QED BY <1>0, <2>5, <4>1, QueueFacts
      <3>2. \A n \in DOMAIN clients' :
              kind'[clients'[n]] = "socket" /\ \E p \in DOMAIN resources' : resources'[p] = clients'[n]
        BY <1>2, <2>3, <2>5, <3>1, StartFacts DEF Starts, Paired
      <3>3. ASSUME NEW m \in DOMAIN clients', NEW n \in DOMAIN clients',
                   NEW p \in DOMAIN resources', NEW q \in DOMAIN resources',
                   m < n, resources'[p] = clients'[m], resources'[q] = clients'[n]
            PROVE  p < q
        <4>1. m \in DOMAIN clients
          BY <1>0, <3>1, <3>3
        <4>2. p \in DOMAIN resources
          BY <1>2, <2>2, <2>3, <3>1, <3>3, <4>1, StartFacts
        <4>3. CASE n \in DOMAIN clients
          <5>1. q \in DOMAIN resources
            BY <1>2, <2>2, <2>3, <3>1, <3>3, <4>3, StartFacts
          <5> QED BY <1>2, <3>1, <3>3, <4>1, <4>2, <4>3, <5>1, StartFacts DEF Paired
        <4>4. CASE n = Len(clients) + 1
          <5>1. q = Len(resources) + 1
            BY <1>2, <2>1, <2>3, <3>1, <3>3, <4>4, StartFacts
          <5> QED BY <2>3, <4>2, <5>1
        <4> QED BY <3>1, <4>3, <4>4
      <3> QED BY <3>2, <3>3 DEF Paired
    <2> QED BY <1>2, <2>4, <2>5 DEF Starts
  <1>3. ASSUME NEW K \in SUBSET DOMAIN resources, Gives(K),
               NEW kept \in SUBSET DOMAIN clients,
               \A n \in DOMAIN clients' : n \in kept /\ clients'[n] = clients[n],
               \A n \in kept : \A p \in DOMAIN resources : resources[p] = clients[n] => p \in K
        PROVE  Paired'
    <2>1. DOMAIN clients' \subseteq Nat /\ DOMAIN resources' \subseteq Nat
      BY <1>0, <1>3 DEF Gives, KeepsOnly
    <2>2. \A n \in DOMAIN clients' :
            kind'[clients'[n]] = "socket" /\ \E p \in DOMAIN resources' : resources'[p] = clients'[n]
      BY <1>3 DEF Gives, KeepsOnly, Paired
    <2>3. ASSUME NEW m \in DOMAIN clients', NEW n \in DOMAIN clients',
                 NEW k \in DOMAIN resources', NEW l \in DOMAIN resources',
                 m < n, resources'[k] = clients'[m], resources'[l] = clients'[n], ~(k < l)
          PROVE  FALSE
      <3>1. CASE k = l
        <4>1. PICK p \in K : resources'[k] = resources[p]
          BY <1>3 DEF Gives, KeepsOnly
        <4>2. p < p
          BY <1>3, <2>3, <3>1, <4>1 DEF Paired
        <4> QED BY <1>0, <4>2
      <3>2. CASE l < k
        <4>1. PICK p \in K, q \in K :
                p < q /\ resources'[l] = resources[p] /\ resources'[k] = resources[q]
          BY <1>3, <3>2 DEF Gives, KeepsOnly
        <4>2. q < p
          BY <1>3, <2>3, <4>1 DEF Paired
        <4> QED BY <1>0, <4>1, <4>2
      <3> QED BY <2>1, <2>3, <3>1, <3>2
    <2> QED BY <2>2, <2>3 DEF Paired
  <1>4. ASSUME NEW K \in SUBSET DOMAIN resources, Gives(K)
        PROVE  Paired'
    <2>1. CASE clients' = <<>>
      BY <1>3, <1>4, <2>1
    <2>2. CASE /\ UNCHANGED clients
               /\ \A p \in DOMAIN resources \ K : kind[resources[p]] # "socket"
      BY <1>3, <1>4, <2>2 DEF Paired
    <2>3. CASE /\ clients # <<>> /\ clients' = Front(clients)
               /\ \A p \in DOMAIN resources \ K : IsLastOf(p, {"socket"})
      <3>1. /\ DOMAIN clients' = 1..(Len(clients) - 1)
            /\ \A n \in DOMAIN clients' : n \in DOMAIN clients /\ clients'[n] = clients[n]
            /\ \A n \in DOMAIN clients' : n < Len(clients)
            /\ Len(clients) \in DOMAIN clients
        <4>1. clients \in Seq(Jobs) /\ clients # <<>>
          BY <2>3 DEF Typed, TypeOK
        <4>2. /\ clients' \in Seq(Jobs) /\ Len(clients') = Len(clients) - 1
              /\ \A n \in 1..(Len(clients) - 1) : clients'[n] = clients[n]
              /\ Len(clients) \in 1..Len(clients)
          BY <2>3, <4>1, FrontFacts
        <4> QED BY <1>0, <4>2
      <3>2. ASSUME NEW n \in DOMAIN clients', NEW p \in DOMAIN resources,
                   resources[p] = clients[n], p \notin K
            PROVE  FALSE
        <4>1. PICK q \in DOMAIN resources :
                resources[q] = clients[Len(clients)] /\ kind[resources[q]] = "socket"
          BY <3>1 DEF Paired
        <4>2. p < q
          BY <3>1, <3>2, <4>1 DEF Paired
        <4>3. q <= p
          BY <2>3, <3>2, <4>1 DEF IsLastOf
        <4> QED BY <1>0, <4>2, <4>3
      <3> QED BY <1>3, <1>4, <3>1, <3>2
    <2> QED BY <1>4, <2>1, <2>2, <2>3 DEF Gives
  <1> QED BY <1>1, <1>2, <1>4, ShapeOfSteps DEF Shape

\* No client the actor still holds has been cancelled, whatever clients were
\* closed, and closes failed, before it (close, websocket_client.rs:527).
THEOREM CloseSpares == Spec => []CloseSparesOthers
  <1>1. Init => HeldOnce /\ Paired
    BY DEF Init, HeldOnce, Paired
  <1>2. Typed /\ HeldOnce /\ Paired /\ [Next]_vars => HeldOnce' /\ Paired'
    BY HeldOnceStep, PairedStep
  <1>3. HeldOnce /\ Paired => CloseSparesOthers
    <2> SUFFICES ASSUME HeldOnce, Paired, NEW n \in DOMAIN clients
                 PROVE  ~signal[clients[n]]
      BY DEF CloseSparesOthers, ToSet
    <2> QED BY DEF HeldOnce, Paired
  <1> QED BY <1>1, <1>2, <1>3, TypeCorrect, PTL DEF Spec

-----------------------------------------------------------------------------
(* What a step does to the commands and the values on their way.            *)

\* A task in these states has no run under way.
Apart == {"unset", "waiting", "sending", "answered", "failed", "stuck"}

\* No command and no value moves.
Calm ==
  /\ UNCHANGED <<kind, mailbox, running, held, lagged>>
  /\ published'.channel = published.channel
  /\ actor' \in {"busy", "looking"} <=> actor \in {"busy", "looking"}
  /\ \A j \in Jobs : state'[j] \in Apart => state[j] \in Apart
  /\ \A j \in Jobs : kind[j] = "subscription" =>
       /\ feed'[j] = feed[j]
       /\ state'[j] # state[j] => state[j] = "unset" /\ state'[j] = "waiting"

\* Someone else's command is queued.
Queues(c) ==
  /\ c.job = None /\ Push(c)
  /\ UNCHANGED <<kind, actor, running, state, held, feed, lagged, published>>

CommandShape ==
  \/ Calm
  \/ \E c \in Commands : Queues(c)
  \/ \E j \in Jobs : Deliver(j) \/ ReceiveValue(j) \/ Cancelled(j)
  \/ Handle \/ Terminate \/ Publish
  \/ \E result \in {"answered", "failed"} : Finish(result)

\* What a step may do to the mailbox and the command in progress.
LEMMA CommandShapeOfSteps ==
  ASSUME Typed, [Next]_vars
  PROVE  CommandShape
  <1> USE DEF CommandShape
  <1>1. ASSUME OutsideRun PROVE CommandShape
    <2>1. Idle.job = None
      BY DEF Idle, Run
    <2>2. Queues(Idle)
      BY <1>1, <2>1 DEF OutsideRun, Outside, Queues, jobVars
    <2> QED BY <2>2, CommandTypes
  <1>2. ASSUME OutsideTerminate PROVE CommandShape
    <2>1. TerminateCmd.job = None
      BY DEF TerminateCmd
    <2>2. Queues(TerminateCmd)
      BY <1>2, <2>1 DEF OutsideTerminate, Outside, Queues, jobVars
    <2> QED BY <2>2, CommandTypes
  <1>3. ASSUME Publish PROVE CommandShape
    BY <1>3
  <1>4. ASSUME Change PROVE CommandShape
    BY <1>4 DEF Change, Calm, Typed, TypeOK, StateFits, Bookkept
  <1>5. ASSUME StopFinds PROVE CommandShape
    BY <1>5 DEF StopFinds, jobVars, JobStep, Become, Calm, Apart, Typed, TypeOK, StateFits, Bookkept
  <1>6. ASSUME StopTells PROVE CommandShape
    <2>1. Idle.job = None
      BY DEF Idle, Run
    <2>2. Queues(Idle)
      BY <1>6, <2>1 DEF StopTells, Queues, jobVars
    <2> QED BY <2>2, CommandTypes
  <1>7. ASSUME StopReaches PROVE CommandShape
    BY <1>7 DEF StopReaches, jobVars, JobStep, Become, Calm, Apart, Typed, TypeOK, StateFits, Bookkept
  <1>8. ASSUME StopSends PROVE CommandShape
    <2>1. TerminateCmd.job = None
      BY DEF TerminateCmd
    <2>2. Queues(TerminateCmd)
      BY <1>8, <2>1 DEF StopSends, Queues, jobVars
    <2> QED BY <2>2, CommandTypes
  <1>9. ASSUME NEW j \in Jobs, Fire(j) PROVE CommandShape
    BY <1>9 DEF Fire, jobVars, JobStep, Become, Calm, Apart, Typed, TypeOK, StateFits, Bookkept
  <1>10. ASSUME NEW j \in Jobs, Ask(j) PROVE CommandShape
    BY <1>10 DEF Ask, jobVars, JobStep, Become, Calm, Apart, Typed, TypeOK, StateFits, Bookkept
  <1>11. ASSUME NEW j \in Jobs, ReceiveValue(j) PROVE CommandShape
    BY <1>11
  <1>12. ASSUME NEW j \in Jobs, Resume(j) PROVE CommandShape
    BY <1>12 DEF Resume, jobVars, JobStep, Become, Calm, Apart, Typed, TypeOK, StateFits, Bookkept
  <1>13. ASSUME NEW j \in Jobs, HangUp(j) PROVE CommandShape
    BY <1>13 DEF HangUp, jobVars, JobStep, Become, Calm, Apart, Typed, TypeOK, StateFits, Bookkept
  <1>14. ASSUME NEW j \in Jobs, Tick(j) PROVE CommandShape
    BY <1>14 DEF Tick, jobVars, JobStep, Become, Calm, Apart, Typed, TypeOK, StateFits, Bookkept
  <1>15. ASSUME NEW j \in Jobs, RunOut(j) PROVE CommandShape
    BY <1>15 DEF RunOut, jobVars, JobStep, Become, Calm, Apart, Typed, TypeOK, StateFits, Bookkept
  <1>16. ASSUME NEW j \in Jobs, ReceiveMessage(j) PROVE CommandShape
    <2>1. PICK s \in {"sending", "parting", "ended"} : state' = [state EXCEPT ![j] = s]
      BY <1>16, Zenon DEF ReceiveMessage, Become
    <2> QED BY <1>16, <2>1 DEF ReceiveMessage, JobStep, Calm, Apart, Typed, TypeOK, StateFits, Bookkept
  <1>17. ASSUME NEW j \in Jobs, Deliver(j) PROVE CommandShape
    BY <1>17
  <1>18. ASSUME NEW j \in Jobs, Cancelled(j) PROVE CommandShape
    BY <1>18
  <1>19. ASSUME Handle PROVE CommandShape
    BY <1>19
  <1>20. ASSUME Terminate PROVE CommandShape
    BY <1>20
  <1>21. ASSUME EndActor PROVE CommandShape
    BY <1>21 DEF EndActor, jobVars, JobStep, Become, Calm, Apart, Typed, TypeOK, StateFits, Bookkept
  <1>22. ASSUME Found PROVE CommandShape
    BY <1>22 DEF Found, jobVars, JobStep, Become, Calm, Apart, Typed, TypeOK, StateFits, Bookkept
  <1>23. ASSUME NEW result \in {"answered", "failed"}, Finish(result) PROVE CommandShape
    BY <1>23
  <1>24. ASSUME LookUp PROVE CommandShape
    BY <1>24 DEF LookUp, jobVars, JobStep, Become, Calm, Apart, Typed, TypeOK, StateFits, Bookkept
  <1>25. ASSUME NEW j \in Jobs, SetAlarm(j) PROVE CommandShape
    BY <1>25 DEF SetAlarm, Start, jobVars, JobStep, Become, Calm, Apart, Typed, TypeOK, StateFits, Bookkept
  <1>26. ASSUME NEW j \in Jobs, SetInterval(j) PROVE CommandShape
    BY <1>26 DEF SetInterval, Start, jobVars, JobStep, Become, Calm, Apart, Typed, TypeOK, StateFits, Bookkept
  <1>27. ASSUME NEW j \in Jobs, SetupCronjob(j) PROVE CommandShape
    BY <1>27 DEF SetupCronjob, Start, jobVars, JobStep, Become, Calm, Apart, Typed, TypeOK, StateFits, Bookkept
  <1>28. ASSUME NEW j \in Jobs, Subscribe(j) PROVE CommandShape
    BY <1>28 DEF Subscribe, Start, jobVars, JobStep, Become, Calm, Apart, Typed, TypeOK, StateFits, Bookkept
  <1>29. ASSUME NEW j \in Jobs, RunTaskContinuously(j) PROVE CommandShape
    BY <1>29 DEF RunTaskContinuously, Start, jobVars, JobStep, Become, Calm, Apart, Typed, TypeOK, StateFits, Bookkept
  <1>30. ASSUME NEW j \in Jobs, SetupWatcher(j) PROVE CommandShape
    BY <1>30 DEF SetupWatcher, Start, jobVars, JobStep, Become, Calm, Apart, Typed, TypeOK, StateFits, Bookkept
  <1>31. ASSUME NEW j \in Jobs, Connect(j) PROVE CommandShape
    BY <1>31 DEF Connect, Start, jobVars, JobStep, Become, Calm, Apart, Typed, TypeOK, StateFits, Bookkept
  <1>32. ASSUME CancelAlarm PROVE CommandShape
    BY <1>32 DEF CancelAlarm, CancelLast, jobVars, JobStep, Become, Calm, Apart, Typed, TypeOK, StateFits, Bookkept
  <1>33. ASSUME CancelTask PROVE CommandShape
    BY <1>33 DEF CancelTask, CancelLast, jobVars, JobStep, Become, Calm, Apart, Typed, TypeOK, StateFits, Bookkept
  <1>34. ASSUME Unsubscribe PROVE CommandShape
    BY <1>34 DEF Unsubscribe, CancelLast, jobVars, JobStep, Become, Calm, Apart, Typed, TypeOK, StateFits, Bookkept
  <1>35. ASSUME UnsubscribeAll PROVE CommandShape
    BY <1>35 DEF UnsubscribeAll, jobVars, JobStep, Become, Calm, Apart, Typed, TypeOK, StateFits, Bookkept
  <1>36. ASSUME CancelWatcher PROVE CommandShape
    BY <1>36 DEF CancelWatcher, CancelLast, jobVars, JobStep, Become, Calm, Apart, Typed, TypeOK, StateFits, Bookkept
  <1>37. ASSUME CloseSocket PROVE CommandShape
    BY <1>37 DEF CloseSocket, jobVars, JobStep, Become, Calm, Apart, Typed, TypeOK, StateFits, Bookkept
  <1>38. CASE UNCHANGED vars
    BY <1>38 DEF vars, Calm
  <1> QED
    BY <1>1, <1>2, <1>3, <1>4, <1>5, <1>6, <1>7, <1>8, <1>9, <1>10, <1>11, <1>12,
    <1>13, <1>14, <1>15, <1>16, <1>17, <1>18, <1>19, <1>20, <1>21, <1>22, <1>23,
    <1>24, <1>25, <1>26, <1>27, <1>28, <1>29, <1>30, <1>31, <1>32, <1>33, <1>34,
    <1>35, <1>36, <1>37, <1>38 DEF Next, Progress, ActorStep

-----------------------------------------------------------------------------
(* Tasks.                                                                  *)

Handled(j) == actor \in {"busy", "looking"} /\ running.job = j
Waits(j) == \E i \in DOMAIN mailbox : mailbox[i].job = j

\* A task has at most one run, and none while it is not asking: unless it was
\* cancelled, it is asking as long as its run is queued or handled.
TaskAlone ==
  \A j \in Jobs : kind[j] = "task" =>
    /\ \A i, k \in DOMAIN mailbox : mailbox[i].job = j /\ mailbox[k].job = j => i = k
    /\ Handled(j) => ~Waits(j)
    /\ state[j] \in Apart => ~Waits(j) /\ ~Handled(j)

\* A task sends the next command only after the last one is answered.
LEMMA TaskAloneStep ==
  ASSUME Typed, TaskAlone, [Next]_vars
  PROVE  TaskAlone'
  <1> DEFINE Alone(j) == /\ \A i, k \in DOMAIN mailbox :
                              mailbox[i].job = j /\ mailbox[k].job = j => i = k
                         /\ Handled(j) => ~Waits(j)
                         /\ state[j] \in Apart => ~Waits(j) /\ ~Handled(j)
  <1> SUFFICES ASSUME NEW j \in Jobs, kind'[j] = "task"
               PROVE  Alone(j)'
    BY DEF TaskAlone
  <1>1. /\ DOMAIN mailbox = 1..Len(mailbox) /\ Len(mailbox) \in Nat /\ mailbox \in Seq(Commands)
        /\ state \in [Jobs -> States] /\ kind \in [Jobs -> Kinds \cup {None}]
        /\ \A k \in Jobs : /\ state[k] = "firing" => kind[k] = "alarm"
                           /\ state[k] = "parting" => kind[k] = "socket"
        /\ actor \in {"idle", "ended"} => running = Idle
    BY DEF Typed, TypeOK, StateFits, Bookkept
  <1>2. kind[j] = "task" => Alone(j)
    BY DEF TaskAlone
  <1>3. ASSUME NEW c \in Commands, Push(c)
        PROVE  /\ DOMAIN mailbox' = 1..(Len(mailbox) + 1)
               /\ \A i \in DOMAIN mailbox : mailbox'[i] = mailbox[i] /\ i \in DOMAIN mailbox'
               /\ mailbox'[Len(mailbox) + 1] = c
    BY <1>1, <1>3, QueueFacts DEF Push
  <1>4. ASSUME mailbox # <<>>, mailbox' = Tail(mailbox)
        PROVE  /\ DOMAIN mailbox' = 1..(Len(mailbox) - 1)
               /\ \A i \in DOMAIN mailbox' : mailbox'[i] = mailbox[i + 1] /\ i + 1 \in DOMAIN mailbox
               /\ Head(mailbox) = mailbox[1] /\ 1 \in DOMAIN mailbox
    BY <1>1, <1>4, QueueFacts
  <1>5. CASE Calm
    BY <1>2, <1>5 DEF Calm, Handled, Waits
  <1>6. ASSUME NEW c \in Commands, Queues(c)
        PROVE  Alone(j)'
    BY <1>1, <1>2, <1>3, <1>6, CommandTypes DEF Queues, Handled, Waits
  <1>7. ASSUME NEW k \in Jobs, Deliver(k)
        PROVE  Alone(j)'
    <2>1. Run(k, held[k]) \in Commands /\ Run(k, held[k]).job = k
      BY CommandTypes DEF Run, Typed, TypeOK
    <2>2. /\ DOMAIN mailbox' = 1..(Len(mailbox) + 1)
          /\ \A i \in DOMAIN mailbox : mailbox'[i] = mailbox[i] /\ i \in DOMAIN mailbox'
          /\ mailbox'[Len(mailbox) + 1].job = k
      BY <1>3, <1>7, <2>1 DEF Deliver
    <2>3. /\ UNCHANGED <<kind, actor, running>> /\ state' = [state EXCEPT ![k] = AfterSend(k)]
          /\ state[k] \in {"sending", "firing", "parting"}
      BY <1>7 DEF Deliver, JobStep, HoldsLink, Become
    <2>4. CASE k = j
      <3>1. state[j] = "sending" /\ state'[j] = "asking"
        BY <1>1, <2>3, <2>4 DEF AfterSend
      <3> QED BY <1>1, <1>2, <2>2, <2>3, <2>4, <3>1 DEF Handled, Waits, Apart
    <2>5. CASE k # j
      BY <1>1, <1>2, <2>2, <2>3, <2>5 DEF Handled, Waits
    <2> QED BY <2>4, <2>5
  <1>8. ASSUME NEW k \in Jobs, ReceiveValue(k) \/ Cancelled(k)
        PROVE  Alone(j)'
    <2>1. /\ UNCHANGED <<kind, mailbox, actor, running>>
          /\ state'[j] = state[j] \/ state'[j] = "ended"
      <3>1. CASE Cancelled(k)
        BY <1>1, <3>1 DEF Cancelled, JobStep, Become
      <3>2. CASE ReceiveValue(k)
        <4>1. PICK s \in States : state' = [state EXCEPT ![k] = s]
          BY <3>2, Zenon DEF ReceiveValue, Become, States
        <4>2. k # j
          BY <3>2 DEF ReceiveValue, JobStep, Typed, TypeOK, Bookkept
        <4> QED BY <1>1, <3>2, <4>1, <4>2 DEF ReceiveValue, JobStep
      <3> QED BY <1>8, <3>1, <3>2
    <2> QED BY <1>2, <2>1 DEF Handled, Waits, Apart
  <1>9. CASE Handle
    <2>1. /\ UNCHANGED <<kind, state>> /\ running' = mailbox[1] /\ actor' = "busy"
          /\ ~Handled(j)
      BY <1>4, <1>9 DEF Handle, Handled
    <2>2. /\ DOMAIN mailbox' = 1..(Len(mailbox) - 1)
          /\ \A i \in DOMAIN mailbox' : mailbox'[i] = mailbox[i + 1] /\ i + 1 \in DOMAIN mailbox
          /\ 1 \in DOMAIN mailbox
      BY <1>4, <1>9 DEF Handle
    <2> QED BY <1>1, <1>2, <2>1, <2>2 DEF Handled, Waits
  <1>10. CASE Terminate
    <2>1. /\ UNCHANGED <<kind, state, running, actor>>
      BY <1>10 DEF Terminate
    <2>2. /\ DOMAIN mailbox' = 1..(Len(mailbox) - 1)
          /\ \A i \in DOMAIN mailbox' : mailbox'[i] = mailbox[i + 1] /\ i + 1 \in DOMAIN mailbox
      BY <1>4, <1>10 DEF Terminate
    <2> QED BY <1>1, <1>2, <2>1, <2>2 DEF Handled, Waits
  <1>11. CASE Publish
    BY <1>2, <1>11 DEF Publish, Handled, Waits
  <1>12. ASSUME NEW result \in {"answered", "failed"}, Finish(result)
         PROVE  Alone(j)'
    <2>1. UNCHANGED <<kind, mailbox>> /\ ~Handled(j)' /\ actor = "busy"
      BY <1>12, CommandTypes DEF Finish, Handled
    <2>2. state'[j] = state[j] \/ running.job = j
      BY <1>1, <1>12 DEF Finish
    <2> QED BY <1>2, <1>12, <2>1, <2>2 DEF Finish, Handled, Waits
  <1> QED BY <1>5, <1>6, <1>7, <1>8, <1>9, <1>10, <1>11, <1>12, CommandShapeOfSteps
             DEF CommandShape

\* A continuous task never overlaps itself: run_task_continuously_inner waits for
\* the answer of a run before it sends the next (tasks.rs:96), and a run that a
\* cancelled task left behind is not joined by another of the same task.
THEOREM TasksAreSequential == Spec => []TaskIsSequential
  <1>1. Init => TaskAlone
    BY CommandTypes DEF Init, TaskAlone, Handled, Waits, Idle, Run
  <1>2. Typed /\ TaskAlone /\ [Next]_vars => TaskAlone'
    BY TaskAloneStep
  <1>3. TaskAlone => TaskIsSequential
    BY DEF TaskAlone, TaskIsSequential, Handled, Waits, Apart
  <1> QED BY <1>1, <1>2, <1>3, TypeCorrect, PTL DEF Spec

-----------------------------------------------------------------------------
(* The values of a subscription.                                           *)

\* InTransit(j), of a mailbox, what the actor runs, the value being sent and the
\* values in the ring.
Places(box, run, hand, ring, j) ==
  LET hands == Len(box) + 1
      handled == IF run.job = j THEN {<<0, run.value>>} ELSE {}
      queued == {<<i, box[i].value>> : i \in {k \in DOMAIN box : box[k].job = j}}
      sent == IF hand # 0 THEN {<<hands, hand>>} ELSE {}
      inRing == {<<hands + i, ring[i]>> : i \in DOMAIN ring}
  IN handled \cup queued \cup sent \cup inRing

Values(places) == {a[2] : a \in places}
Ordered(places) == \A a, b \in places : a[1] < b[1] => a[2] < b[2]
Gapless(values) == \A v, w \in values : v..w \subseteq values

\* Where what is: place n has value v.
At(n, v, box, len, run, hand, ring, size, j) ==
  \/ n = 0 /\ run.job = j /\ v = run.value
  \/ n \in 1..len /\ box[n].job = j /\ v = box[n].value
  \/ n = len + 1 /\ hand # 0 /\ v = hand
  \/ n - (len + 1) \in 1..size /\ v = ring[n - (len + 1)]

\* The places of the values of a job, one by one.
LEMMA PlacesAre ==
  ASSUME NEW box \in Seq(Commands), NEW run \in Runs, NEW hand \in Nat, NEW ring \in Seq(Nat),
         NEW j \in Jobs
  PROVE  /\ Places(box, run, hand, ring, j) \in SUBSET (Nat \X Nat)
         /\ \A n, v \in Nat : <<n, v>> \in Places(box, run, hand, ring, j) <=>
              At(n, v, box, Len(box), run, hand, ring, Len(ring), j)
  <1>1. /\ DOMAIN box = 1..Len(box) /\ Len(box) \in Nat
        /\ DOMAIN ring = 1..Len(ring) /\ Len(ring) \in Nat
        /\ \A i \in DOMAIN ring : ring[i] \in Nat
        /\ run.value \in Nat
    BY DEF Runs
  <1>2. \A i \in DOMAIN box : box[i].value \in Nat
    <2>1. \A i \in DOMAIN box : box[i] \in Commands
      OBVIOUS
    <2> QED BY <2>1 DEF Commands, Runs, TerminateCmd
  <1>3. ASSUME NEW a \in Places(box, run, hand, ring, j)
        PROVE  \E n \in Nat, v \in Nat : a = <<n, v>>
    <2>1. CASE a = <<0, run.value>>
      BY <1>1, <2>1
    <2>2. ASSUME NEW i \in DOMAIN box, a = <<i, box[i].value>>
          PROVE  \E n \in Nat, v \in Nat : a = <<n, v>>
      BY <1>1, <1>2, <2>2
    <2>3. CASE a = <<Len(box) + 1, hand>>
      BY <1>1, <2>3
    <2>4. ASSUME NEW i \in DOMAIN ring, a = <<Len(box) + 1 + i, ring[i]>>
          PROVE  \E n \in Nat, v \in Nat : a = <<n, v>>
      <3>1. Len(box) + 1 + i \in Nat
        BY <1>1
      <3> QED BY <1>1, <2>4, <3>1
    <2> QED BY <1>3, <2>1, <2>2, <2>3, <2>4 DEF Places
  <1>4. ASSUME NEW n \in Nat, NEW v \in Nat
        PROVE  <<n, v>> \in Places(box, run, hand, ring, j) <=>
                 At(n, v, box, Len(box), run, hand, ring, Len(ring), j)
    <2>1. <<n, v>> \in Places(box, run, hand, ring, j) <=>
            \/ n = 0 /\ run.job = j /\ v = run.value
            \/ n \in DOMAIN box /\ box[n].job = j /\ v = box[n].value
            \/ n = Len(box) + 1 /\ hand # 0 /\ v = hand
            \/ \E i \in DOMAIN ring : n = Len(box) + 1 + i /\ v = ring[i]
      BY DEF Places
    <2>2. \A len, i \in Nat : n = len + 1 + i <=> i = n - (len + 1)
      OBVIOUS
    <2>3. DOMAIN ring \subseteq Nat
      BY <1>1
    <2>4. (\E i \in DOMAIN ring : n = Len(box) + 1 + i /\ v = ring[i]) <=>
            n - (Len(box) + 1) \in DOMAIN ring /\ v = ring[n - (Len(box) + 1)]
      <3> DEFINE p == n - (Len(box) + 1)
      <3>1. \A i \in DOMAIN ring : n = Len(box) + 1 + i <=> i = p
        BY <1>1, <2>2, <2>3
      <3> HIDE DEF p
      <3> QED BY <3>1 DEF p
    <2> QED BY <1>1, <2>1, <2>4 DEF At
  <1> QED BY <1>3, <1>4

\* A change of places that keeps the order of the values, and maybe loses some.
Thins(T, U) == Ordered(U) /\ Values(U) \subseteq Values(T)
Keeps(T, U) == Ordered(U) /\ Values(U) = Values(T)

\* If every value comes from a place in the same order, they are in order.
LEMMA MovesKeep ==
  ASSUME NEW T \in SUBSET (Nat \X Nat), NEW U \in SUBSET (Nat \X Nat),
         NEW D \in SUBSET Nat, NEW from \in [D -> Nat],
         \A n, v \in Nat : <<n, v>> \in U => n \in D /\ <<from[n], v>> \in T,
         \A m, n \in D : m < n => from[m] < from[n],
         Ordered(T)
  PROVE  Thins(T, U)
  <1>1. ASSUME NEW a \in U, NEW b \in U, a[1] < b[1]
        PROVE  a[2] < b[2]
    <2>1. PICK m \in Nat, v \in Nat, n \in Nat, w \in Nat : a = <<m, v>> /\ b = <<n, w>>
      OBVIOUS
    <2>2. <<from[m], v>> \in T /\ <<from[n], w>> \in T /\ from[m] < from[n]
      BY <1>1, <2>1
    <2> QED BY <2>1, <2>2 DEF Ordered
  <1>2. Values(U) \subseteq Values(T)
    <2>1. ASSUME NEW a \in U
          PROVE  \E b \in T : b[2] = a[2]
      <3>1. PICK n \in Nat, v \in Nat : a = <<n, v>>
        OBVIOUS
      <3>2. <<from[n], v>> \in T
        BY <2>1, <3>1
      <3> QED BY <3>1, <3>2
    <2> QED BY <2>1 DEF Values
  <1> QED BY <1>1, <1>2 DEF Thins, Ordered

\* None is lost if every value has a place.
LEMMA AllKept ==
  ASSUME NEW T \in SUBSET (Nat \X Nat), NEW U \in SUBSET (Nat \X Nat), Thins(T, U),
         \A n, v \in Nat : <<n, v>> \in T => \E m \in Nat : <<m, v>> \in U
  PROVE  Keeps(T, U)
  <1>1. ASSUME NEW b \in T
        PROVE  \E a \in U : b[2] = a[2]
    <2>1. PICK n \in Nat, v \in Nat : b = <<n, v>>
      OBVIOUS
    <2>2. PICK m \in Nat : <<m, v>> \in U
      BY <1>1, <2>1
    <2> QED BY <2>1, <2>2
  <1> QED BY <1>1 DEF Keeps, Thins, Values

\* The same of two layouts.
LEMMA RelaidKeeps ==
  ASSUME NEW j \in Jobs,
         NEW box \in Seq(Commands), NEW run \in Runs, NEW hand \in Nat, NEW ring \in Seq(Nat),
         NEW box2 \in Seq(Commands), NEW run2 \in Runs, NEW hand2 \in Nat, NEW ring2 \in Seq(Nat),
         NEW D \in SUBSET Nat, NEW from \in [D -> Nat],
         \A m, n \in D : m < n => from[m] < from[n],
         \A n, v \in Nat : At(n, v, box2, Len(box2), run2, hand2, ring2, Len(ring2), j) =>
           n \in D /\ At(from[n], v, box, Len(box), run, hand, ring, Len(ring), j),
         Ordered(Places(box, run, hand, ring, j))
  PROVE  /\ Thins(Places(box, run, hand, ring, j), Places(box2, run2, hand2, ring2, j))
         /\ (\A n, v \in Nat : At(n, v, box, Len(box), run, hand, ring, Len(ring), j) =>
               \E m \in Nat : At(m, v, box2, Len(box2), run2, hand2, ring2, Len(ring2), j)) =>
              Keeps(Places(box, run, hand, ring, j), Places(box2, run2, hand2, ring2, j))
  <1> DEFINE T == Places(box, run, hand, ring, j)
             U == Places(box2, run2, hand2, ring2, j)
  <1>1. T \in SUBSET (Nat \X Nat) /\ U \in SUBSET (Nat \X Nat)
    BY PlacesAre
  <1>2. \A n, v \in Nat : <<n, v>> \in T <=> At(n, v, box, Len(box), run, hand, ring, Len(ring), j)
    BY PlacesAre
  <1>3. \A n, v \in Nat :
          <<n, v>> \in U <=> At(n, v, box2, Len(box2), run2, hand2, ring2, Len(ring2), j)
    BY PlacesAre
  <1>4. Ordered(T)
    OBVIOUS
  <1> HIDE DEF T, U
  <1>5. \A n, v \in Nat : <<n, v>> \in U => n \in D /\ <<from[n], v>> \in T
    BY <1>2, <1>3
  <1>6. Thins(T, U)
    BY <1>1, <1>4, <1>5, MovesKeep
  <1>7. ASSUME \A n, v \in Nat : At(n, v, box, Len(box), run, hand, ring, Len(ring), j) =>
                 \E m \in Nat : At(m, v, box2, Len(box2), run2, hand2, ring2, Len(ring2), j)
        PROVE  Keeps(T, U)
    <2>1. \A n, v \in Nat : <<n, v>> \in T => \E m \in Nat : <<m, v>> \in U
      BY <1>2, <1>3, <1>7
    <2> QED BY <1>1, <1>6, <2>1, AllKept
  <1> QED BY <1>6, <1>7 DEF T, U

\* Another's command is queued: what is behind it moves back by one.
LEMMA QueueKeeps ==
  ASSUME NEW box \in Seq(Commands), NEW run \in Runs, NEW hand \in Nat, NEW ring \in Seq(Nat),
         NEW j \in Jobs, NEW c \in Commands, c.job # j,
         Ordered(Places(box, run, hand, ring, j))
  PROVE  Keeps(Places(box, run, hand, ring, j), Places(Append(box, c), run, hand, ring, j))
  <1>1. PICK len \in Nat, size \in Nat : len = Len(box) /\ size = Len(ring)
    OBVIOUS
  <1>2. PICK box2 \in Seq(Commands), run2 \in Runs, hand2 \in Nat, ring2 \in Seq(Nat) :
          box2 = Append(box, c) /\ run2 = run /\ hand2 = hand /\ ring2 = ring
    BY QueueFacts, CommandTypes
  <1>3. /\ Len(box2) = len + 1 /\ Len(ring2) = size
        /\ \A i \in 1..len : box2[i] = box[i]
        /\ box2[len + 1] = c
    BY <1>1, <1>2, QueueFacts
  <1> DEFINE D == Nat \ {len + 1}
             from == [n \in D |-> IF n <= len THEN n ELSE n - 1]
  <1>4. from \in [D -> Nat] /\ \A m, n \in D : m < n => from[m] < from[n]
    OBVIOUS
  <1>5. ASSUME NEW n \in Nat, NEW v \in Nat,
               At(n, v, box2, Len(box2), run2, hand2, ring2, Len(ring2), j)
        PROVE  n \in D /\ At(from[n], v, box, len, run, hand, ring, size, j)
    <2>1. n \in D /\ from[n] \in Nat
      BY <1>2, <1>3, <1>5 DEF At
    <2>2. CASE n <= len
      BY <1>2, <1>3, <1>5, <2>1, <2>2 DEF At
    <2>3. CASE ~(n <= len)
      BY <1>2, <1>3, <1>5, <2>1, <2>3 DEF At
    <2> QED BY <2>1, <2>2, <2>3
  <1>6. ASSUME NEW n \in Nat, NEW v \in Nat, At(n, v, box, len, run, hand, ring, size, j)
        PROVE  \E m \in Nat : At(m, v, box2, Len(box2), run2, hand2, ring2, Len(ring2), j)
    <2>1. CASE n <= len
      <3>1. n \in Nat /\ At(n, v, box2, Len(box2), run2, hand2, ring2, Len(ring2), j)
        BY <1>2, <1>3, <1>6, <2>1 DEF At
      <3> QED BY <3>1
    <2>2. CASE n > len
      <3>1. n + 1 \in Nat /\ At(n + 1, v, box2, Len(box2), run2, hand2, ring2, Len(ring2), j)
        BY <1>2, <1>3, <1>6, <2>2 DEF At
      <3> QED BY <3>1
    <2> QED BY <2>1, <2>2
  <1> HIDE DEF from, D
  <1>7. D \in SUBSET Nat
    BY DEF D
  <1> QED BY <1>1, <1>2, <1>4, <1>5, <1>6, <1>7, RelaidKeeps

\* The value at hand is queued: what is in the ring moves back by one.
LEMMA DeliverKeeps ==
  ASSUME NEW box \in Seq(Commands), NEW run \in Runs, NEW hand \in Nat, NEW ring \in Seq(Nat),
         NEW j \in Jobs, hand # 0,
         Ordered(Places(box, run, hand, ring, j))
  PROVE  Keeps(Places(box, run, hand, ring, j), Places(Append(box, Run(j, hand)), run, 0, ring, j))
  <1>1. PICK len \in Nat, size \in Nat : len = Len(box) /\ size = Len(ring)
    OBVIOUS
  <1>2. PICK box2 \in Seq(Commands), run2 \in Runs, hand2 \in Nat, ring2 \in Seq(Nat) :
          box2 = Append(box, Run(j, hand)) /\ run2 = run /\ hand2 = 0 /\ ring2 = ring
    BY QueueFacts, CommandTypes
  <1>3. /\ Len(box2) = len + 1 /\ Len(ring2) = size
        /\ \A i \in 1..len : box2[i] = box[i]
        /\ box2[len + 1].job = j /\ box2[len + 1].value = hand
    BY <1>1, <1>2, QueueFacts, CommandTypes DEF Run
  <1> DEFINE D == Nat \ {len + 2}
             from == [n \in D |-> IF n <= len + 1 THEN n ELSE n - 1]
  <1>4. from \in [D -> Nat] /\ \A m, n \in D : m < n => from[m] < from[n]
    OBVIOUS
  <1>5. ASSUME NEW n \in Nat, NEW v \in Nat,
               At(n, v, box2, Len(box2), run2, hand2, ring2, Len(ring2), j)
        PROVE  n \in D /\ At(from[n], v, box, len, run, hand, ring, size, j)
    <2>1. n \in D /\ from[n] \in Nat
      BY <1>2, <1>3, <1>5 DEF At
    <2>2. CASE n <= len + 1
      BY <1>2, <1>3, <1>5, <2>1, <2>2 DEF At
    <2>3. CASE ~(n <= len + 1)
      BY <1>2, <1>3, <1>5, <2>1, <2>3 DEF At
    <2> QED BY <2>1, <2>2, <2>3
  <1>6. ASSUME NEW n \in Nat, NEW v \in Nat, At(n, v, box, len, run, hand, ring, size, j)
        PROVE  \E m \in Nat : At(m, v, box2, Len(box2), run2, hand2, ring2, Len(ring2), j)
    <2>1. CASE n <= len + 1
      <3>1. n \in Nat /\ At(n, v, box2, Len(box2), run2, hand2, ring2, Len(ring2), j)
        BY <1>2, <1>3, <1>6, <2>1 DEF At
      <3> QED BY <3>1
    <2>2. CASE n > len + 1
      <3>1. n + 1 \in Nat /\ At(n + 1, v, box2, Len(box2), run2, hand2, ring2, Len(ring2), j)
        BY <1>2, <1>3, <1>6, <2>2 DEF At
      <3> QED BY <3>1
    <2> QED BY <2>1, <2>2
  <1> HIDE DEF from, D
  <1>7. D \in SUBSET Nat
    BY DEF D
  <1> QED BY <1>1, <1>2, <1>4, <1>5, <1>6, <1>7, RelaidKeeps

\* The first value of the ring is taken.
LEMMA ReceiveKeeps ==
  ASSUME NEW box \in Seq(Commands), NEW run \in Runs, NEW hand \in Nat, NEW ring \in Seq(Nat),
         NEW j \in Jobs, hand = 0, ring # <<>>, ring[1] # 0,
         Ordered(Places(box, run, hand, ring, j))
  PROVE  Keeps(Places(box, run, hand, ring, j), Places(box, run, Head(ring), Tail(ring), j))
  <1>1. PICK len \in Nat, size \in Nat : len = Len(box) /\ size = Len(ring)
    OBVIOUS
  <1>2. PICK box2 \in Seq(Commands), run2 \in Runs, hand2 \in Nat, ring2 \in Seq(Nat) :
          box2 = box /\ run2 = run /\ hand2 = Head(ring) /\ ring2 = Tail(ring)
    BY QueueFacts, CommandTypes
  <1>3. /\ Len(box2) = len /\ Len(ring2) = size - 1 /\ hand2 = ring[1] /\ size > 0
        /\ \A i \in 1..(size - 1) : ring2[i] = ring[i + 1]
    BY <1>1, <1>2, QueueFacts
  <1> DEFINE D == Nat
             from == [n \in D |-> IF n <= len THEN n ELSE n + 1]
  <1>4. from \in [D -> Nat] /\ \A m, n \in D : m < n => from[m] < from[n]
    OBVIOUS
  <1>5. ASSUME NEW n \in Nat, NEW v \in Nat,
               At(n, v, box2, Len(box2), run2, hand2, ring2, Len(ring2), j)
        PROVE  n \in D /\ At(from[n], v, box, len, run, hand, ring, size, j)
    <2>1. n \in D /\ from[n] \in Nat
      BY <1>2, <1>3, <1>5 DEF At
    <2>2. CASE n <= len
      BY <1>2, <1>3, <1>5, <2>1, <2>2 DEF At
    <2>3. CASE ~(n <= len)
      BY <1>2, <1>3, <1>5, <2>1, <2>3 DEF At
    <2> QED BY <2>1, <2>2, <2>3
  <1>6. ASSUME NEW n \in Nat, NEW v \in Nat, At(n, v, box, len, run, hand, ring, size, j)
        PROVE  \E m \in Nat : At(m, v, box2, Len(box2), run2, hand2, ring2, Len(ring2), j)
    <2>1. CASE n <= len
      <3>1. n \in Nat /\ At(n, v, box2, Len(box2), run2, hand2, ring2, Len(ring2), j)
        BY <1>2, <1>3, <1>6, <2>1 DEF At
      <3> QED BY <3>1
    <2>2. CASE n > len
      <3>1. n - 1 \in Nat /\ At(n - 1, v, box2, Len(box2), run2, hand2, ring2, Len(ring2), j)
        BY <1>2, <1>3, <1>6, <2>2 DEF At
      <3> QED BY <3>1
    <2> QED BY <2>1, <2>2
  <1> HIDE DEF from, D
  <1>7. D \in SUBSET Nat
    BY DEF D
  <1> QED BY <1>1, <1>2, <1>4, <1>5, <1>6, <1>7, RelaidKeeps

\* The first command is handled.
LEMMA HandleKeeps ==
  ASSUME NEW box \in Seq(Commands), NEW run \in Runs, NEW hand \in Nat, NEW ring \in Seq(Nat),
         NEW j \in Jobs, run.job # j, box # <<>>, Head(box) \in Runs,
         Ordered(Places(box, run, hand, ring, j))
  PROVE  Keeps(Places(box, run, hand, ring, j), Places(Tail(box), Head(box), hand, ring, j))
  <1>1. PICK len \in Nat, size \in Nat : len = Len(box) /\ size = Len(ring)
    OBVIOUS
  <1>2. PICK box2 \in Seq(Commands), run2 \in Runs, hand2 \in Nat, ring2 \in Seq(Nat) :
          box2 = Tail(box) /\ run2 = Head(box) /\ hand2 = hand /\ ring2 = ring
    BY QueueFacts, CommandTypes
  <1>3. /\ Len(box2) = len - 1 /\ Len(ring2) = size /\ run2 = box[1] /\ len > 0
        /\ \A i \in 1..(len - 1) : box2[i] = box[i + 1]
    BY <1>1, <1>2, QueueFacts
  <1> DEFINE D == Nat
             from == [n \in D |-> n + 1]
  <1>4. from \in [D -> Nat] /\ \A m, n \in D : m < n => from[m] < from[n]
    OBVIOUS
  <1>5. ASSUME NEW n \in Nat, NEW v \in Nat,
               At(n, v, box2, Len(box2), run2, hand2, ring2, Len(ring2), j)
        PROVE  n \in D /\ At(from[n], v, box, len, run, hand, ring, size, j)
    <2>1. n \in D /\ from[n] \in Nat
      BY <1>2, <1>3, <1>5 DEF At
    <2>2. CASE n = 0
      BY <1>2, <1>3, <1>5, <2>1, <2>2 DEF At
    <2>3. CASE ~(n = 0)
      <3>1. from[n] = n + 1 /\ (n + 1) - (len + 1) = n - len
        BY <2>1
      <3>2. CASE n < len
        BY <1>2, <1>3, <1>5, <2>1, <2>3, <3>1, <3>2 DEF At
      <3>3. CASE n >= len
        BY <1>2, <1>3, <1>5, <2>1, <2>3, <3>1, <3>3 DEF At
      <3> QED BY <3>2, <3>3
    <2> QED BY <2>1, <2>2, <2>3
  <1>6. ASSUME NEW n \in Nat, NEW v \in Nat, At(n, v, box, len, run, hand, ring, size, j)
        PROVE  \E m \in Nat : At(m, v, box2, Len(box2), run2, hand2, ring2, Len(ring2), j)
    <2>1. CASE n >= 1
      <3>1. n - 1 \in Nat /\ At(n - 1, v, box2, Len(box2), run2, hand2, ring2, Len(ring2), j)
        BY <1>2, <1>3, <1>6, <2>1 DEF At
      <3> QED BY <3>1
    <2>2. CASE n = 0
      <3>1. n \in Nat /\ At(n, v, box2, Len(box2), run2, hand2, ring2, Len(ring2), j)
        BY <1>2, <1>3, <1>6, <2>2 DEF At
      <3> QED BY <3>1
    <2> QED BY <2>1, <2>2
  <1> HIDE DEF from, D
  <1>7. D \in SUBSET Nat
    BY DEF D
  <1> QED BY <1>1, <1>2, <1>4, <1>5, <1>6, <1>7, RelaidKeeps

\* The first command is taken, which is another's.
LEMMA DropKeeps ==
  ASSUME NEW box \in Seq(Commands), NEW run \in Runs, NEW hand \in Nat, NEW ring \in Seq(Nat),
         NEW j \in Jobs, run.job # j, box # <<>>, Head(box).job # j,
         Ordered(Places(box, run, hand, ring, j))
  PROVE  Keeps(Places(box, run, hand, ring, j), Places(Tail(box), run, hand, ring, j))
  <1>1. PICK len \in Nat, size \in Nat : len = Len(box) /\ size = Len(ring)
    OBVIOUS
  <1>2. PICK box2 \in Seq(Commands), run2 \in Runs, hand2 \in Nat, ring2 \in Seq(Nat) :
          box2 = Tail(box) /\ run2 = run /\ hand2 = hand /\ ring2 = ring
    BY QueueFacts, CommandTypes
  <1>3. /\ Len(box2) = len - 1 /\ Len(ring2) = size /\ box[1].job # j /\ len > 0
        /\ \A i \in 1..(len - 1) : box2[i] = box[i + 1]
    BY <1>1, <1>2, QueueFacts
  <1> DEFINE D == Nat
             from == [n \in D |-> n + 1]
  <1>4. from \in [D -> Nat] /\ \A m, n \in D : m < n => from[m] < from[n]
    OBVIOUS
  <1>5. ASSUME NEW n \in Nat, NEW v \in Nat,
               At(n, v, box2, Len(box2), run2, hand2, ring2, Len(ring2), j)
        PROVE  n \in D /\ At(from[n], v, box, len, run, hand, ring, size, j)
    <2>1. n \in D /\ from[n] \in Nat
      BY <1>2, <1>3, <1>5 DEF At
    <2>2. CASE n = 0
      BY <1>2, <1>3, <1>5, <2>1, <2>2 DEF At
    <2>3. CASE ~(n = 0)
      <3>1. from[n] = n + 1 /\ (n + 1) - (len + 1) = n - len
        BY <2>1
      <3>2. CASE n < len
        BY <1>2, <1>3, <1>5, <2>1, <2>3, <3>1, <3>2 DEF At
      <3>3. CASE n >= len
        BY <1>2, <1>3, <1>5, <2>1, <2>3, <3>1, <3>3 DEF At
      <3> QED BY <3>2, <3>3
    <2> QED BY <2>1, <2>2, <2>3
  <1>6. ASSUME NEW n \in Nat, NEW v \in Nat, At(n, v, box, len, run, hand, ring, size, j)
        PROVE  \E m \in Nat : At(m, v, box2, Len(box2), run2, hand2, ring2, Len(ring2), j)
    <2>1. CASE n >= 1
      <3>1. n - 1 \in Nat /\ At(n - 1, v, box2, Len(box2), run2, hand2, ring2, Len(ring2), j)
        BY <1>2, <1>3, <1>6, <2>1 DEF At
      <3> QED BY <3>1
    <2>2. CASE n = 0
      <3>1. n \in Nat /\ At(n, v, box2, Len(box2), run2, hand2, ring2, Len(ring2), j)
        BY <1>2, <1>3, <1>6, <2>2 DEF At
      <3> QED BY <3>1
    <2> QED BY <2>1, <2>2
  <1> HIDE DEF from, D
  <1>7. D \in SUBSET Nat
    BY DEF D
  <1> QED BY <1>1, <1>2, <1>4, <1>5, <1>6, <1>7, RelaidKeeps

\* The oldest value of the ring is lost.
LEMMA LoseOrdered ==
  ASSUME NEW box \in Seq(Commands), NEW run \in Runs, NEW hand \in Nat, NEW ring \in Seq(Nat),
         NEW j \in Jobs, ring # <<>>, Ordered(Places(box, run, hand, ring, j))
  PROVE  Thins(Places(box, run, hand, ring, j), Places(box, run, hand, Tail(ring), j))
  <1>1. PICK len \in Nat, size \in Nat : len = Len(box) /\ size = Len(ring)
    OBVIOUS
  <1>2. PICK ring2 \in Seq(Nat) : ring2 = Tail(ring)
    BY QueueFacts
  <1>3. Len(ring2) = size - 1 /\ size > 0 /\ \A i \in 1..(size - 1) : ring2[i] = ring[i + 1]
    BY <1>1, <1>2, QueueFacts
  <1> DEFINE D == Nat
             from == [n \in D |-> IF n <= len + 1 THEN n ELSE n + 1]
  <1>4. from \in [D -> Nat] /\ \A m, n \in D : m < n => from[m] < from[n]
    OBVIOUS
  <1>5. ASSUME NEW n \in Nat, NEW v \in Nat, At(n, v, box, len, run, hand, ring2, Len(ring2), j)
        PROVE  n \in D /\ At(from[n], v, box, len, run, hand, ring, size, j)
    <2>1. CASE n <= len + 1
      BY <1>3, <1>5, <2>1 DEF At
    <2>2. CASE n > len + 1
      BY <1>3, <1>5, <2>2 DEF At
    <2> QED BY <2>1, <2>2
  <1> HIDE DEF from, D
  <1>6. D \in SUBSET Nat
    BY DEF D
  <1> QED BY <1>1, <1>2, <1>4, <1>5, <1>6, RelaidKeeps

\* A value is published: it is behind all others.
LEMMA PublishAdds ==
  ASSUME NEW box \in Seq(Commands), NEW run \in Runs, NEW hand \in Nat, NEW ring \in Seq(Nat),
         NEW j \in Jobs, NEW p \in Nat, Ordered(Places(box, run, hand, ring, j)),
         \A v \in Values(Places(box, run, hand, ring, j)) : v < p
  PROVE  /\ Ordered(Places(box, run, hand, Append(ring, p), j))
         /\ Values(Places(box, run, hand, Append(ring, p), j)) =
              Values(Places(box, run, hand, ring, j)) \cup {p}
  <1> DEFINE T == Places(box, run, hand, ring, j)
             ring2 == Append(ring, p)
             U == Places(box, run, hand, ring2, j)
             last == Len(box) + 1 + Len(ring) + 1
  <1>1. /\ Len(box) \in Nat /\ Len(ring) \in Nat /\ last \in Nat
        /\ ring2 \in Seq(Nat) /\ Len(ring2) = Len(ring) + 1
        /\ \A i \in 1..Len(ring) : ring2[i] = ring[i]
        /\ ring2[Len(ring) + 1] = p
    BY QueueFacts
  <1> HIDE DEF ring2
  <1>2. T \in SUBSET (Nat \X Nat) /\ U \in SUBSET (Nat \X Nat)
    BY <1>1, PlacesAre
  <1>3. \A n, v \in Nat : <<n, v>> \in T <=> At(n, v, box, Len(box), run, hand, ring, Len(ring), j)
    BY PlacesAre
  <1>4. \A n, v \in Nat : <<n, v>> \in U <=> At(n, v, box, Len(box), run, hand, ring2, Len(ring2), j)
    BY <1>1, PlacesAre
  <1>5. Ordered(T) /\ \A v \in Values(T) : v < p
    OBVIOUS
  <1> HIDE DEF T, U
  <1>6. PICK len \in Nat, size \in Nat : len = Len(box) /\ size = Len(ring)
    BY <1>1
  <1>7. ASSUME NEW n \in Nat, NEW v \in Nat
        PROVE  <<n, v>> \in U <=> <<n, v>> \in T \/ (n = last /\ v = p)
    <2>1. At(n, v, box, len, run, hand, ring2, size + 1, j) <=>
            At(n, v, box, len, run, hand, ring, size, j) \/ (n = len + 1 + size + 1 /\ v = p)
      <3>1. CASE n = len + 1 + size + 1
        BY <1>1, <1>6, <3>1 DEF At
      <3>2. CASE n # len + 1 + size + 1
        <4>1. n - (len + 1) \in 1..(size + 1) <=> n - (len + 1) \in 1..size
          BY <3>2
        <4>2. n - (len + 1) \in 1..size => ring2[n - (len + 1)] = ring[n - (len + 1)]
          BY <1>1, <1>6
        <4> QED BY <3>2, <4>1, <4>2 DEF At
      <3> QED BY <3>1, <3>2
    <2> QED BY <1>1, <1>3, <1>4, <1>6, <2>1
  <1>8. \A n, v \in Nat : <<n, v>> \in T => n < last
    <2>1. ASSUME NEW n \in Nat, NEW v \in Nat, At(n, v, box, len, run, hand, ring, size, j)
          PROVE  n < len + 1 + size + 1
      BY <2>1 DEF At
    <2> QED BY <1>3, <1>6, <2>1
  <1> HIDE DEF last
  <1>9. ASSUME NEW a \in U, NEW b \in U, a[1] < b[1]
        PROVE  a[2] < b[2]
    <2>1. PICK m \in Nat, v \in Nat, n \in Nat, w \in Nat : a = <<m, v>> /\ b = <<n, w>>
      BY <1>2
    <2>2. <<m, v>> \in T
      BY <1>1, <1>7, <1>8, <1>9, <2>1
    <2>3. CASE <<n, w>> \in T
      BY <1>5, <1>9, <2>1, <2>2, <2>3 DEF Ordered
    <2>4. CASE w = p
      BY <1>5, <2>1, <2>2, <2>4 DEF Values
    <2> QED BY <1>7, <2>1, <2>3, <2>4
  <1>10. Values(U) = Values(T) \cup {p}
    <2>1. \A a \in U : a \in T \/ a = <<last, p>>
      BY <1>2, <1>7
    <2>2. <<last, p>> \in U /\ T \subseteq U
      BY <1>1, <1>2, <1>7
    <2> QED BY <2>1, <2>2 DEF Values
  <1> QED BY <1>9, <1>10 DEF Ordered, T, U, ring2

\* The handler's end takes the oldest value, a cancellation the newest ones.
LEMMA FinishRests ==
  ASSUME NEW box \in Seq(Commands), NEW run \in Runs, NEW hand \in Nat, NEW ring \in Seq(Nat),
         NEW j \in Jobs, NEW T, NEW U, T = Places(box, run, hand, ring, j), Ordered(T),
         U = Places(box, Idle, hand, ring, j)
  PROVE  U \subseteq T /\ \A a \in T \ U : \A b \in U : a[2] < b[2]
  <1>1. /\ T \in SUBSET (Nat \X Nat)
        /\ \A n, v \in Nat : <<n, v>> \in T <=> At(n, v, box, Len(box), run, hand, ring, Len(ring), j)
    BY PlacesAre
  <1>2. /\ U \in SUBSET (Nat \X Nat)
        /\ \A n, v \in Nat : <<n, v>> \in U <=> At(n, v, box, Len(box), Idle, hand, ring, Len(ring), j)
    BY CommandTypes, PlacesAre
  <1>3. Idle.job # j
    BY CommandTypes DEF Idle, Run
  <1>4. PICK len \in Nat, size \in Nat : len = Len(box) /\ size = Len(ring)
    OBVIOUS
  <1>5. ASSUME NEW n \in Nat, NEW v \in Nat
        PROVE  <<n, v>> \in U <=> <<n, v>> \in T /\ n # 0
    <2>1. At(n, v, box, len, Idle, hand, ring, size, j) <=>
            At(n, v, box, len, run, hand, ring, size, j) /\ n # 0
      BY <1>3 DEF At
    <2> QED BY <1>1, <1>2, <1>4, <2>1
  <1>6. U \subseteq T /\ \A a \in T \ U : \A b \in U : a[1] < b[1]
    BY <1>1, <1>2, <1>5
  <1> QED BY <1>6 DEF Ordered

\* What a cancelled subscription drops is behind what stays (its feed and the value it holds).
LEMMA CancelRests ==
  ASSUME NEW box \in Seq(Commands), NEW run \in Runs, NEW hand \in Nat, NEW ring \in Seq(Nat),
         NEW j \in Jobs, NEW T, NEW U, T = Places(box, run, hand, ring, j), Ordered(T),
         U = Places(box, run, 0, <<>>, j)
  PROVE  U \subseteq T /\ \A a \in T \ U : \A b \in U : b[2] < a[2]
  <1>1. /\ T \in SUBSET (Nat \X Nat)
        /\ \A n, v \in Nat : <<n, v>> \in T <=> At(n, v, box, Len(box), run, hand, ring, Len(ring), j)
    BY PlacesAre
  <1>2. PICK len \in Nat, size \in Nat : len = Len(box) /\ size = Len(ring)
    OBVIOUS
  <1>3. PICK none \in Seq(Nat) : none = <<>> /\ Len(none) = 0
    <2>1. <<>> \in Seq(Nat) /\ Len(<<>>) = 0
      OBVIOUS
    <2> QED BY <2>1
  <1>4. /\ U \in SUBSET (Nat \X Nat)
        /\ \A n, v \in Nat : <<n, v>> \in U <=> At(n, v, box, len, run, 0, none, 0, j)
    <2>1. /\ Places(box, run, 0, none, j) \in SUBSET (Nat \X Nat)
          /\ \A n, v \in Nat : <<n, v>> \in Places(box, run, 0, none, j) <=>
               At(n, v, box, Len(box), run, 0, none, Len(none), j)
      BY PlacesAre
    <2> QED BY <1>2, <1>3, <2>1
  <1>5. ASSUME NEW n \in Nat, NEW v \in Nat
        PROVE  <<n, v>> \in U <=> <<n, v>> \in T /\ n <= len
    <2>1. At(n, v, box, len, run, 0, none, 0, j) <=>
            At(n, v, box, len, run, hand, ring, size, j) /\ n <= len
      BY DEF At
    <2> QED BY <1>1, <1>2, <1>4, <2>1
  <1>6. U \subseteq T /\ \A a \in T \ U : \A b \in U : b[1] < a[1]
    BY <1>1, <1>4, <1>5
  <1> QED BY <1>6 DEF Ordered

\* What remains of ordered values is ordered, and has no gaps if they had none.
LEMMA RestOrdered ==
  ASSUME NEW T \in SUBSET (Nat \X Nat), NEW U \in SUBSET T, Ordered(T),
         \/ \A a \in T \ U : \A b \in U : a[2] < b[2]
         \/ \A a \in T \ U : \A b \in U : b[2] < a[2]
  PROVE  Thins(T, U) /\ (Gapless(Values(T)) => Gapless(Values(U)))
  <1>1. Thins(T, U)
    BY DEF Thins, Ordered, Values
  <1>2. ASSUME Gapless(Values(T)), NEW v \in Values(U), NEW w \in Values(U), NEW u \in v..w
        PROVE  u \in Values(U)
    <2>1. v \in Nat /\ w \in Nat /\ v <= u /\ u <= w /\ u \in Nat
      BY <1>2 DEF Values
    <2>2. PICK a \in T : a[2] = u
      BY <1>1, <1>2 DEF Thins, Gapless, Values
    <2>3. PICK b \in U, c \in U : b[2] = v /\ c[2] = w
      BY DEF Values
    <2>4. a \in U
      BY <2>1, <2>2, <2>3
    <2> QED BY <2>2, <2>4 DEF Values
  <1> QED BY <1>1, <1>2 DEF Gapless

\* The values of subscription j are in order; unless it lagged, none is missing
\* between two of them, nor between them and the next that is published.
InLine(j) ==
  /\ Ordered(InTransit(j))
  /\ ~lagged[j] => Gapless(Values(InTransit(j)))
  /\ Values(InTransit(j)) \subseteq 1..published.channel
  /\ ~lagged[j] /\ Subscribed(j) /\ Values(InTransit(j)) # {} =>
       published.channel \in Values(InTransit(j))
  /\ state[j] = "sending" => held[j] # 0
  /\ state[j] = "unset" => Values(InTransit(j)) = {}

LineInv == \A j \in Jobs : kind[j] = "subscription" => InLine(j)

\* The places of this state and of the next.
LEMMA InTransitIs ==
  ASSUME NEW j \in Jobs
  PROVE  /\ InTransit(j) = Places(mailbox, running, held[j], feed[j], j)
         /\ InTransit(j)' = Places(mailbox', running', held'[j], feed'[j], j)
  BY DEF InTransit, Places

\* No step lets a value of a channel overtake another.
LEMMA LineStep ==
  ASSUME Typed, LineInv, [Next]_vars
  PROVE  LineInv'
  <1> SUFFICES ASSUME NEW j \in Jobs, kind'[j] = "subscription"
               PROVE  InLine(j)'
    BY DEF LineInv
  <1>1. /\ mailbox \in Seq(Commands) /\ running \in Runs /\ held[j] \in Nat /\ feed[j] \in Seq(Nat)
        /\ held \in [Jobs -> Nat] /\ feed \in [Jobs -> Seq(Nat)] /\ lagged \in [Jobs -> BOOLEAN]
        /\ state \in [Jobs -> States]
        /\ published \in [channel : Nat, files : Nat] /\ published.channel \in Nat
    BY DEF Typed, TypeOK
  <1>2. /\ actor = "idle" => running = Idle
        /\ held[j] # 0 => state[j] = "sending"
        /\ state[j] = "firing" => kind[j] = "alarm"
        /\ state[j] = "parting" => kind[j] = "socket"
        /\ state[j] = "asking" => kind[j] = "task"
    BY DEF Typed, StateFits, Bookkept
  <1>3. Idle.job # j /\ TerminateCmd.job # j /\ None # j
    BY CommandTypes DEF Idle, Run, TerminateCmd
  <1>4. kind[j] = "subscription" => InLine(j)
    BY DEF LineInv
  <1> DEFINE T == Places(mailbox, running, held[j], feed[j], j)
             U == Places(mailbox', running', held'[j], feed'[j], j)
  <1>5. kind[j] = "subscription" =>
          /\ Ordered(T) /\ Values(T) \subseteq 1..published.channel
          /\ ~lagged[j] => Gapless(Values(T))
          /\ ~lagged[j] /\ Subscribed(j) /\ Values(T) # {} => published.channel \in Values(T)
          /\ state[j] = "sending" => held[j] # 0
          /\ state[j] = "unset" => Values(T) = {}
    BY <1>4, InTransitIs DEF InLine
  <1> HIDE DEF T, U
  \* It suffices to show the same of the new places.
  <1>6. ASSUME Ordered(U), ~lagged'[j] => Gapless(Values(U)),
               Values(U) \subseteq 1..published'.channel,
               ~lagged'[j] /\ Subscribed(j)' /\ Values(U) # {} => published'.channel \in Values(U),
               state'[j] = "sending" => held'[j] # 0,
               state'[j] = "unset" => Values(U) = {}
        PROVE  InLine(j)'
    <2>1. InTransit(j)' = U
      BY InTransitIs DEF U
    <2> QED BY <1>6, <2>1 DEF InLine
  \* Which follows when the values have kept their order.
  <1>7. ASSUME Keeps(T, U), UNCHANGED kind, lagged'[j] = lagged[j],
               published'.channel = published.channel,
               Subscribed(j)' => Subscribed(j) \/ state[j] = "unset",
               state'[j] = "sending" => held'[j] # 0,
               state'[j] = "unset" => state[j] = "unset"
        PROVE  InLine(j)'
    BY <1>5, <1>6, <1>7 DEF Keeps
  \* Or when the newest of them are lost with their subscription.
  <1>8. ASSUME UNCHANGED <<kind, lagged, mailbox, running, published>>, state'[j] = "ended",
                held'[j] = 0, feed'[j] = <<>>
         PROVE  InLine(j)'
    <2>1. U = Places(mailbox, running, 0, <<>>, j)
      BY <1>8 DEF U
    <2>2. U \subseteq T /\ \A a \in T \ U : \A b \in U : b[2] < a[2]
      BY <1>1, <1>5, <1>8, <2>1, CancelRests DEF T
    <2>3. T \in SUBSET (Nat \X Nat)
      BY <1>1, PlacesAre DEF T
    <2>4. Thins(T, U) /\ (Gapless(Values(T)) => Gapless(Values(U)))
      BY <1>5, <1>8, <2>2, <2>3, RestOrdered
    <2> QED BY <1>5, <1>6, <1>8, <2>4 DEF Thins, Subscribed
  <1>9. CASE Calm
    <2>1. U = T
      BY <1>9 DEF Calm, T, U
    <2>2. UNCHANGED <<kind, lagged, held>> /\ published'.channel = published.channel
      BY <1>9 DEF Calm
    <2>3. state'[j] = state[j] \/ (state[j] = "unset" /\ state'[j] = "waiting")
      BY <1>9 DEF Calm
    <2> QED BY <1>5, <1>7, <2>1, <2>2, <2>3 DEF Keeps, Subscribed
  <1>10. ASSUME NEW c \in Commands, Queues(c)
        PROVE  InLine(j)'
    <2>1. UNCHANGED <<kind, state, lagged, held, feed, running, published>>
          /\ mailbox' = Append(mailbox, c) /\ c.job # j
      BY <1>3, <1>10 DEF Queues, Push
    <2>2. Keeps(T, U)
      BY <1>1, <1>5, <2>1, QueueKeeps DEF T, U
    <2> QED BY <1>5, <1>7, <2>1, <2>2 DEF Subscribed
  <1>11. ASSUME NEW k \in Jobs, Deliver(k)
         PROVE  InLine(j)'
    <2>1. /\ UNCHANGED <<kind, lagged, feed, running, published>>
          /\ mailbox' = Append(mailbox, Run(k, held[k])) /\ held' = [held EXCEPT ![k] = 0]
          /\ state' = [state EXCEPT ![k] = AfterSend(k)]
      BY <1>11 DEF Deliver, JobStep, Push, Become, jobVars
    <2>2. CASE k = j
      <3>1. state[j] = "sending" /\ state'[j] = "waiting" /\ held'[j] = 0
        BY <1>1, <1>2, <1>11, <2>1, <2>2 DEF Deliver, HoldsLink, AfterSend
      <3>2. held[j] # 0
        BY <1>5, <2>1, <3>1
      <3>3. Keeps(T, U)
        BY <1>1, <1>5, <2>1, <2>2, <3>1, <3>2, DeliverKeeps DEF T, U
      <3> QED BY <1>5, <1>7, <2>1, <3>1, <3>3 DEF Subscribed
    <2>3. CASE k # j
      <3>1. Run(k, held[k]) \in Commands /\ Run(k, held[k]).job # j
        BY <1>1, <2>3, CommandTypes DEF Run
      <3>2. Keeps(T, U)
        BY <1>1, <1>5, <2>1, <2>3, <3>1, QueueKeeps DEF T, U
      <3> QED BY <1>1, <1>5, <1>7, <2>1, <2>3, <3>2 DEF Subscribed
    <2> QED BY <2>2, <2>3
  <1>12. ASSUME NEW k \in Jobs, ReceiveValue(k)
         PROVE  InLine(j)'
    <2>1. /\ UNCHANGED <<kind, lagged, mailbox, running, published>> /\ state[k] = "waiting"
          /\ feed[k] # <<>>
      BY <1>12 DEF ReceiveValue, JobStep
    <2>2. CASE k # j
      <3>1. held'[j] = held[j] /\ feed'[j] = feed[j] /\ state'[j] = state[j]
        <4>1. CASE registered
          BY <1>1, <1>12, <2>2, <4>1 DEF ReceiveValue, Become
        <4>2. CASE ~registered /\ kind[k] = "watcher"
          BY <1>1, <1>12, <2>2, <4>2 DEF ReceiveValue, Become
        <4>3. CASE ~registered /\ kind[k] # "watcher"
          BY <1>1, <1>12, <2>2, <4>3 DEF ReceiveValue, Become
        <4> QED BY <4>1, <4>2, <4>3
      <3>2. U = T
        BY <2>1, <3>1 DEF T, U
      <3> QED BY <1>5, <1>7, <2>1, <3>1, <3>2 DEF Keeps, Subscribed
    <2>3. CASE k = j /\ registered
      <3>1. /\ held'[j] = Head(feed[j]) /\ feed'[j] = Tail(feed[j]) /\ state'[j] = "sending"
            /\ held[j] = 0
        BY <1>1, <1>2, <1>12, <2>1, <2>3 DEF ReceiveValue, Become
      <3>2. feed[j][1] # 0 /\ feed[j][1] = Head(feed[j])
        <4>1. Len(feed[j]) \in Nat /\ Len(feed[j]) > 0 /\ feed[j][1] \in Nat /\ Len(mailbox) \in Nat
          BY <1>1, <2>1, <2>3, QueueFacts
        <4>2. At(Len(mailbox) + 2, feed[j][1], mailbox, Len(mailbox), running, held[j], feed[j],
                 Len(feed[j]), j)
          BY <4>1 DEF At
        <4>3. <<Len(mailbox) + 2, feed[j][1]>> \in T
          BY <1>1, <4>1, <4>2, PlacesAre DEF T
        <4>4. feed[j][1] \in Values(T)
          BY <4>3 DEF Values
        <4> QED BY <1>1, <1>5, <2>1, <2>3, <4>4, QueueFacts
      <3>3. Keeps(T, U)
        BY <1>1, <1>5, <2>1, <2>3, <3>1, <3>2, ReceiveKeeps DEF T, U
      <3> QED BY <1>5, <1>7, <2>1, <2>3, <3>1, <3>2, <3>3 DEF Subscribed
    <2>4. CASE k = j /\ ~registered
      <3>1. /\ held'[j] = 0 /\ feed'[j] = <<>> /\ state'[j] = "ended"
        BY <1>1, <1>2, <1>12, <2>1, <2>4 DEF ReceiveValue, Become
      <3> QED BY <1>8, <2>1, <3>1
    <2> QED BY <2>2, <2>3, <2>4
  <1>13. ASSUME NEW k \in Jobs, Cancelled(k)
         PROVE  InLine(j)'
    <2>1. /\ UNCHANGED <<kind, lagged, mailbox, running, published>>
          /\ state' = [state EXCEPT ![k] = "ended"] /\ feed' = [feed EXCEPT ![k] = <<>>]
          /\ held' = [held EXCEPT ![k] = 0]
      BY <1>13 DEF Cancelled, JobStep, Become
    <2>2. CASE k # j
      <3>1. U = T
        BY <1>1, <2>1, <2>2 DEF T, U
      <3> QED BY <1>1, <1>5, <1>7, <2>1, <2>2, <3>1 DEF Keeps, Subscribed
    <2>3. CASE k = j
      BY <1>1, <1>8, <2>1, <2>3
    <2> QED BY <2>2, <2>3
  <1>14. CASE Handle
    <2>1. /\ UNCHANGED <<kind, lagged, state, held, feed, published>>
          /\ mailbox # <<>> /\ mailbox' = Tail(mailbox) /\ running' = Head(mailbox)
          /\ running.job # j
      BY <1>2, <1>3, <1>14 DEF Handle, jobVars
    <2>2. Head(mailbox) \in Runs
      BY <1>1, <1>14, CommandTypes, QueueFacts DEF Handle
    <2>3. Keeps(T, U)
      BY <1>1, <1>5, <2>1, <2>2, HandleKeeps DEF T, U
    <2> QED BY <1>5, <1>7, <2>1, <2>3 DEF Subscribed
  <1>15. CASE Terminate
    <2>1. /\ UNCHANGED <<kind, lagged, state, held, feed, published, running>>
          /\ mailbox # <<>> /\ mailbox' = Tail(mailbox) /\ running.job # j
      BY <1>2, <1>3, <1>15 DEF Terminate
    <2>2. Head(mailbox).job # j
      BY <1>1, <1>3, <1>15, CommandTypes, QueueFacts DEF Terminate
    <2>3. Keeps(T, U)
      BY <1>1, <1>5, <2>1, <2>2, DropKeeps DEF T, U
    <2> QED BY <1>5, <1>7, <2>1, <2>3 DEF Subscribed
  <1>16. CASE Publish
    <2>1. /\ UNCHANGED <<kind, mailbox, running, state, held>>
          /\ published'.channel = published.channel + 1
      BY <1>1, <1>16 DEF Publish
    <2>2. CASE ~Subscribed(j)
      <3>1. feed'[j] = feed[j] /\ lagged'[j] = lagged[j]
        BY <1>1, <1>16, <2>2 DEF Publish
      <3>2. U = T
        BY <2>1, <3>1 DEF T, U
      <3> QED BY <1>1, <1>5, <1>6, <2>1, <2>2, <3>1, <3>2 DEF Subscribed
    <2>3. CASE Subscribed(j)
      <3>1. PICK ring \in Seq(Nat) :
              /\ Thins(T, Places(mailbox, running, held[j], ring, j))
              /\ feed'[j] = Append(ring, published.channel + 1)
              /\ ring = feed[j] \/ lagged'[j]
        <4>1. CASE Len(feed[j]) = FeedCapacity
          <5>1. feed[j] # <<>>
            BY <4>1, BoundsAssumption
          <5>2. Tail(feed[j]) \in Seq(Nat)
            BY <1>1, <5>1, QueueFacts
          <5>3. Thins(T, Places(mailbox, running, held[j], Tail(feed[j]), j))
            BY <1>1, <1>5, <2>1, <5>1, LoseOrdered DEF T
          <5>4. feed'[j] = Append(Tail(feed[j]), published.channel + 1) /\ lagged'[j]
            BY <1>1, <1>16, <2>3, <4>1 DEF Publish
          <5> QED BY <5>2, <5>3, <5>4
        <4>2. CASE Len(feed[j]) # FeedCapacity
          <5>1. feed'[j] = Append(feed[j], published.channel + 1)
            BY <1>1, <1>16, <2>3, <4>2 DEF Publish
          <5>2. Thins(T, T)
            BY <1>5, <2>1 DEF Thins
          <5> QED BY <1>1, <5>1, <5>2 DEF T
        <4> QED BY <4>1, <4>2
      <3> DEFINE R == Places(mailbox, running, held[j], ring, j)
      <3>2. Ordered(R) /\ Values(R) \subseteq 1..published.channel
        BY <1>5, <2>1, <3>1 DEF Thins
      <3>3. \A v \in Values(R) : v < published.channel + 1
        BY <1>1, <3>2
      <3>4. Ordered(U) /\ Values(U) = Values(R) \cup {published.channel + 1}
        <4>1. PICK p \in Nat, hand \in Nat : p = published.channel + 1 /\ hand = held[j]
          BY <1>1
        <4>2. Ordered(Places(mailbox, running, hand, ring, j))
          BY <3>2, <4>1
        <4>3. \A v \in Values(Places(mailbox, running, hand, ring, j)) : v < p
          BY <3>3, <4>1
        <4>4. /\ Ordered(Places(mailbox, running, hand, Append(ring, p), j))
              /\ Values(Places(mailbox, running, hand, Append(ring, p), j)) =
                   Values(Places(mailbox, running, hand, ring, j)) \cup {p}
          BY <1>1, <4>2, <4>3, PublishAdds
        <4> QED BY <1>1, <2>1, <3>1, <4>1, <4>4 DEF U
      <3>5. lagged'[j] \/ (R = T /\ ~lagged[j])
        BY <1>1, <1>16, <3>1 DEF Publish, T
      <3> HIDE DEF R
      <3>6. ASSUME ~lagged'[j]
            PROVE  Gapless(Values(U))
        <4>1. R = T /\ Gapless(Values(T)) /\ (Values(T) # {} => published.channel \in Values(T))
          BY <1>5, <2>1, <2>3, <3>5, <3>6
        <4>2. Values(T) \subseteq 1..published.channel
          BY <1>5, <2>1
        <4>3. ASSUME NEW v \in Values(U), NEW w \in Values(U), NEW u \in v..w
              PROVE  u \in Values(U)
          <5>1. v \in Nat /\ w \in Nat
            BY <1>1, <3>4, <4>1, <4>2, <4>3
          <5>2. CASE v = published.channel + 1
            BY <1>1, <3>4, <4>1, <4>2, <4>3, <5>1, <5>2
          <5>3. CASE v \in Values(T) /\ w \in Values(T)
            BY <3>4, <4>1, <5>3 DEF Gapless
          <5>4. CASE v \in Values(T) /\ w = published.channel + 1
            <6>1. CASE u = published.channel + 1
              BY <3>4, <6>1
            <6>2. CASE u # published.channel + 1
              <7>1. u \in v..published.channel
                BY <1>1, <4>3, <5>1, <5>4, <6>2
              <7> QED BY <3>4, <4>1, <5>4, <7>1 DEF Gapless
            <6> QED BY <6>1, <6>2
          <5> QED BY <3>4, <4>1, <5>2, <5>3, <5>4
        <4> QED BY <4>3 DEF Gapless
      <3>7. Values(U) \subseteq 1..published'.channel /\ published'.channel \in Values(U)
        BY <1>1, <2>1, <3>2, <3>4
      <3> QED BY <1>5, <1>6, <2>1, <2>3, <3>4, <3>6, <3>7 DEF Subscribed
    <2> QED BY <2>2, <2>3
  <1>17. ASSUME NEW result \in {"answered", "failed"}, Finish(result)
         PROVE  InLine(j)'
    <2>1. /\ UNCHANGED <<kind, mailbox, held, feed, lagged, published>> /\ running' = Idle
      BY <1>17 DEF Finish, jobVars
    <2>2. state'[j] = state[j]
      BY <1>1, <1>2, <1>17, <2>1 DEF Finish
    <2>3. U = Places(mailbox, Idle, held[j], feed[j], j)
      BY <2>1 DEF U
    <2>4. U \subseteq T /\ \A a \in T \ U : \A b \in U : a[2] < b[2]
      BY <1>1, <1>5, <2>1, <2>3, FinishRests DEF T
    <2>5. T \in SUBSET (Nat \X Nat)
      BY <1>1, PlacesAre DEF T
    <2>6. Thins(T, U) /\ (Gapless(Values(T)) => Gapless(Values(U)))
      BY <1>5, <2>1, <2>4, <2>5, RestOrdered
    <2>7. published.channel \in Values(T) /\ Values(U) # {} => published.channel \in Values(U)
      <3>1. SUFFICES ASSUME NEW a \in T, a[2] = published.channel, NEW b \in U
                     PROVE  a \in U
        BY DEF Values
      <3>2. b[2] \in 1..published.channel
        BY <1>5, <2>1, <2>4 DEF Values
      <3> QED BY <1>1, <2>4, <3>1, <3>2
    <2> QED BY <1>5, <1>6, <2>1, <2>2, <2>6, <2>7 DEF Thins, Subscribed
  <1> QED BY <1>9, <1>10, <1>11, <1>12, <1>13, <1>14, <1>15, <1>16, <1>17, CommandShapeOfSteps
             DEF CommandShape

\* An actor handles a channel's values in the order of publication, each once, and
\* misses none unless its receiver lagged: through the broadcast ring, the hands
\* of the subscription's task (pubsub.rs:97) and the mailbox.
THEOREM ValuesInOrder == Spec => []InPublishedOrder
  <1>1. Init => LineInv
    <2> SUFFICES ASSUME Init, NEW j \in Jobs
                 PROVE  InLine(j)
      BY DEF LineInv
    <2>1. /\ mailbox = <<>> /\ running = Idle /\ held[j] = 0 /\ feed[j] = <<>>
          /\ state[j] = "unset"
      BY DEF Init
    <2>2. InTransit(j) = {}
      BY <2>1, CommandTypes DEF InTransit, Idle, Run
    <2> QED BY <2>1, <2>2 DEF InLine, Ordered, Values, Subscribed, Gapless
  <1>2. Typed /\ LineInv /\ [Next]_vars => LineInv'
    BY LineStep
  <1>3. LineInv => InPublishedOrder
    BY DEF LineInv, InLine, InPublishedOrder, Ordered, Gapless, Values
  <1> QED BY <1>1, <1>2, <1>3, TypeCorrect, PTL DEF Spec
=============================================================================
