------------------------- MODULE DebugSessionsProofs -------------------------
(***************************************************************************)
(* Theorems about DebugSessions and the installer it shares, for any        *)
(* versions, import graphs, modules, configuration and others.              *)
(***************************************************************************)
EXTENDS DebugSessions, FiniteSetTheorems, WellFoundedInduction, TLAPS

-----------------------------------------------------------------------------
(* Types.                                                                  *)

Compiled == [id : Versions, sent : Nat, links : SUBSET Nat]
Frames == [id : Versions, sent : Nat, phase : {"fetching", "importing"},
           todo : SUBSET Versions, links : SUBSET Nat]
TaskStates == [status : {"idle", "busy", "done", "failed"}, stack : Seq(Frames), result : Nat]

InstallerTypes ==
  /\ imports \in [Versions -> SUBSET Versions]
  /\ modules \in Seq(Compiled)
  /\ task \in [Installers -> TaskStates]
  /\ \A t \in Installers : Busy(t) <=> task[t].stack # <<>>

-----------------------------------------------------------------------------
(* The installer's invariant.                                              *)

Ids(links) == {modules[l].id : l \in links}

\* What is listed is complete, and was so when it was listed.
ListWhole ==
  \A i \in DOMAIN modules :
    /\ modules[i].links \subseteq 1..(i - 1)
    /\ Ids(modules[i].links) = imports[modules[i].id]

\* An import of a call in progress is linked to, still to be resolved, or what
\* the call above it installs.  Only the innermost call can be fetching.
CallWhole(stack, n) ==
  /\ stack[n].links \subseteq DOMAIN modules
  /\ stack[n].phase = "fetching" => n = 1 /\ stack[n].links = {}
  /\ stack[n].phase = "importing" =>
       imports[stack[n].id] =
         Ids(stack[n].links) \cup stack[n].todo \cup (IF n = 1 THEN {} ELSE {stack[n - 1].id})

Whole(stack) == \A n \in DOMAIN stack : CallWhole(stack, n)
CallsWhole == \A t \in Installers : Whole(task[t].stack)

\* One of the calls is for id and will list a copy; the installer is in such a call.
CallsFor(stack, id) == \E n \in DOMAIN stack : stack[n].id = id /\ stack[n].sent = 0
Pending(t, id) == CallsFor(task[t].stack, id)

\* Each copy of a version can be put down to an installer of its own, which will
\* list no other one.
CopiesOwned ==
  \A id \in Versions :
    \E own \in [Copies(id) -> Installers] :
      /\ \A i, j \in Copies(id) : own[i] = own[j] => i = j
      /\ \A i \in Copies(id) : ~Pending(own[i], id)

InstallerInv == InstallerTypes /\ ListWhole /\ CallsWhole /\ CopiesOwned

\* What the lookup finds.
First(q, id) == SelectInSeq(q, LAMBDA m : m.id = id)

-----------------------------------------------------------------------------
(* The invariant of the sessions.                                          *)

Entries == [session : Nat, module : Nat, number : Nat, expired : BOOLEAN]
Phases == {"reading", "loading", "resolving", "starting", "running", "draining", "failed"}

SessionTypes ==
  /\ inbox \in Seq(Commands)
  /\ agent \in Commands \cup {None}
  /\ entries \in [Modules -> Entries]
  /\ snapshot \in [Modules -> Entries]
  /\ sessions \in Nat
  /\ phase \in Phases
  /\ managers \subseteq [module : Nat, session : Nat]
  /\ reloads \in Nat
  /\ used \in [Modules -> Nat]

NoneSent(session) == \A i \in DOMAIN modules : modules[i].sent # session

\* A session is entered with the version it has brought, or has listed none.
EntryFits(e) ==
  /\ e.session <= sessions /\ (agent # None => e.session < sessions)
  /\ e.module # 0 => /\ e.module \in DOMAIN modules /\ e.session # 0
                     /\ modules[e.module].sent = e.session
  /\ e.module = 0 /\ e.session # 0 => NoneSent(e.session)
  /\ e.module = 0 <=> e.number = 0

EntriesFit == \A m \in Modules : EntryFits(entries[m]) /\ EntryFits(snapshot[m])

\* While the agent installs, the last session is the one whose version it is.
AgentFits ==
  /\ \A i \in DOMAIN modules : modules[i].sent <= sessions
  /\ agent = None => task[Agent].status = "idle"
  /\ agent # None => /\ sessions # 0 /\ agent.op \in {"enable", "run"}
                     /\ task[Agent].status # "idle"
  /\ \A t \in Installers : \A n \in DOMAIN task[t].stack :
       task[t].stack[n].sent # 0 =>
         t = Agent /\ n = Len(task[t].stack) /\ task[t].stack[n].sent = sessions
  /\ task[Agent].status = "busy" => task[Agent].stack[Len(task[Agent].stack)].sent = sessions
  /\ task[Agent].status \in {"busy", "failed"} => NoneSent(sessions)
  /\ task[Agent].status = "done" => /\ task[Agent].result \in DOMAIN modules
                                    /\ modules[task[Agent].result].sent = sessions

\* A configured module is resolved to what its session has brought, or to the
\* deployed version.
ConfigFits(m) ==
  LET k == task[m] IN
    /\ phase # "resolving" => k.status = "idle"
    /\ k.status \in {"idle", "busy"} /\ phase = "resolving" => snapshot[m].module = 0
    /\ k.status = "busy" => k.stack[Len(k.stack)].id = Deployed[m]
    /\ k.status = "done" =>
         /\ k.result \in DOMAIN modules
         /\ snapshot[m].module # 0 => k.result = snapshot[m].module
         /\ snapshot[m].module = 0 =>
              /\ modules[k.result].id = Deployed[m]
              /\ modules[k.result].sent = 0 \/ First(modules, Deployed[m]) = k.result
    /\ k.status = "failed" => k.result = 0

ConfiguredFit == \A m \in Configured : ConfigFits(m)

RunsDue(a) ==
  LET code == modules[a.module] IN
    /\ code.sent # 0 =>
         \/ code.sent = a.session
         \/ First(modules, code.id) = a.module /\ \E m \in Configured : Deployed[m] = code.id
    /\ code.sent = 0 => \A i \in DOMAIN modules : modules[i].sent = 0
                                                  \/ modules[i].sent # a.session

\* An actor fits the sessions there have been.
Fits(a) ==
  /\ a.module \in DOMAIN modules
  /\ a.session <= sessions /\ (agent # None => a.session < sessions)
  /\ RunsDue(a)

ManagersFit == \A a \in managers : Fits(a)

SessionInv == SessionTypes /\ EntriesFit /\ AgentFits /\ ConfiguredFit /\ ManagersFit

\* The versions entered for a module are no more than the operator's commands:
\* each command is in the channel, being installed, or counted.
AskedIn(q) == {i \in DOMAIN q : q[i].origin = "operator"}
InProgress == IF agent = None THEN 0 ELSE 1
UsedFits ==
  /\ commands \in Nat /\ commands <= MaxCommands
  /\ \A i \in DOMAIN inbox : inbox[i].op # "disable" => inbox[i].origin = "operator"
  /\ \A m \in Modules : used[m] + Cardinality(AskedIn(inbox)) + InProgress <= commands

-----------------------------------------------------------------------------
(* Operators.                                                              *)

\* The least of some positions.
LEMMA LeastOf ==
  ASSUME NEW S \in SUBSET Nat, S # {}
  PROVE  \E n \in S : \A m \in S : n <= m
  <1>1. IsWellFoundedOn(OpToRel(<, Nat), Nat)
    BY NatLessThanWellFounded
  <1>2. PICK n \in S : \A m \in S : <<m, n>> \notin OpToRel(<, Nat)
    BY <1>1, WFMin
  <1>3. \A m \in S : ~(m < n)
    BY <1>2 DEF OpToRel
  <1> QED BY <1>3

\* The lookup finds the first of the modules with that id.
LEMMA FirstOf ==
  ASSUME NEW id, NEW q \in Seq(Compiled)
  PROVE  /\ First(q, id) \in Nat
         /\ First(q, id) = 0 => \A i \in DOMAIN q : q[i].id # id
         /\ First(q, id) # 0 => /\ First(q, id) \in DOMAIN q /\ q[First(q, id)].id = id
                               /\ \A i \in DOMAIN q : q[i].id = id => First(q, id) <= i
  <1> DEFINE at == {i \in 1..Len(q) : q[i].id = id}
  <1>1. First(q, id) = IF at # {} THEN Min(at) ELSE 0
    BY DEF First, SelectInSeq
  <1>2. at \subseteq Nat /\ DOMAIN q = 1..Len(q)
    OBVIOUS
  <1>3. CASE at = {}
    BY <1>1, <1>2, <1>3
  <1>4. CASE at # {}
    <2>1. \E n \in at : \A m \in at : n <= m
      BY <1>2, <1>4, LeastOf
    <2>2. Min(at) \in at /\ \A m \in at : Min(at) <= m
      BY <2>1 DEF Min
    <2> QED BY <1>1, <1>2, <1>4, <2>2
  <1> QED BY <1>3, <1>4

\* The model's Find is that lookup.
LEMMA FindFacts ==
  ASSUME NEW id, modules \in Seq(Compiled)
  PROVE  /\ Find(id) \in Nat
         /\ Find(id) = 0 => \A i \in DOMAIN modules : modules[i].id # id
         /\ Find(id) # 0 => /\ Find(id) \in DOMAIN modules /\ modules[Find(id)].id = id
                            /\ \A i \in DOMAIN modules : modules[i].id = id => Find(id) <= i
  <1>1. Find(id) = First(modules, id)
    BY DEF Find, First
  <1> QED BY <1>1, FirstOf

\* Stacks of calls: one more call, another state of the innermost one, its end.
LEMMA StackFacts ==
  ASSUME NEW S, NEW s \in Seq(S), NEW f \in S
  PROVE  /\ <<f>> \o s \in Seq(S) /\ Len(<<f>> \o s) = Len(s) + 1 /\ (<<f>> \o s)[1] = f
         /\ <<f>> \o s # <<>>
         /\ \A n \in 2..(Len(s) + 1) : (<<f>> \o s)[n] = s[n - 1]
         /\ s # <<>> => /\ Head(s) = s[1] /\ s[1] \in S /\ Len(s) > 0
                        /\ Tail(s) \in Seq(S) /\ Len(Tail(s)) = Len(s) - 1
                        /\ \A n \in 1..(Len(s) - 1) : Tail(s)[n] = s[n + 1]
         /\ Len(s) \in Nat /\ DOMAIN s = 1..Len(s) /\ (s = <<>> <=> Len(s) = 0)
  <1>1. /\ <<f>> \o s \in Seq(S) /\ Len(<<f>> \o s) = Len(s) + 1 /\ (<<f>> \o s)[1] = f
        /\ \A n \in 2..(Len(s) + 1) : (<<f>> \o s)[n] = s[n - 1]
    <2>1. <<f>> \in Seq(S) /\ Len(<<f>>) = 1 /\ <<f>>[1] = f
      OBVIOUS
    <2> QED BY <2>1
  <1>2. <<f>> \o s # <<>>
    BY <1>1
  <1>3. ASSUME s # <<>>
        PROVE  /\ Head(s) = s[1] /\ s[1] \in S /\ Len(s) > 0
               /\ Tail(s) \in Seq(S) /\ Len(Tail(s)) = Len(s) - 1
               /\ \A n \in 1..(Len(s) - 1) : Tail(s)[n] = s[n + 1]
    BY <1>3
  <1> QED BY <1>1, <1>2, <1>3

\* A call that has been made and is over.
LEMMA PushedAndGone ==
  ASSUME NEW S, NEW s \in Seq(S), NEW f \in S
  PROVE  Head(<<f>> \o s) = f /\ Tail(<<f>> \o s) = s
  <1>1. PICK x \in Seq(S) : /\ x = <<f>> \o s /\ Len(x) = Len(s) + 1 /\ x # <<>> /\ x[1] = f
                            /\ \A n \in 2..(Len(s) + 1) : x[n] = s[n - 1]
    <2>1. /\ <<f>> \o s \in Seq(S) /\ Len(<<f>> \o s) = Len(s) + 1 /\ <<f>> \o s # <<>>
          /\ (<<f>> \o s)[1] = f /\ \A n \in 2..(Len(s) + 1) : (<<f>> \o s)[n] = s[n - 1]
      BY StackFacts
    <2> QED BY <2>1, Zenon
  <1>2. /\ Head(x) = f /\ Tail(x) \in Seq(S) /\ Len(Tail(x)) = Len(s)
        /\ \A n \in 1..Len(s) : Tail(x)[n] = s[n]
    <2>1. Len(s) \in Nat
      OBVIOUS
    <2>2. /\ Head(x) = x[1] /\ Tail(x) \in Seq(S) /\ Len(Tail(x)) = Len(x) - 1
          /\ \A n \in 1..(Len(x) - 1) : Tail(x)[n] = x[n + 1]
      BY <1>1, StackFacts
    <2> QED BY <1>1, <2>1, <2>2
  <1>3. PICK r \in Seq(S) : r = Tail(x) /\ Len(r) = Len(s) /\ \A n \in 1..Len(s) : r[n] = s[n]
    BY <1>2
  <1>4. r \in [1..Len(s) -> S] /\ s \in [1..Len(s) -> S]
    <2>1. \A q \in Seq(S) : q \in [1..Len(q) -> S]
      OBVIOUS
    <2> QED BY <1>3, <2>1
  <1>5. r = s
    BY <1>3, <1>4
  <1> QED BY <1>1, <1>2, <1>3, <1>5

\* The stack without its innermost call.
LEMMA Popped ==
  ASSUME NEW S, NEW s \in Seq(S), s # <<>>
  PROVE  \E r \in Seq(S) :
           r = Tail(s) /\ Len(r) = Len(s) - 1 /\ \A n \in 1..(Len(s) - 1) : r[n] = s[n + 1]
  <1>1. /\ Tail(s) \in Seq(S) /\ Len(Tail(s)) = Len(s) - 1
        /\ \A n \in 1..(Len(s) - 1) : Tail(s)[n] = s[n + 1]
    BY StackFacts
  <1> QED BY <1>1, Zenon

\* The task with other calls in progress.
With(k, x) == [status |-> k.status, stack |-> x, result |-> k.result]

\* What the updates of a task amount to.
LEMMA RecordFacts ==
  ASSUME NEW k \in TaskStates
  PROVE  /\ \A f : Within(k, f) = With(k, <<f>> \o Tail(k.stack))
         /\ Over(k) = With(k, Tail(k.stack))
         /\ \A x \in Seq(Frames) : With(k, x) \in TaskStates /\ With(k, x).stack = x
                                   /\ With(k, x).status = k.status
         /\ \A x, y : With(With(k, x), y) = With(k, y)
         /\ \A f : k.status = "busy" => Called(k, f) = With(k, <<f>> \o k.stack)
  <1> DEFINE Put(x) == [k EXCEPT !.stack = x]
  <1>0. \A x : Put(x) = With(k, x)
    BY DEF TaskStates, With
  <1>1. \A f : Within(k, f) = With(k, <<f>> \o Tail(k.stack))
    <2>1. \A f : Within(k, f) = Put(<<f>> \o Tail(k.stack))
      BY DEF TaskStates, Within
    <2> QED BY <1>0, <2>1
  <1>2. Over(k) = With(k, Tail(k.stack))
    <2>1. Over(k) = Put(Tail(k.stack))
      BY DEF TaskStates, Over
    <2> QED BY <1>0, <2>1
  <1>3. \A x \in Seq(Frames) : With(k, x) \in TaskStates
    BY DEF TaskStates, With
  <1>4. ASSUME NEW f, k.status = "busy"
        PROVE  Called(k, f) = With(k, <<f>> \o k.stack)
    <2>1. PICK j : j = [k EXCEPT !.status = "busy"]
      OBVIOUS
    <2>2. j = k
      BY <1>4, <2>1 DEF TaskStates
    <2>3. \A x : [k EXCEPT !.status = "busy", !.stack = x] = [j EXCEPT !.stack = x]
      BY <2>1, Zenon
    <2>4. Called(k, f) = [k EXCEPT !.status = "busy", !.stack = <<f>> \o k.stack]
      BY DEF Called, TaskStates
    <2>5. [k EXCEPT !.stack = <<f>> \o k.stack] = With(k, <<f>> \o k.stack)
      BY <1>0
    <2> QED BY <2>2, <2>3, <2>4, <2>5, Zenon
  <1> HIDE DEF Put
  <1> QED BY <1>1, <1>2, <1>3, <1>4 DEF With

\* The innermost call goes on (the update of Within).
LEMMA WithinIs ==
  ASSUME NEW k \in TaskStates, NEW f, NEW s, s = Tail(k.stack)
  PROVE  Within(k, f) = With(k, <<f>> \o s)
  <1>1. Within(k, f) = With(k, <<f>> \o Tail(k.stack))
    BY RecordFacts
  <1> QED BY <1>1

\* One more call (the update of Called).
LEMMA CalledIs ==
  ASSUME NEW k \in TaskStates, k.status = "busy", NEW f, NEW s, s = k.stack
  PROVE  Called(k, f) = With(k, <<f>> \o s)
  <1>1. Called(k, f) = With(k, <<f>> \o k.stack)
    BY RecordFacts
  <1> QED BY <1>1

\* The calls in progress are replaced as a whole.
LEMMA WithTwice ==
  ASSUME NEW k, NEW j, NEW x, j = With(k, x), NEW y
  PROVE  With(j, y) = With(k, y)
  BY DEF With

-----------------------------------------------------------------------------
(* The steps of an installer.                                              *)

Stack(t) == task[t].stack

\* What installer t comes to by one of its steps: its innermost call goes on,
\* makes a call, fails, or installs and returns to its caller or to who asked.
GoesOn(t, k) ==
  \E f \in Frames :
    /\ k = With(task[t], <<f>> \o Tail(Stack(t)))
    /\ f.id = Top(t).id /\ f.sent = Top(t).sent /\ f.phase = "importing"
    /\ \/ Top(t).phase = "fetching" /\ f.links = Top(t).links /\ f.todo = imports[f.id]
       \/ \E id \in Top(t).todo :
            /\ Top(t).phase = "importing" /\ Find(id) # 0
            /\ f.links = Top(t).links \cup {Find(id)} /\ f.todo = Top(t).todo \ {id}
    /\ modules' = modules
Calls(t, k) ==
  \E f, g \in Frames :
    /\ k = With(task[t], <<g>> \o (<<f>> \o Tail(Stack(t))))
    /\ f.id = Top(t).id /\ f.sent = Top(t).sent
    /\ f.phase = "importing" /\ Top(t).phase = "importing"
    /\ g.id \in Top(t).todo /\ Find(g.id) = 0 /\ g = Frame(g.id, 0, "fetching", {})
    /\ f.links = Top(t).links /\ f.todo = Top(t).todo \ {g.id}
    /\ modules' = modules
Fails(t, k) ==
  /\ k = [status |-> "failed", stack |-> <<>>, result |-> 0]
  /\ modules' = modules
Installs(t, k) ==
  /\ Top(t).phase = "importing" /\ Top(t).todo = {}
  /\ modules' = Append(modules, [id |-> Top(t).id, sent |-> Top(t).sent, links |-> Top(t).links])
  /\ \/ /\ Len(Stack(t)) = 1
        /\ k = [status |-> "done", stack |-> <<>>, result |-> Len(modules) + 1]
     \/ \E f \in Frames :
          /\ Len(Stack(t)) > 1
          /\ k = With(task[t], <<f>> \o Tail(Tail(Stack(t))))
          /\ f = [Stack(t)[2] EXCEPT !.links = @ \cup {Len(modules) + 1}]

\* Each step of an installer is one of them.
LEMMA ShapeOfInstalling ==
  ASSUME InstallerTypes, NEW t \in Installers, InstallerStep(t)
  PROVE  /\ Busy(t) /\ imports' = imports
         /\ \E k \in TaskStates :
              /\ task' = [task EXCEPT ![t] = k]
              /\ GoesOn(t, k) \/ Calls(t, k) \/ Fails(t, k) \/ Installs(t, k)
  <1>1. /\ task[t] \in TaskStates /\ Stack(t) = task[t].stack /\ Stack(t) \in Seq(Frames)
        /\ imports \in [Versions -> SUBSET Versions] /\ modules \in Seq(Compiled)
        /\ Busy(t) <=> Stack(t) # <<>>
        /\ task[t].status = "busy" <=> Busy(t)
        /\ task \in [Installers -> TaskStates]
    BY DEF InstallerTypes, TaskStates, Stack, Busy
  <1>2. Busy(t) /\ imports' = imports
    BY DEF InstallerStep, Fetch, FetchFails, ResolveImport, Install
  <1>3. /\ Stack(t) # <<>> /\ Top(t) = Stack(t)[1] /\ Top(t) \in Frames
        /\ Len(Stack(t)) \in Nat \ {0} /\ DOMAIN Stack(t) = 1..Len(Stack(t))
        /\ Tail(Stack(t)) \in Seq(Frames) /\ Len(Tail(Stack(t))) = Len(Stack(t)) - 1
    BY <1>1, <1>2, StackFacts DEF Top, Stack
  <1>4. PICK k \in TaskStates : k = task[t] /\ k.status = "busy" /\ k.stack = Stack(t)
    BY <1>1, <1>2
  <1>5. PICK s \in Seq(Frames) : s = Tail(Stack(t)) /\ Len(s) = Len(Stack(t)) - 1
    BY <1>3
  <1>6. \A x \in Seq(Frames) : With(k, x) \in TaskStates /\ With(k, x).stack = x
                               /\ With(k, x).status = "busy"
    BY <1>4, RecordFacts, Zenon
  <1> DEFINE Shaped == \E h \in TaskStates :
               /\ task' = [task EXCEPT ![t] = h]
               /\ GoesOn(t, h) \/ Calls(t, h) \/ Fails(t, h) \/ Installs(t, h)
  <1>7. ASSUME Fetch(t)
        PROVE  Shaped
    <2>1. PICK f \in Frames :
            /\ f = [Top(t) EXCEPT !.phase = "importing", !.todo = imports[Top(t).id]]
            /\ f.id = Top(t).id /\ f.sent = Top(t).sent /\ f.links = Top(t).links
            /\ f.phase = "importing" /\ f.todo = imports[f.id]
      <3> DEFINE f == [Top(t) EXCEPT !.phase = "importing", !.todo = imports[Top(t).id]]
      <3>1. /\ f \in Frames
            /\ f.id = Top(t).id /\ f.sent = Top(t).sent /\ f.links = Top(t).links
            /\ f.phase = "importing" /\ f.todo = imports[Top(t).id]
        BY <1>1, <1>3 DEF Frames
      <3> QED BY <3>1
    <2>2. <<f>> \o s \in Seq(Frames)
      BY StackFacts
    <2>3. task' = [task EXCEPT ![t] = Within(k, f)]
      <3>1. task' = [task EXCEPT ![t] = Within(@, [Top(t) EXCEPT !.phase = "importing", !.todo = imports[Top(t).id]])]
        BY <1>7 DEF Fetch
      <3> QED BY <1>4, <2>1, <3>1, Zenon
    <2>4. Within(k, f) = With(k, <<f>> \o s)
      BY <1>4, <1>5, WithinIs, Zenon
    <2>5. Top(t).phase = "fetching" /\ modules' = modules
      BY <1>7 DEF Fetch
    <2>6. GoesOn(t, With(k, <<f>> \o s))
      BY <1>4, <1>5, <2>1, <2>5 DEF GoesOn
    <2> QED BY <1>6, <2>2, <2>3, <2>4, <2>6
  <1>8. ASSUME FetchFails(t)
        PROVE  Shaped
    <2>1. PICK h \in TaskStates : h = [status |-> "failed", stack |-> <<>>, result |-> 0]
      <3>1. <<>> \in Seq(Frames)
        OBVIOUS
      <3> QED BY <3>1 DEF TaskStates
    <2>2. [Unused EXCEPT !.status = "failed"] = h
      BY <2>1 DEF Unused
    <2>3. task' = [task EXCEPT ![t] = h] /\ modules' = modules
      BY <1>8, <2>2 DEF FetchFails
    <2> QED BY <2>1, <2>3 DEF Fails
  <1>9. ASSUME ResolveImport(t)
        PROVE  Shaped
    <2>1. PICK id \in Top(t).todo :
            task' = [task EXCEPT ![t] = Resolved(Within(@, [Top(t) EXCEPT !.todo = @ \ {id}]), id)]
      BY <1>9 DEF ResolveImport
    <2>2. Top(t).phase = "importing" /\ modules' = modules /\ id \in Versions
      BY <1>3, <1>9 DEF ResolveImport, Frames
    <2>3. PICK e \in Frames :
            /\ e = [Top(t) EXCEPT !.todo = @ \ {id}]
            /\ e.id = Top(t).id /\ e.sent = Top(t).sent /\ e.links = Top(t).links
            /\ e.phase = Top(t).phase /\ e.todo = Top(t).todo \ {id}
      <3> DEFINE e == [Top(t) EXCEPT !.todo = @ \ {id}]
      <3>1. /\ e \in Frames
            /\ e.id = Top(t).id /\ e.sent = Top(t).sent /\ e.links = Top(t).links
            /\ e.phase = Top(t).phase /\ e.todo = Top(t).todo \ {id}
        BY <1>3 DEF Frames
      <3> QED BY <3>1
    <2>4. PICK x \in Seq(Frames) : x = <<e>> \o s /\ x # <<>> /\ Head(x) = e /\ Tail(x) = s
      <3>1. <<e>> \o s \in Seq(Frames) /\ <<e>> \o s # <<>>
        BY StackFacts
      <3>2. Head(<<e>> \o s) = e /\ Tail(<<e>> \o s) = s
        BY PushedAndGone
      <3> QED BY <3>1, <3>2, Zenon
    <2>5. PICK j \in TaskStates : j = With(k, x) /\ j.stack = x /\ j.status = "busy"
      BY <1>6
    <2>6. Within(k, e) = j
      <3>1. Within(k, e) = With(k, <<e>> \o s)
        BY <1>4, <1>5, WithinIs, Zenon
      <3> QED BY <2>4, <2>5, <3>1, Zenon
    <2>7. task' = [task EXCEPT ![t] = Resolved(j, id)]
      BY <1>1, <1>4, <2>1, <2>3, <2>6
    <2>8. CASE Find(id) # 0
      <3>1. PICK f \in Frames :
              /\ f = [e EXCEPT !.links = @ \cup {Find(id)}]
              /\ f.id = e.id /\ f.sent = e.sent /\ f.links = e.links \cup {Find(id)}
              /\ f.phase = e.phase /\ f.todo = e.todo
        <4>1. Find(id) \in Nat
          BY <1>1, FindFacts
        <4> DEFINE f == [e EXCEPT !.links = @ \cup {Find(id)}]
        <4>2. /\ f \in Frames
              /\ f.id = e.id /\ f.sent = e.sent /\ f.links = e.links \cup {Find(id)}
              /\ f.phase = e.phase /\ f.todo = e.todo
          BY <4>1 DEF Frames
        <4> QED BY <4>2
      <3>2. Resolved(j, id) = Within(j, f)
        BY <2>4, <2>5, <2>8, <3>1 DEF Resolved, Returned
      <3>3. Within(j, f) = With(j, <<f>> \o s)
        <4>1. s = Tail(j.stack)
          BY <2>4, <2>5
        <4> QED BY <4>1, WithinIs, Zenon
      <3>4. With(j, <<f>> \o s) = With(k, <<f>> \o s)
        BY <2>5, WithTwice, Zenon
      <3>5. <<f>> \o s \in Seq(Frames)
        BY StackFacts
      <3>6. GoesOn(t, With(k, <<f>> \o s))
        BY <1>4, <1>5, <2>2, <2>3, <2>8, <3>1 DEF GoesOn
      <3> QED BY <1>6, <2>7, <3>2, <3>3, <3>4, <3>5, <3>6
    <2>9. CASE Find(id) = 0
      <3>1. PICK g \in Frames : g = Frame(id, 0, "fetching", {}) /\ g.id = id
        <4>1. Frame(id, 0, "fetching", {}) \in Frames /\ Frame(id, 0, "fetching", {}).id = id
          BY <2>2 DEF Frame, Frames
        <4> QED BY <4>1
      <3>2. Resolved(j, id) = Called(j, g)
        BY <2>9, <3>1 DEF Resolved
      <3>3. Called(j, g) = With(j, <<g>> \o x)
        BY <2>5, CalledIs, Zenon
      <3>4. With(j, <<g>> \o x) = With(k, <<g>> \o x)
        BY <2>5, WithTwice, Zenon
      <3>5. <<g>> \o x \in Seq(Frames)
        BY StackFacts
      <3>6. Calls(t, With(k, <<g>> \o x))
        BY <1>4, <1>5, <2>2, <2>3, <2>4, <2>9, <3>1 DEF Calls
      <3> QED BY <1>6, <2>7, <3>2, <3>3, <3>4, <3>5, <3>6
    <2> QED BY <2>8, <2>9
  <1>10. ASSUME Install(t)
        PROVE  Shaped
    <2>1. /\ Top(t).phase = "importing" /\ Top(t).todo = {}
          /\ modules' = Append(modules, [id |-> Top(t).id, sent |-> Top(t).sent, links |-> Top(t).links])
          /\ task' = [task EXCEPT ![t] = Returned(Over(@), Len(modules) + 1)]
      BY <1>10 DEF Install
    <2>2. PICK j \in TaskStates : j = With(k, s) /\ j.stack = s /\ j.status = "busy"
      BY <1>6
    <2>3. Over(k) = j
      <3>1. Over(k) = With(k, Tail(k.stack))
        BY RecordFacts
      <3> QED BY <1>4, <1>5, <2>2, <3>1, Zenon
    <2>4. task' = [task EXCEPT ![t] = Returned(j, Len(modules) + 1)]
      BY <1>4, <2>1, <2>3, Zenon
    <2>5. CASE Len(Stack(t)) = 1
      <3>1. s = <<>>
        BY <1>5, <2>5
      <3>2. PICK h \in TaskStates : h = [status |-> "done", stack |-> <<>>, result |-> Len(modules) + 1]
        <4>1. <<>> \in Seq(Frames) /\ Len(modules) + 1 \in Nat
          BY <1>1
        <4> QED BY <4>1 DEF TaskStates
      <3>3. Returned(j, Len(modules) + 1) = h
        <4>1. Returned(j, Len(modules) + 1) = [j EXCEPT !.status = "done", !.result = Len(modules) + 1]
          BY <2>2, <3>1, Zenon DEF Returned
        <4> QED BY <2>2, <3>1, <3>2, <4>1 DEF TaskStates
      <3> QED BY <2>1, <2>4, <2>5, <3>2, <3>3 DEF Installs
    <2>6. CASE Len(Stack(t)) > 1
      <3>1. PICK f \in Frames : f = [Stack(t)[2] EXCEPT !.links = @ \cup {Len(modules) + 1}]
        <4>1. Stack(t)[2] \in Frames /\ Len(modules) + 1 \in Nat
          BY <1>1, <1>3, <2>6
        <4> QED BY <4>1 DEF Frames
      <3>2. s # <<>> /\ Head(s) = Stack(t)[2] /\ Tail(s) \in Seq(Frames)
        <4>1. s # <<>>
          BY <1>3, <1>5, <2>6, StackFacts
        <4>2. \A n \in 1..(Len(Stack(t)) - 1) : Tail(Stack(t))[n] = Stack(t)[n + 1]
          BY <1>1, <1>3, StackFacts
        <4>3. Head(s) = s[1] /\ Tail(s) \in Seq(Frames)
          BY <4>1
        <4> QED BY <1>3, <1>5, <2>6, <4>1, <4>2, <4>3
      <3>3. Returned(j, Len(modules) + 1) = Within(j, f)
        BY <2>2, <3>1, <3>2 DEF Returned
      <3>4. Within(j, f) = With(j, <<f>> \o Tail(s))
        BY <2>2, WithinIs, Zenon
      <3>5. With(j, <<f>> \o Tail(s)) = With(k, <<f>> \o Tail(s))
        BY <2>2, WithTwice, Zenon
      <3>6. <<f>> \o Tail(s) \in Seq(Frames)
        BY <3>2, StackFacts
      <3>7. Installs(t, With(k, <<f>> \o Tail(s)))
        BY <1>4, <1>5, <2>1, <2>6, <3>1 DEF Installs
      <3> QED BY <1>6, <2>4, <3>3, <3>4, <3>5, <3>6, <3>7
    <2> QED BY <1>3, <2>5, <2>6
  <1> QED BY <1>2, <1>7, <1>8, <1>9, <1>10 DEF InstallerStep

-----------------------------------------------------------------------------
(* The installer's invariant is kept.                                      *)

\* The outermost call is what was asked for; a version that a session has sent
\* stays as far from it.
SameAsker(st, u) ==
  /\ u[Len(u)].id = st[Len(st)].id /\ u[Len(u)].sent = st[Len(st)].sent
  /\ \A n \in DOMAIN u : u[n].sent # 0 =>
       \E m \in DOMAIN st : st[m].sent # 0 /\ Len(st) - m = Len(u) - n

\* Modules are never removed from the list.
Grown == /\ DOMAIN modules \subseteq DOMAIN modules'
         /\ \A i \in DOMAIN modules : modules'[i] = modules[i]

\* A call that is whole stays so while the list grows.
LEMMA WholeStays ==
  ASSUME Grown, imports' = imports, NEW st, NEW n \in DOMAIN st, CallWhole(st, n)
  PROVE  CallWhole(st, n)'
  <1>1. Ids(st[n].links)' = Ids(st[n].links) /\ st[n].links \subseteq DOMAIN modules'
    BY DEF Grown, Ids, CallWhole
  <1> QED BY <1>1 DEF CallWhole

\* The innermost call goes on.
LEMMA GoingOn ==
  ASSUME InstallerTypes, NEW t \in Installers, Busy(t), Whole(Stack(t)),
         NEW k \in TaskStates, GoesOn(t, k)
  PROVE  /\ modules' = modules /\ k.status = "busy" /\ k.stack # <<>> /\ Whole(k.stack)
         /\ \A id : CallsFor(k.stack, id) => CallsFor(Stack(t), id)
         /\ k.result = task[t].result
         /\ SameAsker(Stack(t), k.stack)
  <1>1. PICK s \in Seq(Frames) : s = Stack(t) /\ s # <<>> /\ task[t].status = "busy" /\ s = task[t].stack
    BY DEF InstallerTypes, TaskStates, Stack, Busy
  <1>2. PICK r \in Seq(Frames) : r = Tail(s) /\ Len(r) = Len(s) - 1 /\ \A n \in 1..(Len(s) - 1) : r[n] = s[n + 1]
    BY <1>1, Popped
  <1>3. PICK f \in Frames :
          /\ k = With(task[t], <<f>> \o r)
          /\ f.id = s[1].id /\ f.sent = s[1].sent /\ f.phase = "importing"
          /\ \/ s[1].phase = "fetching" /\ f.links = s[1].links /\ f.todo = imports[f.id]
             \/ \E id \in s[1].todo :
                  /\ s[1].phase = "importing" /\ Find(id) # 0
                  /\ f.links = s[1].links \cup {Find(id)} /\ f.todo = s[1].todo \ {id}
          /\ modules' = modules
    <2>1. Top(t) = s[1]
      BY <1>1, StackFacts DEF Top
    <2> QED BY <1>1, <1>2, <2>1 DEF GoesOn
  <1>4. PICK u \in Seq(Frames) : /\ u = <<f>> \o r /\ u # <<>> /\ u[1] = f
                                 /\ \A n \in 2..(Len(r) + 1) : u[n] = r[n - 1]
                                 /\ Len(u) = Len(r) + 1
    BY StackFacts
  <1>5. k.stack = u /\ k.status = "busy" /\ k.result = task[t].result
    BY <1>1, <1>3, <1>4 DEF With
  <1>6. Len(s) \in Nat \ {0} /\ Len(u) = Len(s) /\ DOMAIN u = 1..Len(s) /\ DOMAIN s = 1..Len(s)
    BY <1>1, <1>2, <1>4
  <1>7. \A n \in 2..Len(s) : u[n] = s[n]
    BY <1>2, <1>4, <1>6
  <1>8. \A n \in DOMAIN u : u[n].id = s[n].id /\ u[n].sent = s[n].sent
    BY <1>3, <1>4, <1>6, <1>7
  <1>9. ASSUME NEW n \in DOMAIN u
        PROVE  CallWhole(u, n)
    <2>1. CallWhole(s, n)
      BY <1>1, <1>6, <1>9 DEF Whole
    <2>2. CASE n = 1
      <3>1. CASE s[1].phase = "fetching" /\ f.links = s[1].links /\ f.todo = imports[f.id]
        <4>1. f.links = {} /\ Ids(f.links) = {}
          BY <2>1, <2>2, <3>1 DEF CallWhole, Ids
        <4> QED BY <1>3, <1>4, <2>2, <3>1, <4>1 DEF CallWhole
      <3>2. ASSUME NEW id \in s[1].todo, s[1].phase = "importing", Find(id) # 0,
                   f.links = s[1].links \cup {Find(id)}, f.todo = s[1].todo \ {id}
            PROVE  CallWhole(u, n)
        <4>1. Find(id) \in DOMAIN modules /\ modules[Find(id)].id = id
          BY <3>2, FindFacts DEF InstallerTypes
        <4>2. Ids(f.links) = Ids(s[1].links) \cup {id}
          BY <3>2, <4>1 DEF Ids
        <4>3. imports[s[1].id] = Ids(s[1].links) \cup s[1].todo /\ s[1].links \subseteq DOMAIN modules
          BY <2>1, <2>2, <3>2 DEF CallWhole
        <4>4. imports[f.id] = Ids(f.links) \cup f.todo /\ f.links \subseteq DOMAIN modules
          <5>1. Ids(f.links) \cup f.todo = Ids(s[1].links) \cup s[1].todo
            BY <3>2, <4>2
          <5> QED BY <1>3, <3>2, <4>1, <4>3, <5>1
        <4> QED BY <1>3, <1>4, <2>2, <4>4 DEF CallWhole
      <3> QED BY <1>3, <3>1, <3>2
    <2>3. CASE n # 1
      <3>1. u[n] = s[n] /\ u[n - 1].id = s[n - 1].id
        BY <1>6, <1>7, <1>8, <2>3
      <3> QED BY <2>1, <2>3, <3>1 DEF CallWhole
    <2> QED BY <2>2, <2>3
  <1>10. \A id : CallsFor(u, id) => CallsFor(s, id)
    BY <1>6, <1>8 DEF CallsFor
  <1>11. Whole(u)
    BY <1>9 DEF Whole
  <1>12. SameAsker(s, u)
    BY <1>6, <1>8 DEF SameAsker
  <1> QED BY <1>1, <1>3, <1>4, <1>5, <1>10, <1>11, <1>12

\* The innermost call makes a call.
LEMMA CallingOn ==
  ASSUME InstallerTypes, NEW t \in Installers, Busy(t), Whole(Stack(t)),
         NEW k \in TaskStates, Calls(t, k)
  PROVE  /\ modules' = modules /\ k.status = "busy" /\ k.stack # <<>> /\ Whole(k.stack)
         /\ \A id : CallsFor(k.stack, id) => CallsFor(Stack(t), id) \/ Copies(id) = {}
         /\ k.result = task[t].result
         /\ SameAsker(Stack(t), k.stack)
  <1>1. PICK s \in Seq(Frames) : s = Stack(t) /\ s # <<>> /\ task[t].status = "busy" /\ s = task[t].stack
    BY DEF InstallerTypes, TaskStates, Stack, Busy
  <1>2. PICK r \in Seq(Frames) : r = Tail(s) /\ Len(r) = Len(s) - 1 /\ \A n \in 1..(Len(s) - 1) : r[n] = s[n + 1]
    BY <1>1, Popped
  <1>3. PICK f \in Frames, g \in Frames :
          /\ k = With(task[t], <<g>> \o (<<f>> \o r))
          /\ f.id = s[1].id /\ f.sent = s[1].sent
          /\ f.phase = "importing" /\ s[1].phase = "importing"
          /\ g.id \in s[1].todo /\ Find(g.id) = 0 /\ g = Frame(g.id, 0, "fetching", {})
          /\ f.links = s[1].links /\ f.todo = s[1].todo \ {g.id}
          /\ modules' = modules
    <2>1. Top(t) = s[1]
      BY <1>1, StackFacts DEF Top
    <2> QED BY <1>1, <1>2, <2>1 DEF Calls
  <1>4. PICK x \in Seq(Frames) : /\ x = <<f>> \o r /\ x # <<>> /\ x[1] = f
                                 /\ \A n \in 2..(Len(r) + 1) : x[n] = r[n - 1]
                                 /\ Len(x) = Len(r) + 1
    BY StackFacts
  <1>5. PICK u \in Seq(Frames) : /\ u = <<g>> \o x /\ u # <<>> /\ u[1] = g
                                 /\ \A n \in 2..(Len(x) + 1) : u[n] = x[n - 1]
                                 /\ Len(u) = Len(x) + 1
    BY StackFacts
  <1>6. k.stack = u /\ k.status = "busy" /\ k.result = task[t].result
    BY <1>1, <1>3, <1>4, <1>5 DEF With
  <1>7. /\ Len(s) \in Nat \ {0} /\ Len(u) = Len(s) + 1 /\ DOMAIN u = 1..(Len(s) + 1) /\ DOMAIN s = 1..Len(s)
        /\ u[2] = f /\ \A n \in 3..(Len(s) + 1) : u[n] = s[n - 1]
    <2>1. Len(s) \in Nat \ {0} /\ Len(u) = Len(s) + 1 /\ DOMAIN u = 1..(Len(s) + 1) /\ DOMAIN s = 1..Len(s)
      BY <1>1, <1>2, <1>4, <1>5
    <2>2. u[2] = f
      BY <1>4, <1>5, <2>1
    <2>3. ASSUME NEW n \in 3..(Len(s) + 1)
          PROVE  u[n] = s[n - 1]
      <3>1. u[n] = x[n - 1] /\ x[n - 1] = r[n - 2] /\ r[n - 2] = s[n - 1]
        BY <1>2, <1>4, <1>5, <2>1, <2>3
      <3> QED BY <3>1
    <2> QED BY <2>1, <2>2, <2>3
  <1>8. ASSUME NEW n \in 2..(Len(s) + 1)
        PROVE  n - 1 \in DOMAIN s /\ u[n].id = s[n - 1].id /\ u[n].sent = s[n - 1].sent
    <2>1. n = 2 \/ n \in 3..(Len(s) + 1)
      BY <1>7
    <2> QED BY <1>3, <1>7, <2>1
  <1>9. g.sent = 0 /\ g.phase = "fetching" /\ g.links = {}
    BY <1>3 DEF Frame
  <1>10. ASSUME NEW n \in DOMAIN u
         PROVE  CallWhole(u, n)
    <2>1. n # 1 => CallWhole(s, n - 1)
      BY <1>1, <1>7, <1>10 DEF Whole
    <2>2. CASE n = 1
      BY <1>5, <1>9, <2>2 DEF CallWhole
    <2>3. CASE n = 2
      <3>1. imports[s[1].id] = Ids(s[1].links) \cup s[1].todo /\ s[1].links \subseteq DOMAIN modules
        BY <1>3, <2>1, <2>3 DEF CallWhole
      <3>2. Ids(f.links) \cup f.todo \cup {g.id} = Ids(s[1].links) \cup s[1].todo
        BY <1>3
      <3> QED BY <1>3, <1>5, <1>7, <2>3, <3>1, <3>2 DEF CallWhole
    <2>4. CASE n \in 3..(Len(s) + 1)
      <3>1. u[n] = s[n - 1] /\ u[n - 1].id = s[n - 2].id
        BY <1>7, <1>8, <2>4
      <3>2. s[n - 1].phase = "importing"
        <4>1. n - 1 \in DOMAIN s /\ n - 1 # 1 /\ n # 1 /\ s[n - 1] \in Frames
          BY <1>7, <2>4
        <4> QED BY <2>1, <4>1 DEF CallWhole, Frames
      <3>3. n - 1 # 1 /\ (n - 1) - 1 = n - 2 /\ n # 1
        BY <1>7, <2>4
      <3>4. imports[s[n - 1].id] = Ids(s[n - 1].links) \cup s[n - 1].todo \cup {s[n - 2].id}
        BY <2>1, <3>2, <3>3 DEF CallWhole
      <3> QED BY <2>1, <3>1, <3>2, <3>3, <3>4 DEF CallWhole
    <2> QED BY <1>7, <1>10, <2>2, <2>3, <2>4
  <1>11. ASSUME NEW id, CallsFor(u, id)
         PROVE  CallsFor(s, id) \/ Copies(id) = {}
    <2>1. PICK n \in DOMAIN u : u[n].id = id /\ u[n].sent = 0
      BY <1>11 DEF CallsFor
    <2>2. CASE n = 1
      <3>1. \A i \in DOMAIN modules : modules[i].id # id
        BY <1>3, <1>5, <2>1, <2>2, FindFacts DEF InstallerTypes
      <3> QED BY <3>1 DEF Copies
    <2>3. CASE n # 1
      <3>1. n - 1 \in DOMAIN s /\ s[n - 1].id = id /\ s[n - 1].sent = 0
        BY <1>7, <1>8, <2>1, <2>3
      <3> QED BY <3>1 DEF CallsFor
    <2> QED BY <2>2, <2>3
  <1>12. Whole(u)
    BY <1>10 DEF Whole
  <1>13. SameAsker(s, u)
    <2>1. u[Len(u)].id = s[Len(s)].id /\ u[Len(u)].sent = s[Len(s)].sent
      <3>1. Len(u) \in 2..(Len(s) + 1) /\ Len(u) - 1 = Len(s)
        BY <1>7
      <3> QED BY <1>8, <3>1
    <2>2. ASSUME NEW n \in DOMAIN u, u[n].sent # 0
          PROVE  \E m \in DOMAIN s : s[m].sent # 0 /\ Len(s) - m = Len(u) - n
      <3>1. n \in 2..(Len(s) + 1)
        BY <1>5, <1>7, <1>9, <2>2
      <3>2. n - 1 \in DOMAIN s /\ s[n - 1].sent # 0 /\ Len(s) - (n - 1) = Len(u) - n
        BY <1>7, <1>8, <2>2, <3>1
      <3> QED BY <3>2
    <2> QED BY <2>1, <2>2 DEF SameAsker
  <1> QED BY <1>1, <1>3, <1>5, <1>6, <1>11, <1>12, <1>13

\* What is listed is whole.
LEMMA ListedWhole ==
  ASSUME InstallerTypes, ListWhole, NEW t \in Installers, Busy(t), Whole(Stack(t)),
         imports' = imports, NEW k \in TaskStates, Installs(t, k)
  PROVE  /\ Grown /\ ListWhole' /\ modules' \in Seq(Compiled)
         /\ DOMAIN modules' = DOMAIN modules \cup {Len(modules) + 1}
         /\ Len(modules) + 1 \notin DOMAIN modules /\ Len(modules) \in Nat
         /\ modules'[Len(modules) + 1].id = Stack(t)[1].id
         /\ modules'[Len(modules) + 1].sent = Stack(t)[1].sent
  <1>1. PICK s \in Seq(Frames) : s = Stack(t) /\ s # <<>> /\ s[1] \in Frames
                                 /\ 1 \in DOMAIN s /\ s[1] = Top(t)
    <2>1. PICK s \in Seq(Frames) : s = Stack(t) /\ s # <<>> /\ s = task[t].stack
      BY DEF InstallerTypes, TaskStates, Stack, Busy
    <2> QED BY <2>1, StackFacts DEF Top
  <1>2. PICK m \in Compiled : /\ m = [id |-> s[1].id, sent |-> s[1].sent, links |-> s[1].links]
                              /\ m.id = s[1].id /\ m.sent = s[1].sent /\ m.links = s[1].links
    <2>1. [id |-> s[1].id, sent |-> s[1].sent, links |-> s[1].links] \in Compiled
      BY <1>1 DEF Compiled, Frames
    <2> QED BY <2>1
  <1>3. modules' = Append(modules, m) /\ s[1].phase = "importing" /\ s[1].todo = {}
    BY <1>1, <1>2 DEF Installs
  <1>4. modules \in Seq(Compiled)
    BY DEF InstallerTypes
  <1>5. /\ Len(modules) \in Nat /\ DOMAIN modules = 1..Len(modules)
        /\ DOMAIN modules' = 1..(Len(modules) + 1)
        /\ modules' \in Seq(Compiled) /\ modules'[Len(modules) + 1] = m
        /\ \A i \in DOMAIN modules : modules'[i] = modules[i]
    BY <1>3, <1>4
  <1>6. Grown
    BY <1>5 DEF Grown
  <1>7. m.links \subseteq DOMAIN modules /\ Ids(m.links) = imports[m.id]
    <2>1. CallWhole(s, 1)
      BY <1>1 DEF Whole
    <2>2. imports[s[1].id] = Ids(s[1].links) /\ s[1].links \subseteq DOMAIN modules
      BY <1>3, <2>1 DEF CallWhole
    <2> QED BY <1>2, <2>2
  <1>8. ASSUME NEW i \in DOMAIN modules'
        PROVE  modules'[i].links \subseteq 1..(i - 1) 
               /\ {modules'[l].id : l \in modules'[i].links} = imports'[modules'[i].id]
    <2>1. PICK n : n = modules'[i] /\ n.links \subseteq 1..(i - 1) /\ n.links \subseteq DOMAIN modules
                   /\ Ids(n.links) = imports[n.id]
      <3>1. CASE i = Len(modules) + 1
        BY <1>5, <1>7, <3>1
      <3>2. CASE i \in DOMAIN modules
        BY <1>5, <3>2 DEF ListWhole
      <3> QED BY <1>5, <1>8, <3>1, <3>2
    <2>2. {modules'[l].id : l \in n.links} = {modules[l].id : l \in n.links}
      BY <1>5, <2>1
    <2> QED BY <2>1, <2>2 DEF Ids
  <1>9. ListWhole'
    BY <1>8 DEF ListWhole, Ids
  <1> QED BY <1>1, <1>2, <1>5, <1>6, <1>9

\* Beneath a call that lists its version there is no other call for it: its
\* imports, and theirs, would have to be listed, each before what imports it.
LEMMA NoCycleIsListed ==
  ASSUME InstallerTypes, ListWhole, NEW s \in Seq(Frames), s # <<>>, Whole(s),
         s[1].phase = "importing", s[1].todo = {},
         NEW n \in DOMAIN s, s[n].id = s[1].id
  PROVE  n = 1
  <1> SUFFICES ASSUME n # 1 PROVE FALSE
    OBVIOUS
  <1>1. Len(s) \in Nat \ {0} /\ DOMAIN s = 1..Len(s) /\ n \in 2..Len(s)
    OBVIOUS
  <1>2. \A m \in 2..Len(s) : s[m - 1].id \in imports[s[m].id]
    <2>1. ASSUME NEW m \in 2..Len(s)
          PROVE  s[m - 1].id \in imports[s[m].id]
      <3>1. CallWhole(s, m) /\ s[m] \in Frames /\ m # 1
        BY <1>1, <2>1 DEF Whole
      <3> QED BY <3>1 DEF CallWhole, Frames
    <2> QED BY <2>1
  <1>3. \A i \in imports[s[1].id] : \E j \in DOMAIN modules : modules[j].id = i
    <2>1. CallWhole(s, 1)
      BY <1>1 DEF Whole
    <2> QED BY <2>1 DEF CallWhole, Ids
  <1>4. ASSUME NEW j \in DOMAIN modules
        PROVE  \A i \in imports[modules[j].id] : \E l \in DOMAIN modules : l < j /\ modules[l].id = i
    <2>1. /\ modules[j].links \subseteq 1..(j - 1) /\ Ids(modules[j].links) = imports[modules[j].id]
          /\ DOMAIN modules = 1..Len(modules) /\ Len(modules) \in Nat
      BY DEF ListWhole, InstallerTypes
    <2>2. \A l \in modules[j].links : l \in DOMAIN modules /\ l < j
      BY <1>4, <2>1
    <2> QED BY <2>1, <2>2 DEF Ids
  <1> DEFINE above == {j \in DOMAIN modules : \E m \in 1..(n - 1) : modules[j].id = s[m].id}
  <1>5. above # {} /\ above \in SUBSET Nat
    <2>1. s[n - 1].id \in imports[s[1].id] /\ n - 1 \in 1..(n - 1)
      BY <1>1, <1>2
    <2>2. PICK j \in DOMAIN modules : modules[j].id = s[n - 1].id
      BY <1>3, <2>1
    <2>3. DOMAIN modules \subseteq Nat
      BY DEF InstallerTypes
    <2> QED BY <2>1, <2>2, <2>3
  <1>6. PICK j \in above : \A i \in above : j <= i
    BY <1>5, LeastOf
  <1>7. PICK m \in 1..(n - 1) : modules[j].id = s[m].id
    BY <1>6
  <1>8. \E m2 \in 1..(n - 1) : s[m2].id \in imports[s[m].id]
    <2>1. CASE m = 1
      <3>1. s[n - 1].id \in imports[s[1].id] /\ n - 1 \in 1..(n - 1)
        BY <1>1, <1>2
      <3> QED BY <2>1, <3>1
    <2>2. CASE m # 1
      <3>1. m \in 2..Len(s) /\ m - 1 \in 1..(n - 1)
        BY <1>1, <1>7, <2>2
      <3> QED BY <1>2, <3>1
    <2> QED BY <2>1, <2>2
  <1>9. PICK m2 \in 1..(n - 1) : s[m2].id \in imports[modules[j].id]
    BY <1>7, <1>8
  <1>10. PICK l \in DOMAIN modules : l < j /\ modules[l].id = s[m2].id
    BY <1>4, <1>6, <1>9
  <1>11. l \in above /\ l \in Nat /\ j \in Nat
    BY <1>5, <1>6, <1>9, <1>10
  <1> QED BY <1>6, <1>10, <1>11

\* The caller of what is listed goes on with it, if there is one.
LEMMA Returning ==
  ASSUME InstallerTypes, ListWhole, NEW t \in Installers, Busy(t), Whole(Stack(t)),
         imports' = imports, NEW k \in TaskStates, Installs(t, k)
  PROVE  /\ Whole(k.stack)'
         /\ \A id : CallsFor(k.stack, id) => CallsFor(Stack(t), id)
         /\ Stack(t)[1].sent = 0 => CallsFor(Stack(t), Stack(t)[1].id) /\ ~CallsFor(k.stack, Stack(t)[1].id)
         /\ \/ /\ k.stack = <<>> /\ k.status = "done" /\ k.result = Len(modules) + 1
               /\ Len(Stack(t)) = 1
            \/ /\ k.stack # <<>> /\ k.status = "busy" /\ k.result = task[t].result
               /\ Len(Stack(t)) > 1 /\ SameAsker(Stack(t), k.stack)
  <1>1. PICK s \in Seq(Frames) : s = Stack(t) /\ s # <<>> /\ task[t].status = "busy" /\ s = task[t].stack
    BY DEF InstallerTypes, TaskStates, Stack, Busy
  <1>2. s[1].phase = "importing" /\ s[1].todo = {}
    <2>1. Top(t) = s[1]
      BY <1>1, StackFacts DEF Top
    <2> QED BY <2>1 DEF Installs
  <1>3. /\ Len(s) \in Nat \ {0} /\ DOMAIN s = 1..Len(s)
        /\ \A n \in DOMAIN s : s[n].id = s[1].id => n = 1
    <2>1. Whole(s)
      BY <1>1
    <2>2. \A n \in DOMAIN s : s[n].id = s[1].id => n = 1
      BY <1>1, <1>2, <2>1, NoCycleIsListed
    <2> QED BY <1>1, <2>2
  <1>4. s[1].sent = 0 => CallsFor(s, s[1].id)
    BY <1>3 DEF CallsFor
  <1>5. CASE k.stack = <<>> /\ k.status = "done" /\ k.result = Len(modules) + 1 /\ Len(s) = 1
    <2>1. DOMAIN k.stack = {}
      BY <1>5
    <2> QED BY <1>1, <1>4, <1>5, <2>1 DEF Whole, CallsFor
  <1>6. CASE /\ Len(s) > 1
             /\ \E f \in Frames : /\ k = With(task[t], <<f>> \o Tail(Tail(s)))
                                  /\ f = [s[2] EXCEPT !.links = @ \cup {Len(modules) + 1}]
    <2>1. PICK f \in Frames :
            /\ k = With(task[t], <<f>> \o Tail(Tail(s)))
            /\ f.id = s[2].id /\ f.sent = s[2].sent /\ f.phase = s[2].phase /\ f.todo = s[2].todo
            /\ f.links = s[2].links \cup {Len(modules) + 1}
      <3>1. s[2] \in Frames
        BY <1>3, <1>6
      <3> QED BY <1>6, <3>1 DEF Frames
    <2>2. PICK r \in Seq(Frames) : r = Tail(s) /\ Len(r) = Len(s) - 1 /\ \A n \in 1..(Len(s) - 1) : r[n] = s[n + 1]
      BY <1>1, Popped
    <2>3. PICK q \in Seq(Frames) : q = Tail(r) /\ Len(q) = Len(r) - 1 /\ \A n \in 1..(Len(r) - 1) : q[n] = r[n + 1]
      <3>1. r # <<>>
        BY <1>3, <1>6, <2>2
      <3> QED BY <3>1, Popped
    <2>4. PICK u \in Seq(Frames) : /\ u = <<f>> \o q /\ u # <<>> /\ u[1] = f
                                   /\ \A n \in 2..(Len(q) + 1) : u[n] = q[n - 1]
                                   /\ Len(u) = Len(q) + 1
      BY StackFacts
    <2>5. k.stack = u /\ k.status = "busy" /\ k.result = task[t].result
      BY <1>1, <2>1, <2>2, <2>3, <2>4 DEF With
    <2>6. Len(u) = Len(s) - 1 /\ DOMAIN u = 1..(Len(s) - 1) /\ \A n \in 2..(Len(s) - 1) : u[n] = s[n + 1]
      <3>1. Len(u) = Len(s) - 1 /\ DOMAIN u = 1..(Len(s) - 1)
        BY <1>3, <2>2, <2>3, <2>4
      <3>2. ASSUME NEW n \in 2..(Len(s) - 1)
            PROVE  u[n] = s[n + 1]
        <4>1. u[n] = q[n - 1] /\ q[n - 1] = r[n] /\ r[n] = s[n + 1]
          BY <1>3, <2>2, <2>3, <2>4, <3>2
        <4> QED BY <4>1
      <3> QED BY <3>1, <3>2
    <2>7. ASSUME NEW n \in DOMAIN u
          PROVE  /\ n + 1 \in DOMAIN s /\ n + 1 # 1 /\ Len(s) - (n + 1) = Len(u) - n
                 /\ u[n].id = s[n + 1].id /\ u[n].sent = s[n + 1].sent
      <3>1. n = 1 \/ n \in 2..(Len(s) - 1)
        BY <2>6
      <3>2. n + 1 \in DOMAIN s /\ n + 1 # 1 /\ Len(s) - (n + 1) = Len(u) - n
        BY <1>3, <1>6, <2>6
      <3>3. CASE n = 1
        BY <2>1, <2>4, <3>2, <3>3
      <3>4. CASE n \in 2..(Len(s) - 1)
        BY <2>6, <3>2, <3>4
      <3> QED BY <3>1, <3>3, <3>4
    <2>8. /\ Grown /\ DOMAIN modules' = DOMAIN modules \cup {Len(modules) + 1}
          /\ modules'[Len(modules) + 1].id = s[1].id
      <3>1. /\ Grown /\ DOMAIN modules' = DOMAIN modules \cup {Len(modules) + 1}
            /\ modules'[Len(modules) + 1].id = Stack(t)[1].id
        BY ListedWhole
      <3> QED BY <1>1, <3>1
    <2>9. ASSUME NEW n \in DOMAIN u
          PROVE  CallWhole(u, n)'
      <3>1. CallWhole(s, n + 1)' /\ CallWhole(s, n + 1) /\ s[n + 1] \in Frames
        <4>1. CallWhole(s, n + 1) /\ s[n + 1] \in Frames
          BY <1>1, <2>7, <2>9 DEF Whole
        <4> QED BY <1>1, <2>7, <2>8, <4>1, WholeStays
      <3>2. CASE n = 1
        <4>1. /\ s[2].phase = "importing" /\ s[2].links \subseteq DOMAIN modules
              /\ imports[s[2].id] = Ids(s[2].links) \cup s[2].todo \cup {s[1].id}
          BY <3>1, <3>2 DEF CallWhole, Frames
        <4>2. Ids(s[2].links) = {modules'[l].id : l \in s[2].links}
          BY <2>8, <4>1 DEF Ids, Grown
        <4>3. {modules'[l].id : l \in f.links} = Ids(s[2].links) \cup {s[1].id}
          BY <2>1, <2>8, <4>2
        <4>4. imports'[f.id] = {modules'[l].id : l \in f.links} \cup f.todo /\ f.links \subseteq DOMAIN modules'
          BY <2>1, <2>8, <4>1, <4>3 DEF Grown
        <4> QED BY <2>1, <2>4, <3>2, <4>1, <4>4 DEF CallWhole, Ids
      <3>3. CASE n # 1
        <4>1. /\ n \in 2..(Len(s) - 1) /\ u[n] = s[n + 1] /\ u[n - 1].id = s[n].id
          <5>1. n \in 2..(Len(s) - 1) /\ n - 1 \in DOMAIN u /\ (n - 1) + 1 = n
            BY <2>6, <2>9, <3>3
          <5> QED BY <2>6, <2>7, <5>1
        <4>2. n + 1 # 1 /\ (n + 1) - 1 = n
          BY <4>1
        <4> QED BY <3>1, <3>3, <4>1, <4>2 DEF CallWhole, Frames
      <3> QED BY <3>2, <3>3
    <2>10. ASSUME NEW id, CallsFor(u, id)
           PROVE  CallsFor(s, id) /\ id # s[1].id
      BY <1>3, <2>7, <2>10 DEF CallsFor
    <2>11. SameAsker(s, u)
      <3>1. u[Len(u)].id = s[Len(s)].id /\ u[Len(u)].sent = s[Len(s)].sent
        <4>1. Len(u) \in DOMAIN u /\ Len(u) + 1 = Len(s)
          BY <1>3, <1>6, <2>6
        <4> QED BY <2>7, <4>1
      <3> QED BY <2>7, <3>1 DEF SameAsker
    <2>12. Whole(u)'
      BY <2>9 DEF Whole
    <2> QED BY <1>1, <1>4, <1>6, <2>4, <2>5, <2>10, <2>11, <2>12
  <1>7. \/ k.stack = <<>> /\ k.status = "done" /\ k.result = Len(modules) + 1 /\ Len(s) = 1
        \/ /\ Len(s) > 1
           /\ \E f \in Frames : /\ k = With(task[t], <<f>> \o Tail(Tail(s)))
                                /\ f = [s[2] EXCEPT !.links = @ \cup {Len(modules) + 1}]
    <2>1. CASE Len(s) = 1 /\ k = [status |-> "done", stack |-> <<>>, result |-> Len(modules) + 1]
      BY <2>1
    <2>2. \/ Len(s) = 1 /\ k = [status |-> "done", stack |-> <<>>, result |-> Len(modules) + 1]
          \/ \E f \in Frames : /\ Len(s) > 1
                               /\ k = With(task[t], <<f>> \o Tail(Tail(s)))
                               /\ f = [s[2] EXCEPT !.links = @ \cup {Len(modules) + 1}]
      BY <1>1, Zenon DEF Installs
    <2> QED BY <2>1, <2>2, Zenon
  <1> QED BY <1>5, <1>6, <1>7

\* No module is listed, and no call made for a version that is.
LEMMA OwnedStays ==
  ASSUME CopiesOwned, modules' = modules,
         \A t \in Installers, id \in Versions : Pending(t, id)' => Pending(t, id) \/ Copies(id) = {}
  PROVE  CopiesOwned'
  <1> SUFFICES ASSUME NEW id \in Versions
               PROVE  \E own \in [Copies(id)' -> Installers] :
                        /\ \A i, j \in Copies(id)' : own[i] = own[j] => i = j
                        /\ \A i \in Copies(id)' : ~CallsFor(task'[own[i]].stack, id)
    BY DEF CopiesOwned, Pending
  <1>1. Copies(id)' = Copies(id)
    BY DEF Copies
  <1>2. PICK own \in [Copies(id) -> Installers] :
          /\ \A i, j \in Copies(id) : own[i] = own[j] => i = j
          /\ \A i \in Copies(id) : ~Pending(own[i], id)
    BY DEF CopiesOwned
  <1>3. \A i \in Copies(id) : own[i] \in Installers /\ ~CallsFor(task'[own[i]].stack, id)
    BY <1>2 DEF Pending
  <1> QED BY <1>1, <1>2, <1>3

\* A copy that is listed is put down to the installer that lists it.
LEMMA OwnedGrows ==
  ASSUME CopiesOwned, Grown, NEW new, new \notin DOMAIN modules,
         DOMAIN modules' = DOMAIN modules \cup {new},
         NEW t \in Installers,
         modules'[new].sent = 0 =>
           Pending(t, modules'[new].id) /\ ~CallsFor(task'[t].stack, modules'[new].id),
         \A u \in Installers, id \in Versions : CallsFor(task'[u].stack, id) => Pending(u, id)
  PROVE  CopiesOwned'
  <1> SUFFICES ASSUME NEW id \in Versions
               PROVE  \E own \in [Copies(id)' -> Installers] :
                        /\ \A i, j \in Copies(id)' : own[i] = own[j] => i = j
                        /\ \A i \in Copies(id)' : ~CallsFor(task'[own[i]].stack, id)
    BY DEF CopiesOwned, Pending
  <1>1. PICK own \in [Copies(id) -> Installers] :
          /\ \A i, j \in Copies(id) : own[i] = own[j] => i = j
          /\ \A i \in Copies(id) : own[i] \in Installers /\ ~Pending(own[i], id)
    BY DEF CopiesOwned
  <1>2. CASE modules'[new].id = id /\ modules'[new].sent = 0
    <2>1. Copies(id)' = Copies(id) \cup {new} /\ new \notin Copies(id)
      BY <1>2 DEF Copies, Grown
    <2> DEFINE h == [i \in Copies(id)' |-> IF i = new THEN t ELSE own[i]]
    <2>2. h \in [Copies(id)' -> Installers] /\ h[new] = t /\ \A i \in Copies(id) : h[i] = own[i]
      BY <1>1, <2>1
    <2>3. \A i \in Copies(id) : own[i] # t /\ ~CallsFor(task'[own[i]].stack, id)
      BY <1>1, <1>2
    <2>4. ~CallsFor(task'[t].stack, id)
      BY <1>2
    <2> HIDE DEF h
    <2>5. \A i, j \in Copies(id)' : h[i] = h[j] => i = j
      BY <1>1, <2>1, <2>2, <2>3
    <2>6. \A i \in Copies(id)' : ~CallsFor(task'[h[i]].stack, id)
      BY <2>1, <2>2, <2>3, <2>4
    <2> QED BY <2>2, <2>5, <2>6
  <1>3. CASE ~(modules'[new].id = id /\ modules'[new].sent = 0)
    <2>1. Copies(id)' = Copies(id)
      BY <1>3 DEF Copies, Grown
    <2> QED BY <1>1, <2>1
  <1> QED BY <1>2, <1>3

\* A step of an installer keeps its invariant.
LEMMA InstallingKeeps ==
  ASSUME InstallerInv, NEW t \in Installers, InstallerStep(t)
  PROVE  InstallerInv'
  <1>1. InstallerTypes /\ ListWhole /\ CallsWhole /\ CopiesOwned
    BY DEF InstallerInv
  <1>2. Busy(t) /\ imports' = imports
    BY <1>1, ShapeOfInstalling
  <1>3. PICK k \in TaskStates :
          /\ task' = [task EXCEPT ![t] = k]
          /\ GoesOn(t, k) \/ Calls(t, k) \/ Fails(t, k) \/ Installs(t, k)
    BY <1>1, ShapeOfInstalling
  <1>4. /\ task \in [Installers -> TaskStates] /\ task' \in [Installers -> TaskStates]
        /\ task'[t] = k /\ \A u \in Installers : u # t => task'[u] = task[u]
        /\ \A u \in Installers : Busy(u) <=> task[u].stack # <<>>
        /\ imports \in [Versions -> SUBSET Versions]
    BY <1>1, <1>3 DEF InstallerTypes
  <1>5. Whole(Stack(t)) /\ \A u \in Installers : Whole(task[u].stack)
    BY <1>1 DEF CallsWhole, Stack
  <1>6. CASE GoesOn(t, k) \/ Calls(t, k) \/ Fails(t, k)
    <2>1. /\ modules' = modules /\ (k.status = "busy" <=> k.stack # <<>>) /\ Whole(k.stack)
          /\ \A id : CallsFor(k.stack, id) => CallsFor(Stack(t), id) \/ Copies(id) = {}
      <3>1. CASE GoesOn(t, k)
        BY <1>1, <1>2, <1>5, <3>1, GoingOn
      <3>2. CASE Calls(t, k)
        BY <1>1, <1>2, <1>5, <3>2, CallingOn
      <3>3. CASE Fails(t, k)
        <4>1. modules' = modules /\ k.status = "failed" /\ k.stack = <<>> /\ DOMAIN k.stack = {}
          BY <3>3 DEF Fails
        <4> QED BY <4>1 DEF Whole, CallsFor
      <3> QED BY <1>6, <3>1, <3>2, <3>3
    <2>2. Grown
      BY <2>1 DEF Grown
    <2>3. \A u \in Installers : Whole(task'[u].stack)
      BY <1>4, <1>5, <2>1
    <2>4. CallsWhole'
      BY <1>2, <2>1, <2>3 DEF CallsWhole, Whole, CallWhole, Ids
    <2>5. ListWhole'
      BY <1>1, <1>2, <2>1 DEF ListWhole, Ids
    <2>6. CopiesOwned'
      <3>1. \A u \in Installers, id \in Versions : Pending(u, id)' => Pending(u, id) \/ Copies(id) = {}
        BY <1>4, <2>1 DEF Pending, Stack
      <3> QED BY <1>1, <2>1, <3>1, OwnedStays
    <2>7. InstallerTypes'
      BY <1>1, <1>2, <1>4, <2>1 DEF InstallerTypes, Busy
    <2> QED BY <2>4, <2>5, <2>6, <2>7 DEF InstallerInv
  <1>7. CASE Installs(t, k)
    <2>1. /\ Grown /\ ListWhole' /\ modules' \in Seq(Compiled)
          /\ DOMAIN modules' = DOMAIN modules \cup {Len(modules) + 1}
          /\ Len(modules) + 1 \notin DOMAIN modules
          /\ modules'[Len(modules) + 1].id = Stack(t)[1].id
          /\ modules'[Len(modules) + 1].sent = Stack(t)[1].sent
      BY <1>1, <1>2, <1>5, <1>7, ListedWhole
    <2>2. /\ Whole(k.stack)'
          /\ \A id : CallsFor(k.stack, id) => CallsFor(Stack(t), id)
          /\ Stack(t)[1].sent = 0 => CallsFor(Stack(t), Stack(t)[1].id) /\ ~CallsFor(k.stack, Stack(t)[1].id)
          /\ k.status = "busy" <=> k.stack # <<>>
      <3>1. /\ Whole(k.stack)'
            /\ \A id : CallsFor(k.stack, id) => CallsFor(Stack(t), id)
            /\ Stack(t)[1].sent = 0 => CallsFor(Stack(t), Stack(t)[1].id) /\ ~CallsFor(k.stack, Stack(t)[1].id)
            /\ \/ k.stack = <<>> /\ k.status = "done"
               \/ k.stack # <<>> /\ k.status = "busy"
        BY <1>1, <1>2, <1>5, <1>7, Returning
      <3> QED BY <3>1
    <2>3. CallsWhole'
      <3>1. ASSUME NEW u \in Installers
            PROVE  Whole(task[u].stack)'
        <4>1. CASE u = t
          BY <1>4, <2>2, <4>1 DEF Whole, CallWhole, Ids
        <4>2. CASE u # t
          <5>1. \A n \in DOMAIN task[u].stack : CallWhole(task[u].stack, n)
            BY <1>5 DEF Whole
          <5>2. PICK st : st = task[u].stack
            OBVIOUS
          <5>3. \A n \in DOMAIN st : CallWhole(st, n)'
            BY <1>2, <2>1, <5>1, <5>2, WholeStays
          <5>4. task'[u].stack = st
            BY <1>4, <4>2, <5>2
          <5> QED BY <5>3, <5>4 DEF Whole, CallWhole, Ids
        <4> QED BY <4>1, <4>2
      <3> QED BY <3>1 DEF CallsWhole
    <2>4. CopiesOwned'
      <3>1. \A u \in Installers, id \in Versions : CallsFor(task'[u].stack, id) => Pending(u, id)
        BY <1>4, <2>2 DEF Pending, Stack
      <3>2. modules'[Len(modules) + 1].sent = 0 =>
              /\ Pending(t, modules'[Len(modules) + 1].id)
              /\ ~CallsFor(task'[t].stack, modules'[Len(modules) + 1].id)
        BY <1>4, <2>1, <2>2 DEF Pending, Stack
      <3> QED BY <1>1, <2>1, <3>1, <3>2, OwnedGrows
    <2>5. InstallerTypes'
      BY <1>2, <1>4, <2>1, <2>2 DEF InstallerTypes, Busy
    <2> QED BY <2>1, <2>3, <2>4, <2>5 DEF InstallerInv
  <1> QED BY <1>3, <1>6, <1>7

\* So does a step that lists nothing and at most ends calls.
LEMMA QuietKeeps ==
  ASSUME InstallerInv, imports' = imports, modules' = modules,
         task' \in [Installers -> TaskStates],
         \A t \in Installers :
           \/ task'[t] = task[t]
           \/ task'[t].stack = <<>> /\ task'[t].status # "busy"
  PROVE  InstallerInv'
  <1>1. InstallerTypes /\ ListWhole /\ CallsWhole /\ CopiesOwned
    BY DEF InstallerInv
  <1>2. \A t \in Installers : Whole(task'[t].stack)
    BY <1>1 DEF CallsWhole, Whole
  <1>3. CallsWhole'
    BY <1>2 DEF CallsWhole, Whole, CallWhole, Ids
  <1>4. ListWhole'
    BY <1>1 DEF ListWhole, Ids
  <1>5. CopiesOwned'
    <2>1. \A t \in Installers, id \in Versions : Pending(t, id)' => Pending(t, id) \/ Copies(id) = {}
      BY DEF Pending, CallsFor
    <2> QED BY <1>1, <2>1, OwnedStays
  <1>6. InstallerTypes'
    BY <1>1 DEF InstallerTypes, Busy
  <1> QED BY <1>3, <1>4, <1>5, <1>6 DEF InstallerInv

\* And one that makes a first call, for a version that is not listed or that
\* a session has sent.
LEMMA StartKeeps ==
  ASSUME InstallerInv, imports' = imports, modules' = modules, NEW t \in Installers,
         task[t].status = "idle", NEW g \in Frames,
         task' = [task EXCEPT ![t] = Called(@, g)],
         g.links = {}, g.phase = "importing" => g.todo = imports[g.id],
         g.sent = 0 => Copies(g.id) = {}
  PROVE  /\ InstallerInv'
         /\ task'[t].status = "busy" /\ task'[t].stack = <<g>> /\ task'[t].result = task[t].result
         /\ task' \in [Installers -> TaskStates]
  <1>1. InstallerTypes /\ ListWhole /\ CallsWhole /\ CopiesOwned
    BY DEF InstallerInv
  <1>2. task[t] \in TaskStates /\ task[t].stack = <<>>
    BY <1>1 DEF InstallerTypes, Busy
  <1>3. PICK k : k = Called(task[t], g) /\ k \in TaskStates /\ k.status = "busy" /\ k.stack = <<g>>
                 /\ k.result = task[t].result
    <2>1. <<g>> \o <<>> = <<g>> /\ <<g>> \in Seq(Frames)
      OBVIOUS
    <2>2. \A x \in Seq(Frames) : [task[t] EXCEPT !.status = "busy", !.stack = x] \in TaskStates
                                /\ [task[t] EXCEPT !.status = "busy", !.stack = x].stack = x
                                /\ [task[t] EXCEPT !.status = "busy", !.stack = x].status = "busy"
                                /\ [task[t] EXCEPT !.status = "busy", !.stack = x].result = task[t].result
      BY <1>2 DEF TaskStates
    <2>3. Called(task[t], g) = [task[t] EXCEPT !.status = "busy", !.stack = <<g>> \o task[t].stack]
      BY <1>2 DEF Called, TaskStates
    <2>4. Called(task[t], g) = [task[t] EXCEPT !.status = "busy", !.stack = <<g>>]
      BY <1>2, <2>1, <2>3
    <2>5. [task[t] EXCEPT !.status = "busy", !.stack = <<g>>] \in TaskStates
      BY <2>1, <2>2
    <2>6. [task[t] EXCEPT !.status = "busy", !.stack = <<g>>].stack = <<g>>
      BY <2>1, <2>2
    <2>7. [task[t] EXCEPT !.status = "busy", !.stack = <<g>>].status = "busy"
          /\ [task[t] EXCEPT !.status = "busy", !.stack = <<g>>].result = task[t].result
      BY <2>1, <2>2
    <2> QED BY <2>4, <2>5, <2>6, <2>7, Zenon
  <1>4. /\ task' \in [Installers -> TaskStates]
        /\ task'[t] = k /\ \A u \in Installers : u # t => task'[u] = task[u]
        /\ \A u \in Installers : Busy(u) <=> task[u].stack # <<>>
    <2>1. task' = [task EXCEPT ![t] = k]
      BY <1>3
    <2> QED BY <1>1, <1>3, <2>1 DEF InstallerTypes
  <1>5. PICK st : st = <<g>> /\ DOMAIN st = {1} /\ st[1] = g /\ st # <<>>
    <2>1. <<g>> \in Seq(Frames) /\ Len(<<g>>) = 1 /\ <<g>>[1] = g /\ <<g>> # <<>>
      OBVIOUS
    <2>2. \A st \in Seq(Frames) : Len(st) = 1 => DOMAIN st = {1}
      OBVIOUS
    <2>3. DOMAIN <<g>> = {1}
      BY <2>1, <2>2
    <2> QED BY <2>1, <2>3, Zenon
  <1>6. CallWhole(st, 1)
    BY <1>5 DEF CallWhole, Ids
  <1>7. Whole(k.stack) /\ \A id : CallsFor(k.stack, id) => id = g.id /\ g.sent = 0
    BY <1>3, <1>5, <1>6 DEF Whole, CallsFor
  <1>8. \A u \in Installers : Whole(task'[u].stack)
    BY <1>1, <1>4, <1>7 DEF CallsWhole
  <1>9. CallsWhole'
    BY <1>8 DEF CallsWhole, Whole, CallWhole, Ids
  <1>10. ListWhole'
    BY <1>1 DEF ListWhole, Ids
  <1>11. CopiesOwned'
    <2>1. \A u \in Installers, id \in Versions : Pending(u, id)' => Pending(u, id) \/ Copies(id) = {}
      BY <1>4, <1>7 DEF Pending
    <2> QED BY <1>1, <2>1, OwnedStays
  <1>12. InstallerTypes'
    BY <1>1, <1>3, <1>4, <1>5 DEF InstallerTypes, Busy
  <1> QED BY <1>3, <1>4, <1>9, <1>10, <1>11, <1>12 DEF InstallerInv

-----------------------------------------------------------------------------
(* The types of the sessions, and the installer's invariant in each step.   *)

\* The operator's commands are typed.
LEMMA CommandsTyped == OperatorCommands \subseteq Commands
  <1>1. \A m \in Modules : Drafts[m] \cup {None} \subseteq Versions \cup {None}
    BY SessionsAssumption
  <1> QED BY <1>1 DEF OperatorCommands, Commands, Command

\* The entry that stands for none is typed.
LEMMA EntryTyped == NoEntry \in Entries
  BY DEF NoEntry, Entries

\* The commands that a tick makes are typed.
LEMMA TickTyped ==
  ASSUME NEW order \in SetToSeqs(OldEntries)
  PROVE  [i \in DOMAIN order |-> Command("disable", order[i], None, "tick")] \in Seq(Commands)
  <1>1. OldEntries \subseteq Modules /\ IsFiniteSet(OldEntries)
    BY SessionsAssumption, FS_Subset DEF OldEntries
  <1>2. PICK n \in Nat : n = Cardinality(OldEntries)
    BY <1>1, FS_CardinalityType
  <1>3. order \in [1..n -> OldEntries]
    BY <1>2 DEF SetToSeqs
  <1>4. \A i \in 1..n : Command("disable", order[i], None, "tick") \in Commands
    BY <1>1, <1>3 DEF Command, Commands
  <1>5. DOMAIN order = 1..n
    BY <1>3
  <1> QED BY <1>4, <1>5

\* A receiver's backlog is a number.
LEMMA NotifiedTyped == ASSUME NEW n \in Nat PROVE Notified(n) \in Nat
  BY DEF Notified

\* An actor beside the worker's own changes nothing but itself.
LEMMA ActorsOnly ==
  ASSUME ActorStep
  PROVE  UNCHANGED <<installerVars, agentVars, workerVars, reloads, unversioned, commands, ticks>>
  BY DEF ActorStep, Request, Attach, Spawn, EndActor, Beside

\* Every step keeps the types of the sessions' state.
LEMMA SessionsTyped ==
  ASSUME SessionTypes, InstallerTypes, [Next]_vars
  PROVE  SessionTypes'
  <1>1. /\ inbox \in Seq(Commands) /\ agent \in Commands \cup {None}
        /\ entries \in [Modules -> Entries] /\ snapshot \in [Modules -> Entries]
        /\ sessions \in Nat /\ phase \in Phases /\ managers \subseteq [module : Nat, session : Nat]
        /\ reloads \in Nat /\ used \in [Modules -> Nat]
        /\ task \in [Installers -> TaskStates]
    BY DEF SessionTypes, InstallerTypes
  <1>2. inbox # <<>> => Head(inbox) \in Commands /\ Tail(inbox) \in Seq(Commands)
    BY <1>1
  <1>3. Agent \in Installers /\ Configured \subseteq Installers /\ Configured \subseteq Modules
    BY SessionsAssumption
  <1>4. CASE Operate
    <2>1. \E c \in Commands : inbox' = Append(inbox, c)
      BY <1>4, CommandsTyped DEF Operate
    <2>2. inbox' \in Seq(Commands)
      BY <1>1, <2>1
    <2> QED BY <1>1, <1>4, <2>2 DEF Operate, SessionTypes, workerVars
  <1>5. CASE Tick
    <2>1. PICK q \in Seq(Commands) : inbox' = inbox \o q
      BY <1>5, TickTyped DEF Tick
    <2>2. inbox' \in Seq(Commands)
      BY <1>1, <2>1
    <2> QED BY <1>1, <1>5, <2>2 DEF Tick, SessionTypes, workerVars
  <1>6. ASSUME NEW m \in Modules, Expire(m)
        PROVE  SessionTypes'
    <2>1. entries' = [entries EXCEPT ![m] = [entries[m] EXCEPT !.expired = TRUE]]
      BY <1>1, <1>6 DEF Expire
    <2>2. [entries[m] EXCEPT !.expired = TRUE] \in Entries
      BY <1>1 DEF Entries
    <2>3. entries' \in [Modules -> Entries]
      BY <1>1, <2>1, <2>2
    <2> QED BY <1>1, <1>6, <2>3 DEF Expire, SessionTypes, workerVars
  <1>7. ASSUME NEW m \in Modules, NEW x \in Nat, EnterPassive(m, x)
        PROVE  entries' \in [Modules -> Entries] /\ reloads' = reloads /\ used' = used
    <2>1. [NoEntry EXCEPT !.session = x] \in Entries
      BY <1>7 DEF NoEntry, Entries
    <2> QED BY <1>1, <1>7, <2>1 DEF EnterPassive
  <1>8. CASE EnablePassive
    <2>1. inbox # <<>> /\ Head(inbox).module \in Modules
      BY <1>2, <1>8 DEF EnablePassive, Takes, Commands
    <2>2. sessions + 1 \in Nat
      BY <1>1
    <2>3. entries' \in [Modules -> Entries] /\ reloads' = reloads /\ used' = used
      BY <1>7, <1>8, <2>1, <2>2 DEF EnablePassive
    <2> QED BY <1>1, <1>2, <1>8, <2>1, <2>2, <2>3 DEF EnablePassive, SessionTypes, workerVars
  <1>9. CASE StartInstall
    <2>1. inbox # <<>> /\ sessions + 1 \in Nat
      BY <1>1, <1>9 DEF StartInstall, Takes
    <2> QED BY <1>1, <1>2, <1>9, <2>1 DEF StartInstall, SessionTypes, workerVars
  <1>10. CASE EnableVersion
    <2>1. agent \in Commands /\ agent.module \in Modules /\ agent' = None
      BY <1>1, <1>10 DEF EnableVersion, Resume, Commands
    <2>2. /\ entries' = [entries EXCEPT ![agent.module] =
               [session |-> sessions, module |-> task[Agent].result,
                number |-> used[agent.module] + 1, expired |-> FALSE]]
          /\ used' = [used EXCEPT ![agent.module] = @ + 1]
          /\ reloads' = Notified(reloads)
      BY <1>10 DEF EnableVersion
    <2>3. [session |-> sessions, module |-> task[Agent].result,
           number |-> used[agent.module] + 1, expired |-> FALSE] \in Entries
      BY <1>1, <1>3, <2>1 DEF TaskStates, Entries
    <2>4. entries' \in [Modules -> Entries] /\ used' \in [Modules -> Nat] /\ reloads' \in Nat
      <3>1. entries' \in [Modules -> Entries]
        BY <1>1, <2>1, <2>2, <2>3
      <3>2. used' \in [Modules -> Nat]
        BY <1>1, <2>1, <2>2
      <3>3. reloads' \in Nat
        BY <1>1, <2>2, NotifiedTyped
      <3> QED BY <3>1, <3>2, <3>3
    <2> QED BY <1>1, <1>10, <2>1, <2>4 DEF EnableVersion, Resume, SessionTypes, workerVars
  <1>11. CASE EnableFailed
    <2>1. agent \in Commands /\ agent.module \in Modules /\ agent' = None
      BY <1>1, <1>11 DEF EnableFailed, Resume, Commands
    <2>2. entries' \in [Modules -> Entries] /\ reloads' = reloads /\ used' = used
      BY <1>1, <1>7, <1>11, <2>1 DEF EnableFailed
    <2> QED BY <1>1, <1>11, <2>1, <2>2 DEF EnableFailed, Resume, SessionTypes, workerVars
  <1>12. CASE PerformRun
    BY <1>1, <1>12 DEF PerformRun, Resume, SessionTypes, workerVars
  <1>13. CASE RefuseRun
    BY <1>1, <1>2, <1>13 DEF RefuseRun, Takes, SessionTypes, workerVars
  <1>14. CASE DisableDebugger
    <2>1. inbox # <<>> /\ Head(inbox).module \in Modules
      BY <1>2, <1>14 DEF DisableDebugger, Takes, Commands
    <2>2. entries' \in [Modules -> Entries] /\ reloads' \in Nat
      BY <1>1, <1>14, <2>1, EntryTyped, NotifiedTyped DEF DisableDebugger
    <2> QED BY <1>1, <1>2, <1>14, <2>1, <2>2 DEF DisableDebugger, SessionTypes, workerVars
  <1>15. CASE ReadConfiguration
    BY <1>1, <1>15 DEF ReadConfiguration, WorkerStep, agentVars, SessionTypes, Phases
  <1>16. CASE Load
    BY <1>1, <1>16 DEF Load, WorkerStep, agentVars, SessionTypes, Phases
  <1>17. CASE StartActors
    <2>1. \A m \in Modules : Chosen(m) \in Nat /\ snapshot[m].session \in Nat
      BY <1>1, <1>3 DEF Chosen, TaskStates, Entries
    <2>2. managers' \subseteq [module : Nat, session : Nat]
      BY <1>17, <2>1 DEF StartActors
    <2> QED BY <1>1, <1>17, <2>2 DEF StartActors, WorkerStep, agentVars, SessionTypes, Phases
  <1>18. CASE Launch
    BY <1>1, <1>18 DEF Launch, WorkerStep, agentVars, SessionTypes, Phases
  <1>19. CASE Stop
    <2>1. reloads - 1 \in Nat
      BY <1>1, <1>19 DEF Stop
    <2> QED BY <1>1, <1>19, <2>1 DEF Stop, WorkerStep, agentVars, SessionTypes, Phases
  <1>20. CASE Stopped
    BY <1>1, <1>20 DEF Stopped, WorkerStep, agentVars, SessionTypes, Phases
  <1>21. CASE \E m \in Configured : ResolveConfigured(m)
    BY <1>1, <1>21 DEF ResolveConfigured, WorkerStep, agentVars, workerVars, SessionTypes
  <1>22. CASE \E t \in Installers : Installing(t)
    BY <1>1, <1>22 DEF Installing, agentVars, workerVars, SessionTypes
  <1>23. CASE UNCHANGED vars
    BY <1>1, <1>23 DEF vars, agentVars, workerVars, SessionTypes
  <1>24. CASE ActorStep
    BY <1>1, <1>24, ActorsOnly DEF agentVars, workerVars, SessionTypes
  <1> QED
    BY <1>24, <1>4, <1>5, <1>6, <1>8, <1>9, <1>10, <1>11, <1>12, <1>13, <1>14, <1>15, <1>16, <1>17,
       <1>18, <1>19, <1>20, <1>21, <1>22, <1>23 DEF Next, AgentStep, LoopStep

\* Every step of the agent, the worker and the installers keeps the installer's
\* invariant: none but the installers touches the list and the calls.
LEMMA InstallerStays ==
  ASSUME SessionTypes, InstallerInv, [Next]_vars
  PROVE  InstallerInv'
  <1>1. /\ inbox \in Seq(Commands) /\ entries \in [Modules -> Entries] /\ sessions \in Nat
        /\ task \in [Installers -> TaskStates] /\ modules \in Seq(Compiled)
        /\ imports \in [Versions -> SUBSET Versions]
    BY DEF SessionTypes, InstallerInv, InstallerTypes
  <1>2. Agent \in Installers /\ Configured \subseteq Installers /\ Configured \subseteq Modules
    BY SessionsAssumption
  <1>3. Unused \in TaskStates /\ Unused.stack = <<>> /\ Unused.status = "idle"
    <2>1. <<>> \in Seq(Frames)
      OBVIOUS
    <2> QED BY <2>1 DEF Unused, TaskStates
  <1>4. ASSUME UNCHANGED installerVars
        PROVE  InstallerInv'
    BY <1>1, <1>4, QuietKeeps DEF installerVars
  <1>5. CASE \/ Operate \/ Tick \/ (\E m \in Modules : Expire(m)) \/ EnablePassive \/ RefuseRun
             \/ DisableDebugger \/ ReadConfiguration \/ Launch \/ Stop \/ Stopped \/ ActorStep
             \/ UNCHANGED vars
    <2>1. UNCHANGED installerVars
      BY <1>5, ActorsOnly DEF Operate, Tick, Expire, EnablePassive, RefuseRun, DisableDebugger, ReadConfiguration,
                  Launch, Stop, Stopped, vars
    <2> QED BY <1>4, <2>1
  <1>6. CASE StartInstall
    <2>1. /\ inbox # <<>> /\ Head(inbox).version # None
          /\ InstallSent(Agent, Head(inbox).version, sessions + 1)
      BY <1>6 DEF StartInstall, Takes
    <2>2. PICK v \in Versions : v = Head(inbox).version
      <3>1. Head(inbox) \in Commands
        BY <1>1, <2>1
      <3> QED BY <2>1, <3>1 DEF Commands
    <2>3. PICK g \in Frames :
            /\ g = Frame(v, sessions + 1, "importing", imports[v])
            /\ g.links = {} /\ g.todo = imports[v] /\ g.id = v /\ g.sent # 0
      <3>1. Frame(v, sessions + 1, "importing", imports[v]) \in Frames
        BY <1>1, <2>2 DEF Frame, Frames
      <3> QED BY <1>1, <3>1 DEF Frame
    <2>4. /\ imports' = imports /\ modules' = modules /\ task[Agent].status = "idle"
          /\ task' = [task EXCEPT ![Agent] = Called(@, g)]
      BY <2>1, <2>2, <2>3 DEF InstallSent
    <2> QED BY <1>2, <2>3, <2>4, StartKeeps
  <1>7. ASSUME NEW status, Resume(status)
        PROVE  InstallerInv'
    <2>1. /\ imports' = imports /\ modules' = modules /\ task' = [task EXCEPT ![Agent] = Unused]
      BY <1>7 DEF Resume
    <2>2. task' \in [Installers -> TaskStates]
          /\ \A t \in Installers : task'[t] = task[t] \/ task'[t] = Unused
      BY <1>1, <1>3, <2>1
    <2> QED BY <1>3, <2>1, <2>2, QuietKeeps
  <1>8. CASE EnableVersion \/ EnableFailed \/ PerformRun
    BY <1>7, <1>8 DEF EnableVersion, EnableFailed, PerformRun
  <1>9. CASE Load
    <2>1. \A t \in Installers :
            \/ task'[t] = task[t]
            \/ task'[t] \in TaskStates /\ task'[t].stack = <<>> /\ task'[t].status # "busy"
      <3>1. ASSUME NEW t \in Configured
            PROVE  [Unused EXCEPT !.status = "done", !.result = entries[t].module]
                     \in {k \in TaskStates : k.stack = <<>> /\ k.status # "busy"}
        BY <1>1, <1>2, <1>3 DEF Unused, TaskStates, Entries
      <3> QED BY <1>9, <3>1 DEF Load
    <2>2. /\ imports' = imports /\ modules' = modules
          /\ task' = [t \in Installers |-> task'[t]]
      BY <1>9 DEF Load
    <2>3. task' \in [Installers -> TaskStates]
      BY <1>1, <2>1, <2>2
    <2> QED BY <2>1, <2>2, <2>3, QuietKeeps
  <1>10. CASE StartActors
    <2>1. \A t \in Installers : task'[t] = task[t] \/ task'[t] = Unused
      BY <1>10 DEF StartActors
    <2>2. /\ imports' = imports /\ modules' = modules
          /\ task' = [t \in Installers |-> task'[t]]
      BY <1>10 DEF StartActors
    <2>3. task' \in [Installers -> TaskStates]
      BY <1>1, <1>3, <2>1, <2>2
    <2> QED BY <1>3, <2>1, <2>2, <2>3, QuietKeeps
  <1>11. ASSUME NEW m \in Configured, ResolveConfigured(m)
         PROVE  InstallerInv'
    <2>1. PICK v \in Versions : v = Deployed[m]
      BY SessionsAssumption
    <2>2. /\ imports' = imports /\ modules' = modules /\ task[m].status = "idle"
          /\ task' = [task EXCEPT ![m] = Resolved(@, v)]
      BY <1>11, <2>1 DEF ResolveConfigured, Resolve
    <2>3. m \in Installers /\ task[m] \in TaskStates /\ task[m].stack = <<>>
      BY <1>1, <1>2, <2>2 DEF InstallerInv, InstallerTypes, Busy
    <2>4. CASE Find(v) = 0
      <3>1. PICK g \in Frames :
              /\ g = Frame(v, 0, "fetching", {}) /\ g.links = {} /\ g.phase = "fetching" /\ g.id = v
        <4>1. Frame(v, 0, "fetching", {}) \in Frames
          BY DEF Frame, Frames
        <4> QED BY <4>1 DEF Frame
      <3>2. task' = [task EXCEPT ![m] = Called(@, g)]
        BY <2>2, <2>4, <3>1 DEF Resolved
      <3>3. Copies(v) = {}
        BY <1>1, <2>4, FindFacts DEF Copies
      <3> QED BY <2>2, <2>3, <3>1, <3>2, <3>3, StartKeeps
    <2>5. CASE Find(v) # 0
      <3>1. PICK k : k = [task[m] EXCEPT !.status = "done", !.result = Find(v)]
        OBVIOUS
      <3>2. k \in TaskStates /\ k.stack = <<>> /\ k.status = "done"
        BY <1>1, <2>3, <3>1, FindFacts DEF TaskStates
      <3>3. task' = [task EXCEPT ![m] = k]
        BY <2>2, <2>3, <2>5, <3>1 DEF Resolved, Returned
      <3>4. task' \in [Installers -> TaskStates]
            /\ \A t \in Installers : task'[t] = task[t] \/ task'[t] = k
        BY <1>1, <3>2, <3>3
      <3> QED BY <2>2, <3>2, <3>4, QuietKeeps
    <2> QED BY <2>4, <2>5
  <1>12. ASSUME NEW t \in Installers, Installing(t)
         PROVE  InstallerInv'
    BY <1>12, InstallingKeeps DEF Installing
  <1>13. \/ Operate \/ Tick \/ \E m \in Modules : Expire(m)
         \/ AgentStep \/ LoopStep \/ ActorStep \/ (\E t \in Installers : Installing(t))
         \/ UNCHANGED vars
    BY DEF Next
  <1>14. CASE AgentStep
    BY <1>5, <1>6, <1>8, <1>14 DEF AgentStep
  <1>15. CASE LoopStep
    BY <1>5, <1>9, <1>10, <1>11, <1>15 DEF LoopStep
  <1> QED
    BY <1>5, <1>12, <1>13, <1>14, <1>15

\* It holds, with the types, before the first command.
LEMMA InitFits == Init => SessionTypes /\ InstallerInv
  <1> SUFFICES ASSUME Init PROVE SessionTypes /\ InstallerInv
    OBVIOUS
  <1>1. SessionTypes
    <2>1. inbox \in Seq(Commands)
      BY DEF Init
    <2> QED BY <2>1, EntryTyped DEF Init, SessionTypes, Phases
  <1>2. Unused \in TaskStates /\ Unused.stack = <<>> /\ Unused.status = "idle" /\ DOMAIN Unused.stack = {}
    <2>1. <<>> \in Seq(Frames) /\ DOMAIN <<>> = {}
      OBVIOUS
    <2> QED BY <2>1 DEF Unused, TaskStates
  <1>3. modules = <<>> /\ modules \in Seq(Compiled) /\ DOMAIN modules = {}
    BY DEF Init, InitInstaller
  <1>4. InstallerTypes
    BY <1>2, <1>3, InstallerAssumption DEF Init, InitInstaller, InstallerTypes, Busy
  <1>5. ListWhole
    BY <1>3 DEF ListWhole
  <1>6. CallsWhole
    BY <1>2 DEF Init, InitInstaller, CallsWhole, Whole
  <1>7. CopiesOwned
    <2>1. \A id \in Versions : Copies(id) = {}
      BY <1>3 DEF Copies
    <2>2. [i \in {} |-> Agent] \in [{} -> Installers]
      OBVIOUS
    <2> QED BY <2>1, <2>2 DEF CopiesOwned
  <1> QED BY <1>1, <1>4, <1>5, <1>6, <1>7 DEF InstallerInv

\* For any import graph, number of installers and interleaving of their lookups,
\* fetches and appends: what is listed is complete (shared.rs:251-283), and a
\* version that is fetched is listed at most once per installer.
THEOREM OnlyWholeModulesAreListed == Spec => []ModulesSound
  <1>1. Init => SessionTypes /\ InstallerInv
    BY InitFits
  <1>2. SessionTypes /\ InstallerInv /\ [Next]_vars => (SessionTypes /\ InstallerInv)'
    BY SessionsTyped, InstallerStays DEF InstallerInv
  <1>3. InstallerInv => ModulesSound
    <2> SUFFICES ASSUME InstallerInv PROVE ModulesSound
      OBVIOUS
    <2>1. ASSUME NEW i \in DOMAIN modules
          PROVE  /\ {modules[l].id : l \in modules[i].links} = imports[modules[i].id]
                 /\ \A l \in modules[i].links : l < i
      <3>1. modules[i].links \subseteq 1..(i - 1) /\ i \in Nat
        BY DEF InstallerInv, ListWhole, InstallerTypes
      <3> QED BY <3>1 DEF InstallerInv, ListWhole, Ids
    <2>2. ASSUME NEW id \in Versions
          PROVE  Cardinality(Copies(id)) <= Cardinality(Installers)
      <3>1. PICK own \in [Copies(id) -> Installers] : \A i, j \in Copies(id) : own[i] = own[j] => i = j
        BY DEF InstallerInv, CopiesOwned
      <3>2. own \in Injection(Copies(id), Installers)
        BY <3>1 DEF Injection, IsInjective
      <3> QED BY <3>2, InstallerAssumption, FS_Injection
    <2> QED BY <2>1, <2>2 DEF ModulesSound
  <1> QED BY <1>1, <1>2, <1>3, PTL DEF Spec

-----------------------------------------------------------------------------
(* What is run is due.                                                     *)

\* What a lookup has found it finds again.
LEMMA FindStays ==
  ASSUME modules \in Seq(Compiled), modules' \in Seq(Compiled), Grown, NEW id, First(modules, id) # 0
  PROVE  First(modules', id) = First(modules, id)
  <1>1. PICK n : n = First(modules, id) /\ n \in Nat /\ n \in DOMAIN modules /\ modules[n].id = id
                 /\ \A i \in DOMAIN modules : modules[i].id = id => n <= i
    BY FirstOf
  <1>2. PICK q \in Seq(Compiled) : q = modules'
    OBVIOUS
  <1>3. PICK n2 : n2 = First(q, id)
    OBVIOUS
  <1>4. /\ n2 \in Nat
        /\ n2 = 0 => \A i \in DOMAIN q : q[i].id # id
        /\ n2 # 0 => /\ n2 \in DOMAIN q /\ q[n2].id = id
                     /\ \A i \in DOMAIN q : q[i].id = id => n2 <= i
    BY <1>3, FirstOf
  <1>5. n \in DOMAIN q /\ q[n].id = id /\ \A i \in DOMAIN modules : q[i] = modules[i]
    BY <1>1, <1>2 DEF Grown
  <1>6. n2 # 0 /\ n2 <= n
    BY <1>4, <1>5
  <1>7. n2 \in DOMAIN modules
    <2>1. /\ DOMAIN modules = 1..Len(modules) /\ Len(modules) \in Nat
      OBVIOUS
    <2> QED BY <1>1, <1>4, <1>6, <2>1
  <1>8. n2 = n
    BY <1>1, <1>4, <1>5, <1>6, <1>7
  <1> QED BY <1>1, <1>2, <1>3, <1>8

\* What one step of an installer does for those who wait for it.
LEMMA InstallingTells ==
  ASSUME InstallerInv, NEW t \in Installers, InstallerStep(t)
  PROVE  /\ Busy(t) /\ Stack(t) # <<>> /\ Grown /\ modules' \in Seq(Compiled)
         /\ \A i \in DOMAIN modules' : i \in DOMAIN modules \/ modules'[i].sent = Stack(t)[1].sent
         /\ \E k \in TaskStates :
              /\ task' = [task EXCEPT ![t] = k]
              /\ \/ /\ k.status = "busy" /\ k.stack # <<>> /\ SameAsker(Stack(t), k.stack)
                    /\ modules' # modules => Len(Stack(t)) > 1
                 \/ /\ k.status = "failed" /\ k.stack = <<>> /\ k.result = 0 /\ modules' = modules
                 \/ /\ k.status = "done" /\ k.stack = <<>> /\ Len(Stack(t)) = 1
                    /\ k.result \in DOMAIN modules'
                    /\ modules'[k.result].id = Stack(t)[1].id
                    /\ modules'[k.result].sent = Stack(t)[1].sent
  <1>1. InstallerTypes /\ ListWhole /\ CallsWhole /\ CopiesOwned /\ modules \in Seq(Compiled)
    BY DEF InstallerInv, InstallerTypes
  <1>2. Busy(t) /\ imports' = imports
    BY <1>1, ShapeOfInstalling
  <1>3. PICK k \in TaskStates :
          /\ task' = [task EXCEPT ![t] = k]
          /\ GoesOn(t, k) \/ Calls(t, k) \/ Fails(t, k) \/ Installs(t, k)
    BY <1>1, ShapeOfInstalling
  <1>4. Whole(Stack(t)) /\ Stack(t) # <<>>
    BY <1>1, <1>2 DEF CallsWhole, Stack, InstallerTypes
  <1>5. CASE GoesOn(t, k) \/ Calls(t, k)
    <2>1. modules' = modules /\ k.status = "busy" /\ k.stack # <<>> /\ SameAsker(Stack(t), k.stack)
      BY <1>1, <1>2, <1>4, <1>5, GoingOn, CallingOn
    <2> QED BY <1>1, <1>2, <1>3, <1>4, <2>1 DEF Grown
  <1>6. CASE Fails(t, k)
    <2>1. modules' = modules /\ k.status = "failed" /\ k.stack = <<>> /\ k.result = 0
      BY <1>6 DEF Fails
    <2> QED BY <1>1, <1>2, <1>3, <1>4, <2>1 DEF Grown
  <1>7. CASE Installs(t, k)
    <2>1. /\ Grown /\ modules' \in Seq(Compiled)
          /\ DOMAIN modules' = DOMAIN modules \cup {Len(modules) + 1}
          /\ modules'[Len(modules) + 1].id = Stack(t)[1].id
          /\ modules'[Len(modules) + 1].sent = Stack(t)[1].sent
      BY <1>1, <1>2, <1>4, <1>7, ListedWhole
    <2>2. \/ /\ k.stack = <<>> /\ k.status = "done" /\ k.result = Len(modules) + 1
             /\ Len(Stack(t)) = 1
          \/ /\ k.stack # <<>> /\ k.status = "busy"
             /\ Len(Stack(t)) > 1 /\ SameAsker(Stack(t), k.stack)
      BY <1>1, <1>2, <1>4, <1>7, Returning
    <2> QED BY <1>2, <1>3, <1>4, <2>1, <2>2
  <1> QED BY <1>3, <1>5, <1>6, <1>7

\* What a step may list: a version of the repository, or that of the last session.
ListGrows ==
  /\ Grown /\ modules' \in Seq(Compiled)
  /\ \A i \in DOMAIN modules' :
       i \in DOMAIN modules \/ modules'[i].sent = 0 \/ (agent # None /\ modules'[i].sent = sessions)

\* And what becomes of the sessions: the agent's goes on or ends, or one is made.
SessionsGoOn ==
  \/ sessions' = sessions /\ (agent' = agent \/ agent' = None)
  \/ sessions' = sessions + 1

\* An entry fits a list that has grown.
LEMMA EntryStays ==
  ASSUME SessionTypes, ListGrows, SessionsGoOn, NEW e \in Entries, EntryFits(e)
  PROVE  EntryFits(e)'
  <1>1. e.session \in Nat /\ sessions \in Nat
    BY DEF SessionTypes, Entries
  <1>2. e.session <= sessions' /\ (agent' # None => e.session < sessions')
    BY <1>1 DEF EntryFits, SessionsGoOn
  <1>3. e.module # 0 => /\ e.module \in DOMAIN modules' /\ e.session # 0
                        /\ modules'[e.module].sent = e.session
    BY DEF EntryFits, ListGrows, Grown
  <1>4. ASSUME e.module = 0, e.session # 0, NEW i \in DOMAIN modules'
        PROVE  modules'[i].sent # e.session
    BY <1>1, <1>4 DEF EntryFits, NoneSent, ListGrows, Grown
  <1> QED BY <1>2, <1>3, <1>4 DEF EntryFits, NoneSent

\* So does an actor that runs.
LEMMA ActorStays ==
  ASSUME SessionTypes, modules \in Seq(Compiled), ListGrows, SessionsGoOn,
         NEW a, a.session \in Nat, Fits(a)
  PROVE  Fits(a)'
  <1>1. /\ a.session \in Nat /\ sessions \in Nat /\ a.module \in DOMAIN modules
        /\ a.session <= sessions /\ (agent # None => a.session < sessions) /\ RunsDue(a)
        /\ modules'[a.module] = modules[a.module] /\ a.module \in DOMAIN modules'
    BY DEF SessionTypes, Fits, ListGrows, Grown
  <1>2. a.session <= sessions' /\ (agent' # None => a.session < sessions')
    BY <1>1 DEF SessionsGoOn
  <1>3. a.module # 0
    BY <1>1
  <1>4. First(modules, modules[a.module].id) = a.module => First(modules', modules[a.module].id) = a.module
    BY <1>3, FindStays DEF ListGrows
  <1>5. RunsDue(a)'
    <2>1. modules'[a.module].sent # 0 =>
            \/ modules'[a.module].sent = a.session
            \/ /\ First(modules', modules'[a.module].id) = a.module
               /\ \E m \in Configured : Deployed[m] = modules'[a.module].id
      BY <1>1, <1>4 DEF RunsDue
    <2>2. ASSUME modules'[a.module].sent = 0, NEW i \in DOMAIN modules'
          PROVE  modules'[i].sent = 0 \/ modules'[i].sent # a.session
      BY <1>1, <2>2 DEF RunsDue, ListGrows, Grown
    <2> QED BY <2>1, <2>2 DEF RunsDue
  <1> QED BY <1>1, <1>2, <1>5 DEF Fits

\* And so do the worker's actors.
LEMMA ManagersStay ==
  ASSUME SessionTypes, modules \in Seq(Compiled), ListGrows, SessionsGoOn, ManagersFit,
         managers' \subseteq managers
  PROVE  ManagersFit'
  <1>1. ASSUME NEW a \in managers
        PROVE  Fits(a)'
    <2>1. a.session \in Nat /\ Fits(a)
      BY DEF SessionTypes, ManagersFit
    <2> QED BY <2>1, ActorStays
  <1> QED BY <1>1 DEF ManagersFit, Fits, RunsDue

\* A step that neither lists nor makes a call of a session's version leaves what
\* the agent installs as it was.
LEMMA AgentStays ==
  ASSUME SessionTypes, AgentFits, modules' = modules, sessions' = sessions, agent' = agent,
         task'[Agent] = task[Agent],
         \A t \in Installers : t # Agent => \A n \in DOMAIN task'[t].stack : task'[t].stack[n].sent = 0
  PROVE  AgentFits'
  BY DEF AgentFits, NoneSent

\* A configured module stays what it was resolved to while the list grows.
LEMMA ConfigStays ==
  ASSUME modules \in Seq(Compiled), ListGrows, NEW m \in Configured, ConfigFits(m),
         task'[m] = task[m], snapshot' = snapshot, phase' = "resolving" <=> phase = "resolving"
  PROVE  ConfigFits(m)'
  <1>1. modules' \in Seq(Compiled) /\ Grown /\ DOMAIN modules \subseteq DOMAIN modules'
    BY DEF ListGrows, Grown
  <1>2. task[m].status = "done" =>
          /\ task[m].result \in DOMAIN modules /\ task[m].result # 0
          /\ modules'[task[m].result] = modules[task[m].result]
    BY DEF ConfigFits, ListGrows, Grown
  <1>3. First(modules, Deployed[m]) # 0 => First(modules', Deployed[m]) = First(modules, Deployed[m])
    BY <1>1, FindStays
  <1> QED BY <1>1, <1>2, <1>3 DEF ConfigFits

\* What is listed knows the session that has sent it, by its number.
LEMMA SentTyped ==
  ASSUME NEW q \in Seq(Compiled), NEW i \in DOMAIN q
  PROVE  q[i].sent \in Nat
  <1>1. q[i] \in Compiled
    OBVIOUS
  <1> QED BY <1>1 DEF Compiled

\* The steps that leave the installers alone.
LEMMA SessionsStay ==
  ASSUME SessionTypes, InstallerTypes, EntriesFit, AgentFits, ConfiguredFit, ManagersFit,
         UNCHANGED installerVars,
         \/ sessions' = sessions /\ agent' = agent
         \/ sessions' = sessions + 1 /\ agent = None /\ agent' = None,
         entries' \in [Modules -> Entries], NEW new \in Entries, EntryFits(new)',
         \A m \in Modules : entries'[m] = new \/ EntryFits(entries'[m]),
         snapshot' = snapshot, phase' = "resolving" <=> phase = "resolving", managers' \subseteq managers
  PROVE  EntriesFit' /\ AgentFits' /\ ConfiguredFit' /\ ManagersFit'
  <1>1. /\ modules' = modules /\ task' = task /\ modules \in Seq(Compiled)
        /\ sessions \in Nat /\ Agent \in Installers /\ task \in [Installers -> TaskStates]
        /\ snapshot \in [Modules -> Entries]
    BY SessionsAssumption DEF installerVars, InstallerTypes, SessionTypes
  <1>2. ListGrows /\ SessionsGoOn
    BY <1>1 DEF ListGrows, Grown, SessionsGoOn
  <1>3. EntriesFit'
    <2>1. ASSUME NEW m \in Modules, NEW e \in Entries, e = entries'[m]
          PROVE  EntryFits(e)'
      BY <1>2, <2>1, EntryStays
    <2>2. ASSUME NEW m \in Modules, NEW e \in Entries, e = snapshot[m]
          PROVE  EntryFits(e)'
      BY <1>2, <2>2, EntryStays DEF EntriesFit
    <2>3. \A m \in Modules : entries'[m] \in Entries /\ snapshot[m] \in Entries
      BY <1>1
    <2> QED BY <2>1, <2>2, <2>3 DEF EntriesFit, EntryFits, NoneSent
  <1>4. AgentFits'
    <2>1. CASE sessions' = sessions /\ agent' = agent
      BY <1>1, <2>1 DEF AgentFits, NoneSent
    <2>2. CASE sessions' = sessions + 1 /\ agent = None /\ agent' = None
      <3>1. task[Agent].status = "idle" /\ task[Agent].stack = <<>> /\ DOMAIN task[Agent].stack = {}
        BY <1>1, <2>2 DEF AgentFits, InstallerTypes, Busy
      <3>2. \A i \in DOMAIN modules : modules[i].sent <= sessions + 1
        <4>1. \A i \in DOMAIN modules : modules[i].sent \in Nat
          BY SentTyped DEF InstallerTypes
        <4> QED BY <1>1, <4>1 DEF AgentFits
      <3> QED BY <1>1, <2>2, <3>1, <3>2 DEF AgentFits, NoneSent
    <2> QED BY <2>1, <2>2
  <1>5. ConfiguredFit'
    BY <1>1, <1>2, ConfigStays DEF ConfiguredFit
  <1>6. ManagersFit'
    BY <1>1, <1>2, ManagersStay
  <1> QED BY <1>3, <1>4, <1>5, <1>6

\* Entries that fit.
LEMMA NoEntryFits ==
  ASSUME SessionTypes, AgentFits
  PROVE  EntryFits(NoEntry)
  BY DEF SessionTypes, AgentFits, EntryFits, NoEntry

\* What all but installing, loading and starting actors do to the sessions.
LEMMA MostStepsFit ==
  ASSUME SessionTypes, SessionTypes', InstallerTypes, EntriesFit, AgentFits, ConfiguredFit, ManagersFit,
         \/ Operate \/ Tick \/ (\E m \in Modules : Expire(m)) \/ EnablePassive \/ RefuseRun
         \/ DisableDebugger \/ ReadConfiguration \/ Launch \/ Stop \/ Stopped \/ ActorStep
         \/ UNCHANGED vars
  PROVE  EntriesFit' /\ AgentFits' /\ ConfiguredFit' /\ ManagersFit'
  <1>1. /\ entries \in [Modules -> Entries] /\ entries' \in [Modules -> Entries]
        /\ sessions \in Nat /\ \A m \in Modules : EntryFits(entries[m])
        /\ inbox \in Seq(Commands)
    BY DEF SessionTypes, EntriesFit
  <1>2. PICK e \in Entries : e = NoEntry /\ EntryFits(e) /\ e.module = 0 /\ e.session = 0 /\ e.number = 0
    BY NoEntryFits, EntryTyped DEF NoEntry
  <1>3. CASE /\ UNCHANGED installerVars /\ UNCHANGED <<agent, sessions, snapshot>>
             /\ managers' \subseteq managers /\ (phase' = "resolving" <=> phase = "resolving")
             /\ \A m \in Modules : entries'[m] = NoEntry \/ EntryFits(entries'[m])
    <2>1. EntryFits(e)'
      BY <1>2, <1>3 DEF EntryFits
    <2>2. /\ sessions' = sessions /\ agent' = agent /\ snapshot' = snapshot /\ managers' \subseteq managers
          /\ UNCHANGED installerVars /\ (phase' = "resolving" <=> phase = "resolving")
          /\ \A m \in Modules : entries'[m] = e \/ EntryFits(entries'[m])
      BY <1>2, <1>3
    <2> QED BY <1>1, <1>2, <2>1, <2>2, SessionsStay
  <1>4. CASE \/ Operate \/ Tick \/ ReadConfiguration \/ Launch \/ Stop \/ Stopped \/ ActorStep
             \/ UNCHANGED vars
    <2>1. /\ UNCHANGED installerVars /\ UNCHANGED <<agent, sessions, snapshot, entries>>
          /\ managers' \subseteq managers /\ (phase' = "resolving" <=> phase = "resolving")
      BY <1>4, ActorsOnly DEF Operate, Tick, ReadConfiguration, Launch, Stop, Stopped, vars, agentVars, workerVars, WorkerStep
    <2> QED BY <1>1, <1>3, <2>1
  <1>5. ASSUME NEW x \in Modules, Expire(x)
        PROVE  EntriesFit' /\ AgentFits' /\ ConfiguredFit' /\ ManagersFit'
    <2>1. \A m \in Modules : entries'[m] = [entries[m] EXCEPT !.expired = TRUE] \/ entries'[m] = entries[m]
      BY <1>1, <1>5 DEF Expire
    <2>2. ASSUME NEW m \in Modules
          PROVE  EntryFits(entries'[m])
      <3>1. PICK old \in Entries : old = entries[m] /\ EntryFits(old)
        BY <1>1
      <3>2. EntryFits([old EXCEPT !.expired = TRUE])
        BY <3>1 DEF EntryFits, Entries
      <3> QED BY <2>1, <3>1, <3>2
    <2> QED BY <1>3, <1>5, <2>2 DEF Expire, workerVars
  <1>6. CASE DisableDebugger
    <2>1. \A m \in Modules : entries'[m] = NoEntry \/ entries'[m] = entries[m]
      BY <1>1, <1>6 DEF DisableDebugger
    <2> QED BY <1>1, <1>3, <1>6, <2>1 DEF DisableDebugger, workerVars
  <1>7. CASE RefuseRun
    <2>1. /\ UNCHANGED installerVars /\ sessions' = sessions + 1 /\ agent = None /\ agent' = None
          /\ UNCHANGED <<entries, snapshot, managers, phase>>
      BY <1>7 DEF RefuseRun, Takes, workerVars
    <2>2. EntryFits(e)'
      BY <1>1, <1>2, <2>1 DEF EntryFits
    <2> QED BY <1>1, <1>2, <2>1, <2>2, SessionsStay
  <1>8. CASE EnablePassive
    <2>1. /\ UNCHANGED installerVars /\ sessions' = sessions + 1 /\ agent = None /\ agent' = None
          /\ UNCHANGED <<snapshot, managers, phase>>
          /\ entries' = [entries EXCEPT ![Head(inbox).module] = [NoEntry EXCEPT !.session = sessions + 1]]
      BY <1>8 DEF EnablePassive, EnterPassive, Takes, workerVars
    <2>2. PICK n \in Entries :
            /\ n = [NoEntry EXCEPT !.session = sessions + 1]
            /\ n.session = sessions + 1 /\ n.module = 0 /\ n.number = 0
      <3>1. PICK x \in Nat : x = sessions + 1
        BY <1>1
      <3>2. [NoEntry EXCEPT !.session = x] \in Entries
        BY DEF NoEntry, Entries
      <3> QED BY <3>1, <3>2 DEF NoEntry
    <2>3. EntryFits(n)'
      <3>1. \A i \in DOMAIN modules : modules[i].sent # sessions + 1
        BY <1>1 DEF AgentFits, InstallerTypes, Compiled
      <3>2. modules' = modules
        BY <2>1 DEF installerVars
      <3> QED BY <1>1, <2>1, <2>2, <3>1, <3>2 DEF EntryFits, NoneSent
    <2>4. \A m \in Modules : entries'[m] = n \/ EntryFits(entries'[m])
      BY <1>1, <2>1, <2>2
    <2> QED BY <1>1, <2>1, <2>3, <2>4, SessionsStay
  <1> QED BY <1>4, <1>5, <1>6, <1>7, <1>8

\* What was entered or loaded stays fit.
LEMMA EntriesStay ==
  ASSUME SessionTypes, SessionTypes', EntriesFit, ListGrows, SessionsGoOn,
         NEW new \in Entries, EntryFits(new)',
         \A m \in Modules : \/ entries'[m] = entries[m] \/ entries'[m] = new,
         \A m \in Modules : \/ snapshot'[m] = snapshot[m] \/ snapshot'[m] = entries[m]
  PROVE  EntriesFit'
  <1>1. \A e \in Entries : EntryFits(e) => EntryFits(e)'
    BY EntryStays
  <1>2. ASSUME NEW m \in Modules
        PROVE  /\ \E e \in Entries : e = entries'[m] /\ EntryFits(e)'
               /\ \E e \in Entries : e = snapshot'[m] /\ EntryFits(e)'
    <2>1. /\ entries[m] \in Entries /\ EntryFits(entries[m])
          /\ snapshot[m] \in Entries /\ EntryFits(snapshot[m])
      BY DEF SessionTypes, EntriesFit
    <2>2. PICK x \in Entries, y \in Entries : /\ x = entries[m] /\ EntryFits(x)
                                             /\ y = snapshot[m] /\ EntryFits(y)
      BY <2>1
    <2>3. EntryFits(x)' /\ EntryFits(y)'
      BY <1>1, <2>2
    <2>4. entries'[m] \in {x, new} /\ snapshot'[m] \in {x, y}
      BY <2>2
    <2> QED BY <2>3, <2>4
  <1> QED BY <1>2 DEF EntriesFit, EntryFits, NoneSent

\* The agent takes up a version to install: a session of its own begins.
LEMMA StartFits ==
  ASSUME SessionTypes, SessionTypes', InstallerInv, EntriesFit, AgentFits, ConfiguredFit, ManagersFit,
         StartInstall
  PROVE  EntriesFit' /\ AgentFits' /\ ConfiguredFit' /\ ManagersFit'
  <1>1. /\ InstallerTypes /\ modules \in Seq(Compiled) /\ task \in [Installers -> TaskStates]
        /\ imports \in [Versions -> SUBSET Versions] /\ sessions \in Nat /\ inbox \in Seq(Commands)
        /\ Agent \in Installers /\ Configured \subseteq Installers /\ Agent \notin Configured
        /\ entries \in [Modules -> Entries]
    BY SessionsAssumption DEF InstallerInv, InstallerTypes, SessionTypes
  <1>2. /\ inbox # <<>> /\ agent = None /\ agent' = Head(inbox) /\ sessions' = sessions + 1
        /\ Head(inbox).op \in {"enable", "run"} /\ Head(inbox).version # None
        /\ InstallSent(Agent, Head(inbox).version, sessions + 1)
        /\ UNCHANGED <<entries, snapshot, phase, managers>>
    BY DEF StartInstall, Takes, workerVars
  <1>3. PICK c \in Commands : c = Head(inbox) /\ c # None /\ c.version \in Versions
    <2>1. Head(inbox) \in Commands
      BY <1>1, <1>2
    <2> QED BY <1>2, <2>1, SessionsAssumption DEF Commands
  <1>4. PICK g \in Frames :
          /\ g = Frame(c.version, sessions + 1, "importing", imports[c.version])
          /\ g.links = {} /\ g.todo = imports[c.version] /\ g.id = c.version /\ g.sent = sessions + 1
    <2>1. Frame(c.version, sessions + 1, "importing", imports[c.version]) \in Frames
      BY <1>1, <1>3 DEF Frame, Frames
    <2> QED BY <2>1 DEF Frame
  <1>5. /\ imports' = imports /\ modules' = modules /\ task[Agent].status = "idle"
        /\ task' = [task EXCEPT ![Agent] = Called(@, g)] /\ g.sent # 0
    BY <1>1, <1>2, <1>3, <1>4 DEF InstallSent
  <1>6. PICK st : /\ st = <<g>> /\ task'[Agent].status = "busy" /\ task'[Agent].stack = st
                  /\ Len(st) = 1 /\ DOMAIN st = {1} /\ st[1] = g
    <2>1. task'[Agent].status = "busy" /\ task'[Agent].stack = <<g>>
      <3>1. /\ task[Agent].status = "idle" /\ g \in Frames /\ task' = [task EXCEPT ![Agent] = Called(@, g)]
            /\ imports' = imports /\ modules' = modules /\ Agent \in Installers
            /\ g.links = {} /\ (g.phase = "importing" => g.todo = imports[g.id])
            /\ (g.sent = 0 => Copies(g.id) = {})
        BY <1>1, <1>4, <1>5
      <3> QED BY <3>1, StartKeeps, Zenon
    <2>2. <<g>> \in Seq(Frames) /\ Len(<<g>>) = 1 /\ <<g>>[1] = g
      OBVIOUS
    <2>3. \A q \in Seq(Frames) : Len(q) = 1 => DOMAIN q = {1}
      OBVIOUS
    <2>4. DOMAIN <<g>> = {1}
      BY <2>2, <2>3
    <2> QED BY <2>1, <2>2, <2>4, Zenon
  <1>7. \A t \in Installers : t # Agent => task'[t] = task[t]
    BY <1>1, <1>5
  <1>8. ListGrows /\ SessionsGoOn
    BY <1>1, <1>2, <1>5 DEF ListGrows, Grown, SessionsGoOn
  <1>9. EntriesFit'
    <2>1. PICK e \in Entries : e = NoEntry /\ EntryFits(e)
      BY NoEntryFits, EntryTyped
    <2>2. EntryFits(e)'
      BY <1>8, <2>1, EntryStays
    <2> QED BY <1>2, <1>8, <2>2, EntriesStay
  <1>10. AgentFits'
    <2>1. \A i \in DOMAIN modules : modules[i].sent <= sessions + 1 /\ modules[i].sent # sessions + 1
      <3>1. \A i \in DOMAIN modules : modules[i].sent \in Nat
        BY <1>1, SentTyped
      <3> QED BY <1>1, <3>1 DEF AgentFits
    <2>2. ASSUME NEW t \in Installers, NEW n \in DOMAIN task'[t].stack, task'[t].stack[n].sent # 0
          PROVE  t = Agent /\ n = Len(task'[t].stack) /\ task'[t].stack[n].sent = sessions'
      <3>1. CASE t = Agent
        BY <1>2, <1>4, <1>6, <2>2, <3>1
      <3>2. CASE t # Agent
        BY <1>7, <2>2, <3>2 DEF AgentFits
      <3> QED BY <3>1, <3>2
    <2>3. /\ agent' # None /\ agent'.op \in {"enable", "run"} /\ sessions' # 0
          /\ task'[Agent].stack[Len(task'[Agent].stack)].sent = sessions'
      BY <1>1, <1>2, <1>3, <1>4, <1>6
    <2> QED BY <1>2, <1>5, <1>6, <2>1, <2>2, <2>3 DEF AgentFits, NoneSent
  <1>11. ConfiguredFit'
    <2>1. \A m \in Configured : task'[m] = task[m]
      BY <1>1, <1>7
    <2>2. snapshot' = snapshot /\ phase' = phase
      BY <1>2
    <2> QED BY <1>1, <1>8, <2>1, <2>2, ConfigStays DEF ConfiguredFit
  <1>12. ManagersFit'
    BY <1>1, <1>2, <1>8, ManagersStay
  <1> QED BY <1>9, <1>10, <1>11, <1>12

\* The agent goes on after the install, and enters the version, if there is one.
LEMMA ResumeFits ==
  ASSUME SessionTypes, SessionTypes', InstallerInv, EntriesFit, AgentFits, ConfiguredFit, ManagersFit,
         EnableVersion \/ EnableFailed \/ PerformRun
  PROVE  EntriesFit' /\ AgentFits' /\ ConfiguredFit' /\ ManagersFit'
  <1>1. /\ InstallerTypes /\ modules \in Seq(Compiled) /\ task \in [Installers -> TaskStates]
        /\ sessions \in Nat
        /\ Agent \in Installers /\ Configured \subseteq Installers /\ Agent \notin Configured
        /\ entries \in [Modules -> Entries] /\ used \in [Modules -> Nat]
        /\ agent \in Commands \cup {None}
    BY SessionsAssumption DEF InstallerInv, InstallerTypes, SessionTypes
  <1>2. /\ agent # None /\ agent' = None /\ task' = [task EXCEPT ![Agent] = Unused]
        /\ modules' = modules /\ sessions' = sessions
        /\ UNCHANGED <<snapshot, phase, managers>>
    BY DEF EnableVersion, EnableFailed, PerformRun, Resume, workerVars
  <1>3. /\ task'[Agent] = Unused /\ Unused.status = "idle" /\ Unused.stack = <<>>
        /\ DOMAIN Unused.stack = {}
        /\ \A t \in Installers : t # Agent => task'[t] = task[t]
    BY <1>1, <1>2 DEF Unused
  <1>4. ListGrows /\ SessionsGoOn
    BY <1>1, <1>2 DEF ListGrows, Grown, SessionsGoOn
  <1>5. AgentFits'
    BY <1>2, <1>3 DEF AgentFits, NoneSent
  <1>6. ConfiguredFit'
    <2>1. \A m \in Configured : task'[m] = task[m]
      BY <1>1, <1>3
    <2>2. snapshot' = snapshot /\ phase' = phase
      BY <1>2
    <2> QED BY <1>1, <1>4, <2>1, <2>2, ConfigStays DEF ConfiguredFit
  <1>7. ManagersFit'
    BY <1>1, <1>2, <1>4, ManagersStay
  <1>8. agent.module \in Modules /\ sessions # 0
    BY <1>1, <1>2 DEF Commands, AgentFits
  <1>9. CASE EnableVersion
    <2>1. task[Agent].status = "done"
      BY <1>9 DEF EnableVersion, Resume
    <2>2. task[Agent].result \in DOMAIN modules /\ modules[task[Agent].result].sent = sessions
      BY <2>1 DEF AgentFits
    <2>3. PICK e \in Entries :
            /\ e = [session |-> sessions, module |-> task[Agent].result,
                    number |-> used[agent.module] + 1, expired |-> FALSE]
            /\ e.session = sessions /\ e.module = task[Agent].result /\ e.number # 0 /\ e.module # 0
      <3>1. /\ used[agent.module] + 1 \in Nat /\ used[agent.module] + 1 # 0
            /\ task[Agent].result \in Nat /\ task[Agent].result # 0
        BY <1>1, <1>8, <2>2 DEF TaskStates
      <3>2. PICK r \in Nat, u \in Nat : r = task[Agent].result /\ u = used[agent.module] + 1 /\ r # 0 /\ u # 0
        BY <3>1
      <3>3. [session |-> sessions, module |-> r, number |-> u, expired |-> FALSE] \in Entries
        BY <1>1 DEF Entries
      <3> QED BY <3>2, <3>3
    <2>4. EntryFits(e)'
      BY <1>1, <1>2, <1>8, <2>2, <2>3 DEF EntryFits
    <2>5. \A m \in Modules : entries'[m] = entries[m] \/ entries'[m] = e
      BY <1>1, <1>9, <2>3 DEF EnableVersion
    <2>6. EntriesFit'
      BY <1>2, <1>4, <2>4, <2>5, EntriesStay
    <2> QED BY <1>5, <1>6, <1>7, <2>6
  <1>10. CASE EnableFailed
    <2>1. task[Agent].status = "failed"
      BY <1>10 DEF EnableFailed, Resume
    <2>2. NoneSent(sessions)
      BY <2>1 DEF AgentFits
    <2>3. PICK e \in Entries :
            /\ e = [NoEntry EXCEPT !.session = sessions]
            /\ e.session = sessions /\ e.module = 0 /\ e.number = 0
      <3>1. [NoEntry EXCEPT !.session = sessions] \in Entries
        BY <1>1 DEF NoEntry, Entries
      <3> QED BY <3>1 DEF NoEntry
    <2>4. EntryFits(e)'
      BY <1>1, <1>2, <2>2, <2>3 DEF EntryFits, NoneSent
    <2>5. \A m \in Modules : entries'[m] = entries[m] \/ entries'[m] = e
      BY <1>1, <1>10, <2>3 DEF EnableFailed, EnterPassive
    <2>6. EntriesFit'
      BY <1>2, <1>4, <2>4, <2>5, EntriesStay
    <2> QED BY <1>5, <1>6, <1>7, <2>6
  <1>11. CASE PerformRun
    <2>1. PICK e \in Entries : e = NoEntry /\ EntryFits(e)
      BY NoEntryFits, EntryTyped
    <2>2. EntryFits(e)'
      BY <1>4, <2>1, EntryStays
    <2>3. entries' = entries
      BY <1>11 DEF PerformRun
    <2>4. EntriesFit'
      BY <1>2, <1>4, <2>2, <2>3, EntriesStay
    <2> QED BY <1>5, <1>6, <1>7, <2>4
  <1> QED BY <1>9, <1>10, <1>11

\* Worker::start loads the debug state.
LEMMA LoadFits ==
  ASSUME SessionTypes, SessionTypes', InstallerInv, EntriesFit, AgentFits, ConfiguredFit, ManagersFit,
         Load
  PROVE  EntriesFit' /\ AgentFits' /\ ConfiguredFit' /\ ManagersFit'
  <1>1. /\ InstallerTypes /\ modules \in Seq(Compiled) /\ task \in [Installers -> TaskStates]
        /\ sessions \in Nat /\ Configured \subseteq Modules
        /\ Agent \in Installers /\ Configured \subseteq Installers /\ Agent \notin Configured
        /\ entries \in [Modules -> Entries]
    BY SessionsAssumption DEF InstallerInv, InstallerTypes, SessionTypes
  <1>2. /\ phase = "loading" /\ phase' = "resolving" /\ snapshot' = entries
        /\ modules' = modules /\ sessions' = sessions /\ agent' = agent /\ entries' = entries
        /\ managers' = managers
    BY DEF Load, WorkerStep, agentVars
  <1>3. \A t \in Installers :
          \/ task'[t] = task[t] /\ (t \in Configured => entries[t].module = 0)
          \/ /\ t \in Configured /\ entries[t].module # 0
             /\ task'[t] = [Unused EXCEPT !.status = "done", !.result = entries[t].module]
    BY DEF Load
  <1>4. ListGrows /\ SessionsGoOn
    BY <1>1, <1>2 DEF ListGrows, Grown, SessionsGoOn
  <1>5. \A r : LET k == [Unused EXCEPT !.status = "done", !.result = r] IN
          k.status = "done" /\ k.result = r /\ k.stack = <<>> /\ DOMAIN k.stack = {}
    BY DEF Unused
  <1>6. EntriesFit'
    <2>1. PICK e \in Entries : e = NoEntry /\ EntryFits(e)
      BY NoEntryFits, EntryTyped
    <2>2. EntryFits(e)'
      BY <1>4, <2>1, EntryStays
    <2> QED BY <1>2, <1>4, <2>2, EntriesStay
  <1>7. AgentFits'
    <2>1. task'[Agent] = task[Agent]
      BY <1>1, <1>3
    <2>2. ASSUME NEW t \in Installers, t # Agent, NEW n \in DOMAIN task'[t].stack
          PROVE  task'[t].stack[n].sent = 0
      BY <1>3, <1>5, <2>2 DEF AgentFits
    <2> QED BY <1>2, <2>1, <2>2, AgentStays
  <1>8. ASSUME NEW m \in Configured
        PROVE  ConfigFits(m)'
    <2>1. PICK k : k = task'[m] /\ m \in Installers /\ m \in Modules /\ EntryFits(entries[m])
      BY <1>1 DEF EntriesFit
    <2>2. CASE k = task[m] /\ entries[m].module = 0
      <3>1. k.status = "idle"
        BY <1>2, <2>2 DEF ConfiguredFit, ConfigFits
      <3> QED BY <1>2, <2>1, <2>2, <3>1 DEF ConfigFits
    <2>3. CASE entries[m].module # 0 /\ k = [Unused EXCEPT !.status = "done", !.result = entries[m].module]
      <3>1. k.status = "done" /\ k.result = entries[m].module
        BY <1>5, <2>3
      <3>2. entries[m].module \in DOMAIN modules
        BY <2>1, <2>3 DEF EntryFits
      <3> QED BY <1>2, <2>1, <2>3, <3>1, <3>2 DEF ConfigFits
    <2> QED BY <1>3, <2>1, <2>2, <2>3
  <1>9. ConfiguredFit'
    BY <1>8 DEF ConfiguredFit
  <1>10. ManagersFit'
    BY <1>1, <1>2, <1>4, ManagersStay
  <1> QED BY <1>6, <1>7, <1>9, <1>10

\* The actors are started, each with the session that was loaded for its module.
LEMMA StartActorsFits ==
  ASSUME SessionTypes, SessionTypes', InstallerInv, EntriesFit, AgentFits, ConfiguredFit, ManagersFit,
         StartActors
  PROVE  EntriesFit' /\ AgentFits' /\ ConfiguredFit' /\ ManagersFit'
  <1>1. /\ InstallerTypes /\ modules \in Seq(Compiled) /\ task \in [Installers -> TaskStates]
        /\ sessions \in Nat /\ Configured \subseteq Modules
        /\ Agent \in Installers /\ Configured \subseteq Installers /\ Agent \notin Configured
        /\ snapshot \in [Modules -> Entries]
    BY SessionsAssumption DEF InstallerInv, InstallerTypes, SessionTypes
  <1>2. /\ phase = "resolving" /\ phase' = "starting" /\ snapshot' = snapshot
        /\ modules' = modules /\ sessions' = sessions /\ agent' = agent /\ entries' = entries
        /\ \A m \in Configured : task[m].status \in {"done", "failed"}
    BY DEF StartActors, WorkerStep, agentVars
  <1>3. \A t \in Installers :
          \/ task'[t] = task[t] /\ t \notin Configured
          \/ task'[t] = Unused /\ t \in Configured
    BY DEF StartActors
  <1>4. ListGrows /\ SessionsGoOn
    BY <1>1, <1>2 DEF ListGrows, Grown, SessionsGoOn
  <1>5. Unused.status = "idle" /\ Unused.stack = <<>> /\ DOMAIN Unused.stack = {}
    BY DEF Unused
  <1>6. EntriesFit'
    <2>1. PICK e \in Entries : e = NoEntry /\ EntryFits(e)
      BY NoEntryFits, EntryTyped
    <2>2. EntryFits(e)'
      BY <1>4, <2>1, EntryStays
    <2> QED BY <1>2, <1>4, <2>2, EntriesStay
  <1>7. AgentFits'
    <2>1. task'[Agent] = task[Agent]
      BY <1>1, <1>3
    <2>2. ASSUME NEW t \in Installers, t # Agent, NEW n \in DOMAIN task'[t].stack
          PROVE  task'[t].stack[n].sent = 0
      BY <1>3, <1>5, <2>2 DEF AgentFits
    <2> QED BY <1>2, <2>1, <2>2, AgentStays
  <1>8. ConfiguredFit'
    <2>1. \A m \in Configured : task'[m].status = "idle"
      BY <1>1, <1>3, <1>5
    <2> QED BY <1>2, <2>1 DEF ConfiguredFit, ConfigFits
  <1>9. ASSUME NEW m \in Modules, Chosen(m) # 0,
               NEW a, a.module = Chosen(m), a.session = snapshot[m].session
        PROVE  /\ a.module \in DOMAIN modules
               /\ a.session <= sessions /\ (agent # None => a.session < sessions)
               /\ RunsDue(a)
    <2>1. a.module = Chosen(m) /\ a.session = snapshot[m].session
      BY <1>9
    <2>2. EntryFits(snapshot[m]) /\ a.module # 0
      BY <1>9, <2>1 DEF EntriesFit
    <2>3. CASE snapshot[m].module # 0 /\ Chosen(m) = snapshot[m].module
      <3>1. a.module \in DOMAIN modules /\ a.session # 0 /\ modules[a.module].sent = a.session
        BY <2>1, <2>2, <2>3 DEF EntryFits
      <3> QED BY <2>1, <2>2, <3>1 DEF EntryFits, RunsDue
    <2>4. CASE snapshot[m].module = 0 /\ m \in Configured
      <3>1. Chosen(m) = task[m].result /\ ConfigFits(m) /\ task[m].status \in {"done", "failed"}
        BY <1>2, <2>4 DEF Chosen, ConfiguredFit
      <3>2. task[m].status = "done"
        BY <1>9, <3>1 DEF ConfigFits
      <3>3. /\ a.module \in DOMAIN modules /\ modules[a.module].id = Deployed[m]
            /\ modules[a.module].sent = 0 \/ First(modules, Deployed[m]) = a.module
        BY <2>1, <2>4, <3>1, <3>2 DEF ConfigFits
      <3>4. ASSUME NEW i \in DOMAIN modules
            PROVE  modules[i].sent = 0 \/ modules[i].sent # a.session
        BY <2>1, <2>2, <2>4 DEF EntryFits, NoneSent
      <3>5. RunsDue(a)
        BY <2>4, <3>3, <3>4 DEF RunsDue
      <3> QED BY <2>1, <2>2, <3>3, <3>5 DEF EntryFits
    <2>5. \/ snapshot[m].module # 0 /\ Chosen(m) = snapshot[m].module
          \/ snapshot[m].module = 0 /\ m \in Configured
      <3>1. CASE m \in Configured
        <4>1. Chosen(m) = task[m].result /\ ConfigFits(m) /\ task[m].status \in {"done", "failed"}
          BY <1>2, <3>1 DEF Chosen, ConfiguredFit
        <4> QED BY <1>9, <3>1, <4>1 DEF ConfigFits
      <3>2. CASE m \notin Configured
        BY <1>9, <3>2 DEF Chosen
      <3> QED BY <3>1, <3>2
    <2> QED BY <2>3, <2>4, <2>5
  <1>10. ASSUME NEW a \in managers'
         PROVE  /\ a.module \in DOMAIN modules'
                /\ a.session <= sessions' /\ (agent' # None => a.session < sessions')
                /\ RunsDue(a)'
    <2>1. PICK m \in Modules : Chosen(m) # 0 /\ a = [module |-> Chosen(m), session |-> snapshot[m].session]
      BY <1>10 DEF StartActors
    <2>2. a.module \in DOMAIN modules /\ a.session <= sessions /\ (agent # None => a.session < sessions)
          /\ RunsDue(a)
      BY <1>9, <2>1
    <2> QED BY <1>2, <2>2 DEF RunsDue
  <1>11. ManagersFit'
    BY <1>10 DEF ManagersFit, Fits, RunsDue
  <1> QED BY <1>6, <1>7, <1>8, <1>11

\* A configured module is looked up, or its install begins.
LEMMA ResolvingFits ==
  ASSUME SessionTypes, SessionTypes', InstallerInv, EntriesFit, AgentFits, ConfiguredFit, ManagersFit,
         NEW m \in Configured, ResolveConfigured(m)
  PROVE  EntriesFit' /\ AgentFits' /\ ConfiguredFit' /\ ManagersFit'
  <1>1. /\ InstallerTypes /\ modules \in Seq(Compiled) /\ task \in [Installers -> TaskStates]
        /\ sessions \in Nat /\ m \in Modules /\ m \in Installers
        /\ Agent \in Installers /\ Configured \subseteq Installers /\ m # Agent /\ Agent \notin Configured
    BY SessionsAssumption DEF InstallerInv, InstallerTypes, SessionTypes
  <1>2. /\ phase = "resolving" /\ phase' = phase /\ snapshot' = snapshot /\ managers' = managers
        /\ imports' = imports /\ modules' = modules /\ sessions' = sessions /\ agent' = agent
        /\ entries' = entries
        /\ task[m].status = "idle" /\ task' = [task EXCEPT ![m] = Resolved(@, Deployed[m])]
    BY DEF ResolveConfigured, Resolve, WorkerStep, agentVars, workerVars
  <1>3. PICK v \in Versions : v = Deployed[m]
    BY SessionsAssumption
  <1>4. \A t \in Installers : t # m => task'[t] = task[t]
    BY <1>1, <1>2
  <1>5. ListGrows /\ SessionsGoOn
    BY <1>1, <1>2 DEF ListGrows, Grown, SessionsGoOn
  <1>6. EntriesFit'
    <2>1. PICK e \in Entries : e = NoEntry /\ EntryFits(e)
      BY NoEntryFits, EntryTyped
    <2>2. EntryFits(e)'
      BY <1>5, <2>1, EntryStays
    <2> QED BY <1>2, <1>5, <2>2, EntriesStay
  <1>7. snapshot[m].module = 0
    BY <1>2 DEF ConfiguredFit, ConfigFits
  <1>8. ASSUME \A n \in DOMAIN task'[m].stack : task'[m].stack[n].sent = 0,
               \/ task'[m].status = "busy" /\ task'[m].stack[Len(task'[m].stack)].id = v
               \/ /\ task'[m].status = "done" /\ task'[m].result \in DOMAIN modules
                  /\ modules[task'[m].result].id = v /\ First(modules, v) = task'[m].result
        PROVE  EntriesFit' /\ AgentFits' /\ ConfiguredFit' /\ ManagersFit'
    <2>1. AgentFits'
      <3>1. ASSUME NEW t \in Installers, t # Agent, NEW n \in DOMAIN task'[t].stack
            PROVE  task'[t].stack[n].sent = 0
        BY <1>4, <1>8, <3>1 DEF AgentFits
      <3> QED BY <1>1, <1>2, <1>4, <3>1, AgentStays
    <2>2. ConfigFits(m)'
      BY <1>2, <1>3, <1>7, <1>8 DEF ConfigFits
    <2>3. ASSUME NEW x \in Configured, x # m
          PROVE  ConfigFits(x)'
      <3>1. task'[x] = task[x]
        BY <1>1, <1>4, <2>3
      <3> QED BY <1>1, <1>2, <1>5, <3>1, ConfigStays DEF ConfiguredFit
    <2>4. ConfiguredFit'
      BY <2>2, <2>3 DEF ConfiguredFit
    <2>5. ManagersFit'
      BY <1>1, <1>2, <1>5, ManagersStay
    <2> QED BY <1>6, <2>1, <2>4, <2>5
  <1>9. CASE Find(v) = 0
    <2>1. PICK g \in Frames :
            /\ g = Frame(v, 0, "fetching", {})
            /\ g.links = {} /\ g.phase = "fetching" /\ g.id = v /\ g.sent = 0
      <3>1. Frame(v, 0, "fetching", {}) \in Frames
        BY DEF Frame, Frames
      <3> QED BY <3>1 DEF Frame
    <2>2. task' = [task EXCEPT ![m] = Called(@, g)]
      BY <1>2, <1>3, <1>9, <2>1 DEF Resolved
    <2>3. Copies(v) = {}
      BY <1>1, <1>9, FindFacts DEF Copies
    <2>4. task'[m].status = "busy" /\ task'[m].stack = <<g>>
      BY <1>1, <1>2, <2>1, <2>2, <2>3, StartKeeps
    <2>5. PICK st : task'[m].stack = st /\ Len(st) = 1 /\ DOMAIN st = {1} /\ st[1] = g
      <3>1. <<g>> \in Seq(Frames) /\ Len(<<g>>) = 1 /\ <<g>>[1] = g
        OBVIOUS
      <3>2. \A q \in Seq(Frames) : Len(q) = 1 => DOMAIN q = {1}
        OBVIOUS
      <3>3. DOMAIN <<g>> = {1}
        BY <3>1, <3>2
      <3> QED BY <2>4, <3>1, <3>3, Zenon
    <2> QED BY <1>8, <2>1, <2>4, <2>5
  <1>10. CASE Find(v) # 0
    <2>1. PICK k : k = [task[m] EXCEPT !.status = "done", !.result = Find(v)]
      OBVIOUS
    <2>2. task[m] \in TaskStates /\ task[m].stack = <<>>
      BY <1>1, <1>2 DEF InstallerTypes, Busy
    <2>3. Find(v) \in Nat /\ Find(v) \in DOMAIN modules /\ modules[Find(v)].id = v
          /\ Find(v) = First(modules, v)
      <3>1. Find(v) = First(modules, v)
        BY DEF Find, First
      <3> QED BY <1>1, <1>10, <3>1, FindFacts
    <2>4. k.stack = <<>> /\ k.status = "done" /\ k.result = Find(v)
      BY <2>1, <2>2, <2>3 DEF TaskStates
    <2>5. task' = [task EXCEPT ![m] = k]
      BY <1>2, <1>3, <1>10, <2>1, <2>2 DEF Resolved, Returned
    <2>6. task'[m] = k /\ DOMAIN k.stack = {}
      BY <1>1, <2>4, <2>5
    <2> QED BY <1>8, <2>3, <2>4, <2>6
  <1> QED BY <1>9, <1>10

\* An installer, the agent's or the worker's, goes on.
LEMMA InstallingFits ==
  ASSUME SessionTypes, SessionTypes', InstallerInv, EntriesFit, AgentFits, ConfiguredFit, ManagersFit,
         NEW t \in Installers, Installing(t)
  PROVE  EntriesFit' /\ AgentFits' /\ ConfiguredFit' /\ ManagersFit'
  <1>1. /\ InstallerTypes /\ modules \in Seq(Compiled) /\ task \in [Installers -> TaskStates]
        /\ sessions \in Nat /\ Agent \in Installers /\ Configured \subseteq Installers
        /\ Agent \notin Configured /\ \A u \in Configured \cup {t} : u # Agent => u \in Configured
    BY SessionsAssumption DEF InstallerInv, InstallerTypes, SessionTypes
  <1>2. /\ InstallerStep(t) /\ phase' = phase /\ snapshot' = snapshot /\ managers' = managers
        /\ sessions' = sessions /\ agent' = agent /\ entries' = entries
    BY DEF Installing, agentVars, workerVars
  <1>3. /\ Busy(t) /\ Stack(t) # <<>> /\ Grown /\ modules' \in Seq(Compiled)
        /\ \A i \in DOMAIN modules' : i \in DOMAIN modules \/ modules'[i].sent = Stack(t)[1].sent
    BY <1>2, InstallingTells
  <1>4. PICK k \in TaskStates :
          /\ task' = [task EXCEPT ![t] = k]
          /\ \/ /\ k.status = "busy" /\ k.stack # <<>> /\ SameAsker(Stack(t), k.stack)
                /\ modules' # modules => Len(Stack(t)) > 1
             \/ /\ k.status = "failed" /\ k.stack = <<>> /\ k.result = 0 /\ modules' = modules
             \/ /\ k.status = "done" /\ k.stack = <<>> /\ Len(Stack(t)) = 1
                /\ k.result \in DOMAIN modules'
                /\ modules'[k.result].id = Stack(t)[1].id
                /\ modules'[k.result].sent = Stack(t)[1].sent
    BY <1>2, InstallingTells
  <1>5. PICK s \in Seq(Frames) :
          /\ s = Stack(t) /\ s = task[t].stack /\ Len(s) \in Nat \ {0} /\ DOMAIN s = 1..Len(s)
          /\ task[t].status = "busy"
    BY <1>1, <1>3 DEF Stack, TaskStates, Busy
  <1>6. \A n \in DOMAIN s : s[n].sent # 0 => t = Agent /\ n = Len(s) /\ s[n].sent = sessions
    BY <1>5 DEF AgentFits
  <1>7. t = Agent => agent # None /\ s[Len(s)].sent = sessions /\ NoneSent(sessions)
    BY <1>5 DEF AgentFits
  <1>8. ListGrows /\ SessionsGoOn
    <2>1. s[1].sent = 0 \/ (agent # None /\ s[1].sent = sessions)
      BY <1>5, <1>6, <1>7
    <2> QED BY <1>2, <1>3, <1>5, <2>1 DEF ListGrows, SessionsGoOn
  <1>9. task'[t] = k /\ \A u \in Installers : u # t => task'[u] = task[u]
    BY <1>1, <1>4
  <1>10. EntriesFit'
    <2>1. PICK e \in Entries : e = NoEntry /\ EntryFits(e)
      BY NoEntryFits, EntryTyped
    <2>2. EntryFits(e)'
      BY <1>8, <2>1, EntryStays
    <2> QED BY <1>2, <1>8, <2>2, EntriesStay
  <1>11. ASSUME NEW n \in DOMAIN k.stack, k.stack[n].sent # 0
         PROVE  t = Agent /\ n = Len(k.stack) /\ k.stack[n].sent = sessions
    <2>1. k.stack \in Seq(Frames) /\ k.stack # <<>> /\ SameAsker(s, k.stack)
      BY <1>4, <1>5, <1>11 DEF TaskStates
    <2>2. PICK i \in DOMAIN s : s[i].sent # 0 /\ Len(s) - i = Len(k.stack) - n
      BY <1>11, <2>1 DEF SameAsker
    <2>3. t = Agent /\ i = Len(s)
      BY <1>6, <2>2
    <2>4. n = Len(k.stack)
      BY <1>5, <2>1, <2>2, <2>3
    <2>5. k.stack[Len(k.stack)].sent = s[Len(s)].sent
      BY <2>1 DEF SameAsker
    <2> QED BY <1>7, <2>3, <2>4, <2>5
  <1>12. AgentFits'
    <2>1. \A i \in DOMAIN modules' : modules'[i].sent <= sessions
      <3>1. \A i \in DOMAIN modules : modules'[i] = modules[i] /\ modules[i].sent <= sessions
        BY <1>3 DEF AgentFits, Grown
      <3> QED BY <1>1, <1>8, <3>1 DEF ListGrows
    <2>2. ASSUME NEW u \in Installers, NEW n \in DOMAIN task'[u].stack, task'[u].stack[n].sent # 0
          PROVE  u = Agent /\ n = Len(task'[u].stack) /\ task'[u].stack[n].sent = sessions
      <3>1. CASE u = t
        BY <1>9, <1>11, <2>2, <3>1
      <3>2. CASE u # t
        BY <1>9, <2>2, <3>2 DEF AgentFits
      <3> QED BY <3>1, <3>2
    <2>3. CASE t # Agent
      <3>1. task'[Agent] = task[Agent]
        BY <1>1, <1>9, <2>3
      <3>2. s[1].sent = 0
        BY <1>5, <1>6, <2>3
      <3>3. NoneSent(sessions) /\ sessions # 0 => NoneSent(sessions)'
        BY <1>2, <1>3, <1>5, <3>2 DEF NoneSent, Grown
      <3>4. task[Agent].status # "idle" => sessions # 0
        BY DEF AgentFits
      <3> QED BY <1>2, <1>3, <2>1, <2>2, <3>1, <3>3, <3>4 DEF AgentFits, Grown
    <2>4. CASE t = Agent
      <3>1. agent # None /\ sessions # 0 /\ agent.op \in {"enable", "run"} /\ k.status # "idle"
        BY <1>4, <1>7, <2>4 DEF AgentFits
      <3>2. CASE k.status = "busy"
        <4>1. k.stack[Len(k.stack)].sent = sessions
          BY <1>4, <1>5, <1>7, <2>4, <3>2 DEF SameAsker
        <4>2. NoneSent(sessions)'
          <5>1. ASSUME NEW i \in DOMAIN modules'
                PROVE  modules'[i].sent # sessions
            <6>1. CASE i \in DOMAIN modules
              BY <1>3, <1>7, <2>4, <6>1 DEF Grown, NoneSent
            <6>2. CASE i \notin DOMAIN modules
              <7>1. modules' # modules
                BY <5>1, <6>2
              <7>2. Len(s) > 1
                BY <1>4, <1>5, <3>2, <7>1
              <7>3. s[1].sent = 0
                BY <1>5, <1>6, <7>2
              <7> QED BY <1>3, <1>5, <3>1, <5>1, <6>2, <7>3
            <6> QED BY <6>1, <6>2
          <5> QED BY <1>2, <5>1 DEF NoneSent
        <4> QED BY <1>2, <1>9, <2>1, <2>2, <2>4, <3>1, <3>2, <4>1, <4>2 DEF AgentFits
      <3>3. CASE k.status = "failed"
        <4>1. NoneSent(sessions)'
          BY <1>2, <1>4, <1>7, <2>4, <3>3 DEF NoneSent
        <4> QED BY <1>2, <1>9, <2>1, <2>2, <2>4, <3>1, <3>3, <4>1 DEF AgentFits
      <3>4. CASE k.status = "done"
        <4>1. k.result \in DOMAIN modules' /\ modules'[k.result].sent = sessions
          BY <1>4, <1>5, <1>7, <2>4, <3>4
        <4> QED BY <1>2, <1>9, <2>1, <2>2, <2>4, <3>1, <3>4, <4>1 DEF AgentFits
      <3> QED BY <1>4, <3>2, <3>3, <3>4
    <2> QED BY <2>3, <2>4
  <1>13. ASSUME NEW m \in Configured, m = t
         PROVE  ConfigFits(m)'
    <2>1. phase = "resolving" /\ snapshot[m].module = 0 /\ s[Len(s)].id = Deployed[m]
      BY <1>5, <1>13 DEF ConfiguredFit, ConfigFits
    <2>2. t # Agent
      BY <1>1, <1>13
    <2>3. CASE k.status = "busy"
      <3>1. k.stack[Len(k.stack)].id = Deployed[m]
        BY <1>4, <1>5, <2>1, <2>3 DEF SameAsker
      <3> QED BY <1>2, <1>9, <1>13, <2>1, <2>3, <3>1 DEF ConfigFits
    <2>4. CASE k.status = "failed"
      BY <1>2, <1>4, <1>9, <1>13, <2>1, <2>4 DEF ConfigFits
    <2>5. CASE k.status = "done"
      <3>1. k.result \in DOMAIN modules' /\ modules'[k.result].id = Deployed[m] /\ modules'[k.result].sent = 0
        BY <1>4, <1>5, <1>6, <2>1, <2>2, <2>5
      <3> QED BY <1>2, <1>9, <1>13, <2>1, <2>5, <3>1 DEF ConfigFits
    <2> QED BY <1>4, <2>3, <2>4, <2>5
  <1>14. ASSUME NEW m \in Configured, m # t
         PROVE  ConfigFits(m)'
    <2>1. task'[m] = task[m]
      BY <1>1, <1>9, <1>14
    <2> QED BY <1>1, <1>2, <1>8, <2>1, ConfigStays DEF ConfiguredFit
  <1>15. ConfiguredFit'
    BY <1>13, <1>14 DEF ConfiguredFit
  <1>16. ManagersFit'
    BY <1>1, <1>2, <1>8, ManagersStay
  <1> QED BY <1>10, <1>12, <1>15, <1>16

\* Every step keeps the invariant of the sessions.
LEMMA SessionsFit == SessionTypes /\ InstallerInv /\ SessionInv /\ [Next]_vars => SessionInv'
  <1> SUFFICES ASSUME SessionTypes, InstallerInv, SessionInv, [Next]_vars
               PROVE  SessionInv'
    OBVIOUS
  <1>1. /\ InstallerTypes /\ SessionTypes' /\ EntriesFit /\ AgentFits /\ ConfiguredFit /\ ManagersFit
    BY SessionsTyped DEF InstallerInv, SessionInv
  <1> SUFFICES EntriesFit' /\ AgentFits' /\ ConfiguredFit' /\ ManagersFit'
    BY <1>1 DEF SessionInv
  <1>2. CASE \/ Operate \/ Tick \/ (\E m \in Modules : Expire(m)) \/ EnablePassive \/ RefuseRun
             \/ DisableDebugger \/ ReadConfiguration \/ Launch \/ Stop \/ Stopped \/ ActorStep
             \/ UNCHANGED vars
    BY <1>1, <1>2, MostStepsFit
  <1>3. CASE StartInstall
    BY <1>1, <1>3, StartFits
  <1>4. CASE EnableVersion \/ EnableFailed \/ PerformRun
    BY <1>1, <1>4, ResumeFits
  <1>5. CASE Load
    BY <1>1, <1>5, LoadFits
  <1>6. CASE StartActors
    BY <1>1, <1>6, StartActorsFits
  <1>7. CASE \E m \in Configured : ResolveConfigured(m)
    BY <1>1, <1>7, ResolvingFits
  <1>8. CASE \E t \in Installers : Installing(t)
    BY <1>1, <1>8, InstallingFits
  <1>9. CASE AgentStep
    BY <1>2, <1>3, <1>4, <1>9 DEF AgentStep
  <1>10. CASE LoopStep
    BY <1>2, <1>5, <1>6, <1>7, <1>10 DEF LoopStep
  <1> QED BY <1>2, <1>8, <1>9, <1>10 DEF Next

\* It holds before the first command.
LEMMA InitSessions == Init => SessionInv
  <1> SUFFICES ASSUME Init PROVE SessionInv
    OBVIOUS
  <1>1. SessionTypes
    BY InitFits
  <1>2. /\ modules = <<>> /\ agent = None /\ sessions = 0 /\ managers = {} /\ phase = "reading"
        /\ \A t \in Installers : task[t] = Unused
        /\ \A m \in Modules : entries[m] = NoEntry /\ snapshot[m] = NoEntry
    BY DEF Init, InitInstaller
  <1>3. DOMAIN modules = {} /\ Unused.status = "idle" /\ DOMAIN Unused.stack = {}
    BY <1>2 DEF Unused
  <1>4. Agent \in Installers /\ Configured \subseteq Installers
    BY SessionsAssumption
  <1>5. EntriesFit
    BY <1>2 DEF EntriesFit, EntryFits, NoEntry
  <1>6. AgentFits
    BY <1>2, <1>3, <1>4 DEF AgentFits
  <1>7. ConfiguredFit
    BY <1>2, <1>3, <1>4 DEF ConfiguredFit, ConfigFits
  <1>8. ManagersFit
    BY <1>2 DEF ManagersFit
  <1> QED BY <1>1, <1>5, <1>6, <1>7, <1>8 DEF SessionInv

\* Whatever sessions begin, end and expire while a worker is made, and however
\* installs interleave with it: what one of its module actors has from a session
\* runs under the debugger of that session (worker.rs and agent.rs agree on it
\* through DebugState only), unless a lookup takes it for the deployed version
\* (shared.rs:297).
THEOREM DebuggersGetTheirCode == Spec => []CodeIsDue
  <1> DEFINE Inv == SessionTypes /\ InstallerInv /\ SessionInv
  <1>1. Init => Inv
    BY InitFits, InitSessions
  <1>2. Inv /\ [Next]_vars => Inv'
    BY SessionsTyped, InstallerStays, SessionsFit DEF InstallerInv
  <1>3. Inv => CodeIsDue
    <2>1. \A id : Find(id) = First(modules, id)
      BY DEF Find, First
    <2>2. SessionInv => CodeIsDue
      BY <2>1 DEF SessionInv, ManagersFit, Fits, RunsDue, Due, CodeIsDue
    <2> QED BY <2>2
  <1> HIDE DEF Inv
  <1> QED BY <1>1, <1>2, <1>3, PTL DEF Spec

-----------------------------------------------------------------------------
(* Requests.                                                               *)

\* The module that the i-th module of the list is a version of.
Owner(i) == Belongs[modules[i].id]

\* A version that a command brings along is one of its module, and it is that
\* version that the agent installs.
Owns(c) == c.version # None => Belongs[c.version] = c.module
CommandsOwned ==
  /\ \A i \in DOMAIN inbox : Owns(inbox[i])
  /\ agent # None => agent.version # None /\ Owns(agent)
  /\ task[Agent].status = "busy" => task[Agent].stack[Len(task[Agent].stack)].id = agent.version
  /\ task[Agent].status = "done" => modules[task[Agent].result].id = agent.version

\* An entry's version is one of its module.
OwnedBy(state) == \A m \in Modules : state[m].module # 0 => Owner(state[m].module) = m
EntriesOwned == OwnedBy(entries) /\ OwnedBy(snapshot)

\* Unless a reload is on its way, the worker has loaded the versions of the debug
\* state, but for those that were lost without a reload.
CaughtUp ==
  phase \in {"resolving", "starting", "running"} /\ reloads = 0 =>
    \A m \in Modules \ unversioned : entries[m].module = snapshot[m].module

\* The worker's actors are those of what it has loaded.
Loads(a, m) == /\ Owner(a.module) = m /\ a.session = snapshot[m].session
               /\ snapshot[m].module # 0 => a.module = snapshot[m].module
ManagersLoaded ==
  /\ phase \in {"reading", "loading", "resolving", "draining"} => managers = {}
  /\ \A a \in managers : \E m \in Modules : Loads(a, m)

ActorFits ==
  /\ actor.at = "reading" => phase = "running" /\ actor.module \in DOMAIN modules
  /\ actor.due => actor.session \in Nat /\ Fits(actor)

RequestInv == CommandsOwned /\ EntriesOwned /\ CaughtUp /\ ManagersLoaded /\ ActorFits

\* What any step does to the list and to the sessions.
LEMMA ListAlwaysGrows ==
  ASSUME SessionTypes, InstallerInv, SessionInv, [Next]_vars
  PROVE  ListGrows /\ SessionsGoOn
  <1>1. InstallerTypes /\ modules \in Seq(Compiled) /\ AgentFits
    BY DEF InstallerInv, InstallerTypes, SessionInv
  <1>2. CASE /\ modules' = modules
             /\ \/ sessions' = sessions /\ (agent' = agent \/ agent' = None)
                \/ sessions' = sessions + 1
    BY <1>1, <1>2 DEF ListGrows, Grown, SessionsGoOn
  <1>3. CASE \/ Operate \/ Tick \/ (\E m \in Modules : Expire(m)) \/ ActorStep \/ UNCHANGED vars
    <2>1. UNCHANGED <<modules, sessions, agent>>
      BY <1>3, ActorsOnly DEF Operate, Tick, Expire, vars, agentVars, installerVars
    <2> QED BY <1>2, <2>1
  <1>4. CASE LoopStep
    <2>1. UNCHANGED <<modules, sessions, agent>>
      BY <1>4 DEF LoopStep, ReadConfiguration, Load, ResolveConfigured, Resolve, StartActors, Launch,
                  Stop, Stopped, WorkerStep, agentVars, installerVars
    <2> QED BY <1>2, <2>1
  <1>5. CASE AgentStep
    <2>1. /\ modules' = modules
          /\ \/ sessions' = sessions /\ (agent' = agent \/ agent' = None)
             \/ sessions' = sessions + 1
      BY <1>5 DEF AgentStep, EnablePassive, StartInstall, InstallSent, EnableVersion, EnableFailed,
                  PerformRun, RefuseRun, DisableDebugger, Resume, installerVars
    <2> QED BY <1>2, <2>1
  <1>6. ASSUME NEW t \in Installers, Installing(t)
        PROVE  ListGrows /\ SessionsGoOn
    <2>1. InstallerStep(t) /\ sessions' = sessions /\ agent' = agent
      BY <1>6 DEF Installing, agentVars
    <2>2. /\ Busy(t) /\ Stack(t) # <<>> /\ Grown /\ modules' \in Seq(Compiled)
          /\ \A i \in DOMAIN modules' : i \in DOMAIN modules \/ modules'[i].sent = Stack(t)[1].sent
      BY <2>1, InstallingTells
    <2>3. 1 \in DOMAIN task[t].stack
      BY <1>1, <2>2 DEF Stack, InstallerTypes, TaskStates
    <2>4. Stack(t)[1].sent = 0 \/ (agent # None /\ Stack(t)[1].sent = sessions)
      BY <1>1, <2>2, <2>3 DEF AgentFits, Stack, Busy
    <2> QED BY <2>1, <2>2, <2>4 DEF ListGrows, SessionsGoOn
  <1> QED BY <1>3, <1>4, <1>5, <1>6 DEF Next

\* Who takes a command from the channel leaves the others, with their modules.
LEMMA TailOwned ==
  ASSUME SessionTypes, \A i \in DOMAIN inbox : Owns(inbox[i]), inbox # <<>>
  PROVE  Owns(Head(inbox)) /\ \A i \in DOMAIN Tail(inbox) : Owns(Tail(inbox)[i])
  <1>1. inbox \in Seq(Commands)
    BY DEF SessionTypes
  <1>2. PICK r \in Seq(Commands) :
          r = Tail(inbox) /\ Len(r) = Len(inbox) - 1 /\ \A i \in 1..(Len(inbox) - 1) : r[i] = inbox[i + 1]
    BY <1>1, Popped
  <1>3. \A i \in DOMAIN r : i + 1 \in DOMAIN inbox /\ r[i] = inbox[i + 1]
    BY <1>1, <1>2
  <1>4. 1 \in DOMAIN inbox /\ Head(inbox) = inbox[1]
    BY <1>1
  <1> QED BY <1>2, <1>3, <1>4

\* Commands stay with their modules on the way to the list.
LEMMA CommandsStay ==
  ASSUME SessionTypes, InstallerInv, SessionInv, CommandsOwned, [Next]_vars
  PROVE  CommandsOwned'
  <1>1. /\ InstallerTypes /\ modules \in Seq(Compiled) /\ AgentFits /\ inbox \in Seq(Commands)
        /\ task \in [Installers -> TaskStates] /\ Agent \in Installers /\ Agent \notin Configured
        /\ imports \in [Versions -> SUBSET Versions] /\ sessions \in Nat
    BY SessionsAssumption DEF InstallerInv, InstallerTypes, SessionInv, SessionTypes
  <1>2. ListGrows
    BY ListAlwaysGrows
  <1>3. \A i \in DOMAIN inbox : Owns(inbox[i])
    BY DEF CommandsOwned
  <1>4. ASSUME agent' = agent, task'[Agent] = task[Agent],
               \A i \in DOMAIN inbox' : Owns(inbox'[i])
        PROVE  CommandsOwned'
    <2>1. task[Agent].status = "done" => /\ task[Agent].result \in DOMAIN modules
                                         /\ modules'[task[Agent].result] = modules[task[Agent].result]
      BY <1>1, <1>2 DEF AgentFits, ListGrows, Grown
    <2> QED BY <1>4, <2>1 DEF CommandsOwned, Owns
  <1>5. CASE \/ (\E m \in Modules : Expire(m)) \/ ActorStep \/ UNCHANGED vars
    <2>1. UNCHANGED <<agent, task, inbox>>
      BY <1>5, ActorsOnly DEF Expire, vars, agentVars, installerVars
    <2> QED BY <1>3, <1>4, <2>1
  <1>6. CASE Operate
    <2>1. PICK c \in OperatorCommands : inbox' = Append(inbox, c)
      BY <1>6 DEF Operate
    <2>2. Owns(c)
      BY SessionsAssumption DEF OperatorCommands, Command, Owns
    <2>3. \A i \in DOMAIN inbox' : (i \in DOMAIN inbox /\ inbox'[i] = inbox[i]) \/ inbox'[i] = c
      <3>1. c \in Commands
        BY CommandsTyped
      <3> QED BY <1>1, <2>1, <3>1
    <2>4. \A i \in DOMAIN inbox' : Owns(inbox'[i])
      BY <1>3, <2>2, <2>3
    <2>5. UNCHANGED <<agent, task>>
      BY <1>6 DEF Operate, installerVars
    <2> QED BY <1>4, <2>4, <2>5
  <1>7. CASE Tick
    <2>1. PICK order \in SetToSeqs(OldEntries) :
            inbox' = inbox \o [i \in DOMAIN order |-> Command("disable", order[i], None, "tick")]
      BY <1>7 DEF Tick
    <2>2. PICK q \in Seq(Commands) :
            /\ q = [i \in DOMAIN order |-> Command("disable", order[i], None, "tick")]
            /\ \A i \in DOMAIN q : q[i].version = None
      <3>1. [i \in DOMAIN order |-> Command("disable", order[i], None, "tick")] \in Seq(Commands)
        BY TickTyped
      <3> QED BY <3>1 DEF Command
    <2>3. \A i \in DOMAIN inbox' : \/ i \in DOMAIN inbox /\ inbox'[i] = inbox[i]
                                   \/ \E j \in DOMAIN q : inbox'[i] = q[j]
      <3>1. inbox' = inbox \o q
        BY <2>1, <2>2
      <3>2. ASSUME NEW i \in DOMAIN inbox', i \notin DOMAIN inbox
            PROVE  i - Len(inbox) \in DOMAIN q /\ inbox'[i] = q[i - Len(inbox)]
        BY <1>1, <3>1, <3>2
      <3>3. ASSUME NEW i \in DOMAIN inbox
            PROVE  inbox'[i] = inbox[i]
        BY <1>1, <3>1, <3>3
      <3> QED BY <3>2, <3>3
    <2>4. \A i \in DOMAIN inbox' : Owns(inbox'[i])
      BY <1>3, <2>2, <2>3 DEF Owns
    <2>5. UNCHANGED <<agent, task>>
      BY <1>7 DEF Tick, installerVars
    <2> QED BY <1>4, <2>4, <2>5
  <1>8. CASE EnablePassive \/ RefuseRun \/ DisableDebugger
    <2>1. inbox # <<>> /\ inbox' = Tail(inbox) /\ UNCHANGED <<agent, task>>
      BY <1>8 DEF EnablePassive, RefuseRun, DisableDebugger, Takes, installerVars
    <2> QED BY <1>3, <1>4, <2>1, TailOwned
  <1>9. CASE StartInstall
    <2>1. /\ inbox # <<>> /\ inbox' = Tail(inbox) /\ agent' = Head(inbox) /\ Head(inbox).version # None
          /\ InstallSent(Agent, Head(inbox).version, sessions + 1)
      BY <1>9 DEF StartInstall, Takes
    <2>2. PICK c \in Commands : c = Head(inbox) /\ c.version \in Versions
      <3>1. Head(inbox) \in Commands
        BY <1>1, <2>1
      <3> QED BY <2>1, <3>1 DEF Commands
    <2>3. PICK g \in Frames :
            /\ g = Frame(c.version, sessions + 1, "importing", imports[c.version])
            /\ g.links = {} /\ g.todo = imports[c.version] /\ g.id = c.version /\ g.sent # 0
      <3>1. Frame(c.version, sessions + 1, "importing", imports[c.version]) \in Frames
        BY <1>1, <2>2 DEF Frame, Frames
      <3> QED BY <1>1, <3>1 DEF Frame
    <2>4. /\ imports' = imports /\ modules' = modules /\ task[Agent].status = "idle"
          /\ task' = [task EXCEPT ![Agent] = Called(@, g)]
      BY <2>1, <2>2, <2>3 DEF InstallSent
    <2>5. task'[Agent].status = "busy" /\ task'[Agent].stack = <<g>>
      <3>1. /\ task[Agent].status = "idle" /\ g \in Frames /\ task' = [task EXCEPT ![Agent] = Called(@, g)]
            /\ imports' = imports /\ modules' = modules /\ Agent \in Installers
            /\ g.links = {} /\ (g.phase = "importing" => g.todo = imports[g.id])
            /\ (g.sent = 0 => Copies(g.id) = {})
        BY <1>1, <2>3, <2>4
      <3> QED BY <3>1, StartKeeps, Zenon
    <2>6. Len(<<g>>) = 1 /\ <<g>>[1] = g
      OBVIOUS
    <2>7. task'[Agent].stack[Len(task'[Agent].stack)].id = c.version
      BY <2>3, <2>5, <2>6
    <2> QED BY <1>3, <2>1, <2>2, <2>5, <2>7, TailOwned DEF CommandsOwned, Owns
  <1>10. CASE EnableVersion \/ EnableFailed \/ PerformRun
    <2>1. /\ agent' = None /\ inbox' = inbox /\ task' = [task EXCEPT ![Agent] = Unused]
      BY <1>10 DEF EnableVersion, EnableFailed, PerformRun, Resume
    <2>2. task'[Agent].status = "idle"
      BY <1>1, <2>1 DEF Unused
    <2> QED BY <1>3, <2>1, <2>2 DEF CommandsOwned, Owns
  <1>11. CASE LoopStep
    <2>1. task'[Agent] = task[Agent]
      <3>1. CASE ReadConfiguration \/ Launch \/ Stop \/ Stopped
        BY <3>1 DEF ReadConfiguration, Launch, Stop, Stopped, installerVars
      <3>2. CASE Load \/ StartActors
        BY <1>1, <3>2 DEF Load, StartActors
      <3>3. ASSUME NEW m \in Configured, ResolveConfigured(m)
            PROVE  task'[Agent] = task[Agent]
        <4>1. task' = [task EXCEPT ![m] = Resolved(@, Deployed[m])] /\ m # Agent
          BY <1>1, <3>3 DEF ResolveConfigured, Resolve
        <4> QED BY <1>1, <4>1
      <3> QED BY <1>11, <3>1, <3>2, <3>3 DEF LoopStep
    <2>2. UNCHANGED <<agent, inbox>>
      BY <1>11 DEF LoopStep, ReadConfiguration, Load, ResolveConfigured, StartActors, Launch, Stop,
                   Stopped, WorkerStep, agentVars
    <2> QED BY <1>3, <1>4, <2>1, <2>2
  <1>12. ASSUME NEW t \in Installers, Installing(t)
         PROVE  CommandsOwned'
    <2>1. InstallerStep(t) /\ UNCHANGED <<agent, inbox>>
      BY <1>12 DEF Installing, agentVars
    <2>2. PICK k \in TaskStates :
            /\ task' = [task EXCEPT ![t] = k]
            /\ \/ k.status = "busy" /\ k.stack # <<>> /\ SameAsker(Stack(t), k.stack)
               \/ k.status = "failed"
               \/ /\ k.status = "done" /\ Len(Stack(t)) = 1
                  /\ modules'[k.result].id = Stack(t)[1].id
      BY <2>1, InstallingTells
    <2>3. Busy(t)
      BY <2>1, InstallingTells
    <2>4. CASE t # Agent
      <3>1. task'[Agent] = task[Agent]
        BY <1>1, <2>2, <2>4
      <3> QED BY <1>3, <1>4, <2>1, <3>1
    <2>5. CASE t = Agent
      <3>1. task[Agent].stack[Len(task[Agent].stack)].id = agent.version /\ task'[Agent] = k
        BY <1>1, <2>2, <2>3, <2>5 DEF CommandsOwned, Busy
      <3>2. k.status = "busy" => k.stack[Len(k.stack)].id = agent.version
        BY <2>2, <2>5, <3>1 DEF SameAsker, Stack
      <3>3. k.status = "done" => modules'[k.result].id = agent.version
        BY <2>2, <2>5, <3>1 DEF Stack
      <3> QED BY <2>1, <3>1, <3>2, <3>3 DEF CommandsOwned, Owns
    <2> QED BY <2>4, <2>5
  <1> QED BY <1>5, <1>6, <1>7, <1>8, <1>9, <1>10, <1>11, <1>12 DEF Next, AgentStep

\* Each entry's version stays one of its module.
LEMMA EntriesStayOwned ==
  ASSUME SessionTypes, InstallerInv, SessionInv, CommandsOwned, EntriesOwned, [Next]_vars
  PROVE  EntriesOwned'
  <1>1. /\ entries \in [Modules -> Entries] /\ snapshot \in [Modules -> Entries] /\ AgentFits
        /\ agent \in Commands \cup {None} /\ Agent \in Installers
    BY SessionsAssumption DEF SessionTypes, SessionInv
  <1>2. ListGrows
    BY ListAlwaysGrows
  <1>3. \A m \in Modules :
          /\ entries[m].module # 0 => entries[m].module \in DOMAIN modules
          /\ snapshot[m].module # 0 => snapshot[m].module \in DOMAIN modules
    BY DEF SessionInv, EntriesFit, EntryFits
  <1>4. \A m \in Modules :
          /\ entries[m].module # 0 => Belongs[modules'[entries[m].module].id] = m
          /\ snapshot[m].module # 0 => Belongs[modules'[snapshot[m].module].id] = m
    <2>1. \A i \in DOMAIN modules : modules'[i] = modules[i]
      BY <1>2 DEF ListGrows, Grown
    <2> QED BY <1>3, <2>1 DEF EntriesOwned, OwnedBy, Owner
  <1>5. ASSUME \A m \in Modules :
                 /\ \/ entries'[m].module = entries[m].module \/ entries'[m].module = 0
                    \/ Belongs[modules'[entries'[m].module].id] = m
                 /\ snapshot'[m] = snapshot[m] \/ snapshot'[m] = entries[m]
        PROVE  EntriesOwned'
    BY <1>4, <1>5 DEF EntriesOwned, OwnedBy, Owner
  <1>6. CASE entries' = entries /\ (snapshot' = snapshot \/ snapshot' = entries)
    BY <1>5, <1>6
  <1>7. CASE \/ Operate \/ Tick \/ ActorStep \/ StartInstall \/ PerformRun \/ RefuseRun \/ LoopStep
             \/ UNCHANGED vars \/ \E t \in Installers : Installing(t)
    <2>1. CASE Operate \/ Tick \/ ActorStep \/ UNCHANGED vars \/ \E t \in Installers : Installing(t)
      BY <1>6, <2>1, ActorsOnly DEF Operate, Tick, Installing, vars, agentVars, workerVars
    <2>2. CASE StartInstall \/ PerformRun \/ RefuseRun
      BY <1>6, <2>2 DEF StartInstall, PerformRun, RefuseRun, Resume, workerVars
    <2>3. CASE LoopStep
      BY <1>6, <2>3 DEF LoopStep, ReadConfiguration, Load, ResolveConfigured, StartActors, Launch, Stop,
                        Stopped, WorkerStep, agentVars, workerVars
    <2> QED BY <1>7, <2>1, <2>2, <2>3
  <1>8. ASSUME NEW x \in Modules, Expire(x)
        PROVE  EntriesOwned'
    <2>1. \A m \in Modules : entries'[m].module = entries[m].module
      BY <1>1, <1>8 DEF Expire, Entries
    <2> QED BY <1>5, <1>8, <2>1 DEF Expire, workerVars
  <1>9. CASE EnablePassive \/ EnableFailed \/ DisableDebugger
    <2>1. \A m \in Modules : entries'[m] = entries[m] \/ entries'[m].module = 0
      BY <1>1, <1>9 DEF EnablePassive, EnableFailed, EnterPassive, DisableDebugger, NoEntry
    <2>2. snapshot' = snapshot
      BY <1>9 DEF EnablePassive, EnableFailed, DisableDebugger, Resume, workerVars
    <2> QED BY <1>5, <2>1, <2>2
  <1>10. CASE EnableVersion
    <2>1. /\ agent # None /\ task[Agent].status = "done" /\ modules' = modules /\ snapshot' = snapshot
          /\ \A m \in Modules : \/ entries'[m] = entries[m]
                                \/ m = agent.module /\ entries'[m].module = task[Agent].result
      BY <1>1, <1>10 DEF EnableVersion, Resume, workerVars
    <2>2. Belongs[modules[task[Agent].result].id] = agent.module
      BY <2>1 DEF CommandsOwned, Owns
    <2> QED BY <1>5, <2>1, <2>2
  <1> QED BY <1>7, <1>8, <1>9, <1>10 DEF Next, AgentStep

\* A change of the versions to run is told, or remembered as lost.
LEMMA CaughtUpStays ==
  ASSUME SessionTypes, SessionInv, CaughtUp, [Next]_vars
  PROVE  CaughtUp'
  <1>1. /\ entries \in [Modules -> Entries] /\ reloads \in Nat /\ inbox \in Seq(Commands)
        /\ agent \in Commands \cup {None} /\ (inbox # <<>> => Head(inbox) \in Commands)
    BY DEF SessionTypes
  <1>2. \A n \in Nat : Notified(n) # 0
    BY SessionsAssumption DEF Notified
  <1>3. CASE /\ UNCHANGED <<snapshot, reloads, unversioned>>
             /\ phase' \in {"resolving", "starting", "running"} => phase \in {"resolving", "starting", "running"}
             /\ \A m \in Modules : entries'[m].module = entries[m].module
    BY <1>3 DEF CaughtUp
  <1>4. CASE \/ Operate \/ Tick \/ ActorStep \/ StartInstall \/ PerformRun \/ RefuseRun
             \/ UNCHANGED vars \/ \E t \in Installers : Installing(t)
    <2>1. UNCHANGED <<snapshot, reloads, unversioned, phase, entries>>
      BY <1>4, ActorsOnly
      DEF Operate, Tick, Installing, StartInstall, PerformRun, RefuseRun, Resume, vars, agentVars, workerVars
    <2> QED BY <1>3, <2>1
  <1>5. ASSUME NEW x \in Modules, Expire(x)
        PROVE  CaughtUp'
    <2>1. \A m \in Modules : entries'[m].module = entries[m].module
      BY <1>1, <1>5 DEF Expire, Entries
    <2> QED BY <1>3, <1>5, <2>1 DEF Expire, workerVars
  <1>6. ASSUME NEW x \in Modules, NEW n, EnterPassive(x, n), UNCHANGED workerVars
        PROVE  CaughtUp'
    <2>1. \A m \in Modules : \/ entries'[m].module = entries[m].module
                             \/ m = x /\ entries'[m].module = 0
      BY <1>1, <1>6 DEF EnterPassive, NoEntry
    <2>2. unversioned' = IF entries[x].module # 0 THEN unversioned \cup {x} ELSE unversioned
      BY <1>6 DEF EnterPassive
    <2>3. \A m \in Modules \ unversioned' : m \notin unversioned /\ entries'[m].module = entries[m].module
      BY <2>1, <2>2
    <2>4. UNCHANGED <<snapshot, reloads, phase>>
      BY <1>6 DEF EnterPassive, workerVars
    <2> QED BY <2>3, <2>4 DEF CaughtUp
  <1>7. CASE EnablePassive
    <2>1. Head(inbox).module \in Modules
      BY <1>1, <1>7 DEF EnablePassive, Takes, Commands
    <2> QED BY <1>6, <1>7, <2>1 DEF EnablePassive
  <1>8. CASE EnableFailed
    <2>1. agent.module \in Modules
      BY <1>1, <1>8 DEF EnableFailed, Resume, Commands
    <2> QED BY <1>6, <1>8, <2>1 DEF EnableFailed, Resume
  <1>9. CASE EnableVersion
    <2>1. reloads' # 0
      BY <1>1, <1>2, <1>9 DEF EnableVersion
    <2> QED BY <2>1 DEF CaughtUp
  <1>10. CASE DisableDebugger
    <2>1. PICK x \in Modules : x = Head(inbox).module
      BY <1>1, <1>10 DEF DisableDebugger, Takes, Commands
    <2>2. /\ entries' = [entries EXCEPT ![x] = NoEntry]
          /\ reloads' = IF entries[x].module # 0 THEN Notified(reloads) ELSE reloads
          /\ UNCHANGED <<phase, snapshot, unversioned>>
      BY <1>10, <2>1 DEF DisableDebugger, workerVars
    <2>3. CASE entries[x].module # 0
      <3>1. reloads' # 0
        BY <1>1, <1>2, <2>2, <2>3
      <3> QED BY <3>1 DEF CaughtUp
    <2>4. CASE entries[x].module = 0
      <3>1. \A m \in Modules : entries'[m].module = entries[m].module
        BY <1>1, <2>2, <2>4 DEF NoEntry
      <3> QED BY <1>3, <2>2, <2>4, <3>1
    <2> QED BY <2>3, <2>4
  <1>11. CASE LoopStep
    <2>1. CASE Load
      BY <2>1 DEF Load, WorkerStep, agentVars, CaughtUp
    <2>2. CASE ReadConfiguration \/ Stop \/ Stopped
      <3>1. phase' \notin {"resolving", "starting", "running"}
        BY <2>2 DEF ReadConfiguration, Stop, Stopped
      <3> QED BY <3>1 DEF CaughtUp
    <2>3. CASE StartActors \/ Launch \/ \E m \in Configured : ResolveConfigured(m)
      <3>1. /\ UNCHANGED <<snapshot, reloads, unversioned, entries>>
            /\ phase \in {"resolving", "starting", "running"}
        BY <2>3 DEF StartActors, Launch, ResolveConfigured, WorkerStep, agentVars, workerVars
      <3> QED BY <1>3, <3>1
    <2> QED BY <1>11, <2>1, <2>2, <2>3 DEF LoopStep
  <1> QED BY <1>4, <1>5, <1>7, <1>8, <1>9, <1>10, <1>11 DEF Next, AgentStep

\* An actor's module, session and what was loaded for it stay as they are.
LEMMA LoadsStay ==
  ASSUME ListGrows, snapshot' = snapshot, NEW a, NEW m, a.module \in DOMAIN modules, Loads(a, m)
  PROVE  Loads(a, m)'
  BY DEF ListGrows, Grown, Loads, Owner

\* The worker's actors stay those of what it has loaded.
LEMMA ManagersStayLoaded ==
  ASSUME SessionTypes, InstallerInv, SessionInv, EntriesOwned, ManagersLoaded, [Next]_vars
  PROVE  ManagersLoaded'
  <1>1. ListGrows /\ phase \in Phases
    BY ListAlwaysGrows DEF SessionTypes
  <1>2. \A a \in managers : a.module \in DOMAIN modules /\ \E m \in Modules : Loads(a, m)
    BY DEF SessionInv, ManagersFit, Fits, ManagersLoaded
  <1>3. CASE /\ UNCHANGED <<snapshot, managers>>
             /\ phase' \in {"reading", "loading", "resolving", "draining"} => managers = {}
    <2>1. ASSUME NEW a \in managers
          PROVE  \E m \in Modules : Loads(a, m)'
      BY <1>1, <1>2, <1>3, LoadsStay
    <2> QED BY <1>3, <2>1 DEF ManagersLoaded, Loads, Owner
  <1>4. CASE managers' = {}
    BY <1>4 DEF ManagersLoaded
  <1>5. CASE \/ Operate \/ Tick \/ ActorStep \/ AgentStep \/ (\E m \in Modules : Expire(m))
             \/ UNCHANGED vars \/ \E t \in Installers : Installing(t)
    <2>1. UNCHANGED workerVars
      BY <1>5, ActorsOnly
      DEF Operate, Tick, Expire, Installing, AgentStep, EnablePassive, StartInstall, EnableVersion,
          EnableFailed, PerformRun, RefuseRun, DisableDebugger, Resume, vars
    <2>2. UNCHANGED <<snapshot, managers, phase>>
      BY <2>1 DEF workerVars
    <2> QED BY <1>3, <2>2 DEF ManagersLoaded
  <1>6. CASE LoopStep
    <2>1. CASE ReadConfiguration \/ Load \/ Stopped \/ Stop
      <3>1. managers' = {}
        BY <2>1 DEF ReadConfiguration, Load, Stopped, Stop, ManagersLoaded
      <3> QED BY <1>4, <3>1
    <2>2. CASE Launch \/ \E m \in Configured : ResolveConfigured(m)
      <3>1. UNCHANGED <<snapshot, managers>>
            /\ (phase' \in {"reading", "loading", "resolving", "draining"} => phase' = phase)
        BY <2>2 DEF Launch, ResolveConfigured, workerVars
      <3> QED BY <1>3, <3>1 DEF ManagersLoaded
    <2>3. CASE StartActors
      <3>1. /\ phase = "resolving" /\ phase' = "starting" /\ snapshot' = snapshot /\ modules' = modules
            /\ \A m \in Configured : task[m].status \in {"done", "failed"}
            /\ managers' = {[module |-> Chosen(m), session |-> snapshot[m].session] :
                              m \in {n \in Modules : Chosen(n) # 0}}
        BY <2>3 DEF StartActors
      <3>2. ASSUME NEW m \in Modules, Chosen(m) # 0
            PROVE  /\ snapshot[m].module # 0 => Chosen(m) = snapshot[m].module
                   /\ Owner(Chosen(m)) = m
        <4>1. CASE m \in Configured
          <5>1. Chosen(m) = task[m].result /\ ConfigFits(m) /\ task[m].status = "done"
            BY <3>1, <3>2, <4>1 DEF Chosen, SessionInv, ConfiguredFit, ConfigFits
          <5>2. CASE snapshot[m].module # 0
            BY <5>1, <5>2 DEF ConfigFits, EntriesOwned, OwnedBy
          <5>3. CASE snapshot[m].module = 0
            BY <4>1, <5>1, <5>3, SessionsAssumption DEF ConfigFits, Owner
          <5> QED BY <5>2, <5>3
        <4>2. CASE m \notin Configured
          BY <3>2, <4>2 DEF Chosen, EntriesOwned, OwnedBy
        <4> QED BY <4>1, <4>2
      <3>3. ASSUME NEW a \in managers'
            PROVE  \E m \in Modules : Loads(a, m)'
        <4>1. PICK m \in Modules :
                Chosen(m) # 0 /\ a = [module |-> Chosen(m), session |-> snapshot[m].session]
          BY <3>1
        <4>2. a.module = Chosen(m) /\ a.session = snapshot[m].session
          BY <4>1
        <4> QED BY <3>1, <3>2, <4>1, <4>2 DEF Loads, Owner
      <3> QED BY <3>1, <3>3 DEF ManagersLoaded, Loads, Owner
    <2> QED BY <1>6, <2>1, <2>2, <2>3 DEF LoopStep
  <1> QED BY <1>5, <1>6 DEF Next

\* The debugger that a request's actor gets fits the actor's code, when the worker
\* has caught up and runs that code itself.
LEMMA AttachIsDue ==
  ASSUME SessionTypes, InstallerInv, SessionInv, EntriesOwned, CaughtUp, ManagersLoaded,
         phase = "running", reloads = 0, NEW i, Owner(i) \notin unversioned,
         NEW x \in managers, x.module = i,
         NEW a, a.module = i, a.session = IF Owner(i) \in Modules THEN entries[Owner(i)].session ELSE 0
  PROVE  a.session \in Nat /\ Fits(a)
  <1>1. /\ modules \in Seq(Compiled) /\ entries \in [Modules -> Entries] /\ sessions \in Nat
        /\ snapshot \in [Modules -> Entries]
    BY DEF InstallerInv, InstallerTypes, SessionTypes
  <1>2. PICK m \in Modules : Loads(x, m)
    BY DEF ManagersLoaded
  <1>3. /\ m = Owner(i) /\ x.session = snapshot[m].session
        /\ snapshot[m].module # 0 => i = snapshot[m].module
        /\ entries[m].module = snapshot[m].module /\ a.session = entries[m].session
    BY <1>2 DEF Loads, CaughtUp
  <1>4. EntryFits(entries[m]) /\ EntryFits(snapshot[m]) /\ Fits(x) /\ a.session \in Nat
    BY <1>1, <1>3 DEF SessionInv, EntriesFit, ManagersFit, Entries
  <1>5. i \in DOMAIN modules /\ RunsDue(x)
    BY <1>4 DEF Fits
  <1>6. a.session <= sessions /\ (agent # None => a.session < sessions)
    BY <1>3, <1>4 DEF EntryFits
  <1>7. CASE entries[m].module # 0
    <2>1. modules[i].sent = a.session /\ a.session # 0
      BY <1>3, <1>4, <1>7 DEF EntryFits
    <2>2. RunsDue(a)
      BY <2>1 DEF RunsDue
    <2> QED BY <1>4, <1>5, <1>6, <2>2 DEF Fits
  <1>8. CASE entries[m].module = 0
    <2>1. /\ x.session = 0 \/ NoneSent(x.session)
          /\ a.session = 0 \/ NoneSent(a.session)
      BY <1>3, <1>4, <1>8 DEF EntryFits
    <2>2. modules[i].sent # 0 => modules[i].sent # x.session
      BY <1>5, <2>1 DEF NoneSent
    <2>3. modules[i].sent # 0 =>
            First(modules, modules[i].id) = i /\ \E n \in Configured : Deployed[n] = modules[i].id
      BY <1>5, <2>2 DEF RunsDue
    <2>4. \A k \in DOMAIN modules : modules[k].sent = 0 \/ modules[k].sent # a.session
      BY <2>1 DEF NoneSent
    <2>5. RunsDue(a)
      BY <2>3, <2>4 DEF RunsDue
    <2> QED BY <1>4, <1>5, <1>6, <2>5 DEF Fits
  <1> QED BY <1>7, <1>8

\* The actor that is followed stays fit.
LEMMA ActorStaysFit ==
  ASSUME SessionTypes, InstallerInv, SessionInv, RequestInv, [Next]_vars
  PROVE  ActorFits'
  <1>1. /\ modules \in Seq(Compiled) /\ ListGrows /\ SessionsGoOn
    BY ListAlwaysGrows DEF InstallerInv, InstallerTypes
  <1>2. ActorFits /\ EntriesOwned /\ CaughtUp /\ ManagersLoaded
    BY DEF RequestInv
  <1>3. NoActor.at = "none" /\ ~NoActor.due
    BY DEF NoActor
  <1>4. CASE actor' = NoActor
    BY <1>3, <1>4 DEF ActorFits
  <1>5. CASE actor' = actor /\ (phase = "running" => phase' = "running")
    <2>1. PICK a : a = actor
      OBVIOUS
    <2>2. a.due => a.session \in Nat /\ Fits(a)'
      BY <1>1, <1>2, <2>1, ActorStays DEF ActorFits
    <2>3. a.at = "reading" => phase' = "running" /\ a.module \in DOMAIN modules'
      BY <1>1, <1>2, <1>5, <2>1 DEF ActorFits, ListGrows, Grown
    <2>4. actor' = a
      BY <1>5, <2>1
    <2> QED BY <2>2, <2>3, <2>4 DEF ActorFits, Fits, RunsDue
  <1>6. CASE \/ Operate \/ Tick \/ AgentStep \/ (\E m \in Modules : Expire(m))
             \/ UNCHANGED vars \/ \E t \in Installers : Installing(t)
    <2>1. UNCHANGED workerVars /\ actor' = actor
      BY <1>6
      DEF Operate, Tick, Expire, Installing, AgentStep, EnablePassive, StartInstall, EnableVersion,
          EnableFailed, PerformRun, RefuseRun, DisableDebugger, Resume, vars, others
    <2> QED BY <1>5, <2>1 DEF workerVars
  <1>7. CASE LoopStep
    <2>1. CASE Stop
      BY <1>4, <2>1 DEF Stop
    <2>2. CASE \/ ReadConfiguration \/ Load \/ StartActors \/ Launch \/ Stopped
               \/ \E m \in Configured : ResolveConfigured(m)
      <3>1. phase # "running" /\ actor' = actor
        BY <2>2 DEF ReadConfiguration, Load, StartActors, Launch, Stopped, ResolveConfigured, WorkerStep, others
      <3> QED BY <1>5, <3>1
    <2> QED BY <1>7, <2>1, <2>2 DEF LoopStep
  <1>8. CASE Request
    <2>1. PICK id : Find(id) # 0 /\ actor' = [NoActor EXCEPT !.at = "reading", !.module = Find(id)]
      BY <1>8 DEF Request
    <2>2. Find(id) \in DOMAIN modules /\ phase' = "running" /\ modules' = modules
      BY <1>1, <1>8, <2>1, FindFacts DEF Request, Beside, workerVars, installerVars
    <2>3. actor'.at = "reading" /\ actor'.module = Find(id) /\ ~actor'.due
      BY <2>1 DEF NoActor
    <2> QED BY <2>2, <2>3 DEF ActorFits
  <1>9. CASE Spawn
    <2>1. \E i : actor' = [NoActor EXCEPT !.at = "running", !.module = i]
      BY <1>9 DEF Spawn
    <2>2. actor'.at = "running" /\ ~actor'.due
      BY <2>1 DEF NoActor
    <2> QED BY <2>2 DEF ActorFits
  <1>10. CASE EndActor
    BY <1>4, <1>10 DEF EndActor
  <1>11. CASE Attach
    <2>1. PICK m, i : m = Owner(i) /\ i = actor.module
      OBVIOUS
    <2> DEFINE Sure == reloads = 0 /\ m \notin unversioned /\ \E x \in managers : x.module = i
    <2>2. PICK s, d : s = (IF m \in Modules THEN entries[m].session ELSE 0) /\ d = Sure
      OBVIOUS
    <2>3. PICK a : a = [at |-> "running", module |-> i, session |-> s, due |-> d]
      OBVIOUS
    <2>4. a.at = "running" /\ a.module = i /\ a.session = s /\ a.due = d
      BY <2>3
    <2>5. actor' = a /\ actor.at = "reading" /\ UNCHANGED <<modules, sessions, agent>>
      <3>1. /\ actor.at = "reading" /\ UNCHANGED <<installerVars, agentVars>>
            /\ actor' = [at |-> "running", module |-> i, session |-> s, due |-> d]
        BY <1>11, <2>1, <2>2, Zenon DEF Attach, Beside, Owner
      <3> QED BY <2>3, <3>1 DEF installerVars, agentVars
    <2>6. phase = "running"
      BY <1>2, <2>5 DEF ActorFits
    <2>7. a.due => a.session \in Nat /\ Fits(a)
      BY <1>2, <2>1, <2>2, <2>4, <2>6, AttachIsDue
    <2>8. Fits(a) => Fits(a)'
      BY <2>5 DEF Fits, RunsDue
    <2>9. actor'.due => actor'.session \in Nat /\ Fits(actor)'
      BY <2>5, <2>7, <2>8 DEF Fits, RunsDue
    <2> QED BY <2>4, <2>5, <2>9 DEF ActorFits
  <1>12. CASE ActorStep
    BY <1>8, <1>9, <1>10, <1>11, <1>12 DEF ActorStep
  <1> QED BY <1>6, <1>7, <1>12 DEF Next

\* The actor of a request has code that fits its debugger (worker.rs:196 and 222
\* look them up apart from each other and from what the worker has loaded), if no
\* reload is on its way when it gets the debugger, no version was lost without one,
\* and a module actor runs the same code.
THEOREM RequestsGetTheirCode == Spec => []RequestsAreDue
  <1> DEFINE Inv == SessionTypes /\ InstallerInv /\ SessionInv /\ RequestInv
  <1>1. Init => Inv
    <2> SUFFICES ASSUME Init PROVE RequestInv
      BY InitFits, InitSessions
    <2>1. /\ inbox = <<>> /\ agent = None /\ task[Agent] = Unused /\ managers = {} /\ actor = NoActor
          /\ phase = "reading" /\ \A m \in Modules : entries[m] = NoEntry /\ snapshot[m] = NoEntry
      BY SessionsAssumption DEF Init, InitInstaller
    <2>2. DOMAIN inbox = {} /\ Unused.status = "idle" /\ NoEntry.module = 0
          /\ NoActor.at = "none" /\ ~NoActor.due
      BY <2>1 DEF Unused, NoEntry, NoActor
    <2>3. CommandsOwned /\ EntriesOwned
      BY <2>1, <2>2 DEF CommandsOwned, EntriesOwned, OwnedBy
    <2>4. CaughtUp /\ ManagersLoaded /\ ActorFits
      BY <2>1, <2>2 DEF CaughtUp, ManagersLoaded, ActorFits
    <2> QED BY <2>3, <2>4 DEF RequestInv
  <1>2. Inv /\ [Next]_vars => Inv'
    <2> SUFFICES ASSUME Inv, [Next]_vars PROVE Inv'
      OBVIOUS
    <2>1. SessionTypes' /\ InstallerInv' /\ SessionInv'
      BY SessionsTyped, InstallerStays, SessionsFit DEF InstallerInv
    <2>2. CommandsOwned' /\ EntriesOwned'
      BY CommandsStay, EntriesStayOwned DEF RequestInv
    <2>3. CaughtUp' /\ ManagersLoaded' /\ ActorFits'
      BY CaughtUpStays, ManagersStayLoaded, ActorStaysFit DEF RequestInv
    <2> QED BY <2>1, <2>2, <2>3 DEF RequestInv
  <1>3. Inv => RequestsAreDue
    <2>1. \A id : Find(id) = First(modules, id)
      BY DEF Find, First
    <2>2. RequestInv => RequestsAreDue
      BY <2>1 DEF RequestInv, ActorFits, Fits, RunsDue, Due, RequestsAreDue
    <2> QED BY <2>2
  <1> HIDE DEF Inv
  <1> QED BY <1>1, <1>2, <1>3, PTL DEF Spec

-----------------------------------------------------------------------------
(* The refinement of WorkerLifecycle.                                      *)

\* How many commands of a channel are the operator's.
LEMMA AskedCounts ==
  ASSUME NEW q \in Seq(Commands)
  PROVE  /\ AskedIn(q) \subseteq Nat /\ IsFiniteSet(AskedIn(q)) /\ Cardinality(AskedIn(q)) \in Nat
  <1>1. DOMAIN q = 1..Len(q) /\ Len(q) \in Nat
    OBVIOUS
  <1>2. IsFiniteSet(1..Len(q))
    BY <1>1, FS_Interval
  <1>3. AskedIn(q) \subseteq 1..Len(q)
    BY <1>1 DEF AskedIn
  <1>4. IsFiniteSet(AskedIn(q))
    BY <1>2, <1>3, FS_Subset
  <1> QED BY <1>1, <1>3, <1>4, FS_CardinalityType

\* One more command is one more of the operator's at most.
LEMMA AskedOneMore ==
  ASSUME NEW q \in Seq(Commands), NEW c \in Commands
  PROVE  Cardinality(AskedIn(Append(q, c))) <= Cardinality(AskedIn(q)) + 1
  <1>1. PICK r \in Seq(Commands) : r = Append(q, c) /\ Len(r) = Len(q) + 1
                                   /\ \A i \in 1..Len(q) : r[i] = q[i]
    <2>1. /\ Append(q, c) \in Seq(Commands) /\ Len(Append(q, c)) = Len(q) + 1
          /\ \A i \in 1..Len(q) : Append(q, c)[i] = q[i]
      OBVIOUS
    <2> QED BY <2>1, Zenon
  <1>2. AskedIn(r) \subseteq AskedIn(q) \cup {Len(q) + 1}
    BY <1>1 DEF AskedIn
  <1>3. /\ IsFiniteSet(AskedIn(q)) /\ Cardinality(AskedIn(q)) \in Nat
        /\ IsFiniteSet(AskedIn(r)) /\ Cardinality(AskedIn(r)) \in Nat
    BY AskedCounts
  <1>4. /\ IsFiniteSet(AskedIn(q) \cup {Len(q) + 1})
        /\ Cardinality(AskedIn(q) \cup {Len(q) + 1}) <= Cardinality(AskedIn(q)) + 1
    <2>1. /\ IsFiniteSet(AskedIn(q) \cup {Len(q) + 1})
          /\ Cardinality(AskedIn(q) \cup {Len(q) + 1})
               = IF Len(q) + 1 \in AskedIn(q) THEN Cardinality(AskedIn(q)) ELSE Cardinality(AskedIn(q)) + 1
      BY <1>3, FS_AddElement
    <2> QED BY <1>3, <2>1
  <1>5. Cardinality(AskedIn(r)) <= Cardinality(AskedIn(q) \cup {Len(q) + 1})
    BY <1>2, <1>4, FS_Subset
  <1>6. Cardinality(AskedIn(q) \cup {Len(q) + 1}) \in Nat
    BY <1>4, FS_CardinalityType
  <1>7. Cardinality(AskedIn(r)) <= Cardinality(AskedIn(q)) + 1
    BY <1>3, <1>4, <1>5, <1>6
  <1> QED BY <1>1, <1>7

\* What a tick adds is not the operator's.
LEMMA AskedNoMore ==
  ASSUME NEW q \in Seq(Commands), NEW r \in Seq(Commands),
         \A i \in DOMAIN r : r[i].origin # "operator"
  PROVE  AskedIn(q \o r) = AskedIn(q)
  <1>1. PICK s \in Seq(Commands) : /\ s = q \o r /\ Len(s) = Len(q) + Len(r)
                                   /\ \A i \in 1..Len(q) : s[i] = q[i]
                                   /\ \A i \in (Len(q) + 1)..Len(s) : s[i] = r[i - Len(q)]
    <2>1. /\ q \o r \in Seq(Commands) /\ Len(q \o r) = Len(q) + Len(r)
          /\ \A i \in 1..Len(q) : (q \o r)[i] = q[i]
          /\ \A i \in (Len(q) + 1)..(Len(q) + Len(r)) : (q \o r)[i] = r[i - Len(q)]
      OBVIOUS
    <2> QED BY <2>1, Zenon
  <1>2. \A i \in (Len(q) + 1)..Len(s) : i - Len(q) \in DOMAIN r
    BY <1>1
  <1>3. AskedIn(s) = AskedIn(q)
    BY <1>1, <1>2 DEF AskedIn
  <1> QED BY <1>1, <1>3

\* Taking a command of the operator's leaves one less.
LEMMA AskedOneLess ==
  ASSUME NEW q \in Seq(Commands), q # <<>>
  PROVE  /\ Cardinality(AskedIn(Tail(q))) <= Cardinality(AskedIn(q))
         /\ Head(q).origin = "operator" =>
              Cardinality(AskedIn(Tail(q))) + 1 <= Cardinality(AskedIn(q))
  <1>1. PICK r \in Seq(Commands) :
          r = Tail(q) /\ Len(r) = Len(q) - 1 /\ \A n \in 1..(Len(q) - 1) : r[n] = q[n + 1]
    BY Popped
  <1> DEFINE Rest == AskedIn(q) \ {1}
             move == [i \in AskedIn(r) |-> i + 1]
  <1>2. /\ AskedIn(r) \subseteq Nat /\ IsFiniteSet(AskedIn(r)) /\ Cardinality(AskedIn(r)) \in Nat
        /\ AskedIn(q) \subseteq Nat /\ IsFiniteSet(AskedIn(q)) /\ Cardinality(AskedIn(q)) \in Nat
    BY AskedCounts
  <1>3. move \in Injection(AskedIn(r), Rest)
    <2>1. \A i \in AskedIn(r) : i + 1 \in Rest
      BY <1>1 DEF AskedIn
    <2>2. move \in [AskedIn(r) -> Rest]
      BY <2>1
    <2>3. \A i, j \in AskedIn(r) : move[i] = move[j] => i = j
      BY <1>2
    <2> QED BY <2>2, <2>3 DEF Injection, IsInjective
  <1>4. /\ IsFiniteSet(Rest) /\ Cardinality(Rest) \in Nat
        /\ Cardinality(Rest) = IF 1 \in AskedIn(q) THEN Cardinality(AskedIn(q)) - 1
                                                   ELSE Cardinality(AskedIn(q))
    BY <1>2, FS_RemoveElement, FS_CardinalityType
  <1>5. Cardinality(AskedIn(r)) <= Cardinality(Rest)
    BY <1>3, <1>4, FS_Injection
  <1>6. Head(q).origin = "operator" => 1 \in AskedIn(q)
    BY DEF AskedIn
  <1> HIDE DEF Rest
  <1> QED BY <1>1, <1>2, <1>4, <1>5, <1>6

\* Every step keeps the count: a version is entered for a command only.
LEMMA UsedStays ==
  ASSUME SessionTypes, UsedFits, [Next]_vars
  PROVE  UsedFits'
  <1>1. /\ inbox \in Seq(Commands) /\ agent \in Commands \cup {None}
        /\ used \in [Modules -> Nat] /\ commands \in Nat /\ commands <= MaxCommands
        /\ MaxCommands \in Nat /\ None \notin Commands
    BY SessionsAssumption DEF SessionTypes, UsedFits
  <1>2. PICK n \in Nat : n = Cardinality(AskedIn(inbox))
    BY <1>1, AskedCounts
  <1>3. \A m \in Modules : used[m] \in Nat /\ used[m] + n + InProgress <= commands
    BY <1>1, <1>2 DEF UsedFits
  <1>4. \A i \in DOMAIN inbox : inbox[i].op # "disable" => inbox[i].origin = "operator"
    BY DEF UsedFits
  <1> DEFINE Taken == inbox # <<>> /\ inbox' = Tail(inbox)
  <1>5. ASSUME Taken
        PROVE  /\ \A i \in DOMAIN inbox' : inbox'[i].op # "disable" => inbox'[i].origin = "operator"
               /\ Cardinality(AskedIn(inbox')) \in Nat /\ Cardinality(AskedIn(inbox')) <= n
               /\ Head(inbox).op # "disable" => Cardinality(AskedIn(inbox')) + 1 <= n
               /\ Head(inbox) \in Commands
    <2>1. PICK r \in Seq(Commands) :
            r = Tail(inbox) /\ Len(r) = Len(inbox) - 1 /\ \A i \in 1..(Len(inbox) - 1) : r[i] = inbox[i + 1]
      BY <1>1, <1>5, Popped
    <2>2. \A i \in DOMAIN r : r[i].op # "disable" => r[i].origin = "operator"
      BY <1>1, <1>4, <2>1
    <2>3. Cardinality(AskedIn(r)) \in Nat
      BY AskedCounts
    <2>4. /\ Cardinality(AskedIn(r)) <= n
          /\ Head(inbox).origin = "operator" => Cardinality(AskedIn(r)) + 1 <= n
      BY <1>1, <1>2, <1>5, <2>1, AskedOneLess
    <2>5. Head(inbox) \in Commands /\ (Head(inbox).op # "disable" => Head(inbox).origin = "operator")
      BY <1>1, <1>4, <1>5
    <2> QED BY <1>5, <2>1, <2>2, <2>3, <2>4, <2>5
  <1>6. CASE Operate
    <2>1. PICK c \in OperatorCommands : inbox' = Append(inbox, c)
      BY <1>6 DEF Operate
    <2>2. c \in Commands /\ c.origin = "operator"
      <3>1. c.origin = "operator"
        BY DEF OperatorCommands, Command
      <3> QED BY <3>1, CommandsTyped
    <2>3. \A i \in DOMAIN inbox' : inbox'[i].op # "disable" => inbox'[i].origin = "operator"
      BY <1>1, <1>4, <2>1, <2>2
    <2>4. inbox' \in Seq(Commands) /\ Cardinality(AskedIn(inbox')) <= n + 1
      BY <1>1, <1>2, <2>1, <2>2, AskedOneMore
    <2>5. Cardinality(AskedIn(inbox')) \in Nat
      BY <2>4, AskedCounts
    <2>6. commands' = commands + 1 /\ commands < MaxCommands /\ used' = used /\ agent' = agent
      BY <1>6 DEF Operate
    <2> QED BY <1>1, <1>3, <2>3, <2>4, <2>5, <2>6 DEF UsedFits, InProgress
  <1>7. CASE Tick
    <2>1. PICK order \in SetToSeqs(OldEntries) :
            inbox' = inbox \o [i \in DOMAIN order |-> Command("disable", order[i], None, "tick")]
      BY <1>7 DEF Tick
    <2>2. PICK r \in Seq(Commands) : r = [i \in DOMAIN order |-> Command("disable", order[i], None, "tick")]
      BY TickTyped
    <2>3. \A i \in DOMAIN r : r[i].op = "disable" /\ r[i].origin # "operator"
      BY <2>2 DEF Command
    <2>4. AskedIn(inbox') = AskedIn(inbox)
      BY <1>1, <2>1, <2>2, <2>3, AskedNoMore
    <2>5. \A i \in DOMAIN inbox' : inbox'[i].op # "disable" => inbox'[i].origin = "operator"
      <3>1. PICK x \in Seq(Commands) : /\ x = inbox \o r /\ Len(x) = Len(inbox) + Len(r)
                                       /\ \A i \in 1..Len(inbox) : x[i] = inbox[i]
                                       /\ \A i \in (Len(inbox) + 1)..Len(x) : x[i] = r[i - Len(inbox)]
        <4>1. /\ inbox \o r \in Seq(Commands) /\ Len(inbox \o r) = Len(inbox) + Len(r)
              /\ \A i \in 1..Len(inbox) : (inbox \o r)[i] = inbox[i]
              /\ \A i \in (Len(inbox) + 1)..(Len(inbox) + Len(r)) : (inbox \o r)[i] = r[i - Len(inbox)]
          BY <1>1
        <4> QED BY <4>1, Zenon
      <3>2. \A i \in (Len(inbox) + 1)..Len(x) : i - Len(inbox) \in DOMAIN r
        BY <1>1, <3>1
      <3> QED BY <1>1, <1>4, <2>1, <2>2, <2>3, <3>1, <3>2
    <2>6. commands' = commands /\ used' = used /\ agent' = agent
      BY <1>7 DEF Tick
    <2> QED BY <1>1, <1>2, <1>3, <2>4, <2>5, <2>6 DEF UsedFits, InProgress
  <1>8. CASE StartInstall
    <2>1. /\ Taken /\ Head(inbox).op # "disable" /\ agent = None /\ agent' = Head(inbox)
          /\ used' = used /\ commands' = commands
      BY <1>8 DEF StartInstall, Takes, others
    <2>2. InProgress' = 1 /\ InProgress = 0
      BY <1>1, <1>5, <2>1 DEF InProgress
    <2>3. PICK k \in Nat : k = Cardinality(AskedIn(inbox')) /\ k + 1 <= n
      BY <1>5, <2>1
    <2>4. \A m \in Modules : used'[m] + k + InProgress' <= commands'
      BY <1>1, <1>3, <2>1, <2>2, <2>3
    <2> QED BY <1>1, <1>5, <2>1, <2>3, <2>4 DEF UsedFits
  <1>9. CASE EnablePassive \/ RefuseRun \/ DisableDebugger
    <2>1. Taken /\ used' = used /\ commands' = commands /\ agent' = agent
      BY <1>9 DEF EnablePassive, EnterPassive, RefuseRun, DisableDebugger, Takes, others
    <2>2. PICK k \in Nat : k = Cardinality(AskedIn(inbox')) /\ k <= n
      BY <1>5, <2>1
    <2>3. InProgress' = InProgress /\ InProgress \in Nat
      BY <2>1 DEF InProgress
    <2>4. \A m \in Modules : used'[m] + k + InProgress' <= commands'
      BY <1>1, <1>3, <2>1, <2>2, <2>3
    <2> QED BY <1>1, <1>5, <2>1, <2>2, <2>4 DEF UsedFits
  <1>10. CASE EnableVersion \/ EnableFailed \/ PerformRun
    <2>1. /\ inbox' = inbox /\ commands' = commands /\ agent # None /\ agent' = None
          /\ \A m \in Modules : used'[m] \in Nat /\ used'[m] <= used[m] + 1
      BY <1>1, <1>10 DEF EnableVersion, EnableFailed, PerformRun, EnterPassive, Resume, others
    <2>2. InProgress' = 0 /\ InProgress = 1
      BY <2>1 DEF InProgress
    <2>3. \A m \in Modules : used'[m] + n + InProgress' <= commands'
      BY <1>1, <1>3, <2>1, <2>2
    <2> QED BY <1>1, <1>2, <1>4, <2>1, <2>3 DEF UsedFits
  <1>11. ASSUME \/ \E m \in Modules : Expire(m)
                \/ LoopStep
                \/ ActorStep
                \/ \E t \in Installers : Installing(t)
                \/ UNCHANGED vars
         PROVE  UsedFits'
    <2>1. inbox' = inbox /\ agent' = agent /\ used' = used /\ commands' = commands
      <3>1. WorkerStep \/ UNCHANGED vars => UNCHANGED <<agentVars, commands>>
        BY DEF WorkerStep, vars, others
      <3>6. ActorStep \/ Stop => UNCHANGED <<agentVars, commands>>
        BY ActorsOnly DEF Stop
      <3>2. LoopStep => WorkerStep \/ Stop
        BY Zenon DEF LoopStep, ReadConfiguration, Load, StartActors, Launch, Stopped, ResolveConfigured
      <3>3. CASE \E m \in Modules : Expire(m)
        BY <3>3 DEF Expire, others
      <3>4. CASE \E t \in Installers : Installing(t)
        BY <3>4 DEF Installing, agentVars, others
      <3>5. CASE UNCHANGED <<agentVars, commands>>
        BY <3>5 DEF agentVars
      <3> QED BY <1>11, <3>1, <3>2, <3>3, <3>4, <3>5, <3>6
    <2> QED BY <1>4, <1>1, <1>2, <1>3, <2>1 DEF UsedFits, InProgress
  <1> HIDE DEF Taken
  <1> QED BY <1>6, <1>7, <1>8, <1>9, <1>10, <1>11 DEF Next, AgentStep

\* The state of WorkerLifecycle that the sessions' state amounts to.
Begun == {m \in Modules : Has(entries, m)}
Numbers == [m \in Modules |-> entries[m].number]
Loaded == [m \in Modules |-> snapshot[m].number]

\* One entry changes, or is taken off.
LEMMA EntryMoves ==
  ASSUME SessionTypes, NEW m \in Modules, NEW e \in Entries, entries' = [entries EXCEPT ![m] = e]
  PROVE  /\ Begun' = IF e.session # 0 THEN Begun \cup {m} ELSE Begun \ {m}
         /\ Numbers' = [Numbers EXCEPT ![m] = e.number]
  <1>1. entries \in [Modules -> Entries]
    BY DEF SessionTypes
  <1>2. \A n \in Modules : entries'[n] = IF n = m THEN e ELSE entries[n]
    BY <1>1
  <1>3. Begun' = IF e.session # 0 THEN Begun \cup {m} ELSE Begun \ {m}
    BY <1>2 DEF Begun, Has
  <1>4. Numbers' = [Numbers EXCEPT ![m] = e.number]
    <2>1. \A n \in Modules : entries'[n].number = IF n = m THEN e.number ELSE Numbers[n]
      BY <1>2 DEF Numbers
    <2>2. Numbers' = [n \in Modules |-> entries'[n].number]
      BY DEF Numbers
    <2>3. [Numbers EXCEPT ![m] = e.number] = [n \in Modules |-> IF n = m THEN e.number ELSE Numbers[n]]
      BY DEF Numbers
    <2> QED BY <2>1, <2>2, <2>3
  <1> QED BY <1>3, <1>4

\* A session that is entered without a version.
LEMMA PassiveImplements ==
  ASSUME SessionTypes, SessionInv, NEW m \in Modules, NEW n \in Nat \ {0}, EnterPassive(m, n),
         UNCHANGED workerVars
  PROVE  Lifecycle!EnablePassive(m)
  <1>1. PICK e \in Entries : e = [NoEntry EXCEPT !.session = n] /\ e.session # 0 /\ e.number = 0
    <2>1. \A k \in Entries : [k EXCEPT !.session = n]
                               = [session |-> n, module |-> k.module, number |-> k.number, expired |-> k.expired]
      BY DEF Entries
    <2>2. NoEntry \in Entries /\ NoEntry.number = 0 /\ NoEntry.module = 0 /\ NoEntry.expired = FALSE
      BY EntryTyped DEF NoEntry
    <2> QED BY <2>1, <2>2 DEF Entries
  <1>2. entries' = [entries EXCEPT ![m] = e]
    BY <1>1 DEF EnterPassive
  <1>3. Begun' = Begun \cup {m} /\ Numbers' = [Numbers EXCEPT ![m] = 0]
    BY <1>1, <1>2, EntryMoves
  <1>4. entries[m].module # 0 <=> Numbers[m] # 0
    BY DEF SessionInv, EntriesFit, EntryFits, Numbers
  <1>5. unversioned' = IF Numbers[m] # 0 THEN unversioned \cup {m} ELSE unversioned
    BY <1>4 DEF EnterPassive
  <1>6. /\ UNCHANGED <<reloads, used, launched, snapshot>>
        /\ phase' = phase
    BY DEF EnterPassive, workerVars
  <1> QED BY <1>3, <1>5, <1>6 DEF Lifecycle!EnablePassive, Lifecycle!loopVars, Begun, Numbers

\* What the agent does with its commands is what WorkerLifecycle's agent does.
LEMMA AgentImplements ==
  ASSUME SessionTypes, InstallerTypes, SessionInv, UsedFits, AgentStep
  PROVE  Lifecycle!Next \/ UNCHANGED Lifecycle!vars
  <1>1. /\ inbox \in Seq(Commands) /\ agent \in Commands \cup {None} /\ sessions \in Nat
        /\ entries \in [Modules -> Entries] /\ used \in [Modules -> Nat]
    BY DEF SessionTypes
  <1>2. \A k \in Commands : k.module \in Modules
    BY DEF Commands
  <1>3. inbox # <<>> => Head(inbox) \in Commands
    BY <1>1
  <1>4. agent # None => sessions # 0 /\ agent \in Commands
    BY <1>1 DEF SessionInv, AgentFits
  <1>5. CASE StartInstall \/ RefuseRun \/ PerformRun
    <2>1. UNCHANGED <<entries, used, workerVars, reloads, unversioned>>
      BY <1>5 DEF StartInstall, RefuseRun, PerformRun, Resume
    <2> QED BY <2>1 DEF Lifecycle!vars, workerVars, Has
  <1>6. CASE EnablePassive
    <2>1. PICK m \in Modules : m = Head(inbox).module
      BY <1>2, <1>3, <1>6 DEF EnablePassive, Takes
    <2>2. EnterPassive(m, sessions + 1) /\ UNCHANGED workerVars
      BY <1>6, <2>1 DEF EnablePassive
    <2>3. sessions + 1 \in Nat \ {0}
      BY <1>1
    <2>4. Lifecycle!EnablePassive(m)
      BY <2>2, <2>3, PassiveImplements
    <2> QED BY <2>4 DEF Lifecycle!Next
  <1>7. CASE EnableFailed
    <2>1. PICK m \in Modules : m = agent.module
      BY <1>2, <1>4, <1>7 DEF EnableFailed, Resume
    <2>2. EnterPassive(m, sessions) /\ UNCHANGED workerVars /\ sessions \in Nat \ {0}
      BY <1>1, <1>4, <1>7, <2>1 DEF EnableFailed, Resume
    <2>3. Lifecycle!EnablePassive(m)
      BY <2>2, PassiveImplements
    <2> QED BY <2>3 DEF Lifecycle!Next
  <1>8. CASE EnableVersion
    <2>1. PICK m \in Modules : m = agent.module
      BY <1>2, <1>4, <1>8 DEF EnableVersion, Resume
    <2>2. /\ used' = [used EXCEPT ![m] = @ + 1]
          /\ entries' = [entries EXCEPT ![m] = [session |-> sessions, module |-> task[Agent].result,
                                                number |-> used[m] + 1, expired |-> FALSE]]
          /\ unversioned' = unversioned \ {m} /\ reloads' = Notified(reloads)
          /\ UNCHANGED workerVars /\ agent # None
      BY <1>8, <2>1 DEF EnableVersion, Resume
    <2>3. task[Agent].result \in Nat
      BY SessionsAssumption DEF InstallerTypes, TaskStates
    <2>4. PICK e \in Entries :
            /\ e = [session |-> sessions, module |-> task[Agent].result,
                    number |-> used[m] + 1, expired |-> FALSE]
            /\ e.session # 0 /\ e.number = used[m] + 1
      <3>1. used[m] + 1 \in Nat
        BY <1>1
      <3>2. [session |-> sessions, module |-> task[Agent].result, number |-> used[m] + 1,
             expired |-> FALSE] \in Entries
        BY <1>1, <2>3, <3>1 DEF Entries
      <3> QED BY <1>4, <2>2, <3>2
    <2>5. entries' = [entries EXCEPT ![m] = e]
      BY <2>2, <2>4
    <2>6. Begun' = Begun \cup {m} /\ Numbers' = [Numbers EXCEPT ![m] = used[m] + 1]
      BY <2>4, <2>5, EntryMoves
    <2>7. used[m] < MaxCommands
      <3>1. used[m] + Cardinality(AskedIn(inbox)) + InProgress <= commands
        BY DEF UsedFits
      <3>2. InProgress = 1 /\ commands \in Nat /\ commands <= MaxCommands
        BY <2>2 DEF InProgress, UsedFits
      <3>3. Cardinality(AskedIn(inbox)) \in Nat /\ MaxCommands \in Nat /\ used[m] \in Nat
        BY <1>1, AskedCounts, SessionsAssumption
      <3> QED BY <3>1, <3>2, <3>3
    <2>8. Lifecycle!EnableVersion(m)
      BY <2>2, <2>6, <2>7
      DEF Lifecycle!EnableVersion, Lifecycle!loopVars, Lifecycle!Notified, Notified, Begun, Numbers,
          workerVars
    <2> QED BY <2>8 DEF Lifecycle!Next
  <1>9. CASE DisableDebugger
    <2>1. PICK m \in Modules : m = Head(inbox).module
      BY <1>2, <1>3, <1>9 DEF DisableDebugger, Takes
    <2>2. /\ entries' = [entries EXCEPT ![m] = NoEntry]
          /\ reloads' = IF entries[m].module # 0 THEN Notified(reloads) ELSE reloads
          /\ UNCHANGED <<used, workerVars, unversioned>>
      BY <1>9, <2>1 DEF DisableDebugger
    <2>3. NoEntry \in Entries /\ NoEntry.session = 0 /\ NoEntry.number = 0
      BY EntryTyped DEF NoEntry
    <2>4. Begun' = Begun \ {m} /\ Numbers' = [Numbers EXCEPT ![m] = 0]
      BY <2>2, <2>3, EntryMoves
    <2>5. entries[m].module # 0 <=> Numbers[m] # 0
      BY DEF SessionInv, EntriesFit, EntryFits, Numbers
    <2>6. reloads' = IF Numbers[m] # 0 THEN Notified(reloads) ELSE reloads
      BY <2>2, <2>5
    <2>7. CASE m \in Begun
      <3>1. Lifecycle!DisableDebugger(m)
        BY <2>2, <2>4, <2>6, <2>7
        DEF Lifecycle!DisableDebugger, Lifecycle!loopVars, Lifecycle!Notified, Notified, Begun, Numbers,
            workerVars
      <3> QED BY <3>1 DEF Lifecycle!Next
    <2>8. CASE m \notin Begun
      <3>1. Numbers[m] = 0
        BY <2>5, <2>8 DEF Begun, Has, SessionInv, EntriesFit, EntryFits
      <3>2. Numbers' = Numbers
        BY <2>4, <3>1 DEF Numbers
      <3>3. Begun' = Begun /\ reloads' = reloads
        BY <2>4, <2>6, <2>8, <3>1
      <3> QED BY <2>2, <3>2, <3>3 DEF Lifecycle!vars, workerVars, Begun, Numbers
    <2> QED BY <2>7, <2>8
  <1> QED BY <1>5, <1>6, <1>7, <1>8, <1>9 DEF AgentStep

\* What the worker's loop does is what WorkerLifecycle's loop does; resolving the
\* configured modules and starting the actors come between two of its steps.
LEMMA LoopImplements ==
  ASSUME SessionTypes, LoopStep
  PROVE  Lifecycle!Next \/ UNCHANGED Lifecycle!vars
  <1>1. UNCHANGED agentVars
    BY Zenon DEF LoopStep, ReadConfiguration, Load, StartActors, Launch, Stop, Stopped,
       ResolveConfigured, WorkerStep
  <1>2. UNCHANGED <<entries, used>>
    BY <1>1 DEF agentVars
  <1>3. CASE ReadConfiguration
    <2>1. Lifecycle!ReadConfiguration
      BY <1>2, <1>3 DEF ReadConfiguration, Lifecycle!ReadConfiguration, Lifecycle!agentVars, Has
    <2> QED BY <2>1 DEF Lifecycle!Next, Lifecycle!LoopStep
  <1>4. CASE Load
    <2>1. /\ phase = "loading" /\ phase' = "resolving" /\ snapshot' = entries /\ unversioned' = {}
          /\ launched' = launched /\ reloads' = reloads
      <3>1. /\ phase = "loading" /\ phase' = "resolving" /\ snapshot' = entries /\ unversioned' = {}
            /\ UNCHANGED <<imports, modules, cached, managers, launched, reloads>>
        BY <1>4, Zenon DEF Load
      <3> QED BY <3>1
    <2>2. Loaded' = Numbers
      BY <2>1 DEF Loaded, Numbers
    <2>3. Lifecycle!LoadModules
      BY <1>2, <2>1, <2>2 DEF Lifecycle!LoadModules, Has, Loaded, Numbers
    <2> QED BY <2>3 DEF Lifecycle!Next, Lifecycle!LoopStep
  <1>5. CASE StartActors \/ \E m \in Configured : ResolveConfigured(m)
    <2>1. /\ phase \in {"resolving", "starting"} /\ phase' \in {"resolving", "starting"}
          /\ UNCHANGED <<snapshot, launched, reloads, unversioned>>
      BY <1>5 DEF StartActors, ResolveConfigured, workerVars
    <2> QED BY <1>2, <2>1 DEF Lifecycle!vars, Has
  <1>6. CASE Launch
    <2>1. Lifecycle!Launch
      BY <1>2, <1>6 DEF Launch, Lifecycle!Launch, Lifecycle!agentVars, Has
    <2> QED BY <2>1 DEF Lifecycle!Next, Lifecycle!LoopStep
  <1>7. CASE Stop
    <2>1. Lifecycle!StopForReload
      BY <1>2, <1>7 DEF Stop, Lifecycle!StopForReload, Lifecycle!Stop, Lifecycle!agentVars, Has
    <2> QED BY <2>1 DEF Lifecycle!Next, Lifecycle!LoopStep
  <1>8. CASE Stopped
    <2>1. Lifecycle!Stopped
      BY <1>2, <1>8 DEF Stopped, Lifecycle!Stopped, Lifecycle!agentVars, Has
    <2> QED BY <2>1 DEF Lifecycle!Next, Lifecycle!LoopStep
  <1> QED BY <1>3, <1>4, <1>5, <1>6, <1>7, <1>8 DEF LoopStep

\* Sessions that install, fail, expire and end at any point of a worker's start
\* do nothing that WorkerLifecycle does not: each change of what a worker should
\* run is announced, and it runs what Worker::start has loaded.
THEOREM LifecycleKept == Spec => ImplementsLifecycle
  <1> DEFINE Inv == SessionTypes /\ InstallerInv /\ SessionInv /\ UsedFits
  <1>1. Init => Inv
    <2>1. Init => UsedFits
      <3> SUFFICES ASSUME Init PROVE UsedFits
        OBVIOUS
      <3>1. AskedIn(inbox) = {} /\ InProgress = 0 /\ DOMAIN inbox = {}
        BY DEF Init, AskedIn, InProgress
      <3>2. Cardinality(AskedIn(inbox)) = 0
        BY <3>1, FS_EmptySet
      <3> QED BY <3>1, <3>2, SessionsAssumption DEF Init, UsedFits
    <2> QED BY <2>1, InitFits, InitSessions
  <1>2. Inv /\ [Next]_vars => Inv'
    BY SessionsTyped, InstallerStays, SessionsFit, UsedStays DEF InstallerInv
  <1>3. Init => Lifecycle!Init
    BY DEF Init, Lifecycle!Init, NoEntry, Has
  <1>4. Inv /\ Inv' /\ [Next]_vars => [Lifecycle!Next]_(Lifecycle!vars)
    <2> SUFFICES ASSUME Inv, Inv', [Next]_vars
                 PROVE  Lifecycle!Next \/ UNCHANGED Lifecycle!vars
      OBVIOUS
    <2>1. CASE \/ Operate \/ Tick \/ ActorStep \/ UNCHANGED vars
               \/ \E t \in Installers : Installing(t)
      <3>1. UNCHANGED <<entries, used, workerVars, reloads, unversioned>>
        BY <2>1, ActorsOnly DEF Operate, Tick, Installing, vars, agentVars
      <3> QED BY <3>1 DEF Lifecycle!vars, workerVars, Has
    <2>2. ASSUME NEW m \in Modules, Expire(m)
          PROVE  UNCHANGED Lifecycle!vars
      <3>1. \A n \in Modules : /\ entries'[n].session = entries[n].session
                               /\ entries'[n].number = entries[n].number
        BY <2>2 DEF Expire, SessionTypes, Entries
      <3>2. UNCHANGED <<used, workerVars, reloads, unversioned>>
        BY <2>2 DEF Expire
      <3>3. Begun' = Begun /\ Numbers' = Numbers
        BY <3>1 DEF Begun, Numbers, Has
      <3> QED BY <3>2, <3>3 DEF Lifecycle!vars, workerVars, Begun, Numbers
    <2>3. CASE AgentStep
      BY <2>3, AgentImplements DEF InstallerInv
    <2>4. CASE LoopStep
      BY <2>4, LoopImplements
    <2> QED BY <2>1, <2>2, <2>3, <2>4 DEF Next
  <1> HIDE DEF Inv
  <1> QED BY <1>1, <1>2, <1>3, <1>4, PTL DEF Spec, ImplementsLifecycle, Lifecycle!Spec

=============================================================================
