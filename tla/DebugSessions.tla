---------------------------- MODULE DebugSessions ----------------------------
(***************************************************************************)
(* Debug sessions of modules and the worker that runs what they send: the   *)
(* agent's handling of EnableDebugger, DisableDebugger and PerformRun and   *)
(* its tick (cloud/agent.rs), DebugState (executor.rs) and Worker::start    *)
(* (worker.rs), on top of the installer of modules they share.              *)
(*                                                                         *)
(* A session may bring a version of its module along.  The agent installs   *)
(* it, which takes as long as its imports take, then enters it in the debug *)
(* state and has the worker reloaded.  Worker::start loads that state once, *)
(* resolves the configured modules by it, several at a time, and starts an  *)
(* actor for each, and for each module that is debugged and not configured. *)
(***************************************************************************)
EXTENDS ModuleInstaller

CONSTANTS
  Modules,      \* ids of modules
  Deployed,     \* the configuration: some modules, each with its version
  Drafts,       \* Drafts[m]: versions of m that a session may bring along
  Agent,        \* the agent, as an installer
  None,         \* no command, no version, no module
  Belongs,      \* Belongs[v]: the module that v is a version of, if it is one of Modules
  Ring,         \* broadcast::channel(3): what a receiver can be behind
  MaxCommands,  \* bound: commands of the operator
  MaxTicks      \* bound: ticks of the agent

Configured == DOMAIN Deployed

\* A command to the agent: what to do with which module, the version that comes
\* with it, and whether the operator or the agent's tick has sent it.
Commands == [op : {"enable", "run", "disable"}, module : Modules,
             version : Versions \cup {None}, origin : {"operator", "tick"}]

ASSUME SessionsAssumption ==
  /\ Configured \subseteq Modules /\ IsFiniteSet(Modules)
  /\ \A m \in Configured : Deployed[m] \in Versions
  /\ Drafts \in [Modules -> SUBSET Versions]
  /\ Belongs \in [Versions -> Modules \cup {None}]
  /\ \A m \in Configured : Belongs[Deployed[m]] = m
  /\ \A m \in Modules : \A v \in Drafts[m] : Belongs[v] = m
  /\ Agent \notin Modules /\ None \notin Versions \cup Commands \cup Modules
  /\ Installers = Configured \cup {Agent}
  /\ Ring \in Nat \ {0} /\ MaxCommands \in Nat

VARIABLES
  inbox,       \* the agent's child channel
  agent,       \* the command whose version the agent is installing, or None
  entries,     \* entries[m]: the entry of m in the debug state
  sessions,    \* debugger handles made so far
  phase,       \* where the worker's loop is
  snapshot,    \* the debug state that Worker::start has loaded
  managers,    \* the module actors of the worker
  reloads,     \* what cloud_reload_receiver has yet to receive
  launched,    \* a worker has run
  actor,       \* one actor that no Worker::start makes: of a request, or spawned
  commands,    \* commands of the operator so far
  ticks,       \* ticks so far
  used,        \* history: debugged versions of each module installed so far
  unversioned  \* history: see WorkerLifecycle

agentVars == <<inbox, agent, entries, sessions, used>>
workerVars == <<phase, snapshot, managers, launched>>
others == <<actor, commands, ticks>>
vars == <<installerVars, agentVars, workerVars, reloads, unversioned, others>>

\* An entry: its session, its module in the list (0: none), the number of that
\* version among those sent for m, and whether its last activity is more than
\* 300 seconds ago.
NoEntry == [session |-> 0, module |-> 0, number |-> 0, expired |-> FALSE]
Has(state, m) == state[m].session # 0

\* The actor that is followed: whether its request is being read or it runs, its
\* module in the list and the session whose debugger it has (0: none).  due is
\* history: when it got its debugger, the worker had caught up with the debug
\* state and had a module actor with the same code.
NoActor == [at |-> "none", module |-> 0, session |-> 0, due |-> FALSE]

Init ==
  /\ InitInstaller
  /\ inbox = <<>> /\ agent = None
  /\ entries = [m \in Modules |-> NoEntry]
  /\ sessions = 0
  /\ phase = "reading"
  /\ snapshot = [m \in Modules |-> NoEntry]
  /\ managers = {}
  /\ reloads = 0
  /\ launched = FALSE
  /\ actor = NoActor
  /\ commands = 0 /\ ticks = 0
  /\ used = [m \in Modules |-> 0]
  /\ unversioned = {}

-----------------------------------------------------------------------------
(* Commands of the operator, and the agent's tick.                         *)

Command(op, m, v, origin) == [op |-> op, module |-> m, version |-> v, origin |-> origin]

OperatorCommands ==
  UNION {{Command("enable", m, v, "operator") : v \in Drafts[m] \cup {None}}
         \cup {Command("run", m, v, "operator") : v \in Drafts[m] \cup {None}}
         \cup {Command("disable", m, None, "operator")} : m \in Modules}

Operate ==
  /\ commands < MaxCommands
  /\ commands' = commands + 1
  /\ \E c \in OperatorCommands : inbox' = Append(inbox, c)
  /\ UNCHANGED <<installerVars, agent, entries, sessions, used, workerVars, reloads,
                 unversioned, actor, ticks>>

\* 300 seconds have passed since the entry was last updated, which only a tick
\* to come can see.
Expire(m) ==
  /\ Has(entries, m) /\ ~entries[m].expired
  /\ ticks < MaxTicks
  /\ entries' = [entries EXCEPT ![m].expired = TRUE]
  /\ UNCHANGED <<installerVars, inbox, agent, sessions, used, workerVars, reloads,
                 unversioned, others>>

\* DebugState::old_entries: last_activity + 300 s > now.
OldEntries == {m \in Modules : Has(entries, m) /\ ~entries[m].expired}

\* remove_stale_debugs: the agent tells itself to disable them.
Tick ==
  /\ agent = None
  /\ ticks < MaxTicks
  /\ ticks' = ticks + 1
  /\ \E order \in SetToSeqs(OldEntries) :
       inbox' = inbox \o [i \in DOMAIN order |-> Command("disable", order[i], None, "tick")]
  /\ UNCHANGED <<installerVars, agent, entries, sessions, used, workerVars, reloads,
                 unversioned, actor, commands>>

-----------------------------------------------------------------------------
(* The agent's messages, one after the other.                              *)

Notified(n) == IF n > Ring THEN n ELSE n + 1

Takes(op) == agent = None /\ inbox # <<>> /\ Head(inbox).op = op

\* add_or_update_entry without a module.  An entry that had one loses it, and
\* nobody reloads the worker.
EnterPassive(m, session) ==
  /\ entries' = [entries EXCEPT ![m] = [NoEntry EXCEPT !.session = session]]
  /\ unversioned' = IF entries[m].module # 0 THEN unversioned \cup {m} ELSE unversioned
  /\ UNCHANGED <<reloads, used>>

\* EnableDebugger without a version.  The actors it then looks for, with the
\* module's id in a link that carries the version's (agent.rs:359), are none.
EnablePassive ==
  /\ Takes("enable") /\ Head(inbox).version = None
  /\ inbox' = Tail(inbox)
  /\ sessions' = sessions + 1
  /\ EnterPassive(Head(inbox).module, sessions + 1)
  /\ UNCHANGED <<installerVars, agent, workerVars, others>>

\* EnableDebugger or PerformRun with a version: it is installed first.
StartInstall ==
  /\ Takes("enable") \/ Takes("run")
  /\ Head(inbox).version # None
  /\ agent' = Head(inbox)
  /\ inbox' = Tail(inbox)
  /\ sessions' = sessions + 1
  /\ InstallSent(Agent, Head(inbox).version, sessions + 1)
  /\ UNCHANGED <<entries, used, workerVars, reloads, unversioned, others>>

\* PerformRun of an imported function is refused before its version is installed.
RefuseRun ==
  /\ Takes("run") /\ Head(inbox).version = None
  /\ inbox' = Tail(inbox)
  /\ sessions' = sessions + 1
  /\ UNCHANGED <<installerVars, agent, entries, used, workerVars, reloads, unversioned,
                 others>>

\* The agent goes on after the install.
Resume(status) ==
  /\ agent # None /\ task[Agent].status = status
  /\ agent' = None
  /\ task' = [task EXCEPT ![Agent] = Unused]
  /\ UNCHANGED <<imports, modules, cached, inbox, sessions, workerVars, others>>

EnableVersion ==
  LET m == agent.module IN
    /\ Resume("done") /\ agent.op = "enable"
    /\ used' = [used EXCEPT ![m] = @ + 1]
    /\ entries' = [entries EXCEPT ![m] =
         [session |-> sessions, module |-> task[Agent].result,
          number |-> used[m] + 1, expired |-> FALSE]]
    /\ unversioned' = unversioned \ {m}
    /\ reloads' = Notified(reloads)

\* A version that cannot be installed: the session is entered without it.
EnableFailed ==
  /\ Resume("failed") /\ agent.op = "enable"
  /\ EnterPassive(agent.module, sessions)

\* perform_debug_run: its actor is entered nowhere, an error is reported.
PerformRun ==
  /\ Resume("done") \/ Resume("failed")
  /\ agent.op = "run"
  /\ UNCHANGED <<entries, used, reloads, unversioned>>

\* Mutation of DisableDebugger: no reload.
DisableDebuggerQuiet ==
  LET m == Head(inbox).module IN
    /\ Takes("disable")
    /\ inbox' = Tail(inbox)
    /\ entries' = [entries EXCEPT ![m] = NoEntry]
    /\ UNCHANGED <<installerVars, agent, sessions, used, workerVars, reloads,
                   unversioned, others>>

\* remove_entry, if there is one; a reload takes its version out of the worker.
DisableDebugger ==
  LET m == Head(inbox).module IN
    /\ Takes("disable")
    /\ inbox' = Tail(inbox)
    /\ entries' = [entries EXCEPT ![m] = NoEntry]
    /\ reloads' = IF entries[m].module # 0 THEN Notified(reloads) ELSE reloads
    /\ UNCHANGED <<installerVars, agent, sessions, used, workerVars, unversioned, others>>

-----------------------------------------------------------------------------
(* The worker.                                                             *)

WorkerStep == UNCHANGED <<agentVars, others>>

\* The configuration is read; an environment that cannot be fetched ends all.
ReadConfiguration ==
  /\ phase = "reading"
  /\ phase' \in {"loading", "failed"}
  /\ UNCHANGED <<installerVars, snapshot, managers, launched, reloads, unversioned>>
  /\ WorkerStep

\* Worker::start loads the debug state; the module of an entry is used as it is.
Load ==
  /\ phase = "loading"
  /\ phase' = "resolving"
  /\ snapshot' = entries
  /\ task' = [t \in Installers |->
       IF t \in Configured /\ entries[t].module # 0
         THEN [Unused EXCEPT !.status = "done", !.result = entries[t].module]
         ELSE task[t]]
  /\ unversioned' = {}
  /\ UNCHANGED <<imports, modules, cached, managers, launched, reloads>>
  /\ WorkerStep

\* The other ones are looked up, or fetched and installed.
ResolveConfigured(m) ==
  /\ phase = "resolving"
  /\ Resolve(m, Deployed[m])
  /\ UNCHANGED <<workerVars, reloads, unversioned>>
  /\ WorkerStep

\* The module that is to run for m: of a configured one what was resolved, if
\* that did not fail, of another one what its session has sent.
Chosen(m) ==
  IF m \in Configured THEN task[m].result ELSE snapshot[m].module

\* Mutation of StartActors: the debugger is looked up in the current state.
StartActorsLate ==
  /\ phase = "resolving"
  /\ \A m \in Configured : task[m].status \in {"done", "failed"}
  /\ managers' = {[module |-> Chosen(m), session |-> entries[m].session] :
                    m \in {n \in Modules : Chosen(n) # 0}}
  /\ task' = [t \in Installers |-> IF t \in Configured THEN Unused ELSE task[t]]
  /\ phase' = "starting"
  /\ UNCHANGED <<imports, modules, cached, snapshot, launched, reloads, unversioned>>
  /\ WorkerStep

\* All are resolved: an actor for each, with the debugger of its module.
StartActors ==
  /\ phase = "resolving"
  /\ \A m \in Configured : task[m].status \in {"done", "failed"}
  /\ managers' = {[module |-> Chosen(m), session |-> snapshot[m].session] :
                    m \in {n \in Modules : Chosen(n) # 0}}
  /\ task' = [t \in Installers |-> IF t \in Configured THEN Unused ELSE task[t]]
  /\ phase' = "starting"
  /\ UNCHANGED <<imports, modules, cached, snapshot, launched, reloads, unversioned>>
  /\ WorkerStep

\* The starters have returned; the router is made, or cannot be made.
Launch ==
  /\ phase = "starting"
  /\ \/ phase' = "running" /\ launched' = TRUE
     \/ phase' = "failed" /\ UNCHANGED launched
  /\ UNCHANGED <<installerVars, snapshot, managers, reloads, unversioned>>
  /\ WorkerStep

\* All actors are told to terminate and the HTTP server is shut down: neither an
\* actor nor a request is followed beyond that.
Stop ==
  /\ phase = "running" /\ reloads > 0
  /\ reloads' = reloads - 1
  /\ phase' = "draining"
  /\ managers' = {}
  /\ actor' = NoActor
  /\ UNCHANGED <<installerVars, agentVars, snapshot, launched, unversioned, commands, ticks>>

Stopped ==
  /\ phase = "draining"
  /\ phase' = "reading"
  /\ UNCHANGED <<installerVars, snapshot, managers, launched, reloads, unversioned>>
  /\ WorkerStep

-----------------------------------------------------------------------------
(* Actors beside the worker's own.  Nothing here depends on them: one of    *)
(* them is followed at a time.                                              *)

Beside == UNCHANGED <<installerVars, agentVars, workerVars, reloads, unversioned,
                      commands, ticks>>

\* The modules a call of module i can get to: itself and its imports, with theirs.
Reached(i) ==
  LET reached[k \in DOMAIN modules] == {k} \cup UNION {reached[l] : l \in modules[k].links}
  IN  reached[i]

\* handle_request: any of these may have set up the route, under the id of its
\* version, and the code for the request is the first module listed with it.
Request ==
  /\ phase = "running" /\ actor = NoActor
  /\ \E a \in managers : \E i \in Reached(a.module) :
       /\ Find(modules[i].id) # 0
       /\ actor' = [NoActor EXCEPT !.at = "reading", !.module = Find(modules[i].id)]
  /\ Beside

\* Then the request is read, which can take long, and an actor is made with the
\* debugger that the debug state has by now for the code's module.
Attach ==
  LET m == Belongs[modules[actor.module].id] IN
    /\ actor.at = "reading"
    /\ actor' = [at |-> "running", module |-> actor.module,
                 session |-> IF m \in Modules THEN entries[m].session ELSE 0,
                 due |-> /\ reloads = 0 /\ m \notin unversioned
                         /\ \E a \in managers : a.module = actor.module]
    /\ Beside

\* spawn_actor: the code of its parent, and a debugger that is looked up under the
\* id of a version, where the debug state has none.
Spawn ==
  /\ phase = "running" /\ actor = NoActor
  /\ \E a \in managers : \E i \in Reached(a.module) :
       actor' = [NoActor EXCEPT !.at = "running", !.module = i]
  /\ Beside

\* The actor has ended, or the request is given up before it has one.
EndActor ==
  /\ actor # NoActor
  /\ actor' = NoActor
  /\ Beside

-----------------------------------------------------------------------------
Installing(t) ==
  /\ InstallerStep(t)
  /\ UNCHANGED <<agentVars, workerVars, reloads, unversioned, others>>

AgentStep ==
  \/ EnablePassive \/ StartInstall \/ EnableVersion \/ EnableFailed \/ PerformRun
  \/ RefuseRun \/ DisableDebugger

ActorStep == Request \/ Attach \/ Spawn \/ EndActor

LoopStep ==
  \/ ReadConfiguration \/ Load \/ StartActors \/ Launch \/ Stop \/ Stopped
  \/ \E m \in Configured : ResolveConfigured(m)

Next ==
  \/ Operate \/ Tick
  \/ \E m \in Modules : Expire(m)
  \/ AgentStep \/ LoopStep
  \/ ActorStep
  \/ \E t \in Installers : Installing(t)

Spec == Init /\ [][Next]_vars

\* Tasks that are ready are polled; fetches are answered or fail.
FairSpec ==
  /\ Spec
  /\ WF_vars(AgentStep) /\ WF_vars(LoopStep)
  /\ \A t \in Installers : WF_vars(Installing(t))

-----------------------------------------------------------------------------
(* Properties.                                                             *)

\* Module i fits the debugger of that session: it is what the session has sent, or
\* the session has sent nothing.  Only a version that is sent under the id of the
\* deployed one, and listed first, can later be taken for it (shared.rs:297).
Due(i, session) ==
  LET code == modules[i] IN
    /\ code.sent # 0 =>
         \/ code.sent = session
         \/ Find(code.id) = i /\ \E m \in Configured : Deployed[m] = code.id
    /\ code.sent = 0 => \A k \in DOMAIN modules : modules[k].sent = 0
                                                  \/ modules[k].sent # session

\* Whatever sessions start and end while Worker::start makes its module actors:
\* the code that one of them has from a session is run under the debugger of that
\* session, and a debugger whose session has brought a version is attached to no
\* other code of its module.
CodeIsDue == \A a \in managers : Due(a.module, a.session)

\* The actor of a request takes its code from the list of modules (worker.rs:196)
\* and its debugger from the debug state of a later moment (worker.rs:222), and
\* never looks at what the worker has loaded.  Still the two fit, however many
\* sessions have come and gone since the worker's start and while the request was
\* read, unless a reload is on its way, the session's version was lost without one
\* (unversioned) or the code is that of no module actor: of an import, or of the
\* older one of two versions that were sent under one id.
RequestsAreDue == actor.due => Due(actor.module, actor.session)

\* What the loop of WorkerLifecycle does in one step, LoadModules and the wait
\* for the starters, is done here with installs in between.
Lifecycle == INSTANCE WorkerLifecycle WITH
  MaxConfigs <- 0, MaxVersions <- MaxCommands, MaxSignals <- 0,
  phase <- IF phase \in {"resolving", "starting"} THEN "launching" ELSE phase,
  config <- 0, applied <- 0, updates <- 0, signals <- 0,
  caught <- FALSE, flag <- FALSE, installed <- launched,
  entries <- {m \in Modules : Has(entries, m)},
  version <- [m \in Modules |-> entries[m].number],
  running <- [m \in Modules |-> snapshot[m].number]

\* Installing, failing to install, expiring and disabling sessions, at any
\* point of the worker's start, are steps of WorkerLifecycle: each change of
\* what a worker should run reloads it, and it runs what it has loaded.
ImplementsLifecycle == Lifecycle!Spec

\* "Deactivate stale debug sessions" (CHANGELOG.md:58): the agent's tick ends
\* no session that has had activity in the last 300 seconds.
RecentSessionSurvives ==
  [][\A m \in Modules :
       Has(entries, m) /\ ~Has(entries', m) /\ Head(inbox).origin = "tick"
         => entries[m].expired]_vars
=============================================================================
