--------------------------- MODULE WorkerLifecycle ---------------------------
(***************************************************************************)
(* The worker's life under a cloud agent: the loop of                       *)
(* run_worker_with_cloud_agent and run_worker (main.rs), Worker::start and  *)
(* Worker::stop (worker.rs), the configuration coordinator (config.rs) and  *)
(* the agent's handling of the debugger commands that replace a module      *)
(* (cloud/agent.rs).                                                        *)
(*                                                                         *)
(* The coordinator and the agent change what the worker should run at any   *)
(* time, and tell the loop through two broadcast channels.  The loop reads  *)
(* the configuration and the debug state once per worker, runs it, and      *)
(* listens for the next change only while that worker runs.  A signal is    *)
(* caught by shutdown_signal(), which is polled in two places only; one     *)
(* that arrives at another time has no listener and is lost.                *)
(***************************************************************************)
EXTENDS Naturals

CONSTANTS
  Modules,       \* the modules a debugger may be enabled for
  Ring,          \* broadcast::channel(3): what a receiver can be behind
  MaxConfigs,    \* bound: configurations after the first
  MaxVersions,   \* bound: debugged versions of a module
  MaxSignals     \* bound: SIGINT or SIGTERM sent to the process

ASSUME LifecycleAssumption ==
  /\ Ring \in Nat \ {0}
  /\ MaxConfigs \in Nat /\ MaxVersions \in Nat /\ MaxSignals \in Nat

VARIABLES
  phase,      \* where the loop is
  config,     \* the shared configuration, by its number
  applied,    \* the configuration the present worker was made for
  updates,    \* what config_id_update_receiver has yet to receive
  reloads,    \* what cloud_reload_receiver has yet to receive
  entries,    \* debug_state.entries, by module
  version,    \* version[m]: the entry's module, 0 if it has none
  running,    \* running[m]: the debugged version the worker runs, 0 if none
  used,       \* used[m]: debugged versions of m sent so far
  unversioned, \* history: modules whose entry has lost its version since the
              \* worker was loaded, and has not got another one
  signals,    \* signals sent so far
  caught,     \* the polled shutdown_signal() is ready
  installed,  \* tokio has replaced the default signal handlers
  flag        \* shutdown_flag

vars == <<phase, config, applied, updates, reloads, entries, version, running, used,
          unversioned, signals, caught, installed, flag>>
loopVars == <<phase, applied, running, caught, installed, flag>>
agentVars == <<entries, version, used, unversioned>>

Init ==
  /\ phase = "reading"
  /\ config = 0 /\ applied = 0
  /\ updates = 0 /\ reloads = 0
  /\ entries = {}
  /\ version = [m \in Modules |-> 0]
  /\ running = [m \in Modules |-> 0]
  /\ used = [m \in Modules |-> 0]
  /\ unversioned = {}
  /\ signals = 0
  /\ caught = FALSE /\ installed = FALSE /\ flag = FALSE

\* One more value for a receiver; one that is Ring behind loses the oldest and
\* gets RecvError::Lagged instead, which wakes the loop like a value.
Notified(n) == IF n > Ring THEN n ELSE n + 1

-----------------------------------------------------------------------------
(* The configuration coordinator and the cloud agent.                      *)

\* A configuration with another id is set and announced under the lock.
UpdateConfiguration ==
  /\ config < MaxConfigs
  /\ config' = config + 1
  /\ updates' = Notified(updates)
  /\ UNCHANGED <<reloads, loopVars, agentVars, signals>>

\* EnableDebugger with a module version: it is installed and the worker is
\* to be reloaded with it.
EnableVersion(m) ==
  /\ used[m] < MaxVersions
  /\ used' = [used EXCEPT ![m] = @ + 1]
  /\ entries' = entries \cup {m}
  /\ version' = [version EXCEPT ![m] = used[m] + 1]
  /\ unversioned' = unversioned \ {m}
  /\ reloads' = Notified(reloads)
  /\ UNCHANGED <<config, updates, loopVars, signals>>

\* EnableDebugger without a version, or with one that cannot be installed: no
\* reload, even if the entry had a version.
EnablePassive(m) ==
  /\ entries' = entries \cup {m}
  /\ version' = [version EXCEPT ![m] = 0]
  /\ unversioned' = IF version[m] # 0 THEN unversioned \cup {m} ELSE unversioned
  /\ UNCHANGED <<config, updates, reloads, loopVars, used, signals>>

\* Mutation of DisableDebugger: no reload.
DisableDebuggerQuiet(m) ==
  /\ m \in entries
  /\ entries' = entries \ {m}
  /\ version' = [version EXCEPT ![m] = 0]
  /\ UNCHANGED <<config, updates, reloads, loopVars, used, unversioned, signals>>

\* remove_entry; a reload takes the module out of the worker.
DisableDebugger(m) ==
  /\ m \in entries
  /\ entries' = entries \ {m}
  /\ version' = [version EXCEPT ![m] = 0]
  /\ reloads' = IF version[m] # 0 THEN Notified(reloads) ELSE reloads
  /\ UNCHANGED <<config, updates, loopVars, used, unversioned, signals>>

-----------------------------------------------------------------------------
(* The loop.                                                               *)

\* The configuration is cloned; an environment that cannot be fetched ends
\* the process.
ReadConfiguration ==
  /\ phase = "reading"
  /\ applied' = config
  /\ phase' \in {"loading", "failed"}
  /\ UNCHANGED <<config, updates, reloads, agentVars, running, signals, caught,
                 installed, flag>>

\* Worker::start loads the debug state once and chooses the modules by it.
LoadModules ==
  /\ phase = "loading"
  /\ running' = version
  /\ unversioned' = {}
  /\ phase' = "launching"
  /\ UNCHANGED <<config, applied, updates, reloads, entries, version, used, signals,
                 caught, installed, flag>>

\* The starters have run and the router is made, or cannot be made of these
\* settings; then the stop signal is awaited.
Launch ==
  /\ phase = "launching"
  /\ \/ phase' = "running" /\ installed' = TRUE
     \/ phase' = "failed" /\ UNCHANGED installed
  /\ UNCHANGED <<config, applied, updates, reloads, agentVars, running, signals,
                 caught, flag>>

\* The future of the other branches, shutdown_signal() too, is dropped.
Stop ==
  /\ phase = "running"
  /\ phase' = "draining"
  /\ caught' = FALSE
  /\ UNCHANGED <<config, applied, agentVars, running, signals, installed>>

StopForConfiguration ==
  /\ updates > 0
  /\ updates' = updates - 1
  /\ Stop
  /\ UNCHANGED <<reloads, flag>>

StopForReload ==
  /\ reloads > 0
  /\ reloads' = reloads - 1
  /\ Stop
  /\ UNCHANGED <<updates, flag>>

\* Mutation of StopForSignal: shutdown_flag stays down.
StopForSignalOnly ==
  /\ caught
  /\ Stop
  /\ UNCHANGED <<updates, reloads, flag>>

StopForSignal ==
  /\ caught
  /\ Stop
  /\ flag' = TRUE
  /\ UNCHANGED <<updates, reloads>>

\* Worker::stop has told stoppers, server and actors; the server has shut down,
\* or a signal ends the wait and nothing else ("Force quit", worker.rs):
\* the loop goes on unless the flag is up.
Stopped ==
  /\ phase = "draining"
  /\ phase' = IF flag THEN "finished" ELSE "reading"
  /\ caught' = FALSE
  /\ UNCHANGED <<config, applied, updates, reloads, agentVars, running, signals,
                 installed, flag>>

\* What a signal finds: a listener while the worker runs, perhaps one while it
\* drains (at the end of Worker::stop), and none elsewhere.
CaughtAfter ==
  CASE phase = "running" -> {TRUE}
    [] phase = "draining" -> {caught, TRUE}
    [] OTHER -> {caught}

\* A signal: by default it ends the process; it is caught where
\* shutdown_signal() is polled, and lost elsewhere.
Signal ==
  /\ signals < MaxSignals
  /\ signals' = signals + 1
  /\ phase \notin {"finished", "failed"}
  /\ phase' = IF installed THEN phase ELSE "finished"
  /\ caught' \in CaughtAfter
  /\ UNCHANGED <<config, applied, updates, reloads, agentVars, running, installed,
                 flag>>

-----------------------------------------------------------------------------
LoopStep ==
  \/ ReadConfiguration \/ LoadModules \/ Launch
  \/ StopForConfiguration \/ StopForReload \/ StopForSignal \/ Stopped

Next ==
  \/ UpdateConfiguration
  \/ \E m \in Modules : EnableVersion(m) \/ EnablePassive(m) \/ DisableDebugger(m)
  \/ LoopStep
  \/ Signal

Spec == Init /\ [][Next]_vars

\* The loop goes on: fetches, starters and the server's shutdown (bounded by
\* 15 seconds) come to an end.
FairSpec == Spec /\ WF_vars(LoopStep)

-----------------------------------------------------------------------------
(* Properties.                                                             *)

Over == phase \in {"finished", "failed"}

\* The worker comes to run what is set: the configuration, and of each module
\* the debugged version of the entry ("If specified, this module will be
\* applied", executor.rs, DebugEntry), or none.  What has taken a version off
\* an entry without a reload is excepted: nobody tells the loop of it.
ChangesApplied ==
  /\ applied # config ~> applied = config \/ Over
  /\ \A m \in Modules :
       running[m] # version[m] /\ m \notin unversioned
         ~> running[m] = version[m] \/ m \in unversioned \/ Over

\* A signal that finds the loop waiting, with nothing else to wake it, ends
\* the process.
SignalEnds == phase = "running" /\ caught /\ updates + reloads = 0 ~>
                Over \/ updates + reloads > 0
=============================================================================
