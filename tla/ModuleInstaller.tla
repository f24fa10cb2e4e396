--------------------------- MODULE ModuleInstaller ---------------------------
(***************************************************************************)
(* The compiled modules of a worker process (shared.rs) and the resolver    *)
(* that fetches their sources (module_version_resolver.rs).                 *)
(*                                                                         *)
(* A version is looked up in the list of compiled modules; if it is not     *)
(* there it is fetched and compiled, its imports are resolved in the same   *)
(* way, one after the other, and only then it is appended.  Several         *)
(* installers work at the same time and share the list and the resolver's   *)
(* cache; between the lookup and the append each awaits.  A version that a  *)
(* debugger sends along is installed without lookup, next to what has its   *)
(* id already.                                                              *)
(***************************************************************************)
EXTENDS Naturals, FiniteSets, Sequences, SequencesExt

CONSTANTS
  Versions,    \* ids of module versions
  Graphs,      \* the import graphs there may be: version -> its imports
  Installers,  \* tasks that may be installing, each one version at a time
  MaxDepth     \* bound: nested calls of resolve_and_install_module

ASSUME InstallerAssumption ==
  /\ Graphs \subseteq [Versions -> SUBSET Versions]
  /\ IsFiniteSet(Installers)
  /\ MaxDepth \in Nat \ {0}

VARIABLES
  imports,   \* the import graph, one of Graphs
  modules,   \* global.modules: compiled modules, never removed
  cached,    \* the versions in the resolver's cache
  task       \* task[t]: what installer t is doing

installerVars == <<imports, modules, cached, task>>

\* A call of install_module in progress: the version, the debug session that
\* has sent it (0: fetched from the repository), the imports it has to resolve
\* and the modules those it has resolved are linked to.
Frame(id, sent, phase, todo) ==
  [id |-> id, sent |-> sent, phase |-> phase, todo |-> todo, links |-> {}]

\* stack holds the calls in progress, the innermost first.
Unused == [status |-> "idle", stack |-> <<>>, result |-> 0]

InitInstaller ==
  /\ imports \in Graphs
  /\ modules = <<>>
  /\ cached = {}
  /\ task = [t \in Installers |-> Unused]

-----------------------------------------------------------------------------
\* The first compiled module with that id, 0 if there is none.
Find(id) == SelectInSeq(modules, LAMBDA m : m.id = id)

\* The innermost call of k goes on as frame.
Within(k, frame) == [k EXCEPT !.stack = <<frame>> \o Tail(@)]

\* The innermost call of k is over.
Over(k) == [k EXCEPT !.stack = Tail(@)]

\* Module i is returned to the innermost call, or to whoever asked.
Returned(k, i) ==
  IF k.stack = <<>>
    THEN [k EXCEPT !.status = "done", !.result = i]
    ELSE Within(k, [Head(k.stack) EXCEPT !.links = @ \cup {i}])

Called(k, frame) == [k EXCEPT !.status = "busy", !.stack = <<frame>> \o @]

\* Mutation of Resolved: no lookup.
ResolvedAfresh(k, id) == Called(k, Frame(id, 0, "fetching", {}))

\* resolve_and_install_module: the lookup, and the call it may lead to.
Resolved(k, id) ==
  IF Find(id) # 0 THEN Returned(k, Find(id))
                  ELSE Called(k, Frame(id, 0, "fetching", {}))

Busy(t) == task[t].status = "busy"
Top(t) == Head(task[t].stack)

Resolve(t, id) ==
  /\ task[t].status = "idle"
  /\ task' = [task EXCEPT ![t] = Resolved(@, id)]
  /\ UNCHANGED <<imports, modules, cached>>

\* install_module of a version that session has sent along.
InstallSent(t, id, session) ==
  /\ task[t].status = "idle"
  /\ task' = [task EXCEPT ![t] =
       Called(@, Frame(id, session, "importing", imports[id]))]
  /\ UNCHANGED <<imports, modules, cached>>

\* The source comes from the cache or the repository, and is compiled.
Fetch(t) ==
  /\ Busy(t) /\ Top(t).phase = "fetching"
  /\ cached' = cached \cup {Top(t).id}
  /\ task' = [task EXCEPT ![t] =
       Within(@, [Top(t) EXCEPT !.phase = "importing", !.todo = imports[Top(t).id]])]
  /\ UNCHANGED <<imports, modules>>

\* Mutation of FetchFails: the failure is not passed on.
FetchFailsSilent(t) ==
  /\ Busy(t) /\ Top(t).phase = "fetching" /\ Top(t).id \notin cached
  /\ task' = [task EXCEPT ![t].stack[1].phase = "failed"]
  /\ UNCHANGED <<imports, modules, cached>>

\* The repository is unavailable, or knows no such version: every call in
\* progress fails.  What was installed for it stays.
FetchFails(t) ==
  /\ Busy(t) /\ Top(t).phase = "fetching" /\ Top(t).id \notin cached
  /\ task' = [task EXCEPT ![t] = [Unused EXCEPT !.status = "failed"]]
  /\ UNCHANGED <<imports, modules, cached>>

\* resolve_imports goes through a HashMap, in any order.
ResolveImport(t) ==
  /\ Busy(t) /\ Top(t).phase = "importing"
  /\ Len(task[t].stack) < MaxDepth
  /\ \E id \in Top(t).todo :
       task' = [task EXCEPT ![t] =
         Resolved(Within(@, [Top(t) EXCEPT !.todo = @ \ {id}]), id)]
  /\ UNCHANGED <<imports, modules, cached>>

\* All imports are resolved: the module is listed, even if its version has
\* been listed meanwhile.
Install(t) ==
  /\ Busy(t) /\ Top(t).phase = "importing" /\ Top(t).todo = {}
  /\ modules' = Append(modules,
       [id |-> Top(t).id, sent |-> Top(t).sent, links |-> Top(t).links])
  /\ task' = [task EXCEPT ![t] =
       Returned(Over(@), Len(modules) + 1)]
  /\ UNCHANGED <<imports, cached>>

InstallerStep(t) == Fetch(t) \/ FetchFails(t) \/ ResolveImport(t) \/ Install(t)

-----------------------------------------------------------------------------
(* Properties.                                                             *)

Copies(id) == {i \in DOMAIN modules : modules[i].id = id /\ modules[i].sent = 0}

\* However lookups, fetches and appends interleave, a module in the list is
\* complete (each of its imports is linked to a module of that version listed
\* before it), and a version is fetched and listed at most once per installer:
\* the race of lookup and append (shared.rs:296-312) does not go on for ever.
ModulesSound ==
  /\ \A i \in DOMAIN modules :
       /\ {modules[l].id : l \in modules[i].links} = imports[modules[i].id]
       /\ \A l \in modules[i].links : l < i
  /\ \A id \in Versions : Cardinality(Copies(id)) <= Cardinality(Installers)

\* What id imports, directly or not, by paths of up to n steps.
Imported(id) ==
  LET reach[n \in Nat] ==
        IF n = 0 THEN imports[id]
                 ELSE reach[n - 1] \cup UNION {imports[v] : v \in reach[n - 1]}
  IN reach[Cardinality(Versions)]

Cyclic(id) == \E v \in Imported(id) \cup {id} : v \in Imported(v)

\* An installation comes to an end, with a module or an error, unless its
\* imports lead into a cycle: that one is fetched for ever, as a version is
\* listed only after its imports (shared.rs:251).
InstallsEnd ==
  \A t \in Installers :
    Busy(t) ~> ~Busy(t) \/ (Busy(t) /\ Cyclic(Last(task[t].stack).id))
=============================================================================
