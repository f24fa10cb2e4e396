--------------------------- MODULE MCDebugSessions ---------------------------
(* Small instances of DebugSessions: one module is deployed, and debugged   *)
(* under the id of the deployed version; another one is only debugged, and  *)
(* imports it.  Both import a library; in the second graph the library      *)
(* imports the deployed version.                                            *)
EXTENDS DebugSessions, TLC

CONSTANTS m1, m2, v1, d2, lib

Tree == (v1 :> {lib}) @@ (d2 :> {v1, lib}) @@ (lib :> {})
Cycle == (v1 :> {lib}) @@ (d2 :> {}) @@ (lib :> {v1})
AllGraphs == {Tree, Cycle}

DeployedVersions == m1 :> v1
DraftVersions == (m1 :> {v1}) @@ (m2 :> {d2})
\* What else is debugged does not include the library.
ModuleOf == (v1 :> m1) @@ (d2 :> m2) @@ (lib :> None)
AllInstallers == {m1, Agent}
=============================================================================
