-------------------------- MODULE MCWorkerLifecycle --------------------------
(* Small instances of WorkerLifecycle.                                     *)
EXTENDS WorkerLifecycle

CONSTANTS m1, m2
=============================================================================
