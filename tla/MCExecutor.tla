----------------------------- MODULE MCExecutor -----------------------------
(* Small instances of Executor.                                            *)
EXTENDS Executor

StepsOf == [m \in Modes |-> IF m = "Debug" THEN 3 ELSE 4]
=============================================================================
