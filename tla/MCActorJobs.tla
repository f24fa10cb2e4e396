------------------------------ MODULE MCActorJobs ------------------------------
(* Small instances of ActorJobs: an actor with timers, one with one and one  *)
(* with two subscriptions, one with tasks, one with sockets, one with a       *)
(* watcher beside a timer.                                                   *)
EXTENDS ActorJobs, TLC

CONSTANTS j1, j2

Timers == (j1 :> "alarm") @@ (j2 :> "interval")
Feed == (j1 :> "subscription") @@ (j2 :> None)
Feeds == (j1 :> "subscription") @@ (j2 :> "subscription")
Tasks == (j1 :> "task") @@ (j2 :> "task")
Sockets == (j1 :> "socket") @@ (j2 :> "socket")
Watched == (j1 :> "watcher") @@ (j2 :> "cronjob")

EveryProgram == {Timers, Feed, Feeds, Tasks, Sockets, Watched}

\* One receiver can miss a value between two others; two share a shorter history.
Publications == [w \in EveryProgram |-> IF w = Feeds THEN 2 ELSE 3]
=============================================================================
