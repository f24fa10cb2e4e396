---------------------------- MODULE RequestReply ----------------------------
(***************************************************************************)
(* What the actor runtime promises to whoever asks an actor to run a        *)
(* handler and waits for the result, with mailboxes, links and the registry *)
(* left out: a request is run at most once; its caller learns the result of  *)
(* that run, or that there is no such handler, or gives up, and whatever it  *)
(* learned stays so; a request its caller gave up on may still be run.      *)
(***************************************************************************)
CONSTANT Requests

VARIABLES
  run,     \* run[r]: how far the work asked for has come
  caller   \* caller[r]: what the one who asked knows

vars == <<run, caller>>

TypeOK ==
  /\ run \in [Requests -> {"none", "queued", "running", "done"}]
  /\ caller \in [Requests -> {"none", "waiting", "ok", "err", "gaveup"}]

Init ==
  /\ run = [r \in Requests |-> "none"]
  /\ caller = [r \in Requests |-> "none"]

Ask(r) ==
  /\ run[r] = "none"
  /\ run' = [run EXCEPT ![r] = "queued"]
  /\ caller' = [caller EXCEPT ![r] = "waiting"]

Start(r) ==
  /\ run[r] = "queued"
  /\ run' = [run EXCEPT ![r] = "running"]
  /\ UNCHANGED caller

Told(r, result) ==
  caller' = [caller EXCEPT ![r] = IF @ = "waiting" THEN result ELSE @]

Complete(r, result) ==
  /\ run[r] = "running"
  /\ run' = [run EXCEPT ![r] = "done"]
  /\ Told(r, result)

Reject(r) ==
  /\ run[r] = "queued"
  /\ run' = [run EXCEPT ![r] = "done"]
  /\ Told(r, "err")

GiveUp(r) ==
  /\ caller[r] = "waiting"
  /\ caller' = [caller EXCEPT ![r] = "gaveup"]
  /\ UNCHANGED run

Next ==
  \E r \in Requests :
    \/ Ask(r) \/ Start(r) \/ Reject(r) \/ GiveUp(r)
    \/ \E result \in {"ok", "err"} : Complete(r, result)

Spec == Init /\ [][Next]_vars

\* Every request is taken up and every run ends, and whoever asked is told or
\* gives up.
Served ==
  \A r \in Requests : /\ run[r] = "queued" ~> run[r] = "done"
                      /\ caller[r] = "waiting" ~> caller[r] # "waiting"
=============================================================================
