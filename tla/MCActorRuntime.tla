--------------------------- MODULE MCActorRuntime ---------------------------
(* Instances of ActorRuntime for TLC.                                      *)
EXTENDS ActorRuntime, TLC

CONSTANTS r, a, b

\* Every handler name is known to some actor and unknown to another.
MCHandles == (r :> {"onHttpRequest", "onMessage"}) @@ (a :> {"onMessage", "onRequest"})
               @@ (b :> {"onRequest"})

\* Anybody may address anybody, itself included.
AllPeers == Actors \X Actors

\* An actor only addresses actors further down: r, then a, then b.
RankedPeers == {<<r, a>>, <<r, b>>, <<a, b>>}

RankedHandles == (r :> {"onHttpRequest"}) @@ (a :> {"onMessage", "onRequest"})
                   @@ (b :> {"onRequest"})

\* Bounds on native calls.
TwoEach == [x \in Actors |-> 2]
RankedSteps == (r :> 3) @@ (a :> 3) @@ (b :> 0)
=============================================================================
