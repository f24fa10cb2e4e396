---------------------------- MODULE MCRedisPubSub ----------------------------
(* A small instance of RedisPubSub.                                        *)
EXTENDS RedisPubSub

CONSTANTS a1, a2, ch1
=============================================================================
