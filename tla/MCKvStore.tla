------------------------------ MODULE MCKvStore ------------------------------
(* Small instances of KvStore.                                             *)
EXTENDS KvStore

CONSTANTS c1, c2
=============================================================================
