---------------------------- MODULE MCOperatorLink ----------------------------
(* Small instances of OperatorLink.                                        *)
EXTENDS OperatorLink, TLC

CONSTANTS m1, q1, q2
=============================================================================
