---------------------------- MODULE MCExecutions ----------------------------
(* Instances of Executions for TLC: two messages of one principal.          *)
EXTENDS Executions

CONSTANTS m1, m2, w1, w2
=============================================================================
