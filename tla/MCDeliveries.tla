---------------------------- MODULE MCDeliveries ----------------------------
(* Instances of Deliveries for TLC: one reply of two messages, the others of *)
(* one.                                                                      *)
EXTENDS Deliveries

CONSTANTS d1, d2

LongAndShort == [d \in Reply |-> IF d = d1 THEN 2 ELSE 1]
=============================================================================
