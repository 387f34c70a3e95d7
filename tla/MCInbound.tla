----------------------------- MODULE MCInbound -----------------------------
(* Instances of Inbound for TLC: three requests.  r1 and r2 carry the same  *)
(* message, r3 another one of the same sender.                              *)
EXTENDS Inbound

CONSTANTS r1, r2, r3, m1, m2, s1

TwiceAndOnce == [r \in Request |-> IF r = r3 THEN m2 ELSE m1]
OneSender == [m \in Message |-> s1]
=============================================================================
