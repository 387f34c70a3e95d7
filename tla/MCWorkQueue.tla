---------------------------- MODULE MCWorkQueue ----------------------------
(***************************************************************************)
(* Instances of WorkQueue for TLC.  The cfg files choose the deployment    *)
(* (MaxAlive replicas among the incarnations w1 and w2), what the two      *)
(* items wait for, and which of them have a deadline or may be cancelled.  *)
(***************************************************************************)
EXTENDS WorkQueue, TLC

CONSTANTS i1, i2, w1, w2

\* Distinct owner names.
OwnIds == [w \in Worker |-> w]

\* Incarnations with names of their own are interchangeable.
Incarnations == Permutations(Worker)

\* A message from a principal, as the bridge announces it.
Message == <<"message", i1>>

\* The items wait for the clock only; or i2 for the success of i1, which in
\* turn waits for a message.
Clock == [i \in Item |-> None]
MessageChain == [i \in Item |-> IF i = i2 THEN Says("succeeded", i1) ELSE Message]
NoExternal == {}
Messages == {Message}
=============================================================================
