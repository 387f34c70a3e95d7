--------------------------- MODULE WorkLifecycle ---------------------------
(***************************************************************************)
(* What the work queue promises of an item, whatever runners do: it waits, *)
(* becomes active, is tried a bounded number of times, and ends once.  The *)
(* states are those of WorkItemRecord.status, with "leased" and "running"  *)
(* as one; several items may move in one step, as a claim pass moves a     *)
(* batch.  The promise of an item ends when one transaction writes its row *)
(* between the read and the write of another ("torn"); that it is tried at *)
(* most MaxAttempts times outlives even that.                              *)
(***************************************************************************)
EXTENDS Naturals

CONSTANTS Item, MaxAttempts

VARIABLES phase, tries

Init ==
    /\ phase = [i \in Item |-> "absent"]
    /\ tries = [i \in Item |-> 0]

Moves(i, from, to) == phase[i] \in from /\ phase'[i] = to

Spends(i, n) == tries'[i] = tries[i] + n

Submit(i)   == Moves(i, {"absent"}, "waiting") /\ Spends(i, 0)
Activate(i) == Moves(i, {"waiting"}, "active") /\ Spends(i, 1)
Retry(i)    == Moves(i, {"active"}, "active") /\ tries[i] < MaxAttempts /\ Spends(i, 1)
Succeed(i)  == Moves(i, {"active"}, "succeeded") /\ Spends(i, 0)
Expire(i)   == Moves(i, {"waiting"}, "dead") /\ Spends(i, 0)
GiveUp(i)   == Moves(i, {"active"}, "dead") /\ tries[i] = MaxAttempts /\ Spends(i, 0)
Cancel(i)   == Moves(i, {"waiting", "active"}, "cancelled") /\ Spends(i, 0)
Rest(i)     == phase'[i] = phase[i] /\ Spends(i, 0)
Tear(i)     ==
    /\ phase[i] \notin {"absent", "succeeded", "dead", "cancelled"} /\ phase'[i] = "torn"
    /\ Spends(i, 0) \/ (tries[i] < MaxAttempts /\ Spends(i, 1))

Next ==
    \A i \in Item :
        \/ Submit(i) \/ Activate(i) \/ Retry(i) \/ Succeed(i)
        \/ Expire(i) \/ GiveUp(i) \/ Cancel(i) \/ Rest(i) \/ Tear(i)

Spec == Init /\ [][Next]_<<phase, tries>>
=============================================================================
