------------------------------- MODULE Turns -------------------------------
(***************************************************************************)
(* What the runtime bridge promises of a message, whatever happens to the  *)
(* runners: it is settled once, as answered or as failed; only an answered *)
(* message is replied to, at most once; and a turn that tells the user     *)
(* that work goes on leaves a work item that goes on with it.              *)
(***************************************************************************)
EXTENDS Naturals

CONSTANT Message

VARIABLES
    outcome,    \* how the message was settled
    replied,    \* replies handed over for delivery
    pledged,    \* turns that ended with "I'll continue" or "I'll respond shortly"
    scheduled   \* work items that follow up on the message

vars == <<outcome, replied, pledged, scheduled>>

Init ==
    /\ outcome = [m \in Message |-> "open"]
    /\ replied = [m \in Message |-> 0]
    /\ pledged = [m \in Message |-> 0]
    /\ scheduled = [m \in Message |-> 0]

Pledge(m, n) ==
    /\ pledged' = [pledged EXCEPT ![m] = @ + n]
    /\ scheduled' = [scheduled EXCEPT ![m] = @ + n]

\* The model's answer settles the message; the answer may be a pledge.
Succeed(m) ==
    /\ outcome[m] = "open"
    /\ outcome' = [outcome EXCEPT ![m] = "success"]
    /\ \E n \in 0..1 : Pledge(m, n)
    /\ UNCHANGED replied

\* A failed turn settles the message too, and pledges a retry.
Fail(m) ==
    /\ outcome[m] = "open"
    /\ outcome' = [outcome EXCEPT ![m] = "internal_error"]
    /\ Pledge(m, 1)
    /\ UNCHANGED replied

ReplyTo(m) ==
    /\ outcome[m] = "success" /\ replied[m] = 0
    /\ replied' = [replied EXCEPT ![m] = 1]
    /\ UNCHANGED <<outcome, pledged, scheduled>>

\* A follow-up runs out of rounds in its turn.
GoOn(m) ==
    /\ scheduled[m] > 0
    /\ Pledge(m, 1)
    /\ UNCHANGED <<outcome, replied>>

Next == \E m \in Message : Succeed(m) \/ Fail(m) \/ ReplyTo(m) \/ GoOn(m)

Spec == Init /\ [][Next]_vars
=============================================================================
