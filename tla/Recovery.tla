------------------------------ MODULE Recovery ------------------------------
(***************************************************************************)
(* What recovery makes of an execution that a dead process left behind:    *)
(* classify_crash and recover_execution (execution/recovery.py) over the   *)
(* execution and its steps, and the pass of recover_orphans                *)
(* (runtime/work/runner.py) over those that have no checkpoint of the      *)
(* loop.  These are functions of one row: nothing else is looked at.       *)
(***************************************************************************)
EXTENDS Naturals, Sequences

Crashing == {"pending", "running"}
Statuses == Crashing \union {"succeeded", "failed", "cancelled", "unknown_effect"}
StepKinds == {"model", "model_response", "model_recovery",
              "terminal", "terminal_observation", "terminal_error"}
StepStatuses == Crashing \union {"succeeded", "failed", "skipped"}

\* answered: the step has outputs.
Steps == [kind : StepKinds, status : StepStatuses, answered : BOOLEAN]

\* resumable: the checkpoint holds the messages of the loop.
Executions == [status : Statuses, resumable : BOOLEAN, steps : Seq(Steps)]

\* _VALID_TRANSITIONS, as complete() and fail() ask it: they change a running
\* execution and leave any other as it is.
Moved(e, status) == IF e.status = "running" THEN [e EXCEPT !.status = status] ELSE e

-----------------------------------------------------------------------------
(* classify_crash *)

\* Commands that were issued and whose observation is missing.
Unverified(e) ==
    {i \in DOMAIN e.steps : /\ e.steps[i].kind = "terminal"
                            /\ e.steps[i].status \in Crashing}

EndsWith(e, kind) ==
    /\ e.steps # << >>
    /\ e.steps[Len(e.steps)].kind = kind
    /\ e.steps[Len(e.steps)].status = "succeeded"

CrashPoint(e) ==
    IF e.status \notin Crashing THEN "no_crash"
    ELSE IF Unverified(e) # {} THEN "after_terminal_execution"
    ELSE IF EndsWith(e, "terminal_observation") THEN "after_result_persistence"
    ELSE IF EndsWith(e, "model_response") THEN "after_model_response"
    ELSE "before_model_call"

-----------------------------------------------------------------------------
(* recover_execution *)

\* The result was persisted and only the execution's own end is missing.
OnlyEndMissing(e) ==
    CrashPoint(e) = "after_result_persistence" /\ e.steps[Len(e.steps)].answered

Outcome(e) ==
    IF e.status \notin Crashing THEN "already_terminal"
    ELSE IF e.resumable THEN "resume_from_checkpoint"
    ELSE IF Unverified(e) # {} THEN "unknown_effect"
    ELSE IF OnlyEndMissing(e) THEN "resume_from_checkpoint"
    ELSE "retry_from_start"

\* The row afterwards.  A checkpoint is left to the caller to resume from; the
\* one complete() writes holds no messages.
Recovered(e) ==
    IF e.status \notin Crashing \/ e.resumable THEN e
    ELSE IF Unverified(e) # {} THEN [e EXCEPT !.status = "unknown_effect"]
    ELSE IF OnlyEndMissing(e) THEN Moved(e, "succeeded")
    ELSE Moved(e, "failed")

-----------------------------------------------------------------------------
(* recover_orphans *)

\* The pass asks each outcome that is not "unknown_effect" whether it is a
\* member of RecoveryOutcome that does not exist, and raises.
Raises(e) == Outcome(e) # "unknown_effect"

\* The rows after a pass over these orphans, none of which has a checkpoint:
\* one transaction, rolled back when the pass raises.
Swept(orphans) ==
    IF \E i \in DOMAIN orphans : Raises(orphans[i])
    THEN orphans
    ELSE [i \in DOMAIN orphans |-> Recovered(orphans[i])]

-----------------------------------------------------------------------------

\* Steps as the bridge records them: each in one insert, as succeeded, and an
\* observation among the inputs (bridge/service.py:819-843, 1509-1546).
ByTheBridge(e) ==
    \A i \in DOMAIN e.steps :
        /\ e.steps[i].status = "succeeded"
        /\ e.steps[i].kind = "terminal_observation" => ~e.steps[i].answered

=============================================================================
