----------------------------- MODULE Executions -----------------------------
(***************************************************************************)
(* The turns of the intelligence: RuntimeBridge.process, process_inbound   *)
(* and run_reentry (runtime/bridge/service) as the handlers of the work    *)
(* runner call them, over the execution state machine                      *)
(* (execution/repository), the idempotency rows (state/bridge_models), the *)
(* conversations (continuity/repository) and the rate limiter.             *)
(*                                                                         *)
(* Grain.  A turn is ONE transaction, from the handler's call to the       *)
(* commit after the loop, with every await of the model and the terminal   *)
(* inside: what a turn writes lives in the variables of its runner until   *)
(* Commit.  One principal sends all messages.  The item of message m is    *)
(* <<m, 0>>, the work that follows up on it is <<m, 1>>, <<m, 2>>, ...     *)
(* WorkQueue has the detail of claims and leases: here a claim and the     *)
(* recording of a result are one step each.                                *)
(*                                                                         *)
(* Where an item comes from.  The webhook writes the processed_messages    *)
(* row of a message and schedules work for it in one transaction (Accept); *)
(* the tests call process with no row written (Arrive).  process asks for  *)
(* the row alone, whatever its outcome: a message that was accepted first  *)
(* is a duplicate to it, and has no turn.                                  *)
(*                                                                         *)
(* A member of Worker is a runner process and its restarts.                *)
(***************************************************************************)
EXTENDS Naturals, FiniteSets

CONSTANTS
    Message,      \* inbound messages of the principal
    Worker,       \* runner processes
    MaxAttempts,  \* WorkItemRecord.max_attempts
    MaxRounds,    \* terminal_max_rounds
    Zombies,      \* whether a lease may lapse under a runner that still works
    MaxMore,      \* bound on the follow-ups of a message
    MaxConvs,     \* bound on conversations
    MaxFaults     \* bound on crashes and failing transactions

ASSUME SetAssumption == IsFiniteSet(Message) /\ IsFiniteSet(Worker)
ASSUME BoundAssumption ==
    /\ {MaxAttempts, MaxRounds, MaxMore, MaxConvs} \subseteq Nat \ {0}
    /\ MaxFaults \in Nat
    /\ Zombies \in BOOLEAN

Item == Message \X (0..MaxMore)
Inbound(i) == i[2] = 0
Conv == 1..MaxConvs
Attempt == 1..MaxAttempts
NoItem == <<>>

VARIABLES
    status, attempts, owner,   \* work items
    processed,   \* processed_messages.outcome
    execution,   \* committed executions: [Item -> [Attempt -> how it ended]]
    made,        \* follow-up items scheduled per message
    replies,     \* delivery records enqueued per message
    conv,        \* conversations: their committed status
    pc,          \* per runner: where its handler is
    cur,         \* per runner: the item in hand
    try,         \* per runner: the attempt it makes
    round,       \* per runner: terminal rounds of its loop, checkpointed in it
    result,      \* per runner: how its turn ends
    talk, mood,  \* per runner: its conversation, and the status it read of it
    faults       \* crashes and failed transactions so far

items == <<status, attempts, owner>>
local == <<pc, cur, try, round, result, talk, mood>>
tables == <<processed, execution, made, replies, conv>>
vars == <<items, tables, local, faults>>

\* How a turn ends; "answered" and "paused" are SUCCEEDED in the column, paused
\* those whose text tells the user that rounds ran out.
Ending == {"answered", "paused", "failed"}

Init ==
    /\ status = [i \in Item |-> "absent"]
    /\ attempts = [i \in Item |-> 0]
    /\ owner = [i \in Item |-> "none"]
    /\ processed = [m \in Message |-> "absent"]
    /\ execution = [i \in Item |-> [a \in Attempt |-> "absent"]]
    /\ made = [m \in Message |-> 0]
    /\ replies = [m \in Message |-> 0]
    /\ conv = [c \in Conv |-> "absent"]
    /\ pc = [w \in Worker |-> "idle"]
    /\ cur = [w \in Worker |-> NoItem]
    /\ try = [w \in Worker |-> 0]
    /\ round = [w \in Worker |-> 0]
    /\ result = [w \in Worker |-> "running"]
    /\ talk = [w \in Worker |-> 0]
    /\ mood = [w \in Worker |-> "none"]
    /\ faults = 0

Step(w, from, to) == pc[w] = from /\ pc' = [pc EXCEPT ![w] = to]

\* The transaction of w is open and has flushed its execution row.
InTurn(w) == pc[w] \in {"finding", "touching", "looping", "committing"}
\* ... and has updated its conversation, whose row it holds.
HoldsConv(w, c) == pc[w] \in {"looping", "committing"} /\ talk[w] = c
\* A rollback forgets what the transaction wrote and read.
Forget(w) ==
    /\ round' = [round EXCEPT ![w] = 0]
    /\ result' = [result EXCEPT ![w] = "running"]
    /\ talk' = [talk EXCEPT ![w] = 0]
    /\ mood' = [mood EXCEPT ![w] = "none"]
KeepTurn == UNCHANGED <<round, result, talk, mood>>
LayDown(w) ==
    /\ cur' = [cur EXCEPT ![w] = NoItem]
    /\ try' = [try EXCEPT ![w] = 0]

-----------------------------------------------------------------------------
(* The work queue, as the bridge sees it.                                  *)

\* The item the inbound handler expects, of a message that nobody recorded.
Arrive(m) ==
    /\ status[<<m, 0>>] = "absent"
    /\ status' = [status EXCEPT ![<<m, 0>>] = "pending"]
    /\ UNCHANGED <<attempts, owner, tables, local, faults>>

\* The item of a message the webhook accepts: its row is written with it, with the
\* outcome "pending" and no execution, unless one is there or about to be committed
\* under the same unique key (Inbound has the transaction).
Accept(m) ==
    /\ status[<<m, 0>>] = "absent" /\ processed[m] = "absent"
    /\ \A w \in Worker : ~ (cur[w] = <<m, 0>> /\ InTurn(w))
    /\ status' = [status EXCEPT ![<<m, 0>>] = "pending"]
    /\ processed' = [processed EXCEPT ![m] = "pending"]
    /\ UNCHANGED <<attempts, owner, execution, made, replies, conv, local, faults>>

\* Nobody renews the lease, or it lapses under a slow runner.
Lapsed(i) == Zombies \/ \A w \in Worker : cur[w] # i
\* Mutant: a lapsed lease is not looked for.
DueOnce(i) == status[i] = "pending"

Due(i) == status[i] = "pending" \/ (status[i] = "held" /\ Lapsed(i))

Claim(w, i) ==
    /\ Step(w, "idle", IF Inbound(i) THEN "admitting" ELSE "reentering")
    /\ Due(i) /\ attempts[i] < MaxAttempts
    /\ status' = [status EXCEPT ![i] = "held"]
    /\ attempts' = [attempts EXCEPT ![i] = @ + 1]
    /\ owner' = [owner EXCEPT ![i] = w]
    /\ cur' = [cur EXCEPT ![w] = i]
    /\ try' = [try EXCEPT ![w] = attempts'[i]]
    /\ KeepTurn
    /\ UNCHANGED <<tables, faults>>

\* A claim that finds no attempt left.
Bury(w, i) ==
    /\ pc[w] = "idle"
    /\ Due(i) /\ attempts[i] = MaxAttempts
    /\ status' = [status EXCEPT ![i] = "dead"]
    /\ owner' = [owner EXCEPT ![i] = "none"]
    /\ UNCHANGED <<attempts, tables, local, faults>>

\* The handler returned: mark_succeeded, fenced by the owner.
Report(w) ==
    /\ Step(w, "reporting", "idle")
    /\ IF status[cur[w]] = "held" /\ owner[cur[w]] = w
       THEN /\ status' = [status EXCEPT ![cur[w]] = "succeeded"]
            /\ owner' = [owner EXCEPT ![cur[w]] = "none"]
       ELSE UNCHANGED <<status, owner>>
    /\ LayDown(w) /\ Forget(w)
    /\ UNCHANGED <<attempts, tables, faults>>

\* The handler raised: mark_failed, whose backoff is rolled back (see
\* WorkQueue.FailureNotRecorded) and whose verdict on the last attempt is not.
ReportFailure(w) ==
    /\ Step(w, "failing", "idle")
    /\ IF status[cur[w]] = "held" /\ owner[cur[w]] = w /\ attempts[cur[w]] = MaxAttempts
       THEN /\ status' = [status EXCEPT ![cur[w]] = "dead"]
            /\ owner' = [owner EXCEPT ![cur[w]] = "none"]
       ELSE UNCHANGED <<status, owner>>
    /\ LayDown(w) /\ Forget(w)
    /\ UNCHANGED <<attempts, tables, faults>>

-----------------------------------------------------------------------------
(* process: admission and idempotency.                                     *)

\* Mutant: a refusal is reported like a duplicate.
RefuseQuietly(w) ==
    /\ Step(w, "admitting", "reporting")
    /\ KeepTurn
    /\ UNCHANGED <<items, tables, cur, try, faults>>

\* The rate limiter, in the memory of each process and asked before anything else,
\* may refuse any call: a refusal is a failed attempt of the item.
Refuse(w) ==
    /\ Step(w, "admitting", "failing")
    /\ KeepTurn
    /\ UNCHANGED <<items, tables, cur, try, faults>>

\* The idempotency check: a row means DUPLICATE, also the one Accept left, and
\* process_inbound and its handler return as for a turn that is done.
Admit(w) ==
    /\ Step(w, "admitting",
            IF processed[cur[w][1]] = "absent" THEN "inserting" ELSE "reporting")
    /\ KeepTurn
    /\ UNCHANGED <<items, tables, cur, try, faults>>

\* Mutant: the row is found by the read alone.
InsertUnkeyed(w) ==
    /\ Step(w, "inserting", "finding")
    /\ KeepTurn
    /\ UNCHANGED <<items, tables, cur, try, faults>>

\* The execution and its idempotency row.  The unique key makes the insert wait
\* for a transaction that holds it, and raise if that one committed: outside the
\* try of process, so the attempt fails.
Insert(w) ==
    /\ \A v \in Worker \ {w} : ~ (cur[v] = cur[w] /\ InTurn(v))
    /\ Step(w, "inserting",
            IF processed[cur[w][1]] = "absent" THEN "finding" ELSE "failing")
    /\ KeepTurn
    /\ UNCHANGED <<items, tables, cur, try, faults>>

\* run_reentry: an execution of its own, and neither limit nor key.
Reenter(w) ==
    /\ Step(w, "reentering", "finding")
    /\ KeepTurn
    /\ UNCHANGED <<items, tables, cur, try, faults>>

-----------------------------------------------------------------------------
(* The conversation.                                                       *)

Open == {c \in Conv : conv[c] \in {"active", "idle"}}
Unused == {c \in Conv : conv[c] = "absent" /\ \A w \in Worker : talk[w] # c}
Created == {c \in Unused : \A d \in Unused : c <= d}

\* Mutant: only an active conversation is resumed.
FindActiveConversation(w) ==
    /\ Step(w, "finding", "touching")
    /\ LET active == {c \in Conv : conv[c] = "active"}
       IN \E c \in IF active # {} THEN active ELSE Created :
            /\ talk' = [talk EXCEPT ![w] = c]
            /\ mood' = [mood EXCEPT ![w] = conv[c]]
    /\ UNCHANGED <<items, tables, cur, try, round, result, faults>>

\* get_active_for_principal, and create when it finds none.  Which of several
\* open ones was active last is left open.
FindConversation(w) ==
    /\ Step(w, "finding", "touching")
    /\ \E c \in IF Open # {} THEN Open ELSE Created :
         /\ talk' = [talk EXCEPT ![w] = c]
         /\ mood' = [mood EXCEPT ![w] = conv[c]]
    /\ UNCHANGED <<items, tables, cur, try, round, result, faults>>

\* touch, the user's message and the signal: the row stays locked from here to
\* the end of the transaction, so turns in one conversation follow one another.
Touch(w) ==
    /\ \A v \in Worker \ {w} : ~ HoldsConv(v, talk[w])
    /\ Step(w, "touching", "looping")
    /\ KeepTurn
    /\ UNCHANGED <<items, tables, cur, try, faults>>

\* What touch makes of the status: it writes a change of what it read, no more.
Touched(w) ==
    CASE mood[w] = "absent" -> "active"
      [] mood[w] = "idle"   -> "active"
      [] OTHER              -> conv[talk[w]]

Mark(c, s) == conv' = [conv EXCEPT ![c] = s]

\* archive_stale: idle after a while, archived after a week, both in one pass if
\* the last pass is that old.  It waits for a row in use and then finds it fresh.
\* Guarded so that every runner can still create a conversation.
ArchiveStale(c) ==
    /\ Cardinality(Unused) >= Cardinality(Worker)
    /\ \A w \in Worker : ~ HoldsConv(w, c)
    /\ \/ conv[c] = "active" /\ Mark(c, "idle")
       \/ conv[c] \in {"active", "idle"} /\ Mark(c, "archived")
    /\ UNCHANGED <<items, processed, execution, made, replies, local, faults>>

-----------------------------------------------------------------------------
(* _run_intelligence_loop.                                                 *)

\* Room for one more follow-up beside those that open turns may schedule.
Room(w) ==
    LET m == cur[w][1]
        others == {v \in Worker \ {w} : InTurn(v) /\ cur[v][1] = m}
    IN made[m] + Cardinality(others) < MaxMore

\* The model asks for the terminal.  The command takes effect at once; the steps
\* and the checkpoint are written to the open transaction.
TerminalRound(w) ==
    /\ Step(w, "looping", "looping")
    /\ round[w] < MaxRounds
    /\ round[w] + 1 = MaxRounds => Room(w)
    /\ round' = [round EXCEPT ![w] = @ + 1]
    /\ UNCHANGED <<items, tables, cur, try, result, talk, mood, faults>>

End(w, how) ==
    /\ Step(w, "looping", "committing")
    /\ result' = [result EXCEPT ![w] = how]
    /\ UNCHANGED <<items, tables, cur, try, round, talk, mood, faults>>

Answer(w) == round[w] < MaxRounds /\ End(w, "answered")

\* The rounds are spent: the user is told that work goes on.
Exhaust(w) == round[w] = MaxRounds /\ End(w, "paused")

\* No provider answers.
ModelFails(w) == round[w] < MaxRounds /\ End(w, "failed")

-----------------------------------------------------------------------------
(* The commit and what comes after it.                                     *)

\* Mutant: a failed re-entry schedules a retry as well.
AlwaysFollowsUp(w) == result[w] \in {"paused", "failed"}

\* A live turn that fails schedules its retry, any turn that pauses schedules
\* its continuation; a re-entry that fails leaves it to the attempts of its item.
FollowsUp(w) == result[w] = "paused" \/ (result[w] = "failed" /\ Inbound(cur[w]))

\* What is left to do: report a failure, hand an answer over, or report success.
AfterTurn(w) ==
    IF result[w] = "failed" THEN "failing"
    ELSE IF Inbound(cur[w]) THEN "replying" ELSE "reporting"

Commit(w) ==
    LET i == cur[w]
        m == i[1]
        next == <<m, made[m] + 1>>
    IN  /\ Step(w, "committing", AfterTurn(w))
        /\ execution' = [execution EXCEPT ![i][try[w]] = result[w]]
        /\ processed' = IF Inbound(i)
                        THEN [processed EXCEPT ![m] = IF result[w] = "failed"
                                                      THEN "internal_error"
                                                      ELSE "success"]
                        ELSE processed
        /\ conv' = [conv EXCEPT ![talk[w]] = Touched(w)]
        /\ IF FollowsUp(w)
           THEN made' = [made EXCEPT ![m] = @ + 1] /\ status' = [status EXCEPT ![next] = "pending"]
           ELSE UNCHANGED <<made, status>>
        /\ Forget(w)
        /\ UNCHANGED <<attempts, owner, replies, cur, try, faults>>

\* process_inbound hands the reply over, in a transaction of its own (Deliveries).
Reply(w) ==
    /\ Step(w, "replying", "reporting")
    /\ replies' = [replies EXCEPT ![cur[w][1]] = @ + 1]
    /\ KeepTurn
    /\ UNCHANGED <<items, processed, execution, made, conv, cur, try, faults>>

\* A statement or a commit fails: rollback, and the handler raises; a failure to
\* record the failure leaves the item to its lease.
DbFault(w) ==
    /\ faults < MaxFaults /\ faults' = faults + 1
    /\ pc[w] # "idle"
    /\ pc' = [pc EXCEPT ![w] = IF @ = "failing" THEN "idle" ELSE "failing"]
    /\ IF pc[w] = "failing" THEN LayDown(w) ELSE UNCHANGED <<cur, try>>
    /\ Forget(w)
    /\ UNCHANGED <<items, tables>>

\* The process dies and another takes its place.
Crash(w) ==
    /\ faults < MaxFaults /\ faults' = faults + 1
    /\ pc[w] # "idle"
    /\ pc' = [pc EXCEPT ![w] = "idle"]
    /\ LayDown(w) /\ Forget(w)
    /\ UNCHANGED <<items, tables>>

-----------------------------------------------------------------------------
Handler(w) ==
    \/ Refuse(w) \/ Admit(w) \/ Insert(w) \/ Reenter(w)
    \/ FindConversation(w) \/ Touch(w)
    \/ TerminalRound(w) \/ Answer(w) \/ Exhaust(w) \/ ModelFails(w)
    \/ Commit(w) \/ Reply(w) \/ Report(w) \/ ReportFailure(w)

Poll(w, i) == Claim(w, i) \/ Bury(w, i)

Next ==
    \/ \E m \in Message : Arrive(m) \/ Accept(m)
    \/ \E w \in Worker : Handler(w) \/ DbFault(w) \/ Crash(w)
    \/ \E w \in Worker, i \in Item : Poll(w, i)
    \/ \E c \in Conv : ArchiveStale(c)

Spec == Init /\ [][Next]_vars

\* Models and terminals answer or raise within their timeouts, row locks are
\* released by transactions that end, runners keep polling.  No message has to
\* arrive, nothing has to fail, and the rate limiter need not admit anything.
Fairness ==
    /\ \A w \in Worker : WF_vars(Handler(w))
    /\ \A i \in Item : WF_vars(\E w \in Worker : Poll(w, i))

FairSpec == Spec /\ Fairness

-----------------------------------------------------------------------------
(* Properties.                                                             *)

\* A turn of process wrote its outcome.
Settled(m) == processed[m] \in {"success", "internal_error"}

Committed(i) == {a \in Attempt : execution[i][a] # "absent"}
Paused(i) == {a \in Attempt : execution[i][a] = "paused"}

Place == {"idle", "admitting", "inserting", "reentering", "finding", "touching", "looping",
          "committing", "replying", "reporting", "failing"}

Types ==
    /\ status \in [Item -> {"absent", "pending", "held", "succeeded", "dead"}]
    /\ attempts \in [Item -> 0..MaxAttempts]
    /\ owner \in [Item -> Worker \cup {"none"}]
    /\ processed \in [Message -> {"absent", "pending", "success", "internal_error"}]
    /\ execution \in [Item -> [Attempt -> {"absent"} \cup Ending]]
    /\ pc \in [Worker -> Place]
    /\ cur \in [Worker -> Item \cup {NoItem}]
    /\ try \in [Worker -> 0..MaxAttempts]
    /\ result \in [Worker -> Ending \cup {"running"}]

\* Types and bounds of the variables; a runner has an item in hand exactly while
\* it works.
TypeOK ==
    /\ Types
    /\ made \in [Message -> 0..MaxMore]
    /\ replies \in [Message -> Nat]
    /\ conv \in [Conv -> {"absent", "active", "idle", "archived"}]
    /\ talk \in [Worker -> {0} \cup Conv]
    /\ mood \in [Worker -> {"none", "absent", "active", "idle"}]
    /\ round \in [Worker -> 0..MaxRounds]
    /\ faults \in 0..MaxFaults
    /\ \A w \in Worker : pc[w] = "idle" <=> cur[w] = NoItem

\* A message has one committed execution of its item if a turn settled it and
\* none if none did, however many attempts were made at once: process's read of
\* processed_messages, the unique key and the one transaction together.  A row
\* that the webhook wrote is never settled.
OneTurnPerMessage ==
    \A m \in Message :
        Cardinality(Committed(<<m, 0>>)) = IF Settled(m) THEN 1 ELSE 0

\* No execution is ever committed as running: what recover_orphans and the
\* start-up code of app.py look for cannot have been left behind by a turn, so
\* a second replica that starts finds no turn of the first to resume.
CommittedTurnsAreOver ==
    \A i \in Item : \A a \in Attempt : execution[i][a] \in {"absent"} \cup Ending

\* What a succeeded item says.  Either a turn settled its message, or the message
\* had its row before, and then nothing was ever done about it: no execution, no
\* reply, no follow-up (what became of every message of the webhook that process
\* were given).  Of a re-entry, a turn succeeded.  Refusals and failures are not
\* reported, so a message that was refused is tried again.
DoneIsDone ==
    \A i \in Item : status[i] = "succeeded" =>
        IF Inbound(i)
        THEN \/ Settled(i[1]) /\ Committed(i) # {}
             \/ processed[i[1]] = "pending" /\ Committed(i) = {}
                /\ replies[i[1]] = 0 /\ made[i[1]] = 0
        ELSE \E a \in Attempt : execution[i][a] \in {"answered", "paused"}

\* get-or-create without a lock leaves a principal with at most one open
\* conversation per runner, whatever the archiver does in between.
FewConversations == Cardinality(Open) <= Cardinality(Worker)

\* Every item of work is recorded as succeeded or dead in the end, for the
\* attempts of process, process_inbound and run_reentry all end.
EveryItemEnds ==
    \A i \in Item : status[i] = "pending" ~> status[i] \in {"succeeded", "dead"}

\* The bridge implements Turns: each message settled at most once, replied to at most
\* once and only as answered, and each pledge of process, of the exhausted loop
\* and of run_reentry backed by one follow-up item of the same commit.
Promised ==
    INSTANCE Turns WITH
        outcome <- [m \in Message |-> IF Settled(m) THEN processed[m] ELSE "open"],
        replied <- replies,
        pledged <- [m \in Message |->
                      Cardinality(UNION {{<<i, a>> : a \in Paused(i)} : i \in {m} \X (0..MaxMore)})
                      + IF processed[m] = "internal_error" THEN 1 ELSE 0],
        scheduled <- made

KeepsTurns == Promised!Spec

=============================================================================
