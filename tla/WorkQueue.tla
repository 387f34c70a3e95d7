------------------------------ MODULE WorkQueue ------------------------------
(***************************************************************************)
(* The durable work queue of the runtime: the table work_items, the ledger *)
(* runtime_signals, and the WorkRunner processes that claim, run and       *)
(* finish items (src/wax/runtime/work/{repository,runner,signals}.py).     *)
(*                                                                         *)
(* Grain.  The store is PostgreSQL at READ COMMITTED.  claim_due locks the *)
(* rows it takes (FOR UPDATE SKIP LOCKED), so its second half is one step; *)
(* every other operation is a plain SELECT followed later by an UPDATE by  *)
(* primary key of the columns the code assigned, so it is a read step and  *)
(* a write step, and the write does not look at the row again.             *)
(*                                                                         *)
(* Time.  Durations are abstracted to the events that matter: a lease is   *)
(* live until it lapses, a floor (available_at) passes, a deadline         *)
(* (expires_at) passes.  A live lease may lapse at any moment, whoever     *)
(* holds it: the tail of a claimed batch has no heartbeat, and a heartbeat *)
(* may be late.  An emission's timestamp is compared with a waiter's       *)
(* watermark: a ledger row carries the set of waiters whose watermark      *)
(* precedes it.                                                            *)
(*                                                                         *)
(* A member of Worker is one incarnation of a runner: a restarted process  *)
(* is another member.  MaxAlive is the number of replicas deployed.        *)
(***************************************************************************)
EXTENDS Naturals, FiniteSets

CONSTANTS
    Item,          \* the work items that may be scheduled
    Worker,        \* the runner incarnations
    None,          \* no item / no owner (a NULL column)
    Id,            \* [Worker -> owner name]: "worker-" + 8 characters of a ULID
    WakeEvent,     \* [Item -> ledger name waited on, or None for a time wake]
    Deadlined,     \* the items scheduled with expires_at
    Unhandled,     \* the items whose kind has no registered handler
    Cancellable,   \* the items somebody may cancel
    External,      \* ledger names emitted from outside the runner
    MaxAttempts,   \* max_attempts of every item
    BatchSize,     \* batch_size of claim_due
    MaxAlive,      \* replicas running at once
    MaxFaults      \* bound on failing store transactions

ASSUME WorkerAssumption ==
    /\ None \notin Item
    /\ IsFiniteSet(Worker)
    /\ DOMAIN Id = Worker
    /\ \A w \in Worker : Id[w] # None
ASSUME BoundAssumption ==
    /\ MaxAttempts \in Nat \ {0}
    /\ BatchSize \in Nat \ {0}
    /\ MaxFaults \in Nat
ASSUME ItemAssumption ==
    /\ Deadlined \subseteq Item
    /\ Unhandled \subseteq Item
    /\ Cancellable \subseteq Item

VARIABLES
    status, owner, attempts, lease,  \* the columns of work_items, by item
    ready,       \* items whose available_at has passed
    overdue,     \* items whose expires_at has passed
    ledger,      \* runtime_signals
    pc,          \* where each runner is
    swept,       \* per runner: rows its deadline sweep has read
    todo,        \* per runner: claimed items not yet processed
    cur,         \* per runner: the item being processed
    beat,        \* per runner: the heartbeat task of that item
    cancelling,  \* items a cancel transaction has read but not written
    faults,      \* store transactions that failed so far
    claimer,     \* history: the incarnation that claimed each item last
    runs,        \* history: how often each item's handler was started
    torn         \* history: items written under another open transaction

table == <<status, owner, attempts, lease>>
rowVars == <<table, ready, overdue>>
workerVars == <<pc, swept, todo, cur, beat>>
vars == <<status, owner, attempts, lease, ready, overdue, ledger,
          pc, swept, todo, cur, beat, cancelling, faults, claimer, runs, torn>>
history == <<claimer, runs, torn>>

Held == {"leased", "running"}
Terminal == {"succeeded", "dead", "cancelled"}
Status == {"absent", "pending"} \cup Held \cup Terminal
Owner == {Id[w] : w \in Worker}

\* Announcements of the runner on the ledger: work.<what>:<item>.
Says(what, i) == <<what, i>>
Name == ({"succeeded", "dead", "expired"} \X Item) \cup External
Signal == [name: Name, wakes: SUBSET Item]

Pc == {"unborn", "polling", "claiming", "dispatch", "starting", "handling",
       "succeeding", "failed", "burying", "exited"}
Alive(w) == pc[w] \notin {"unborn", "exited"}

TypeOK ==
    /\ status \in [Item -> Status]
    /\ owner \in [Item -> Owner \cup {None}]
    /\ attempts \in [Item -> Nat]
    /\ lease \in [Item -> {"none", "live", "lapsed"}]
    /\ ready \subseteq Item
    /\ overdue \subseteq Item
    /\ ledger \subseteq Signal
    /\ pc \in [Worker -> Pc]
    /\ swept \in [Worker -> SUBSET Item]
    /\ todo \in [Worker -> SUBSET Item]
    /\ cur \in [Worker -> Item \cup {None}]
    /\ beat \in [Worker -> {"off", "on", "renewing"}]
    /\ cancelling \subseteq Item \X BOOLEAN
    /\ faults \in 0..MaxFaults
    /\ claimer \in [Item -> Worker \cup {None}]
    /\ runs \in [Item -> Nat]
    /\ torn \subseteq Item

Init ==
    /\ status = [i \in Item |-> "absent"]
    /\ owner = [i \in Item |-> None]
    /\ attempts = [i \in Item |-> 0]
    /\ lease = [i \in Item |-> "none"]
    /\ ready = {} /\ overdue = {} /\ ledger = {}
    /\ pc = [w \in Worker |-> "unborn"]
    /\ swept = [w \in Worker |-> {}]
    /\ todo = [w \in Worker |-> {}]
    /\ cur = [w \in Worker |-> None]
    /\ beat = [w \in Worker |-> "off"]
    /\ cancelling = {}
    /\ faults = 0
    /\ claimer = [i \in Item |-> None]
    /\ runs = [i \in Item |-> 0]
    /\ torn = {}

-----------------------------------------------------------------------------
(* Write conflicts.  Some transaction has read the row of i and is going   *)
(* to write it; a step that writes the row meanwhile tears the item.       *)

Open(i) ==
    \/ \E w \in Worker :
          i \in swept[w] \/ (cur[w] = i /\ pc[w] \in {"starting", "succeeding", "burying"})
    \/ \E held \in BOOLEAN : <<i, held>> \in cancelling

Row(i) == <<status[i], owner[i], attempts[i]>>

NoteTears == torn' = torn \cup {i \in Item : Row(i)' # Row(i) /\ Open(i)'}

-----------------------------------------------------------------------------
(* The world around the runners: callers, clock, other emitters.           *)

Scheduled(i) == status[i] # "absent"

\* A row of the ledger as emit appends it now: it can wake the waiters on its
\* name that captured their watermark before this instant.
Emitted(n) == [name |-> n, wakes |-> {j \in Item : Scheduled(j) /\ WakeEvent[j] = n}]

Schedule(i) ==
    /\ ~Scheduled(i)
    /\ status' = [status EXCEPT ![i] = "pending"]
    /\ UNCHANGED <<owner, attempts, lease, ready, overdue, ledger, workerVars, cancelling, faults, history>>

FloorPasses(i) ==
    /\ Scheduled(i) /\ i \notin ready
    /\ ready' = ready \cup {i}
    /\ UNCHANGED <<table, overdue, ledger, workerVars, cancelling, faults, history>>

DeadlinePasses(i) ==
    /\ i \in Deadlined /\ Scheduled(i) /\ i \notin overdue
    /\ overdue' = overdue \cup {i}
    /\ UNCHANGED <<table, ready, ledger, workerVars, cancelling, faults, history>>

EmitExternal(n) ==
    /\ n \in External
    /\ ledger' = ledger \cup {Emitted(n)}
    /\ UNCHANGED <<rowVars, workerVars, cancelling, faults, history>>

\* WorkRepository.cancel's two halves.  Only the columns whose value changes
\* reach the UPDATE: a lease is cleared only if the row read was held.
CancelRead(i) ==
    /\ i \in Cancellable
    /\ Scheduled(i) /\ status[i] \notin Terminal
    /\ cancelling' = cancelling \cup {<<i, status[i] \in Held>>}
    /\ UNCHANGED <<rowVars, ledger, workerVars, faults, history>>

CancelWrite(i, held) ==
    /\ <<i, held>> \in cancelling
    /\ cancelling' = cancelling \ {<<i, held>>}
    /\ status' = [status EXCEPT ![i] = "cancelled"]
    /\ owner' = [owner EXCEPT ![i] = IF held THEN None ELSE @]
    /\ lease' = [lease EXCEPT ![i] = IF held THEN "none" ELSE @]
    /\ UNCHANGED <<attempts, ready, overdue, ledger, workerVars, faults, claimer, runs>>
    /\ NoteTears

\* Mutant: the watermark compared the wrong way round.
WatermarkReversed(s) ==
    \E i \in Item \ s.wakes : status[i] = "pending" /\ WakeEvent[i] = s.name

\* A ledger row a pending waiter can still be woken by is never pruned.  Age
\* and table size are not modelled: any other row may be old enough.
NeededByAWaiter(s) ==
    \E i \in s.wakes : status[i] = "pending" /\ WakeEvent[i] = s.name

Prune(s) ==
    /\ s \in ledger /\ ~NeededByAWaiter(s)
    /\ ledger' = ledger \ {s}
    /\ UNCHANGED <<rowVars, workerVars, cancelling, faults, history>>

\* A lease runs out, in a runner's hands or not: renewals are not in time, or
\* there are none (an item queued behind another one of its batch).
LeaseLapses(i) ==
    /\ lease[i] = "live"
    /\ lease' = [lease EXCEPT ![i] = "lapsed"]
    /\ UNCHANGED <<status, owner, attempts, ready, overdue, ledger, workerVars, cancelling, faults, history>>

-----------------------------------------------------------------------------
(* One runner: run_once = claim_due, then _process_item on each claim.     *)

Goto(w, label) == pc' = [pc EXCEPT ![w] = label]

Start(w) ==
    /\ pc[w] = "unborn"
    /\ Cardinality({v \in Worker : Alive(v)}) < MaxAlive
    /\ Goto(w, "polling")
    /\ UNCHANGED <<rowVars, ledger, swept, todo, cur, beat, cancelling, faults, history>>

\* The process ends where it stands (crash, or a shutdown past its grace):
\* open transactions roll back, claims stay in the table until they lapse.
Exit(w) ==
    /\ Alive(w)
    /\ \E v \in Worker \ {w} : pc[v] # "exited"
    /\ Goto(w, "exited")
    /\ swept' = [swept EXCEPT ![w] = {}]
    /\ todo' = [todo EXCEPT ![w] = {}]
    /\ cur' = [cur EXCEPT ![w] = None]
    /\ beat' = [beat EXCEPT ![w] = "off"]
    /\ UNCHANGED <<rowVars, ledger, cancelling, faults, history>>

\* Mutant: the deadline sweep without its status = "pending" condition.
SweepAnyStatus(w) ==
    /\ pc[w] = "polling"
    /\ swept' = [swept EXCEPT ![w] = {i \in overdue : status[i] \notin Terminal}]
    /\ Goto(w, "claiming")
    /\ UNCHANGED <<rowVars, ledger, todo, cur, beat, cancelling, faults, history>>

\* claim_due, step 1: SELECT the pending rows past their deadline.
SweepRead(w) ==
    /\ pc[w] = "polling"
    /\ swept' = [swept EXCEPT ![w] =
                    {i \in overdue : status[i] = "pending"}]
    /\ Goto(w, "claiming")
    /\ UNCHANGED <<rowVars, ledger, todo, cur, beat, cancelling, faults, history>>

WakeConditionMet(i) ==
    /\ i \in ready
    /\ \/ WakeEvent[i] = None
       \/ \E s \in ledger : s.name = WakeEvent[i] /\ i \in s.wakes

\* Mutants: the reclaim without its lease condition; no reclaim at all.
ClaimableUnderLease(w) ==
    {i \in Item \ swept[w] :
        \/ status[i] = "pending" /\ WakeConditionMet(i)
        \/ status[i] \in Held}
OnlyPendingClaimable(w) ==
    {i \in Item \ swept[w] : status[i] = "pending" /\ WakeConditionMet(i)}

Claimable(w) ==
    {i \in Item \ swept[w] :
        \/ status[i] = "pending" /\ WakeConditionMet(i)
        \/ status[i] \in Held /\ lease[i] = "lapsed"}

\* Mutant: one attempt too many.
ExhaustedTooLate(i) == status[i] \in Held /\ attempts[i] > MaxAttempts
Exhausted(i) == status[i] \in Held /\ attempts[i] >= MaxAttempts

\* The effect of a claim pass that took batch: swept rows and rows out of
\* attempts die and are announced, the others are leased to w for one attempt.
Take(w, batch) ==
    LET spent == {i \in batch : Exhausted(i)}
        taken == batch \ spent IN
    /\ status' = [i \in Item |-> IF i \in swept[w] \cup spent THEN "dead"
                                ELSE IF i \in taken THEN "leased" ELSE status[i]]
    /\ owner' = [i \in Item |-> IF i \in spent THEN None
                               ELSE IF i \in taken THEN Id[w] ELSE owner[i]]
    /\ attempts' = [i \in Item |-> IF i \in taken THEN attempts[i] + 1 ELSE attempts[i]]
    /\ lease' = [i \in Item |-> IF i \in spent THEN "none"
                               ELSE IF i \in taken THEN "live" ELSE lease[i]]
    /\ ledger' = ledger \cup {Emitted(Says("expired", i)) : i \in swept[w]}
                        \cup {Emitted(Says("dead", i)) : i \in spent}
    /\ todo' = [todo EXCEPT ![w] = taken]
    /\ claimer' = [i \in Item |-> IF i \in taken THEN w ELSE claimer[i]]
    /\ Goto(w, IF taken = {} THEN "polling" ELSE "dispatch")

\* claim_due, step 2, and run_once's announcements, committed together.
Claim(w) ==
    /\ pc[w] = "claiming"
    /\ \E batch \in SUBSET Claimable(w) :
        /\ Cardinality(batch) <= BatchSize
        /\ batch = Claimable(w) \/ Cardinality(batch) = BatchSize
        /\ Take(w, batch)
    /\ swept' = [swept EXCEPT ![w] = {}]
    /\ UNCHANGED <<ready, overdue, cur, beat, cancelling, faults, runs>>
    /\ NoteTears

\* _run_loop survives a failed claim: nothing was written.
ClaimFails(w) ==
    /\ pc[w] = "claiming" /\ faults < MaxFaults
    /\ faults' = faults + 1
    /\ swept' = [swept EXCEPT ![w] = {}]
    /\ Goto(w, "polling")
    /\ UNCHANGED <<rowVars, ledger, todo, cur, beat, cancelling, history>>

\* Where a runner goes once its item is dealt with and rest is left to do.
Onwards(w, rest) == Goto(w, IF rest = {} THEN "polling" ELSE "dispatch")

\* Mutant: fencing that only asks whether anybody owns the row.
SomebodyOwns(w, i) == owner[i] # None
Owns(w, i) == owner[i] = Id[w]

\* The read half of mark_running: leased by this runner, so it may start ...
MarkRunningRead(w, i) ==
    /\ pc[w] = "dispatch" /\ i \in todo[w] \ Unhandled
    /\ status[i] = "leased" /\ Owns(w, i)
    /\ todo' = [todo EXCEPT ![w] = @ \ {i}]
    /\ cur' = [cur EXCEPT ![w] = i]
    /\ Goto(w, "starting")
    /\ UNCHANGED <<rowVars, ledger, swept, beat, cancelling, faults, history>>

\* ... or "stale" / "fenced": another attempt owns the item, leave it.
SkipItem(w, i) ==
    /\ pc[w] = "dispatch" /\ i \in todo[w] \ Unhandled
    /\ status[i] # "leased" \/ ~Owns(w, i)
    /\ todo' = [todo EXCEPT ![w] = @ \ {i}]
    /\ Onwards(w, todo[w] \ {i})
    /\ UNCHANGED <<rowVars, ledger, swept, cur, beat, cancelling, faults, history>>

\* No handler for the kind: WorkExecutionError before anything is written.
NoHandler(w, i) ==
    /\ pc[w] = "dispatch" /\ i \in todo[w] \cap Unhandled
    /\ todo' = [todo EXCEPT ![w] = @ \ {i}]
    /\ cur' = [cur EXCEPT ![w] = i]
    /\ Goto(w, "failed")
    /\ UNCHANGED <<rowVars, ledger, swept, beat, cancelling, faults, history>>

\* The write half of mark_running; then the heartbeat and the handler start.
MarkRunningWrite(w) ==
    /\ pc[w] = "starting"
    /\ status' = [status EXCEPT ![cur[w]] = "running"]
    /\ beat' = [beat EXCEPT ![w] = "on"]
    /\ runs' = [runs EXCEPT ![cur[w]] = @ + 1]
    /\ Goto(w, "handling")
    /\ UNCHANGED <<owner, attempts, lease, ready, overdue, ledger, swept, todo, cur, cancelling, faults, claimer>>
    /\ NoteTears

\* _process_item is over for this item: its finally cancels the heartbeat.
LeaveItem(w) ==
    /\ cur' = [cur EXCEPT ![w] = None]
    /\ beat' = [beat EXCEPT ![w] = "off"]
    /\ Onwards(w, todo[w])
    /\ UNCHANGED <<swept, todo>>

\* renew_lease, read half: the heartbeat ends once ownership is lost.  The
\* handler is not told.
RenewRead(w) ==
    /\ beat[w] = "on"
    /\ beat' = [beat EXCEPT ![w] =
                   IF Owns(w, cur[w]) /\ status[cur[w]] \in Held
                   THEN "renewing" ELSE "off"]
    /\ UNCHANGED <<rowVars, ledger, pc, swept, todo, cur, cancelling, faults, history>>

RenewWrite(w) ==
    /\ beat[w] = "renewing"
    /\ lease' = [lease EXCEPT ![cur[w]] = "live"]
    /\ beat' = [beat EXCEPT ![w] = "on"]
    /\ UNCHANGED <<status, owner, attempts, ready, overdue, ledger, pc, swept, todo, cur, cancelling, faults, history>>

\* Mutant: success is announced whatever mark_succeeded answered.
AnnouncesAnyway(w) ==
    /\ pc[w] = "handling"
    /\ IF status[cur[w]] \in Held /\ Owns(w, cur[w])
       THEN Goto(w, "succeeding") /\ UNCHANGED <<ledger, swept, todo, cur, beat>>
       ELSE LeaveItem(w) /\ ledger' = ledger \cup {Emitted(Says("succeeded", cur[w]))}
    /\ UNCHANGED <<rowVars, cancelling, faults, history>>

\* The handler returned; the read half of mark_succeeded.
HandlerReturns(w) ==
    /\ pc[w] = "handling"
    /\ IF status[cur[w]] \in Held /\ Owns(w, cur[w])
       THEN Goto(w, "succeeding") /\ UNCHANGED <<swept, todo, cur, beat>>
       ELSE LeaveItem(w)
    /\ UNCHANGED <<rowVars, ledger, cancelling, faults, history>>

\* A terminal write: the status, and the lease columns cleared.
End(i, outcome) ==
    /\ status' = [status EXCEPT ![i] = outcome]
    /\ owner' = [owner EXCEPT ![i] = None]
    /\ lease' = [lease EXCEPT ![i] = "none"]

\* The write half of mark_succeeded and its announcement, one commit.
MarkSucceededWrite(w) ==
    /\ pc[w] = "succeeding"
    /\ End(cur[w], "succeeded")
    /\ ledger' = ledger \cup {Emitted(Says("succeeded", cur[w]))}
    /\ LeaveItem(w)
    /\ UNCHANGED <<attempts, ready, overdue, cancelling, faults, claimer, runs>>
    /\ NoteTears

HandlerRaises(w) ==
    /\ pc[w] = "handling"
    /\ Goto(w, "failed")
    /\ UNCHANGED <<rowVars, ledger, swept, todo, cur, beat, cancelling, faults, history>>

\* mark_running or mark_succeeded could not be committed: the attempt failed.
MarkFails(w) ==
    /\ pc[w] \in {"starting", "succeeding"} /\ faults < MaxFaults
    /\ faults' = faults + 1
    /\ Goto(w, "failed")
    /\ UNCHANGED <<rowVars, ledger, swept, todo, cur, beat, cancelling, history>>

LastAttempt(w) ==
    /\ status[cur[w]] \in Held /\ Owns(w, cur[w])
    /\ attempts[cur[w]] >= MaxAttempts

\* _fail_item: the read half of mark_failed, attempts exhausted.
MarkFailedRead(w) ==
    /\ pc[w] = "failed" /\ LastAttempt(w)
    /\ Goto(w, "burying")
    /\ UNCHANGED <<rowVars, ledger, swept, todo, cur, beat, cancelling, faults, history>>

\* _fail_item otherwise.  "unknown" and "fenced" write nothing; "pending" is
\* flushed, but only the "dead" branch commits, so closing the session rolls
\* the retry back and the row keeps its lease.
FailureNotRecorded(w) ==
    /\ pc[w] = "failed" /\ ~LastAttempt(w)
    /\ LeaveItem(w)
    /\ UNCHANGED <<rowVars, ledger, cancelling, faults, history>>

\* The write half of mark_failed and the death's announcement, one commit.
MarkDeadWrite(w) ==
    /\ pc[w] = "burying"
    /\ End(cur[w], "dead")
    /\ ledger' = ledger \cup {Emitted(Says("dead", cur[w]))}
    /\ LeaveItem(w)
    /\ UNCHANGED <<attempts, ready, overdue, cancelling, faults, claimer, runs>>
    /\ NoteTears

\* work.finalize_failed: logged, nothing written.
FinalizeFails(w) ==
    /\ pc[w] = "burying" /\ faults < MaxFaults
    /\ faults' = faults + 1
    /\ LeaveItem(w)
    /\ UNCHANGED <<rowVars, ledger, cancelling, history>>

-----------------------------------------------------------------------------
Environment ==
    \/ \E i \in Item : Schedule(i) \/ FloorPasses(i) \/ DeadlinePasses(i)
                       \/ LeaseLapses(i) \/ CancelRead(i)
    \/ \E i \in Item, held \in BOOLEAN : CancelWrite(i, held)
    \/ \E n \in External : EmitExternal(n)
    \/ \E s \in ledger : Prune(s)

RunOnce(w) ==
    \/ SweepRead(w) \/ Claim(w) \/ ClaimFails(w)
    \/ \E i \in Item : MarkRunningRead(w, i) \/ SkipItem(w, i) \/ NoHandler(w, i)
    \/ MarkRunningWrite(w) \/ HandlerReturns(w) \/ HandlerRaises(w)
    \/ MarkSucceededWrite(w) \/ MarkFails(w)
    \/ MarkFailedRead(w) \/ FailureNotRecorded(w) \/ MarkDeadWrite(w) \/ FinalizeFails(w)

Heartbeat(w) == RenewRead(w) \/ RenewWrite(w)

Next ==
    \/ Environment
    \/ \E w \in Worker : Start(w) \/ Exit(w) \/ RunOnce(w) \/ Heartbeat(w)

Spec == Init /\ [][Next]_vars

\* What the runtime schedules by itself: the loop of a live process and its
\* heartbeat go on, handlers return or raise, a supervisor starts the next
\* process, and time passes.  Nobody has to cancel, emit, prune or exit.
Fairness ==
    /\ \A w \in Worker : WF_vars(RunOnce(w)) /\ WF_vars(Heartbeat(w)) /\ WF_vars(Start(w))
    /\ \A i \in Item : WF_vars(LeaseLapses(i)) /\ WF_vars(FloorPasses(i))

FairSpec == Spec /\ Fairness

-----------------------------------------------------------------------------
(* Safety                                                                  *)

\* Where a runner stands agrees with what it holds: it has an item in hand
\* exactly in the middle of _process_item, it claims with nothing left over,
\* and a heartbeat outlives neither the handler nor its clean-up.
Busy == {"starting", "handling", "succeeding", "failed", "burying"}
RunnerOK ==
    \A w \in Worker :
        /\ pc[w] \in Busy <=> cur[w] \in Item
        /\ pc[w] \notin Busy \cup {"dispatch"} => todo[w] = {}
        /\ cur[w] \notin todo[w]
        /\ beat[w] # "off" => pc[w] \in Busy \ {"starting"}

\* The type invariant of a run and of the proofs.
TypeInv == TypeOK /\ RunnerOK

\* attempts never exceeds max_attempts, whoever claims, reclaims, fails or
\* crashes in between; and a row nobody has claimed yet has spent none.
AttemptsWithinBudget ==
    \A i \in Item :
        /\ attempts[i] <= MaxAttempts
        /\ status[i] \in {"absent", "pending"} => attempts[i] = 0

\* The handler of an item is started at most max_attempts times over the life
\* of the item, across every runner, lapse, zombie and restart.
RunsWithinBudget == \A i \in Item : runs[i] <= MaxAttempts

\* The runners that may still start the handler of i on a claim already made.
Tickets(i) == {w \in Worker : i \in todo[w] \/ (cur[w] = i /\ pc[w] = "starting")}

\* Every start, made or still possible, was paid for by an attempt.
StartsArePaid == \A i \in Item : runs[i] + Cardinality(Tickets(i)) <= attempts[i]

\* What the ledger says of an item is the row's outcome, unless the row was
\* written under an open transaction: dependents that react to "this work
\* finished" or "this work died" react to a fact, whatever leases, deadlines
\* and cancellations do between the transactions.
LedgerIsTrue ==
    \A s \in ledger, i \in Item \ torn :
        /\ s.name = Says("succeeded", i) => status[i] = "succeeded"
        /\ s.name \in {Says("dead", i), Says("expired", i)} => status[i] = "dead"

\* Every death and every success reaches the ledger in the step that makes it.
EndsAreAnnounced ==
    [][\A i \in Item :
        /\ status[i] # "dead" /\ status'[i] = "dead" =>
               \E s \in ledger' : s.name \in {Says("dead", i), Says("expired", i)}
        /\ status[i] # "succeeded" /\ status'[i] = "succeeded" =>
               \E s \in ledger' : s.name = Says("succeeded", i)]_vars

\* The step in which w records the success of i.
Records(w, i) ==
    /\ pc[w] = "succeeding" /\ cur[w] = i /\ pc'[w] # "succeeding"
    /\ status[i] # "succeeded" /\ status'[i] = "succeeded"

\* The last claim of i was made under the name of w.
ClaimedAs(w, i) == claimer[i] \in Worker /\ Id[claimer[i]] = Id[w]

\* The fence as mark_succeeded documents it: a result is recorded only by a
\* runner of the name that claimed the item last; a late one is discarded.
LateResultsDiscarded ==
    [][\A i \in Item, w \in Worker : Records(w, i) => ClaimedAs(w, i)]_vars

\* The fence as it is: so it is unless the row was written between the read
\* that checks the owner and the write that does not; and then the row is
\* still held, in the recorder's name, however often its lease lapsed.
ResultIsFenced ==
    [][\A i \in Item \ torn, w \in Worker :
        Records(w, i) => ClaimedAs(w, i) /\ Owns(w, i) /\ status[i] \in Held]_vars

\* The tail of a batch: an item that was reclaimed while it was queued behind
\* another one, with nobody renewing its lease, is not started by the runner
\* it was taken from, nor is one that has begun, ended or been cancelled.
StartIsFenced ==
    [][\A w \in Worker :
        pc[w] = "starting" /\ pc'[w] = "handling" /\ cur[w] \notin torn =>
            ClaimedAs(w, cur[w]) /\ status[cur[w]] = "leased"]_vars

\* The check itself: a runner whose item was claimed since by a runner of
\* another name is turned away before it writes a result.
FenceStopsZombies ==
    [][\A w \in Worker :
        pc[w] = "handling" /\ pc'[w] = "succeeding" => ClaimedAs(w, cur[w])]_vars

\* Once a waiting item could be woken, it can be woken for as long as it
\* waits: pruning the ledger never takes the signal away.
WakeIsNotLost ==
    [][\A i \in Item :
        status[i] = "pending" /\ WakeConditionMet(i) /\ status'[i] = "pending"
        => WakeConditionMet(i)']_vars

\* A wait that was satisfied does not expire: once claimed, an item dies of
\* exhausted attempts, never of its deadline.
WokenNeverExpires ==
    [][\A i \in Item :
        status[i] \in Held /\ status'[i] = "dead" => attempts[i] >= MaxAttempts]_vars

(* The contract: seen through status and attempts, the queue is the item   *)
(* lifecycle of WorkLifecycle, until a row is written under a reader.      *)
LifecyclePhase(st) ==
    IF st \in Held THEN "active" ELSE IF st = "pending" THEN "waiting" ELSE st

Lifecycle == INSTANCE WorkLifecycle WITH
    phase <- [i \in Item |-> IF i \in torn THEN "torn" ELSE LifecyclePhase(status[i])],
    tries <- attempts

\* Every step of the queue is a step of the lifecycle: no item ends twice,
\* none leaves a terminal status, an active one dies only when its attempts
\* are spent and a waiting one only of its deadline.
KeepsLifecycle == Lifecycle!Spec

(* Liveness                                                                *)

\* An item that may run, or whose wait has expired, comes to an end.
EventuallyEnds ==
    \A i \in Item :
        (status[i] \in Held
            \/ (status[i] = "pending" /\ (WakeConditionMet(i) \/ i \in overdue)))
        ~> status[i] \in Terminal
=============================================================================
