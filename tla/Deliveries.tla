----------------------------- MODULE Deliveries -----------------------------
(***************************************************************************)
(* Replies as durable state: RuntimeBridge.process_inbound hands a reply   *)
(* over to the DeliveryQueue, which sends it through the WhatsApp client,  *)
(* and the maintenance loop retries what is due (runtime/bridge/service,   *)
(* runtime/delivery_queue, runtime/maintenance, interfaces/whatsapp).      *)
(*                                                                         *)
(* Grain.  A send is one message per chunk of the text; each may be        *)
(* received, and the client may raise afterwards all the same.  The worker *)
(* enqueues and attempts in one transaction, the maintenance pass attempts *)
(* its whole batch in one transaction: status and attempts are the         *)
(* committed rows, seen and tried are the rows as the open transaction     *)
(* left them.  One process runs both, so a crash rolls both back.          *)
(*                                                                         *)
(* Time.  A backoff that is over, and a deliverability horizon that has    *)
(* passed, are sets of replies.                                            *)
(***************************************************************************)
EXTENDS Naturals, FiniteSets

CONSTANTS
    Reply,        \* the replies the runtime comes to owe
    Chunks,       \* [Reply -> number of messages its text is split into]
    MaxAttempts,  \* delivery_max_attempts
    Batch,        \* limit of retry_due
    MaxFaults     \* bound on crashes and failed transactions

ASSUME ReplyAssumption == IsFiniteSet(Reply)
ASSUME BoundAssumption ==
    /\ Chunks \in [Reply -> Nat \ {0}]
    /\ MaxAttempts \in Nat \ {0}
    /\ Batch \in Nat \ {0}
    /\ MaxFaults \in Nat

VARIABLES
    answered,     \* replies whose execution is committed as completed
    status, attempts,  \* delivery_records, as committed
    seen, tried,  \* the same columns in the transaction open on the row
    due,          \* records whose next_attempt_at has passed
    aged,         \* records older than max_age_seconds
    stage,        \* per reply: where the attempt in progress is
    part,         \* per reply: chunks sent by the attempt in progress
    sweep,        \* the maintenance pass: "idle" or "running"
    todo,         \* the records the pass has read and not attempted
    received,     \* what reached the recipient: [Reply -> [chunk -> times]]
    faults        \* crashes and failed transactions so far

rows == <<status, attempts>>
vars == <<answered, status, attempts, seen, tried, due, aged, stage, part, sweep, todo,
          received, faults>>

Chunk(d) == 1..Chunks[d]
Final == {"delivered", "failed"}

TypeOK ==
    /\ answered \subseteq Reply
    /\ status \in [Reply -> {"absent", "pending"} \cup Final]
    /\ seen \in [Reply -> {"absent", "pending"} \cup Final]
    /\ attempts \in [Reply -> 0..MaxAttempts]
    /\ tried \in [Reply -> 0..MaxAttempts]
    /\ due \subseteq Reply /\ aged \subseteq Reply
    /\ stage \in [Reply -> {"none", "owed", "sending", "settled"}]
    /\ part \in [Reply -> Nat]
    /\ sweep \in {"idle", "running"}
    /\ todo \subseteq Reply
    /\ \A d \in Reply : received[d] \in [Chunk(d) -> Nat]
    /\ faults \in 0..MaxFaults

Init ==
    /\ answered = {}
    /\ status = [d \in Reply |-> "absent"] /\ seen = status
    /\ attempts = [d \in Reply |-> 0] /\ tried = attempts
    /\ due = {} /\ aged = {}
    /\ stage = [d \in Reply |-> "none"]
    /\ part = [d \in Reply |-> 0]
    /\ sweep = "idle" /\ todo = {}
    /\ received = [d \in Reply |-> [k \in Chunk(d) |-> 0]]
    /\ faults = 0

-----------------------------------------------------------------------------
(* One attempt, whoever makes it.                                          *)

Stage(d, s) == stage' = [stage EXCEPT ![d] = s]

\* The next chunk goes out; got says whether the recipient gets it.
Hand(d, got) ==
    received' = [received EXCEPT ![d][part[d] + 1] = IF got THEN @ + 1 ELSE @]

\* Mutant: a chunk that fails is skipped.
SendChunkOrSkip(d) ==
    /\ stage[d] = "sending" /\ part[d] < Chunks[d]
    /\ \E got \in BOOLEAN : Hand(d, got)
    /\ part' = [part EXCEPT ![d] = @ + 1]
    /\ UNCHANGED <<answered, rows, seen, tried, due, aged, stage, sweep, todo, faults>>

SendChunk(d) ==
    /\ stage[d] = "sending" /\ part[d] < Chunks[d]
    /\ Hand(d, TRUE)
    /\ part' = [part EXCEPT ![d] = @ + 1]
    /\ UNCHANGED <<answered, rows, seen, tried, due, aged, stage, sweep, todo, faults>>

\* Mutant: the failure is not counted.
SendFailsUncounted(d) ==
    /\ stage[d] = "sending" /\ part[d] < Chunks[d]
    /\ \E got \in BOOLEAN : Hand(d, got)
    /\ Stage(d, "settled")
    /\ UNCHANGED <<answered, rows, seen, tried, due, aged, part, sweep, todo, faults>>

\* The sender raised on a chunk, or no interface is attached: one attempt less,
\* and the failure is final when none is left.
SendFails(d) ==
    /\ stage[d] = "sending" /\ part[d] < Chunks[d]
    /\ \E got \in BOOLEAN : Hand(d, got)
    /\ tried' = [tried EXCEPT ![d] = @ + 1]
    /\ seen' = [seen EXCEPT ![d] = IF tried[d] + 1 >= MaxAttempts THEN "failed" ELSE @]
    /\ Stage(d, "settled")
    /\ UNCHANGED <<answered, rows, due, aged, part, sweep, todo, faults>>

\* Mutant: delivered once the first chunk is out.
SendReturnsEarly(d) ==
    /\ stage[d] = "sending" /\ part[d] > 0
    /\ seen' = [seen EXCEPT ![d] = "delivered"]
    /\ Stage(d, "settled")
    /\ UNCHANGED <<answered, rows, tried, due, aged, part, sweep, todo, received, faults>>

SendReturns(d) ==
    /\ stage[d] = "sending" /\ part[d] = Chunks[d]
    /\ seen' = [seen EXCEPT ![d] = "delivered"]
    /\ Stage(d, "settled")
    /\ UNCHANGED <<answered, rows, tried, due, aged, part, sweep, todo, received, faults>>

-----------------------------------------------------------------------------
(* The worker: process_inbound after process has returned a reply.         *)

\* process commits the execution, the message and the conversation.
Answer(d) ==
    /\ d \notin answered
    /\ answered' = answered \cup {d}
    /\ Stage(d, "owed")
    /\ UNCHANGED <<rows, seen, tried, due, aged, part, sweep, todo, received, faults>>

\* Mutant: the record is committed before the attempt, and due at once.
EnqueueVisible(d) ==
    /\ stage[d] = "owed"
    /\ seen' = [seen EXCEPT ![d] = "pending"] /\ status' = [status EXCEPT ![d] = "pending"]
    /\ due' = due \cup {d}
    /\ part' = [part EXCEPT ![d] = 0]
    /\ Stage(d, "sending")
    /\ UNCHANGED <<answered, attempts, tried, aged, sweep, todo, received, faults>>

\* A second transaction records the delivery and starts the first attempt.
Enqueue(d) ==
    /\ stage[d] = "owed"
    /\ seen' = [seen EXCEPT ![d] = "pending"]
    /\ part' = [part EXCEPT ![d] = 0]
    /\ Stage(d, "sending")
    /\ UNCHANGED <<answered, rows, tried, due, aged, sweep, todo, received, faults>>

WorkerCommits(d) ==
    /\ stage[d] = "settled" /\ status[d] = "absent"
    /\ status' = [status EXCEPT ![d] = seen[d]]
    /\ attempts' = [attempts EXCEPT ![d] = tried[d]]
    /\ Stage(d, "none")
    /\ UNCHANGED <<answered, seen, tried, due, aged, part, sweep, todo, received, faults>>

\* The worker's second transaction fails or its process ends.  The work item is
\* retried, process answers "duplicate", and no reply is enqueued any more.
WorkerFails(d) ==
    /\ stage[d] # "none" /\ status[d] = "absent" /\ faults < MaxFaults
    /\ faults' = faults + 1
    /\ seen' = [seen EXCEPT ![d] = "absent"]
    /\ tried' = [tried EXCEPT ![d] = 0]
    /\ Stage(d, "none")
    /\ UNCHANGED <<answered, rows, due, aged, part, sweep, todo, received>>

-----------------------------------------------------------------------------
(* The maintenance loop: retry_due, and the commit after it.               *)

Due == {d \in due : status[d] = "pending"}

SweepReads ==
    /\ sweep = "idle"
    /\ \E batch \in SUBSET Due :
        /\ batch # {} /\ Cardinality(batch) <= Batch
        /\ batch = Due \/ Cardinality(batch) = Batch
        /\ todo' = batch
    /\ sweep' = "running"
    /\ UNCHANGED <<answered, rows, seen, tried, due, aged, stage, part, received, faults>>

Sending == {d \in Reply : stage[d] = "sending" /\ status[d] # "absent"}

\* The next record of the batch: its horizon is checked, then it is sent.
SweepAttempts(d) ==
    /\ d \in todo /\ Sending = {}
    /\ todo' = todo \ {d}
    /\ part' = [part EXCEPT ![d] = 0]
    /\ IF d \in aged
       THEN seen' = [seen EXCEPT ![d] = "failed"] /\ Stage(d, "settled")
       ELSE seen' = seen /\ Stage(d, "sending")
    /\ UNCHANGED <<answered, rows, tried, due, aged, sweep, received, faults>>

Swept == {d \in Reply : stage[d] = "settled" /\ status[d] # "absent"}

SweepCommits ==
    /\ sweep = "running" /\ todo = {} /\ Sending = {}
    /\ status' = [d \in Reply |-> IF d \in Swept THEN seen[d] ELSE status[d]]
    /\ attempts' = [d \in Reply |-> IF d \in Swept THEN tried[d] ELSE attempts[d]]
    /\ due' = due \ Swept
    /\ stage' = [d \in Reply |-> IF d \in Swept THEN "none" ELSE stage[d]]
    /\ sweep' = "idle"
    /\ UNCHANGED <<answered, seen, tried, aged, part, todo, received, faults>>

\* The pass raises or its process ends: everything it did is rolled back,
\* except what was sent.
SweepFails ==
    /\ sweep = "running" /\ faults < MaxFaults
    /\ faults' = faults + 1
    /\ seen' = [d \in Reply |-> IF status[d] # "absent" THEN status[d] ELSE seen[d]]
    /\ tried' = [d \in Reply |-> IF status[d] # "absent" THEN attempts[d] ELSE tried[d]]
    /\ stage' = [d \in Reply |-> IF status[d] # "absent" THEN "none" ELSE stage[d]]
    /\ sweep' = "idle" /\ todo' = {}
    /\ UNCHANGED <<answered, rows, due, aged, part, received>>

-----------------------------------------------------------------------------
(* Time.                                                                   *)

BackoffEnds(d) ==
    /\ status[d] = "pending" /\ d \notin due
    /\ due' = due \cup {d}
    /\ UNCHANGED <<answered, rows, seen, tried, aged, stage, part, sweep, todo, received, faults>>

HorizonPasses(d) ==
    /\ status[d] = "pending" /\ d \notin aged
    /\ aged' = aged \cup {d}
    /\ UNCHANGED <<answered, rows, seen, tried, due, stage, part, sweep, todo, received, faults>>

Attempt(d) == SendChunk(d) \/ SendFails(d) \/ SendReturns(d)
Worker(d) == Enqueue(d) \/ WorkerCommits(d)
Sweeper == SweepReads \/ SweepCommits \/ \E d \in Reply : SweepAttempts(d)

Next ==
    \/ \E d \in Reply :
        \/ Answer(d) \/ Worker(d) \/ WorkerFails(d) \/ Attempt(d)
        \/ BackoffEnds(d) \/ HorizonPasses(d)
    \/ Sweeper \/ SweepFails

Spec == Init /\ [][Next]_vars

\* The loop of the maintenance task goes on, the HTTP client answers or raises,
\* time passes.
Fairness ==
    /\ WF_vars(Sweeper)
    /\ \A d \in Reply : WF_vars(Attempt(d)) /\ WF_vars(Worker(d)) /\ WF_vars(BackoffEnds(d))

FairSpec == Spec /\ Fairness

-----------------------------------------------------------------------------
\* What a record says in the end is true: delivered only of a reply that reached
\* its recipient in full, failed only once its attempts or its horizon are used up.
OutcomesAreTrue ==
    \A d \in Reply :
        /\ status[d] = "delivered" => \A k \in Chunk(d) : received[d][k] > 0
        /\ status[d] = "failed" => attempts[d] = MaxAttempts \/ d \in aged

\* A reply reaches its recipient at most max_attempts times, plus once for each
\* transaction that was lost after the send.
DuplicatesAreBounded ==
    \A d \in Reply : \A k \in Chunk(d) : received[d][k] <= MaxAttempts + faults

\* No chunk overtakes an earlier one.
ChunksInOrder ==
    \A d \in Reply : \A j, k \in Chunk(d) : j < k => received[d][j] >= received[d][k]

\* A recorded delivery comes to an end.
RecordedEnds == \A d \in Reply : status[d] = "pending" ~> status[d] \in Final

=============================================================================
