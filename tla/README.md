# A TLA+ model of WAX

WAX is an asyncio runtime around a language model: a WhatsApp webhook accepts
messages, a durable work queue wakes handlers, a bridge runs the model and a
terminal in a loop, replies are queued for delivery, and a maintenance loop
retries, prunes and consolidates. State lives in PostgreSQL (READ COMMITTED;
SQLite in the tests), and each operation takes its session from `db_session()`,
which rolls back whatever was not committed. This directory specifies the parts of it whose
correctness depends on order: of transactions, of tasks, of failures, of time.

## 1. Inventory

Paths are relative to `src/src/wax` (`wax_runtime` is `src/src/wax_runtime/__init__.py`).

| Component | State | Operations | Hard behaviour | What makes it correct |
|---|---|---|---|---|
| Durable work queue (`runtime/work/repository, runner`) | `work_items`: status, owner, lease, attempts, wake condition, deadline | schedule, claim_due, renew_lease, mark_running / succeeded / failed, cancel; poll loop, heartbeat, stop | several replicas, plain SELECT then UPDATE by key, lapsing leases, crashes, failing transactions | bounded attempts and runs; one end per item, announced; stale starts and late results turned away |
| Signal ledger (`runtime/work/signals`) | `runtime_signals`, watermarks of the waiters | emit, has_signal_since, prune | emission and commit apart; pruning beside waits | a wait that could be satisfied stays satisfiable |
| Provider calls (`intelligence/service, resilience`, `reliability/*`) | per provider: breaker state, failure count, cooldown, trials | complete, stream; retry, failover | interleaved calls, results recorded in a later state of the breaker | refuses on evidence, trial slots not leaked, recovers; a healthy candidate serves `complete` |
| Webhook acceptance (`runtime/inbound`, webhook of `runtime/app`, `identity/*`, `runtime/work/handlers, reentry`) | principals, credentials, `processed_messages`, work items | resolve / create principal, insert-or-ignore, schedule; validation at wake | redelivery, creation races, lock waits, swallowed failures | accepted exactly once, one principal per sender, every accepted message processed |
| Outbound deliveries (`runtime/delivery_queue, delivery`, `process_inbound` of the bridge, maintenance) | `delivery_records` | enqueue, attempt, retry_due | sends outside transactions, partial sends, lost commits | status is true, duplicates bounded, every record ends |
| Runtime bridge (`runtime/bridge/service`) | executions, messages, conversation, checkpoints | process, process_inbound, run_reentry, intelligence loop | long transactions around awaits, retries of failed messages | one execution per message, one item per pledge |
| Execution state machine and recovery (`execution/*`, `WorkRunner.recover_orphans`) | `executions`, steps, checkpoints | start, checkpoint, complete, fail; classify and recover after a crash | a restart beside a live replica | no uncertain command is run again, recovery is idempotent |
| Memory (`memory/*`) | memory records, edges | create, strengthen, supersede, forget, delete, link, expire, extract, consolidate, search | the model awaited between read and write; row locks taken in different orders | what is superseded has an heir made with it in view, no experience counts twice; what is gone stays gone and leaves recall |
| Continuity (`continuity/*`) | conversations, contexts | get-or-create, touch, archive; create, update, resolve | get-or-create races, rows rewritten from stale reads, the model awaited in between | as many open conversations as turns at most; updates lost only by a stale read; packets are of their turn |
| Secure pages, OAuth (`runtime/web_pages`, routes of `runtime/app`, `security/oauth`, `wax_runtime`) | interaction sessions, stored credentials | create, open, submit, cancel, expire; callback, exchange | requests that decide on rows others rewrite, single-use state across awaits | results announced, connections backed by the credential of their callback, nothing recorded late |
| Maintenance (`runtime/maintenance`) | none of its own | prune, retry deliveries, archive, consolidate, reap, clean up | one pass after the other, each in its transactions | modelled with the rows it works on |
| Command executor (`runtime/executor`, `state/process_models`) | child processes, `process_registry`, workspaces | execute, execute_detached, kill, reap | timeouts racing exits, children that outlive bash, reused process numbers | calls return; the registry learns of ends |
| Lifecycle, composition root (`runtime/app, lifecycle`) | shutdown handlers, tasks | start-up recovery, LIFO shutdown | a handler's timeout shorter than the grace the runner needs | drains before closing; shutdown ends |
| Rate limiter (`runtime/rate_limit`) | times of recent calls, in memory | check, remaining | pruning, restarts | at most the limit in any window |
| Context limits, WhatsApp parsing, adapters, config, logging, audit, migrations | none | arithmetic, I/O, parsing, validation | none of the above | not modelled (section 7) |

How they interact: the webhook writes `processed_messages` and a work item in
one transaction and answers; a runner claims the item and calls its handler; the
handler calls the bridge through a callback; the bridge resolves conversation and
context, recalls memories, calls providers, runs commands in the terminal, writes
executions and messages, and hands the reply to the delivery queue. The commands
import `wax_runtime`, which opens transactions of its own beside the turn that
waits for them: it schedules work, serves pages, remembers, rewrites contexts.
The maintenance loop works on deliveries, signals, conversations, memories and
processes beside all of that. Work items wait for one another through signals. The
item `serve_page` schedules does not: it waits for a time, and nobody waits for the
signal of its page.

## 2. Modules

| Module | Models | Proofs |
|---|---|---|
| `WorkQueue` | the queue, the ledger, runners and their heartbeats | `WorkQueueProofs` |
| `WorkLifecycle` | the abstract life of an item, which `WorkQueue` refines | in `WorkQueueProofs` |
| `ProviderCalls` | callers, retry loops, failover, breakers | `ProviderCallsProofs` |
| `Deliveries` | the reply's two transactions, sends, the retry sweep | `MessagesProofs` |
| `Inbound` | concurrent webhook transactions and the fate of the item they schedule | in `MessagesProofs` |
| `Executions` | turns of the intelligence: live messages, re-entries, their retries | `ExecutionsProofs` |
| `Turns` | the abstract promise of the bridge to a message, which `Executions` refines | in `ExecutionsProofs` |
| `Memories` | memory rows and edges; reflection, expiry sweep, extraction and single statements beside one another; retrieval | `MemoriesProofs` |
| `Contexts` | the rows of contexts, concurrent `update_context` calls, the resolution of a turn's context | `ContextsProofs` |
| `Pages` | sessions of served forms and OAuth connections, the requests that race for them, stored tokens | `PagesProofs` |
| `Host` | commands and the processes they leave, the process registry and its reaper, the server's shutdown and restart | `HostProofs` |
| `Recovery` | `classify_crash`, `recover_execution` and the pass of `recover_orphans`, as functions of a row | in `ExecutionsProofs` |
| `RateLimits` | the limiter's remembered calls, the clock, restarts | in `MessagesProofs` |

`MC*` modules instantiate them for TLC. `Recovery` and `RateLimits` have no run:
the first has no behaviour, and what is said of both is proved (section 5).
They declare no assumptions; their theorems state what they need as hypotheses.
`MessagesProofs` extends `Deliveries` and `Inbound` at once, which is why `Inbound`
names its specification `WebhookSpec`, and instantiates `RateLimits`.
Definitions named "Mutant" beside an
action are the same action with a plausible bug; no specification uses them.
They are there so that each property can be shown to notice one.

### WorkQueue

`status`, `owner`, `attempts` and `lease` are columns; `ready` and `overdue` are
the comparisons of `available_at` and `expires_at` with the clock. A ledger row
carries its name and the set of waiters whose watermark precedes it, which is all
a comparison of timestamps can tell. `pc` walks a runner through `run_once`:
polling (the deadline sweep reads) → claiming (sweep and claim written, with
announcements) → dispatch → starting (mark_running read) → handling →
succeeding or failed → burying. Every repository operation but the claim is a
SELECT followed by an UPDATE by primary key, hence a read action and a write
action; the claim's rows are locked, hence one action. The two halves see each
other's world only through the table. Only changed columns reach an UPDATE, so a
cancel that read an unleased row does not clear the lease columns.

`_fail_item` commits in two of its four outcomes. "pending" is not one of them:
the retry it wrote is rolled back with the session, and the model says so
(`FailureNotRecorded`).

A lease may lapse whenever it likes, whoever holds it. That over-approximates the
scheduling of heartbeats, and it is the plain truth of the tail of a batch: up to nine items
wait behind the one being processed, and nothing renews their leases. So the queue does not
promise that an item runs only once at a time, and no property says so. What it does
promise is modelled with a history variable: `torn` collects the items whose row (status,
owner, attempts) was written while another transaction had read it and was about to write it (`Open`),
which is the gap between the two statements of every `mark_*`, of `cancel` and of the
deadline sweep. Starts and attempts are bounded in any case, and a runner that was overtaken is turned away
by the check itself; that a start or a result is the claimer's, that an item
keeps its lifecycle, and that the ledger tells its outcome holds until its row is torn. `LateResultsDiscarded`
is the same fence without that condition, as the docstring of `mark_succeeded` has it, and fails.

A member of `Worker` is one incarnation of a runner process; a restart is another
member. `MaxAlive` replicas run at once. `WakeIsNotLost` and the ledger treat an
emission and its commit as one step (section 6).

### ProviderCalls

The callers share an event loop, so what lies between two awaits is a step: a
failure is recorded in the breaker and the next candidate is entered in one
action. `stream` has the primary only: its success is recorded before the provider is contacted, and a
refusal is raised to its caller (`outcome` "refused"); failover, and what is said of it, is
of `complete`. `breaker[p]` holds what `CircuitBreaker` holds, with the failure count
saturating at the threshold and the clock reduced to a cooldown that is running
or over. Refusing candidates are skipped within `Failover`. `era` and `outcome`
are history.

### Deliveries

`status` and `attempts` are the committed rows; `seen` and `tried` the same
columns inside the transaction that has the row open. A send is one message per
chunk, outside any transaction: a lost commit does not unsend it. `SendFails`
covers a raising client, an unattached interface, and a message the platform took
although the client raised.

### Inbound

One step per SQL statement. `wrote[r]` is what request r's open transaction has
inserted; the unique keys of credentials and messages make an insert wait for a
transaction that holds the same key and then fail or be ignored. Principals are named by the request
that created them. `RunHandler` is the runner's attempt at the
scheduled item, abstracted to its outcome: `WorkQueue` has the detail.

### Executions

A turn is one transaction: `process` and `run_reentry` flush as they go and
commit after the loop, so `pc`, `round`, `result`, `talk` and `mood` are what the
open transaction of a runner holds, and `processed`, `execution`, `made`, `conv`
what is committed. `pc` follows the code: admitting (rate limiter, read of
`processed_messages`) → inserting (its unique key makes a second attempt wait) →
finding → touching (the conversation's row, locked to the end) → looping →
committing → replying (`process_inbound`'s second transaction) → reporting or
failing (the runner's). A re-entry starts at finding. Item `<<m, 0>>` is the one
`inbound_handler` expects for message m, `<<m, 1>>`, ... what turns schedule. The first comes in
two ways. `Accept` is the webhook's: the item and a `processed_messages` row with outcome
"pending", in one transaction. `process` asks for the row only, so it answers
DUPLICATE, and the item succeeds with no turn. (Today such an item dies before that, as
`inbound_unprocessed` shows; and no code in `src/` schedules an item of kind "inbound". `Accept` is what
would happen if the handler were given what the webhook writes.) `Arrive` has no row, as the tests call
`process`; every turn of a live message in this module begins with it. The
check for an existing retry looks for the new execution's own id and never finds
one, so it is no guard. The rate limiter may refuse any call, which covers
every history of its window. What is sent directly by a failing turn or a
re-entry is not modelled: `delivery.send` has no parameter `recipient`, and the
TypeError is caught. Claims and results are one step each here, as `WorkQueue`
has their detail. `recover_orphans` and `resume_execution` look for committed
running executions: `ExecutionsProofs` shows there are none (`TurnsOver`).

### Memories

Of a row's content the model keeps its `roots`: the first-hand memories it goes back to,
itself or, of an insight, those that were shown in the prompt it came from.
That is provenance, which a reader of `superseded_by` can follow, and no claim about what the text
says: the prompt has 200 characters of each episode
(`memory/consolidation.py:112-114`), asks for "a distilled insight, not a summary" (line 50), and an
answer without a content is stored as `{}` (line 145), superseding the episodes all the same. What
survives of their content is up to the model, and nothing here bounds it. Extraction and `remember` make
new roots.
Transactions are READ COMMITTED: `written[a]` is what actor a wrote and did not
commit, and an UPDATE waits for whoever wrote the row and then evaluates its
WHERE again. Three actors keep rows open across statements: reflection
(`consolidate_similar`: read the episodes → per cluster await the model → create
the insight → supersede the members one by one → commit), the sweep
(`expire_due_memories`: read, forget row by row, commit) and a turn (extraction stores
new memories, or finds a fact that says the same and strengthens it, and commits). `remember`, `forget`,
`hard_delete` and `link` are transactions of a statement or two. They lock rows
in different orders; the database rolls one of a deadlock back
(`Deadlocked(a) /\ RollBack(a)`), and `RollBack` alone is a fault. A new row's
id is newer than every row there is, of open transactions too, as ULIDs are. What
an insight goes back to is what the pass read at its beginning (`shown`): its rows are
loaded once, and their content goes to the model even if it was destroyed
meanwhile. Clusters are
found greedily in the order of the read, and a cluster too small still spends
one of `max_clusters`, as in the code. Retrieval is the operator `Found`: BM25 and
its blend are a constant (`Relevance`), the graph step, the limit and the order of
ties are computed.

### Contexts

A writer is one call of `update_context`: set_status (an UPDATE, which locks the
row, before the row is loaded), then load, then summary, then the merge of the
living state, each a write of a whole column from the row as loaded; commit. A
turn lists the contexts for candidates, lists the active ones, and, if keywords
do not decide, awaits the model; its session never refreshes a row, so `known` is
what it first loaded. `past` records which rows were committed during a turn.
What the model names is looked up by primary key only: neither status nor
principal is asked for again. All contexts are of one principal.

### Pages

A request reads its row without a lock, decides on `saw`, and writes the columns
it changed by primary key. Looks, submissions and cancellations read and write in
two steps; the OAuth callback writes its state (`Consumes`), keeps the transaction
open while it exchanges the code, and then fails or connects. Whoever writes the
row meanwhile waits. `Ops(s)` are the requests that exist for a kind of session. The routes of
`/i/{token}` and `submit_session` ask for no purpose, so a connection can be looked at, submitted to
and cancelled like a form: a submission takes the place of its result, is
announced under its wake event, and leaves it "submitted"; only a callback makes it "completed". Forms
are only created by `serve_page` and take one submission.
`announced` holds the wake events with the request whose result is in the
payload. The value of a result is the request that recorded it. A credential is its row, whose token is what
the provider answered, be it empty (`security/oauth.py:301`). The item
`serve_page` schedules wakes by time only: the announcements are on the ledger for whoever
waits for them, and in this repository nobody does.

### Host

A command is bash, and at most one child that holds its output: `tied` ones in
its process group, which the kill of the group reaches, `loose` ones outside
(setsid). A call waits for bash, and drains the output afterwards, with no limit. A
detached command's row in `process_registry` is committed after the process was
started; the reaper asks whether a process of that number exists, and process
numbers are given out again, above all after a restart of the container. The
runner's task works off a batch it claimed, also after `_stopping` was set;
shutdown pops the handlers in reverse order of their registration, each under its
own timeout (10 s), while the stop of the runner would wait 30 s: `StopTimesOut` is
what happens to a turn longer than that.

### Recovery and RateLimits

`Recovery` maps an execution with its steps to a crash point, an outcome and the
row afterwards; `Swept` is `recover_orphans`, which is rolled back as a whole when
it raises. `RateLimits` holds, per principal, the calls `check` remembers, pruned
when the principal calls again; `let` is the history of calls let through.

## 3. Runs

| Run | Question | Instance |
|---|---|---|
| `queue_racy` | What holds however late heartbeats are? | 2 items, one with a deadline, in one batch; 2 runners, 2 attempts, no faults; 1.7 M states |
| `queue_late` | Is a late result always discarded, as `mark_succeeded` says? (No.) | 2 items, 2 runners, batch of 1; a counterexample of a few steps |
| `queue_single` | What does the single replica the maintenance loop documents get in addition, and does every runnable item end? | 2 incarnations, 1 alive; an item with a deadline that waits for a message, and one that waits for its success, has no handler and may be cancelled; one failing transaction; 0.16 M states |
| `calls` | Are breakers right and does a healthy candidate serve every call of `complete`, for every set of healthy candidates? | 2 callers, 2 candidates, threshold 2, 2 trials, 2 attempts, streams |
| `reply` | Are records true, duplicates bounded, chunks in order; does every record end? | 2 replies, one of two chunks, 2 attempts, 2 faults |
| `inbound` | Is a message accepted once, for the one principal of its sender; is every request answered? | 2 requests of one message and 1 of another, one new sender, one fault |
| `turns` | Is a message executed once, is every pledge backed by work, does every item end, whatever leases, models and the database do? | a message, recorded by the webhook or not, and a follow-up, 2 runners, any lease timing, 2 attempts, 1 terminal round, 3 conversations, one fault |
| `memories` | Has what is superseded an heir, does an experience count twice, does anything gone come back or show up, does what expired leave recall? | 2 episodes that expire, room for 2 more rows, 1 edge, 1 turn, 1 statement, 1 lost transaction |
| `pages` | Is every result announced and every connection backed, and nothing recorded late, whatever requests race? | a form and a connection, 3 requests of any kind on either, 1 crash |
| `host` | Does a call return, a shutdown end, and an end get registered; does a turn ever meet closed clients? | 2 commands, 2 process numbers, batch of 2, 1 restart |
| `contexts` | By which schedule is an update lost, and is what a turn shows the model true? | 2 contexts of 2 keys, 2 writers, 2 calls of any shape, 2 resolutions; 2.0 M states |

The bounds are the smallest at which the cases meet: two items, so that one waits
for the other and a batch has a tail; two attempts, so that there is a retry and
a last one; two live runners, so that one is a zombie; two callers, so that one
fails late while the other tries; two chunks, so that a send is partial; three
requests, so that a race for the sender and a race for the message overlap - and
so that two race for a page and a third comes late; two episodes, so that there
is a cluster, and one more row than its insight, so that a turn's memory can be
distilled, forgotten or strengthened meanwhile; two process numbers for two
commands, so that a number names another process; a batch of two, so that a turn
begins after the stop; two calls of two keys, so that one wipes what it does not
name; two resolutions, so that a packet could be of the one before.
`MaxFaults` (`MaxFailures` in `Inbound`) bounds failing transactions and crashes, and stands for nothing in
the code, as `MaxTurns`, `MaxStatements`, `MaxCalls` and `MaxBoots` bound how
often something begins. `SYMMETRY` is used only in runs without liveness, over
incarnations with names of their own and over ids of contexts, keys and writers
that nothing orders. Runs whose every actor can be done (`Deliveries`, `Inbound`,
`Executions`, `Memories`, `Pages`, `Host`, `Contexts`) turn deadlock checking off;
that actors do get done is what `RecordedEnds`, `EveryRequestIsAnswered`,
`EveryItemEnds`, `ExpiredEndsUp`, `CommandReturns` and `ShutdownEnds` show.

### The findings

`inbound_unprocessed` and `queue_late` check what comments say and the code does not do
(PROJECT.json quotes the lines). The item the webhook schedules fails the
validation of its handler at every attempt, and dies. And a result that is late by one
statement is recorded: the lease lapses after `mark_succeeded` has read the owner, another
runner claims the item, and the UPDATE by primary key ends it under the claimer's
feet, who is told "stale" at its start, or after it ran the handler once more.

## 4. Fairness

`WorkQueue`: weak fairness of each live runner's loop and heartbeat, of the start
of the next process (a supervisor), of lapsing leases and passing floors (time).
The loop catches every exception and sleeps a bounded interval; handlers return or raise.
`ProviderCalls`: every provider call returns or raises (HTTP timeouts), a
backoff sleep ends, a cooldown passes; nobody has to call again. `Deliveries`:
the maintenance loop goes on after a failed pass, the client answers or raises
within its timeout, backoffs end. `Inbound`: the loop runs every request, the
database answers, and the platform redelivers what was not answered. `Executions`:
every handler goes on (models and terminals answer or raise within their timeouts,
row locks end with their transactions) and runners keep polling. `Memories`: both
maintenance loops run for ever and catch what they meet, a model answers or
raises, a turn ends, the database finds deadlocks and serves those who wait for a
row in turn (strong fairness of the sweep's UPDATE). That is not enough for
`ExpiredEndsUp`: the sweep may be the victim of one deadlock after the other, and
the property says so as its premise. `Host`: tasks of the event loop run, timers
expire, the container is restarted; no process ever has to exit, which is why
`CommandReturns` names the case in which a call does not return. `Pages` and
`Contexts` state safety only. No failure, crash, cancellation, emission, expiry or new
call is ever assumed to happen.

## 5. Proofs

tlapm checks, for every value of the constants that satisfies their assumptions,
every safety property of section 3, the two refinements included:

- `WorkQueueProofs`, whatever leases do: `TypeCorrect` (types, and `RunnerOK`: a
  runner has an item in hand exactly in the middle of `_process_item`, and a heartbeat
  outlives neither); `AttemptsBounded`, from the type invariant and the row invariant
  that unclaimed rows have spent nothing; `RunsBounded`, whose bound on starts is not
  inductive by itself and follows from `StartsPaid`: starts made plus claims that
  may still start (`Tickets`) never exceed the attempts charged, since a claim
  buys one ticket with one attempt, and starting spends it; `Announced` and
  `WakesKept`, action properties with one case per action that can write a row or
  the ledger; `ZombiesFenced`, from the invariant that a row's owner is the name of its
  last claimer. It speaks of names, as the fence does: two incarnations whose
  8 characters of a ULID agree (`runtime/work/runner.py:88`) are one to both.

  The rest follows from one invariant (`Undisturbed`, proved as `UndisturbedKept`): what a
  transaction has read of a row still holds when it writes, unless the item is torn, with a case for each reader
  (the sweep, a start, a success, a burial, a cancel) against each writer. From that follow
  `ResultsFenced`, `StartsFenced` and `ImplementsLifecycle`, the refinement of
  `WorkLifecycle`, whose cases are the steps that change an item's phase
  (`EveryStepIsOfTheLifecycle`); none has a hypothesis on leases, names, replicas,
  deadlines or cancellation. Two theorems have one. `LedgerTrue` adds that ends are final, hence what was
  announced stays true, and needs that only the runner writes `work.*`
  (`RunnerSpeaksAlone`; `RESERVED_SIGNAL_PREFIXES` of `runtime/work/signals.py`). `WokenInTime`, which is of torn items
  too, needs `OneSweeper` (one replica, or no deadlines): the rows that the
  deadline sweep read still wait when it writes them (`SweepsAtomic`).
- `ProviderCallsProofs`: `TypeCorrect`; `Evidence` by cases of the breaker's
  methods; `SlotsHeld`, a cardinality argument: the trial entered adds its caller
  to `Trials`, and every way out of a trial leaves the half-open state; `Serves`,
  from the invariant that a healthy candidate's breaker is closed with no
  failures and that a call in progress has not passed it. It is of `complete`: a refused
  stream raises.
- `MessagesProofs`, the way out: `OutcomesTrue`, `DuplicatesBounded` and
  `ChunksKeepOrder`. None is inductive. A record is committed in one transaction and
  counted in another, so the invariant says of each record what the transaction open
  on it has changed (`Tracked`), and how far its attempt is: the chunks it has sent come
  on top of those of the attempts before it (`Counted`, `Ordered`).
  The way in: `AcceptedExactlyOnce` and `SendersHaveOnePrincipal`; what a request
  has inserted and not committed is determined by where it is (`Written`), no two hold
  the same key (`Unique`), and what is committed carries what it refers to (`Stored`).
  Past the limiter: `FloodBounded` holds of windows that begin anywhere, although
  the limiter only counts the ones that end with a call and forgets: `Remembered`
  says that of the calls let through, those less than a window old are remembered;
  the bound follows by comparing cardinalities at each call let through.
  `RefusedOnEvidence` is the converse.
- `ExecutionsProofs`: `OneTurn`, `TurnsOver` and `DoneMeansDone`, from one
  inductive invariant. Neither is inductive alone: that an attempt's commit
  overwrites nothing needs its number to be its own and above all that are
  recorded (`Numbered`); that it is the only one for its message needs the unique
  key to hold between insert and commit (`Keyed`); that a report is true needs
  what was committed before it (`Reported`); that a message recorded by the webhook is
  left alone needs the refinement's invariant as well. `Walks` and `LaysDown` cover every
  step that leaves the tables alone; claim and commit have lemmas of their own.
  `ConversationsAreFew` counts what is open together with what a turn in progress has
  found or made (`Around`), never more than the runners. `ImplementsTurns` is the
  refinement of `Turns`, a step or a stutter for each action; beside the invariant it needs
  that follow-ups exist only of messages that were followed up, and that one runner at most
  is about to reply to a message (`RInv`). Of the functions of `Recovery`, for
  every execution and every sequence of steps: recovering twice is recovering once
  (`RecoveryIsOnce`), an execution with a command of unknown outcome is never put where
  it would be run again (`UncertainIsNotRerun`), and the pass over orphans raises on any
  that the bridge recorded (`NoOrphanIsRecovered`).
- `MemoriesProofs`: `HeirsKnow`, `NoRootIsDoubled` and `GoneForGood`, from one
  invariant over what is committed and what three kinds of transactions hold open.
  No row is written by two of them (`Locked`). Of a pass of reflection (`Reflects`):
  what it has read and not looked at shares no root with another active memory or one it has
  added (`Unseen`); an added one shares its roots with no active memory but those it
  has superseded or still means to (`Distilled`); so its commit replaces all it
  distilled at once (`CommitDistils`). `RecallHonest` needs no
  more of the rows than that, but of retrieval: that the first few of a strict order
  are few (`FirstAreFew`), and the best match among them.
- `PagesProofs`: `Announced`, `Connected` and `LateIsLost`. `ConnectedIsBacked` is not
  inductive: that a pending connection has no credential needs that one not yet created
  has none either, and that a callback in the middle of its exchange has seen the
  row pending (`InHand`); that a callback is announced exactly if its credential is stored
  needs that it has neither before its end, and no request two ends; that an overwritten state never uncovers an unannounced
  result needs that requests only assign what they read or announce themselves.
- `HostProofs`: `ClientsOutliveTurns`, from one fact about order (`OInv`): how many
  handlers are left determines whether anything is closed yet, and that by then the
  runner's loop was done or its stop cut off.
- `ContextsProofs`: `WipesAreStale` and `PacketsAreTrue`. The first rests on locks
  (`Sound`): from its first UPDATE on a call holds its row, so that what it loaded
  after setting a status is still what is committed. The second rests on `Attentive`:
  whatever a turn's session holds, and whatever is committed now, was committed at
  some instant of the turn.

The theorems have no bound on items, runners, callers, candidates, replies, requests,
commands, rows, contexts or principals. What stays with TLC is liveness, which is out
of the prover's reach: `EventuallyEnds`, `RefusalEnds`, `RecordedEnds`,
`EveryRequestIsAnswered`, `EveryItemEnds`, `ExpiredEndsUp`, `CommandReturns`,
`ShutdownEnds`, `EndsAreRegistered`, and `AcceptedIsProcessed`, which does not hold.

## 6. Divergences

Where the code does not do what one of its comments says, the models follow the
code. Met while modelling, beside the finding of section 3 (paths in `src/src/wax`
unless they begin with `wax_runtime`):

- Queue. A failed attempt's backoff is rolled back with its session, and the item
  waits for its lease (`runtime/work/runner.py:302`, against
  `runtime/work/repository.py:353`).
  The fencing check and the terminal write are two statements, and a reclaim in
  between is overwritten (`runtime/work/repository.py:330`, against 324-326; run `queue_late`).
  With replicas, the deadline sweep overwrites a claim in the same way. A cancel that
  falls between the halves of a `mark_running` leaves a running row without a lease, which
  nothing ever claims again; this is why `queue_single` cancels only the item without a handler.
- Webhook. A message's row is written when it is accepted, and `process` takes
  any row for a finished message (`runtime/bridge/service.py:237-250`, against
  `runtime/inbound.py:213-216`, "the bridge does NOT re-check idempotency"). It
  does not show today, as the item dies first (`inbound_unprocessed`).
- Replies. The reply is recorded in the transaction after the one that makes its
  message a duplicate; a crash in between loses it (`runtime/bridge/service.py:550`,
  against 554-555).
- Turns. Checkpoints are written to the one transaction that the whole turn is; a
  crash takes them away, and the item starts over (`runtime/bridge/service.py:908`,
  against 905-907 and 509-510).
- Recovery. `recover_orphans` asks for `RecoveryOutcome.REPLAY_FROM_CHECKPOINT`, which
  does not exist (`runtime/work/runner.py:421`): it raises, everything it recovered is rolled
  back, and start-up does not catch it (`runtime/app.py:133`). It is harmless only
  because no running execution is ever committed. Observations are recorded as
  inputs, so the crash point that would complete an execution is never reached.
- Memory. The neighbours found over edges can displace direct matches
  (`memory/repository.py:682` says never): `RecallIsHonest` promises the best match
  only. The docstring's 20 episodes (`runtime/maintenance.py:180`) are not required.
  The audit event of an expiry is recorded whatever `forget` answered. A memory
  forgotten, or destroyed, while the model is asked is still among what the insight was made from. `recall` of
  `wax_runtime` iterates pairs of record and score as if they were records, and fails
  on the first.
- Pages and OAuth. The work item of a page wakes when the page expires, not when it is
  submitted (`wax_runtime/__init__.py:332`, against 275-279). A consumed state is rolled back
  with its transaction if the exchange crashes (`security/oauth.py:279`, against
  277-278), so the callback may be repeated. A second callback that read the row in
  time overwrites "completed"; one that comes late overwrites it with "expired",
  and the result stays. Which of several access tokens is used is not determined.
- Executor. The timeout bounds bash, not the output: a child that left the process
  group keeps the call, and the runner with it, waiting (`runtime/executor.py:223`).
- Contexts. `update_context` is advertised as a merge and rewrites the whole column
  from the row as it was loaded (`continuity/context_repository.py:100`). An answer of
  the model that is JSON but no object fails the turn
  (`continuity/context_intelligence.py:230`).

## 7. Not modelled, and what is left

Left out as pure computation, I/O or generated code: provider adapters, WhatsApp
parsing and signatures, configuration, logging, redaction, audit, migrations, the
budgets of context limits (of which production uses the token estimate only), the
wording of prompts, tokenising and BM25, PKCE, encryption, HTML. Text is abstracted
to its number of chunks, payloads to the fields the handlers test.

Left out as unreachable: `resume_execution` (no running execution is committed),
`cancel` of executions, `CircuitBreaker.reset`, `DeliveryQueue.expire_stale`,
`add_alias`, `touch` and `resolve_by_alias` of contexts, `cleanup_detached`, and
`wait_for_shutdown`, whose event nobody awaits. Modelled although nothing calls it in
production: `WorkRepository.cancel` (the theorems cover it; of the runs only
`queue_single`, for an item without a handler),
`link`, `unlink` and `hard_delete` of memories, `cancel_session`, the OAuth
functions; nor does production code set a memory's `expires_at`. In the work queue
`max_concurrency` is the 1 that the composition root uses. Audit retention and the
cleanup of workspaces delete by age and touch nothing else. How many edges of an
anchor retrieval follows at most is left out.

`TypeOK` / `TypeInv` is proved as a theorem of its own for `WorkQueue`, `ProviderCalls`
and `Memories`; the other invariants of section 5 have a typing part in their place, and
`TypeOK` stands in those modules as documentation of the state.

Left to do: an emission's timestamp is taken before its commit, so a wait that begins
in between misses it (`WorkQueue` takes both as one step).
