------------------------------ MODULE Inbound ------------------------------
(***************************************************************************)
(* The webhook's acceptance of a message: app.whatsapp_webhook calls       *)
(* inbound.accept_inbound_message, which resolves the sender to a          *)
(* principal (identity.repository), inserts the processed_messages row and *)
(* schedules a work item, in one transaction; the work runner then runs    *)
(* the item's handler (runtime/work/handlers, runtime/work/reentry).       *)
(*                                                                         *)
(* Grain.  One request carries one message (the webhook handles the        *)
(* messages of a batch one after the other, each in a transaction of its   *)
(* own).  A step is one SQL statement at READ COMMITTED: it sees what is   *)
(* committed, and an INSERT waits while another open transaction has       *)
(* inserted the same unique key.  Principals are named by the request      *)
(* whose transaction made them, work items by the request that scheduled   *)
(* them.                                                                   *)
(*                                                                         *)
(* What nearly every component has, an initial condition, a next-state     *)
(* relation, a specification, is named after the webhook here, so that one *)
(* module of proofs can extend both ways of a message.                     *)
(*                                                                         *)
(* Time.  A request that has no answer because the process ended is        *)
(* delivered again by the messaging platform.                              *)
(***************************************************************************)
EXTENDS Naturals, FiniteSets

CONSTANTS
    Request, Message, Sender,
    Carries,    \* [Request -> Message]
    From,       \* [Message -> Sender]
    None,
    MaxTries,   \* max_attempts of the work item
    MaxFailures \* bound on failed statements and crashes

ASSUME CarriesAssumption == Carries \in [Request -> Message]
ASSUME FromAssumption == From \in [Message -> Sender]
ASSUME NoneAssumption == None \notin Request
ASSUME TriesAssumption == MaxTries \in Nat \ {0} /\ MaxFailures \in Nat

VARIABLES
    pc,         \* per request: the statement that comes next
    principal,  \* per request: the principal its transaction works for
    wrote,      \* per request: the rows its transaction has inserted
    principals, \* committed rows of principals
    credential, \* committed credentials: [Sender -> principal or None]
    row,        \* committed processed_messages: [Message -> principal or None]
    work,       \* work items: [Request -> principal or None]
    fate,       \* their status
    tries,      \* their attempts
    failures

tx == <<pc, principal, wrote>>
store == <<principals, credential, row, work>>
queue == <<fate, tries>>
webhook == <<tx, store, queue, failures>>

Open(r) == pc[r] \notin {"arriving", "answered", "dropped"}
Sends(r) == From[Carries[r]]

TypeInv ==
    /\ pc \in [Request -> {"arriving", "resolve", "create", "check", "attach", "again",
                           "record", "schedule", "commit", "answered", "dropped"}]
    /\ principal \in [Request -> Request \cup {None}]
    /\ wrote \in [Request -> SUBSET {"principal", "credential", "message", "work"}]
    /\ principals \subseteq Request
    /\ credential \in [Sender -> Request \cup {None}]
    /\ row \in [Message -> Request \cup {None}]
    /\ work \in [Request -> Request \cup {None}]
    /\ fate \in [Request -> {"none", "pending", "succeeded", "dead"}]
    /\ tries \in [Request -> 0..MaxTries]
    /\ failures \in 0..MaxFailures

WebhookInit ==
    /\ pc = [r \in Request |-> "arriving"]
    /\ principal = [r \in Request |-> None]
    /\ wrote = [r \in Request |-> {}]
    /\ principals = {}
    /\ credential = [s \in Sender |-> None]
    /\ row = [m \in Message |-> None]
    /\ work = [r \in Request |-> None]
    /\ fate = [r \in Request |-> "none"]
    /\ tries = [r \in Request |-> 0]
    /\ failures = 0

-----------------------------------------------------------------------------
(* The transaction of one request.                                         *)

Goes(r, where) == pc' = [pc EXCEPT ![r] = where]
Inserts(r, what) == wrote' = [wrote EXCEPT ![r] = @ \cup {what}]
WorksFor(r, p) == principal' = [principal EXCEPT ![r] = p]

\* The process takes the request: a first delivery, or one more after a crash.
Receive(r) ==
    /\ pc[r] \in {"arriving", "dropped"}
    /\ Goes(r, "resolve")
    /\ UNCHANGED <<principal, wrote, store, queue, failures>>

\* resolve_principal_by_credential, before and after a lost race.
Resolve(r) ==
    /\ pc[r] \in {"resolve", "again"}
    /\ WorksFor(r, credential[Sends(r)])
    /\ Goes(r, IF credential[Sends(r)] # None THEN "record"
               ELSE IF pc[r] = "resolve" THEN "create"
               ELSE "answered")  \* the RuntimeError, logged by the webhook
    /\ UNCHANGED <<wrote, store, queue, failures>>

\* create_principal: a row under a new id.
CreatePrincipal(r) ==
    /\ pc[r] = "create"
    /\ WorksFor(r, r) /\ Inserts(r, "principal")
    /\ Goes(r, "check")
    /\ UNCHANGED <<store, queue, failures>>

\* Mutant: only the credential is rolled back (a savepoint around it).
LosesRaceKeepsPrincipal(r) ==
    /\ Goes(r, "again")
    /\ wrote' = wrote
    /\ WorksFor(r, None)

\* The race is lost: rollback, and resolve again.
LosesRace(r) ==
    /\ Goes(r, "again")
    /\ wrote' = [wrote EXCEPT ![r] = {}]
    /\ WorksFor(r, None)

\* add_credential reads before it inserts.
CheckCredential(r) ==
    /\ pc[r] = "check"
    /\ IF credential[Sends(r)] = None
       THEN Goes(r, "attach") /\ UNCHANGED <<principal, wrote>>
       ELSE LosesRace(r)
    /\ UNCHANGED <<store, queue, failures>>

NoUniqueMessage(r) == FALSE

\* Some other open transaction has inserted the credential of the sender, or
\* the row of the message.
CredentialLocked(r) ==
    \E o \in Request \ {r} : "credential" \in wrote[o] /\ Sends(o) = Sends(r)
MessageLocked(r) ==
    \E o \in Request \ {r} : "message" \in wrote[o] /\ Carries[o] = Carries[r]

AttachCredential(r) ==
    /\ pc[r] = "attach" /\ ~CredentialLocked(r)
    /\ IF credential[Sends(r)] = None
       THEN Goes(r, "record") /\ Inserts(r, "credential") /\ UNCHANGED principal
       ELSE LosesRace(r)
    /\ UNCHANGED <<store, queue, failures>>

\* INSERT .. ON CONFLICT DO NOTHING: the row is inserted, or was there.
RecordMessage(r) ==
    /\ pc[r] = "record" /\ ~MessageLocked(r)
    /\ IF row[Carries[r]] = None
       THEN Inserts(r, "message") /\ Goes(r, "schedule")
       ELSE UNCHANGED wrote /\ Goes(r, "commit")
    /\ UNCHANGED <<principal, store, queue, failures>>

ScheduleWork(r) ==
    /\ pc[r] = "schedule"
    /\ Inserts(r, "work") /\ Goes(r, "commit")
    /\ UNCHANGED <<principal, store, queue, failures>>

\* The commit makes the rows visible; the webhook goes on to answer 200.
Commit(r) ==
    /\ pc[r] = "commit"
    /\ principals' = principals \cup (IF "principal" \in wrote[r] THEN {r} ELSE {})
    /\ credential' = IF "credential" \in wrote[r]
                     THEN [credential EXCEPT ![Sends(r)] = principal[r]] ELSE credential
    /\ row' = IF "message" \in wrote[r]
              THEN [row EXCEPT ![Carries[r]] = principal[r]] ELSE row
    /\ work' = IF "work" \in wrote[r] THEN [work EXCEPT ![r] = principal[r]] ELSE work
    /\ fate' = IF "work" \in wrote[r] THEN [fate EXCEPT ![r] = "pending"] ELSE fate
    /\ wrote' = [wrote EXCEPT ![r] = {}]
    /\ Goes(r, "answered")
    /\ UNCHANGED <<principal, tries, failures>>

\* Mutant: the failed transaction is left open.
StatementFailsInTransaction(r) ==
    /\ Open(r) /\ failures < MaxFailures
    /\ failures' = failures + 1
    /\ Goes(r, "answered")
    /\ UNCHANGED <<principal, wrote, store, queue>>

\* A statement of the transaction raises: rolled back, logged, answered 200.
StatementFails(r) ==
    /\ Open(r) /\ failures < MaxFailures
    /\ failures' = failures + 1
    /\ wrote' = [wrote EXCEPT ![r] = {}]
    /\ Goes(r, "answered")
    /\ UNCHANGED <<principal, store, queue>>

\* The process ends with every transaction it has open.
Crash ==
    /\ failures < MaxFailures /\ \E r \in Request : Open(r)
    /\ failures' = failures + 1
    /\ pc' = [r \in Request |-> IF Open(r) THEN "dropped" ELSE pc[r]]
    /\ wrote' = [r \in Request |-> {}]
    /\ UNCHANGED <<principal, store, queue>>

-----------------------------------------------------------------------------
(* The work item: kind "intelligence", with the payload the webhook wrote. *)

Payload == [source |-> "interface", event |-> "inbound_message"]
ObservationSources == {"runtime"}

\* validate_reentry_payload at wake time.
Validates(payload) == payload.source \in ObservationSources

\* One attempt of the runner at the item: intelligence_handler returns or raises.
RunHandler(r) ==
    /\ fate[r] = "pending"
    /\ tries' = [tries EXCEPT ![r] = @ + 1]
    /\ fate' = [fate EXCEPT ![r] =
                  IF Validates(Payload) THEN "succeeded"
                  ELSE IF tries[r] + 1 = MaxTries THEN "dead" ELSE @]
    /\ UNCHANGED <<tx, store, failures>>

-----------------------------------------------------------------------------
Step(r) ==
    \/ Receive(r) \/ Resolve(r) \/ CreatePrincipal(r) \/ CheckCredential(r)
    \/ AttachCredential(r) \/ RecordMessage(r) \/ ScheduleWork(r) \/ Commit(r)

WebhookNext == Crash \/ \E r \in Request : Step(r) \/ StatementFails(r) \/ RunHandler(r)

WebhookSpec == WebhookInit /\ [][WebhookNext]_webhook

\* The event loop runs every request, the database answers, the platform
\* redelivers what was not answered, the runner polls.
WebhookFairSpec ==
    WebhookSpec /\ \A r \in Request : WF_webhook(Step(r)) /\ WF_webhook(RunHandler(r))

-----------------------------------------------------------------------------
Accepted(r) == fate[r] # "none"

\* Exactly one delivery of a message wins: at most one work item per message,
\* and a committed row has one.
AcceptedOnce ==
    /\ \A r, o \in Request : Accepted(r) /\ Accepted(o) /\ Carries[r] = Carries[o] => r = o
    /\ \A m \in Message : row[m] # None <=> \E r \in Request : Carries[r] = m /\ Accepted(r)

\* A sender has one principal, and everything finds it: the only committed
\* principals are those a credential leads to, rows and work items name them,
\* and a request that lost the race reads the winner's credential instead of
\* ending in "could not be resolved after race rollback".
OnePrincipalPerSender ==
    /\ \A p \in principals : credential[Sends(p)] = p
    /\ \A m \in Message : row[m] # None => row[m] = credential[From[m]]
    /\ \A r \in Request :
          /\ Accepted(r) => work[r] = credential[Sends(r)]
          /\ pc[r] = "again" => credential[Sends(r)] # None

\* Transactions that wait for one another's rows all get on: every request is
\* answered.
EveryRequestIsAnswered == \A r \in Request : <>(pc[r] = "answered")

\* An accepted message is processed: nothing is lost.
AcceptedIsProcessed ==
    \A r \in Request : Accepted(r) ~> fate[r] = "succeeded"
=============================================================================
