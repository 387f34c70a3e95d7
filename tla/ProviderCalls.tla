---------------------------- MODULE ProviderCalls ----------------------------
(***************************************************************************)
(* Calls to language-model providers: IntelligenceService.complete tries   *)
(* its candidates in order, each behind a ResilientProvider, which is a    *)
(* circuit breaker around a bounded retry loop (intelligence/service.py,   *)
(* intelligence/resilience.py, reliability/{circuit_breaker,retry}.py).    *)
(*                                                                         *)
(* Grain.  The tasks share one event loop: what happens between two awaits *)
(* is one step, so a failure is recorded and the next candidate entered at *)
(* once.  The awaits are the provider call and the backoff sleep.          *)
(*                                                                         *)
(* Time is the cooldown of a breaker: running since its last failure, or   *)
(* over.  Failure counts saturate at FailureThreshold, as the code only    *)
(* compares them with it.                                                  *)
(***************************************************************************)
EXTENDS Naturals, FiniteSets

CONSTANTS
    Caller,            \* tasks that call the service
    Providers,         \* number of candidates, 1 being the primary
    FailureThreshold,
    TrialLimit,        \* half_open_max_calls
    MaxAttempts,       \* attempts of the retry loop
    Streaming          \* whether the streaming entry point is used too

Provider == 1..Providers

ASSUME BoundAssumption ==
    /\ Providers \in Nat \ {0}
    /\ FailureThreshold \in Nat \ {0}
    /\ TrialLimit \in Nat \ {0}
    /\ MaxAttempts \in Nat \ {0}
ASSUME CallerAssumption == IsFiniteSet(Caller)
ASSUME WorldAssumption == Streaming \in BOOLEAN

VARIABLES
    healthy,    \* the candidates whose provider never raises
    breaker,    \* per provider: its circuit breaker
    pc,         \* per caller: "idle", "attempt" (provider called) or "backoff"
    at,         \* per caller: the candidate it is with
    tries,      \* per caller: attempts of its retry loop so far
    era,        \* history: the breaker's state when it admitted the call
    outcome     \* history: how the caller's last call ended

vars == <<healthy, breaker, pc, at, tries, era, outcome>>

State == {"closed", "open", "half_open"}
Breaker(s, f, c, t) == [state |-> s, failures |-> f, cooldown |-> c, trials |-> t]

TypeOK ==
    /\ healthy \subseteq Provider
    /\ breaker \in [Provider -> [state: State, failures: 0..FailureThreshold,
                                 cooldown: {"none", "running", "over"}, trials: 0..TrialLimit]]
    /\ pc \in [Caller -> {"idle", "attempt", "backoff"}]
    /\ at \in [Caller -> Provider]
    /\ tries \in [Caller -> 0..MaxAttempts]
    /\ era \in [Caller -> State]
    /\ outcome \in [Caller -> {"none", "answer", "error", "stream", "refused"}]

Init ==
    /\ healthy \in SUBSET Provider
    /\ breaker = [p \in Provider |-> Breaker("closed", 0, "none", 0)]
    /\ pc = [c \in Caller |-> "idle"]
    /\ at = [c \in Caller |-> 1]
    /\ tries = [c \in Caller |-> 0]
    /\ era = [c \in Caller |-> "closed"]
    /\ outcome = [c \in Caller |-> "none"]

-----------------------------------------------------------------------------
(* The breaker: what each of its methods makes of b.                       *)

\* _maybe_transition_to_half_open.
Cooled(b) ==
    IF b.state = "open" /\ b.cooldown = "over"
    THEN Breaker("half_open", b.failures, b.cooldown, 0)
    ELSE b

\* _allow_call: whether a call is let through, and what is left behind.
Admits(b) ==
    \/ Cooled(b).state = "closed"
    \/ Cooled(b).state = "half_open" /\ Cooled(b).trials < TrialLimit

Entered(b) ==
    IF Cooled(b).state = "half_open"
    THEN Breaker("half_open", b.failures, b.cooldown, Cooled(b).trials + 1)
    ELSE b

\* Mutant: the circuit opens one failure late.
RecordFailureLate(b) ==
    LET count == IF b.failures < FailureThreshold THEN b.failures + 1 ELSE FailureThreshold IN
    Breaker(IF b.state = "half_open" \/ b.failures >= FailureThreshold THEN "open" ELSE b.state,
            count, "running", IF b.state = "half_open" THEN 0 ELSE b.trials)

RecordFailure(b) ==
    LET count == IF b.failures < FailureThreshold THEN b.failures + 1 ELSE FailureThreshold IN
    Breaker(IF b.state = "half_open" \/ count >= FailureThreshold THEN "open" ELSE b.state,
            count, "running", IF b.state = "half_open" THEN 0 ELSE b.trials)

\* Mutant: a successful trial that neither closes the circuit nor frees its slot.
RecordSuccessHalfway(b) ==
    IF b.state = "closed" THEN Breaker("closed", 0, b.cooldown, b.trials) ELSE b

RecordSuccess(b) ==
    CASE b.state = "half_open" -> Breaker("closed", 0, b.cooldown, 0)
      [] b.state = "closed"    -> Breaker("closed", 0, b.cooldown, b.trials)
      [] b.state = "open"      -> b

-----------------------------------------------------------------------------
(* The callers.                                                            *)

\* Caller c enters candidate p, the breakers being bs.
Enter(c, p, bs) ==
    /\ breaker' = [bs EXCEPT ![p] = Entered(bs[p])]
    /\ pc' = [pc EXCEPT ![c] = "attempt"]
    /\ at' = [at EXCEPT ![c] = p]
    /\ tries' = [tries EXCEPT ![c] = 1]
    /\ era' = [era EXCEPT ![c] = Entered(bs[p]).state]
    /\ UNCHANGED <<healthy, outcome>>

\* Caller c's call ends.
Finish(c, bs, how) ==
    /\ breaker' = bs
    /\ pc' = [pc EXCEPT ![c] = "idle"]
    /\ outcome' = [outcome EXCEPT ![c] = how]
    /\ UNCHANGED <<healthy, at, tries, era>>

\* Mutant: a refused candidate ends the call instead of passing it on.
FailoverOnce(c, p, bs) ==
    IF p <= Providers /\ Admits(bs[p]) THEN Enter(c, p, bs) ELSE Finish(c, bs, "error")

\* The candidates from p on, in order: the first that admits the call is
\* entered, the refusing ones raise CircuitOpenError; the last error is raised
\* when none is left.
Failover(c, p, bs) ==
    \/ \E q \in p..Providers :
        /\ Admits(bs[q])
        /\ \A r \in p..Providers : r < q => ~Admits(bs[r])
        /\ Enter(c, q, bs)
    \/ /\ \A q \in p..Providers : ~Admits(bs[q])
       /\ Finish(c, bs, "error")

\* IntelligenceService.complete is called.
Call(c) ==
    /\ pc[c] = "idle"
    /\ Failover(c, 1, breaker)

\* The provider answers; the breaker records it and is looked at once more.
Answer(c) ==
    /\ pc[c] = "attempt"
    /\ Finish(c, [breaker EXCEPT ![at[c]] = Cooled(RecordSuccess(@))], "answer")

\* A transient failure with attempts left: sleep before the next one.
Transient(c) ==
    /\ pc[c] = "attempt" /\ at[c] \notin healthy
    /\ tries[c] < MaxAttempts
    /\ pc' = [pc EXCEPT ![c] = "backoff"]
    /\ UNCHANGED <<healthy, breaker, at, tries, era, outcome>>

Retry(c) ==
    /\ pc[c] = "backoff"
    /\ pc' = [pc EXCEPT ![c] = "attempt"]
    /\ tries' = [tries EXCEPT ![c] = @ + 1]
    /\ UNCHANGED <<healthy, breaker, at, era, outcome>>

\* A permanent failure at any attempt, or a transient one at the last: the
\* breaker counts it, and the next candidate's turn comes.
GiveUp(c) ==
    /\ pc[c] = "attempt" /\ at[c] \notin healthy
    /\ Failover(c, at[c] + 1, [breaker EXCEPT ![at[c]] = RecordFailure(@)])

\* IntelligenceService.stream, on the primary alone.  Admitted: the operation
\* the breaker sees only builds the iterator, so it succeeds before the provider
\* is contacted.  Refused: CircuitOpenError reaches the caller, who gets no other
\* candidate.
Stream(c) ==
    /\ Streaming /\ pc[c] = "idle"
    /\ \/ /\ Admits(breaker[1])
          /\ breaker' = [breaker EXCEPT ![1] = RecordSuccess(Entered(@))]
          /\ outcome' = [outcome EXCEPT ![c] = "stream"]
       \/ /\ ~Admits(breaker[1])
          /\ outcome' = [outcome EXCEPT ![c] = "refused"]
          /\ UNCHANGED breaker
    /\ UNCHANGED <<healthy, pc, at, tries, era>>

\* recovery_timeout passes since the last failure.
Cooldown(p) ==
    /\ breaker[p].cooldown = "running"
    /\ breaker' = [breaker EXCEPT ![p] = Breaker(@.state, @.failures, "over", @.trials)]
    /\ UNCHANGED <<healthy, pc, at, tries, era, outcome>>

Next ==
    \/ \E c \in Caller :
        Call(c) \/ Answer(c) \/ Transient(c) \/ Retry(c) \/ GiveUp(c) \/ Stream(c)
    \/ \E p \in Provider : Cooldown(p)

Spec == Init /\ [][Next]_vars

\* Time passes, and every provider call returns or raises: the HTTP clients
\* time out.  Nobody has to call again.
Fairness ==
    /\ \A c \in Caller : WF_vars(Answer(c) \/ Transient(c) \/ GiveUp(c)) /\ WF_vars(Retry(c))
    /\ \A p \in Provider : WF_vars(Cooldown(p))

FairSpec == Spec /\ Fairness

-----------------------------------------------------------------------------
InFlight(p) == {c \in Caller : pc[c] # "idle" /\ at[c] = p}
Trials(p) == {c \in InFlight(p) : era[c] = "half_open"}

\* A retry loop in progress has made an attempt; part of the type invariant.
TypeInv == TypeOK /\ \A c \in Caller : pc[c] = "backoff" => tries[c] < MaxAttempts

\* A breaker refuses only on evidence: it is closed exactly while its failures
\* stay below the threshold, and once open its cooldown is running or over, so
\* that it can be tried again.
RefusesOnEvidence ==
    \A p \in Provider :
        /\ breaker[p].state = "closed" <=> breaker[p].failures < FailureThreshold
        /\ breaker[p].state = "open" => breaker[p].cooldown # "none"

\* Every trial slot a half-open breaker has given away is held by a call that
\* is still running and will give it back: the slots never leak.
TrialSlotsAreHeld ==
    \A p \in Provider :
        breaker[p].state = "half_open" => breaker[p].trials <= Cardinality(Trials(p))

\* As long as one candidate never raises, no call of complete raises, whatever
\* the other candidates' breakers and retry loops go through.  It says nothing
\* of stream, which knows one candidate and has no failover.
HealthyCandidateServes ==
    healthy # {} => \A c \in Caller : outcome[c] # "error"

\* A breaker that refuses calls admits one again.
RefusalEnds == \A p \in Provider : ~Admits(breaker[p]) ~> Admits(breaker[p])
=============================================================================
