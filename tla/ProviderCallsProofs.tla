------------------------- MODULE ProviderCallsProofs -------------------------
(***************************************************************************)
(* Theorems of ProviderCalls for every number of callers and candidates,   *)
(* every threshold, trial limit and retry bound.                           *)
(*                                                                         *)
(* Argument.  A step changes breakers only through Entered, RecordFailure, *)
(* RecordSuccess, Cooled and the cooldown, so what those operators keep of *)
(* one breaker (the lemmas of the first part) holds of all of them.  The   *)
(* trial slots need one more fact: a call that ends or fails takes its     *)
(* breaker out of half-open.                                               *)
(***************************************************************************)
EXTENDS ProviderCalls, FiniteSetTheorems, TLAPS

\* The breakers a program can hold: typed, and refusing only on evidence.
Sound ==
    {b \in [state: State, failures: 0..FailureThreshold,
            cooldown: {"none", "running", "over"}, trials: 0..TrialLimit] :
        /\ b.state = "closed" <=> b.failures < FailureThreshold
        /\ b.state = "open" => b.cooldown # "none"}

LEMMA BreakerFields ==
    ASSUME NEW s, NEW f, NEW c, NEW t
    PROVE  /\ Breaker(s, f, c, t).state = s /\ Breaker(s, f, c, t).failures = f
           /\ Breaker(s, f, c, t).cooldown = c /\ Breaker(s, f, c, t).trials = t
BY DEF Breaker

LEMMA SoundBreaker ==
    ASSUME NEW s \in State, NEW f \in 0..FailureThreshold,
           NEW c \in {"none", "running", "over"}, NEW t \in 0..TrialLimit,
           s = "closed" <=> f < FailureThreshold, s = "open" => c # "none"
    PROVE  Breaker(s, f, c, t) \in Sound
BY DEF Breaker, Sound

LEMMA CooledSound == ASSUME NEW b \in Sound PROVE Cooled(b) \in Sound
<1>1. CASE b.state = "open" /\ b.cooldown = "over"
  <2>1. b.failures \in 0..FailureThreshold /\ ~(b.failures < FailureThreshold)
    BY <1>1 DEF Sound
  <2>2. 0 \in 0..TrialLimit
    BY BoundAssumption
  <2> QED  BY <1>1, <2>1, <2>2, SoundBreaker DEF Cooled, State
<1>2. CASE ~(b.state = "open" /\ b.cooldown = "over")
  BY <1>2 DEF Cooled
<1> QED  BY <1>1, <1>2

LEMMA EnteredSound == ASSUME NEW b \in Sound, Admits(b) PROVE Entered(b) \in Sound
<1>1. CASE Cooled(b).state = "half_open"
  <2>1. Cooled(b).trials + 1 \in 0..TrialLimit
    BY <1>1, CooledSound, BoundAssumption DEF Admits, Sound
  <2>2. b.failures \in 0..FailureThreshold /\ ~(b.failures < FailureThreshold)
    BY <1>1 DEF Sound, Cooled
  <2>3. b.cooldown \in {"none", "running", "over"}
    BY DEF Sound
  <2> QED  BY <1>1, <2>1, <2>2, <2>3, SoundBreaker DEF Entered, State
<1>2. CASE Cooled(b).state # "half_open"
  BY <1>2 DEF Entered
<1> QED  BY <1>1, <1>2

LEMMA FailureSound ==
    ASSUME NEW b \in Sound
    PROVE  RecordFailure(b) \in Sound /\ RecordFailure(b).state # "half_open"
<1> DEFINE count == IF b.failures < FailureThreshold THEN b.failures + 1 ELSE FailureThreshold
           next == IF b.state = "half_open" \/ count >= FailureThreshold THEN "open" ELSE b.state
<1>1. /\ b.failures \in 0..FailureThreshold /\ b.trials \in 0..TrialLimit /\ b.state \in State
      /\ b.state = "closed" <=> b.failures < FailureThreshold
  BY DEF Sound
<1>2. /\ count \in 0..FailureThreshold /\ next \in State /\ next # "half_open"
      /\ next = "closed" <=> count < FailureThreshold
  BY <1>1, BoundAssumption DEF State
<1>3. (IF b.state = "half_open" THEN 0 ELSE b.trials) \in 0..TrialLimit
  BY <1>1, BoundAssumption
<1> HIDE DEF count, next
<1>4. Breaker(next, count, "running", IF b.state = "half_open" THEN 0 ELSE b.trials) \in Sound
  BY <1>2, <1>3, SoundBreaker
<1> QED  BY <1>2, <1>4, BreakerFields DEF RecordFailure, count, next

LEMMA SuccessSound ==
    ASSUME NEW b \in Sound
    PROVE  RecordSuccess(b) \in Sound /\ RecordSuccess(b).state # "half_open"
<1>0. 0 \in 0..TrialLimit /\ 0 \in 0..FailureThreshold /\ 0 < FailureThreshold
  BY BoundAssumption
<1>1. b.cooldown \in {"none", "running", "over"} /\ b.trials \in 0..TrialLimit /\ b.state \in State
  BY DEF Sound
<1>2. CASE b.state = "half_open"
  BY <1>0, <1>1, <1>2, SoundBreaker, BreakerFields DEF RecordSuccess, State
<1>3. CASE b.state = "closed"
  BY <1>0, <1>1, <1>3, SoundBreaker, BreakerFields DEF RecordSuccess, State
<1>4. CASE b.state = "open"
  BY <1>4 DEF RecordSuccess
<1> QED  BY <1>1, <1>2, <1>3, <1>4 DEF State

-----------------------------------------------------------------------------
(* Types and evidence.                                                     *)

Inv == TypeInv /\ breaker \in [Provider -> Sound]

LEMMA InitInv == Init => Inv
<1> SUFFICES ASSUME Init PROVE Inv
  OBVIOUS
<1>1. 0 \in 0..TrialLimit /\ 0 \in 0..FailureThreshold /\ 0 < FailureThreshold
      /\ 1 \in Provider /\ 0 \in 0..MaxAttempts
  BY BoundAssumption DEF Provider
<1>2. Breaker("closed", 0, "none", 0) \in Sound
  BY <1>1, SoundBreaker DEF State
<1>3. breaker \in [Provider -> Sound]
  BY <1>2 DEF Init
<1> QED  BY <1>1, <1>3 DEF Init, Inv, TypeInv, TypeOK, Sound, State

\* What a failover does to the tables, from sound breakers bs.
LEMMA FailoverInv ==
    ASSUME Inv, NEW c \in Caller, NEW p \in Nat \ {0}, NEW bs \in [Provider -> Sound],
           Failover(c, p, bs)
    PROVE  Inv'
<1>1. ASSUME NEW q \in p..Providers, Admits(bs[q]), Enter(c, q, bs) PROVE Inv'
  <2>1. q \in Provider /\ 1 \in 0..MaxAttempts
    BY BoundAssumption DEF Provider
  <2>2. Entered(bs[q]) \in Sound
    BY <1>1, <2>1, EnteredSound
  <2>3. breaker' \in [Provider -> Sound]
    BY <1>1, <2>2 DEF Enter
  <2>4. Entered(bs[q]).state \in State
    BY <2>2 DEF Sound
  <2> QED  BY <1>1, <2>1, <2>3, <2>4 DEF Enter, Inv, TypeInv, TypeOK, Sound
<1>2. ASSUME Finish(c, bs, "error") PROVE Inv'
  BY <1>2 DEF Finish, Inv, TypeInv, TypeOK, Sound
<1> QED  BY <1>1, <1>2 DEF Failover

LEMMA NextInv == Inv /\ [Next]_vars => Inv'
<1> SUFFICES ASSUME Inv, [Next]_vars PROVE Inv'
  OBVIOUS
<1>0. breaker \in [Provider -> Sound] /\ \A c \in Caller : at[c] \in Provider
  BY DEF Inv, TypeInv, TypeOK
<1>1. ASSUME NEW c \in Caller, Call(c) PROVE Inv'
  BY <1>0, <1>1, FailoverInv DEF Call
<1>2. ASSUME NEW c \in Caller, Answer(c) PROVE Inv'
  <2> DEFINE bs == [breaker EXCEPT ![at[c]] = Cooled(RecordSuccess(@))]
  <2>1. bs \in [Provider -> Sound]
    BY <1>0, SuccessSound, CooledSound
  <2>2. Finish(c, bs, "answer")
    BY <1>2 DEF Answer
  <2> HIDE DEF bs
  <2> QED  BY <2>1, <2>2 DEF Finish, Inv, TypeInv, TypeOK, Sound
<1>3. ASSUME NEW c \in Caller, Transient(c) PROVE Inv'
  BY <1>3 DEF Transient, Inv, TypeInv, TypeOK, Sound
<1>4. ASSUME NEW c \in Caller, Retry(c) PROVE Inv'
  BY <1>4, BoundAssumption DEF Retry, Inv, TypeInv, TypeOK, Sound
<1>5. ASSUME NEW c \in Caller, GiveUp(c) PROVE Inv'
  <2>1. [breaker EXCEPT ![at[c]] = RecordFailure(@)] \in [Provider -> Sound]
    BY <1>0, FailureSound
  <2>2. at[c] + 1 \in Nat \ {0}
    BY <1>0, BoundAssumption DEF Provider
  <2> QED  BY <1>5, <2>1, <2>2, FailoverInv DEF GiveUp
<1>6. ASSUME NEW c \in Caller, Stream(c) PROVE Inv'
  <2>1. 1 \in Provider
    BY BoundAssumption DEF Provider
  <2>2. Admits(breaker[1]) => RecordSuccess(Entered(breaker[1])) \in Sound
    BY <1>0, <2>1, EnteredSound, SuccessSound
  <2>3. breaker' \in [Provider -> Sound]
    BY <1>0, <1>6, <2>1, <2>2 DEF Stream
  <2> QED  BY <1>6, <2>3 DEF Stream, Inv, TypeInv, TypeOK, Sound
<1>7. ASSUME NEW p \in Provider, Cooldown(p) PROVE Inv'
  <2>1. breaker[p] \in Sound
    BY <1>0
  <2>2. Breaker(breaker[p].state, breaker[p].failures, "over", breaker[p].trials) \in Sound
    BY <2>1, SoundBreaker DEF Sound
  <2>3. breaker' \in [Provider -> Sound]
    BY <1>0, <1>7, <2>2 DEF Cooldown
  <2> QED  BY <1>7, <2>3 DEF Cooldown, Inv, TypeInv, TypeOK, Sound
<1>8. CASE UNCHANGED vars
  BY <1>8 DEF vars, Inv, TypeInv, TypeOK
<1> QED  BY <1>1, <1>2, <1>3, <1>4, <1>5, <1>6, <1>7, <1>8 DEF Next

LEMMA InvHolds == Spec => []Inv
BY InitInv, NextInv, PTL DEF Spec

\* The breakers and the callers stay well typed, and no retry loop makes more
\* attempts than it is configured for.
THEOREM TypeCorrect == Spec => []TypeInv
BY InvHolds, PTL DEF Inv

\* A breaker refuses only on evidence, and an open one can be tried again.
THEOREM Evidence == Spec => []RefusesOnEvidence
<1>1. Inv => RefusesOnEvidence
  BY DEF Inv, Sound, RefusesOnEvidence
<1> QED  BY <1>1, InvHolds, PTL

-----------------------------------------------------------------------------
(* Trial slots.                                                            *)

\* The slots given away by a breaker b of p do not outnumber n trials.
Covered(b, n) == b.state = "half_open" => b.trials <= n

LEMMA TrialsFinite ==
    ASSUME NEW p
    PROVE  /\ IsFiniteSet(Trials(p)) /\ IsFiniteSet(Trials(p)')
           /\ Cardinality(Trials(p)) \in Nat /\ Cardinality(Trials(p)') \in Nat
<1>1. IsFiniteSet(Trials(p)) /\ IsFiniteSet(Trials(p)')
  BY CallerAssumption, FS_Subset DEF Trials, InFlight
<1> QED  BY <1>1, FS_CardinalityType

\* A breaker untouched, its trials still running.
LEMMA StillCovered ==
    ASSUME NEW p, NEW b \in Sound, Covered(b, Cardinality(Trials(p))),
           Trials(p) \subseteq Trials(p)'
    PROVE  Covered(b, Cardinality(Trials(p)'))
<1>1. Cardinality(Trials(p)) <= Cardinality(Trials(p)')
  BY TrialsFinite, FS_Subset
<1>2. b.trials \in Nat
  BY BoundAssumption DEF Sound
<1> QED  BY <1>1, <1>2, TrialsFinite DEF Covered

\* A breaker entered by one more trial.
LEMMA OneMoreTrial ==
    ASSUME NEW p, NEW c, NEW b \in Sound, Covered(b, Cardinality(Trials(p))),
           c \notin Trials(p), Entered(b).state = "half_open" => Trials(p)' = Trials(p) \cup {c}
    PROVE  Covered(Entered(b), Cardinality(Trials(p)'))
<1> SUFFICES ASSUME Entered(b).state = "half_open"
             PROVE  Entered(b).trials <= Cardinality(Trials(p)')
  BY DEF Covered
<1>1. Cardinality(Trials(p)') = Cardinality(Trials(p)) + 1
  BY TrialsFinite, FS_AddElement
<1>2. Cooled(b).state = "half_open"
  BY DEF Entered, Cooled
<1>3. Entered(b).trials = Cooled(b).trials + 1
  BY <1>2, BreakerFields DEF Entered
<1>4. Cooled(b).trials <= Cardinality(Trials(p))
  <2>1. CASE b.state = "open" /\ b.cooldown = "over"
    BY <2>1, BreakerFields, TrialsFinite DEF Cooled
  <2>2. CASE ~(b.state = "open" /\ b.cooldown = "over")
    BY <1>2, <2>2 DEF Cooled, Covered
  <2> QED  BY <2>1, <2>2
<1>5. Cooled(b).trials \in Nat
  BY CooledSound, BoundAssumption DEF Sound
<1> QED  BY <1>1, <1>3, <1>4, <1>5, TrialsFinite

\* A failover from breakers bs whose slots are covered, c's own trial excepted.
LEMMA FailoverCovered ==
    ASSUME Inv, NEW c \in Caller, NEW p \in Nat \ {0}, NEW bs \in [Provider -> Sound],
           Failover(c, p, bs),
           \A r \in Provider : Covered(bs[r], Cardinality(Trials(r))),
           \A r \in Provider : c \in Trials(r) => bs[r].state # "half_open" /\ r < p
    PROVE  \A r \in Provider : Covered(breaker'[r], Cardinality(Trials(r)'))
<1> SUFFICES ASSUME NEW r \in Provider
             PROVE  Covered(breaker'[r], Cardinality(Trials(r)'))
  OBVIOUS
<1>1. ASSUME NEW q \in p..Providers, Admits(bs[q]), Enter(c, q, bs)
      PROVE  Covered(breaker'[r], Cardinality(Trials(r)'))
  <2>1. q \in Provider /\ p <= q
    BY BoundAssumption DEF Provider
  <2>2. CASE r = q
    <3>1. c \notin Trials(q)
      BY <2>1 DEF Provider
    <3>2. breaker'[q] = Entered(bs[q])
      BY <1>1, <2>1 DEF Enter
    <3>3. Entered(bs[q]).state = "half_open" => Trials(q)' = Trials(q) \cup {c}
      BY <1>1, <2>1 DEF Enter, Trials, InFlight, Inv, TypeInv, TypeOK
    <3> QED  BY <2>1, <2>2, <3>1, <3>2, <3>3, OneMoreTrial
  <2>3. CASE r # q
    <3>1. breaker'[r] = bs[r]
      BY <1>1, <2>1, <2>3 DEF Enter
    <3>2. CASE c \in Trials(r)
      BY <3>1, <3>2 DEF Covered
    <3>3. CASE c \notin Trials(r)
      <4>1. Trials(r) \subseteq Trials(r)'
        BY <1>1, <2>3, <3>3 DEF Enter, Trials, InFlight, Inv, TypeInv, TypeOK
      <4> QED  BY <3>1, <4>1, StillCovered
    <3> QED  BY <3>2, <3>3
  <2> QED  BY <2>2, <2>3
<1>2. ASSUME Finish(c, bs, "error")
      PROVE  Covered(breaker'[r], Cardinality(Trials(r)'))
  <2>1. breaker'[r] = bs[r]
    BY <1>2 DEF Finish
  <2>2. CASE c \in Trials(r)
    BY <2>1, <2>2 DEF Covered
  <2>3. CASE c \notin Trials(r)
    <3>1. Trials(r) \subseteq Trials(r)'
      BY <1>2, <2>3 DEF Finish, Trials, InFlight, Inv, TypeInv, TypeOK
    <3> QED  BY <2>1, <3>1, StillCovered
  <2> QED  BY <2>2, <2>3
<1> QED  BY <1>1, <1>2 DEF Failover

Slots == \A r \in Provider : Covered(breaker[r], Cardinality(Trials(r)))

LEMMA NextSlots == Inv /\ Slots /\ [Next]_vars => Slots'
<1> SUFFICES ASSUME Inv, Slots, [Next]_vars PROVE Slots'
  OBVIOUS
<1>0. breaker \in [Provider -> Sound] /\ \A c \in Caller : at[c] \in Provider
  BY DEF Inv, TypeInv, TypeOK
<1>1. ASSUME NEW c \in Caller, Call(c) PROVE Slots'
  <2>1. \A r \in Provider : c \notin Trials(r)
    BY <1>1 DEF Call, Trials, InFlight
  <2>2. Failover(c, 1, breaker)
    BY <1>1 DEF Call
  <2> QED  BY <1>0, <2>1, <2>2, FailoverCovered DEF Slots
<1>2. ASSUME NEW c \in Caller, Answer(c), NEW r \in Provider
      PROVE  Covered(breaker'[r], Cardinality(Trials(r)'))
  <2>1. CASE r = at[c]
    <3>1. breaker'[r] = Cooled(RecordSuccess(breaker[r]))
      BY <1>0, <1>2, <2>1 DEF Answer, Finish
    <3>2. breaker'[r].state = "half_open" => breaker'[r].trials = 0
      BY <1>0, <3>1, SuccessSound, BreakerFields DEF Cooled
    <3> QED  BY <3>2, TrialsFinite DEF Covered
  <2>2. CASE r # at[c]
    <3>1. breaker'[r] = breaker[r]
      BY <1>0, <1>2, <2>2 DEF Answer, Finish
    <3>2. Trials(r) \subseteq Trials(r)'
      BY <1>2, <2>2 DEF Answer, Finish, Trials, InFlight, Inv, TypeInv, TypeOK
    <3> QED  BY <1>0, <3>1, <3>2, StillCovered DEF Slots
  <2> QED  BY <2>1, <2>2
<1>3. ASSUME NEW c \in Caller, Transient(c) \/ Retry(c), NEW r \in Provider
      PROVE  Covered(breaker'[r], Cardinality(Trials(r)'))
  <2>1. breaker' = breaker /\ Trials(r) \subseteq Trials(r)'
    BY <1>3 DEF Transient, Retry, Trials, InFlight, Inv, TypeInv, TypeOK
  <2> QED  BY <1>0, <2>1, StillCovered DEF Slots
<1>4. ASSUME NEW c \in Caller, GiveUp(c) PROVE Slots'
  <2> DEFINE bs == [breaker EXCEPT ![at[c]] = RecordFailure(@)]
  <2>1. bs \in [Provider -> Sound] /\ bs[at[c]].state # "half_open"
    BY <1>0, FailureSound
  <2>2. \A r \in Provider : Covered(bs[r], Cardinality(Trials(r)))
    BY <1>0, <2>1 DEF Slots, Covered
  <2>3. \A r \in Provider : c \in Trials(r) => r = at[c]
    BY DEF Trials, InFlight
  <2>4. at[c] + 1 \in Nat \ {0} /\ at[c] < at[c] + 1
    BY <1>0 DEF Provider
  <2>5. Failover(c, at[c] + 1, bs)
    BY <1>4 DEF GiveUp
  <2> HIDE DEF bs
  <2> QED  BY <2>1, <2>2, <2>3, <2>4, <2>5, FailoverCovered DEF Slots
<1>5. ASSUME NEW c \in Caller, Stream(c), NEW r \in Provider
      PROVE  Covered(breaker'[r], Cardinality(Trials(r)'))
  <2>1. Trials(r)' = Trials(r)
    BY <1>5 DEF Stream, Trials, InFlight
  <2>2. CASE r = 1 /\ Admits(breaker[1])
    BY <1>0, <1>5, <2>2, EnteredSound, SuccessSound DEF Stream, Covered
  <2>3. CASE ~(r = 1 /\ Admits(breaker[1]))
    <3>1. breaker'[r] = breaker[r]
      BY <1>0, <1>5, <2>3 DEF Stream
    <3> QED  BY <1>0, <2>1, <3>1, StillCovered DEF Slots
  <2> QED  BY <2>2, <2>3
<1>6. ASSUME NEW p \in Provider, Cooldown(p), NEW r \in Provider
      PROVE  Covered(breaker'[r], Cardinality(Trials(r)'))
  <2>1. Trials(r)' = Trials(r)
    BY <1>6 DEF Cooldown, Trials, InFlight
  <2>2. breaker'[r].state = breaker[r].state /\ breaker'[r].trials = breaker[r].trials
    BY <1>0, <1>6, BreakerFields DEF Cooldown
  <2> QED  BY <2>1, <2>2 DEF Slots, Covered
<1>7. CASE UNCHANGED vars
  BY <1>7 DEF vars, Slots, Covered, Trials, InFlight
<1> QED  BY <1>1, <1>2, <1>3, <1>4, <1>5, <1>6, <1>7 DEF Next, Slots

\* Every trial slot given away belongs to a call in flight: without
\* cancellation no slot leaks, and a half-open breaker is never stuck.
THEOREM SlotsHeld == Spec => []TrialSlotsAreHeld
<1>1. Init => Slots
  BY BreakerFields DEF Init, Slots, Covered
<1>2. Slots => TrialSlotsAreHeld
  BY DEF Slots, Covered, TrialSlotsAreHeld
<1> QED  BY <1>1, <1>2, NextSlots, InvHolds, PTL DEF Spec

-----------------------------------------------------------------------------
(* Failover.                                                               *)

\* With a healthy candidate p: it is closed, nobody has gone past it, and no
\* call has raised.
Served(p) ==
    /\ breaker[p].state = "closed" /\ breaker[p].failures = 0
    /\ \A c \in Caller : outcome[c] # "error" /\ (pc[c] # "idle" => at[c] <= p)

LEMMA FailoverServes ==
    ASSUME Inv, NEW p \in healthy, Served(p), NEW c \in Caller, NEW k \in Nat \ {0},
           k <= p, NEW bs \in [Provider -> Sound], bs[p] = breaker[p], Failover(c, k, bs)
    PROVE  Served(p)'
<1>0. p \in Provider /\ p \in k..Providers
  BY BoundAssumption DEF Provider, Inv, TypeInv, TypeOK
<1>1. Admits(bs[p]) /\ Entered(bs[p]) = bs[p]
  BY DEF Admits, Entered, Cooled, Served
<1>2. PICK q \in k..Providers : /\ Enter(c, q, bs)
                              /\ \A r \in k..Providers : r < q => ~Admits(bs[r])
  BY <1>0, <1>1 DEF Failover
<1>3. q <= p /\ q \in Provider
  BY <1>0, <1>1, <1>2, BoundAssumption DEF Provider
<1>4. breaker'[p] = breaker[p]
  BY <1>0, <1>1, <1>2, <1>3 DEF Enter
<1> QED  BY <1>2, <1>3, <1>4 DEF Enter, Served, Inv, TypeInv, TypeOK

\* Which candidates are healthy does not change.
LEMMA HealthyStays == [Next]_vars => healthy' = healthy
BY DEF Next, vars, Call, Answer, Transient, Retry, GiveUp, Stream, Cooldown, Failover, Enter, Finish

LEMMA StepServes ==
    ASSUME Inv, [Next]_vars, NEW p \in healthy, Served(p)
    PROVE  Served(p)'
<1>8. p \in Provider
  BY DEF Inv, TypeInv, TypeOK
<1>0. breaker \in [Provider -> Sound] /\ \A c \in Caller : at[c] \in Provider
  BY DEF Inv, TypeInv, TypeOK
<1>1. ASSUME NEW c \in Caller, Call(c) PROVE Served(p)'
  <2>1. 1 <= p
    BY <1>8 DEF Provider
  <2> QED  BY <1>0, <1>1, <2>1, FailoverServes DEF Call
<1>2. ASSUME NEW c \in Caller, Answer(c) PROVE Served(p)'
  <2>1. Cooled(RecordSuccess(breaker[p])).state = "closed"
        /\ Cooled(RecordSuccess(breaker[p])).failures = 0
    BY BreakerFields DEF Served, RecordSuccess, Cooled
  <2>2. breaker'[p].state = "closed" /\ breaker'[p].failures = 0
    BY <1>8, <1>0, <1>2, <2>1 DEF Answer, Finish, Served
  <2> QED  BY <1>2, <2>2 DEF Answer, Finish, Served, Inv, TypeInv, TypeOK
<1>3. ASSUME NEW c \in Caller, Transient(c) \/ Retry(c) PROVE Served(p)'
  BY <1>3 DEF Transient, Retry, Served, Inv, TypeInv, TypeOK
<1>4. ASSUME NEW c \in Caller, GiveUp(c) PROVE Served(p)'
  <2> DEFINE bs == [breaker EXCEPT ![at[c]] = RecordFailure(@)]
  <2>1. at[c] # p /\ at[c] <= p
    BY <1>4 DEF GiveUp, Served
  <2>2. at[c] + 1 \in Nat \ {0} /\ at[c] + 1 <= p
    BY <1>8, <1>0, <2>1, BoundAssumption DEF Provider
  <2>3. bs \in [Provider -> Sound] /\ bs[p] = breaker[p]
    BY <1>8, <1>0, <2>1, FailureSound
  <2>4. Failover(c, at[c] + 1, bs)
    BY <1>4 DEF GiveUp
  <2> HIDE DEF bs
  <2> QED  BY <2>2, <2>3, <2>4, FailoverServes
<1>5. ASSUME NEW c \in Caller, Stream(c) PROVE Served(p)'
  <2>1. breaker'[p].state = "closed" /\ breaker'[p].failures = 0
    <3>1. CASE p = 1 /\ Admits(breaker[1])
      <4>1. breaker[1].state = "closed" /\ Entered(breaker[1]) = breaker[1]
        BY <3>1 DEF Served, Entered, Cooled
      <4>2. RecordSuccess(breaker[1]) = Breaker("closed", 0, breaker[1].cooldown, breaker[1].trials)
        BY <4>1 DEF RecordSuccess
      <4>3. breaker'[1] = RecordSuccess(Entered(breaker[1]))
        BY <1>8, <1>0, <1>5, <3>1 DEF Stream
      <4> QED  BY <3>1, <4>1, <4>2, <4>3, BreakerFields
    <3>2. CASE ~(p = 1 /\ Admits(breaker[1]))
      <4>1. breaker'[p] = breaker[p]
        BY <1>8, <1>0, <1>5, <3>2 DEF Stream
      <4> QED  BY <4>1 DEF Served
    <3> QED  BY <3>1, <3>2
  <2>2. UNCHANGED <<pc, at>> /\ \A d \in Caller : outcome'[d] # "error"
    <3>1. \E how \in {"stream", "refused"} : outcome' = [outcome EXCEPT ![c] = how]
      BY <1>5 DEF Stream
    <3>2. outcome \in [Caller -> {"none", "answer", "error", "stream", "refused"}]
      BY DEF Inv, TypeInv, TypeOK
    <3>3. UNCHANGED <<pc, at>>
      BY <1>5 DEF Stream
    <3> QED  BY <3>1, <3>2, <3>3 DEF Served
  <2> QED  BY <2>1, <2>2 DEF Served
<1>6. ASSUME NEW q \in Provider, Cooldown(q) PROVE Served(p)'
  <2>1. breaker'[p].state = breaker[p].state /\ breaker'[p].failures = breaker[p].failures
    BY <1>8, <1>0, <1>6, BreakerFields DEF Cooldown
  <2> QED  BY <1>6, <2>1 DEF Cooldown, Served
<1>7. CASE UNCHANGED vars
  BY <1>7 DEF vars, Served
<1> QED  BY <1>1, <1>2, <1>3, <1>4, <1>5, <1>6, <1>7 DEF Next

LEMMA ServedThroughout == Spec => [](\A p \in healthy : Served(p))
<1> DEFINE All == \A p \in healthy : Served(p)
<1>1. Init => All
  BY BreakerFields DEF Init, Served
<1>2. Inv /\ All /\ [Next]_vars => All'
  BY HealthyStays, StepServes
<1> HIDE DEF All
<1>3. Spec => []All
  BY <1>1, <1>2, InvHolds, PTL DEF Spec
<1> QED  BY <1>3 DEF All

\* As long as one candidate never raises, no call of complete raises.
THEOREM Serves == Spec => []HealthyCandidateServes
<1>1. (\A p \in healthy : Served(p)) => HealthyCandidateServes
  BY DEF Served, HealthyCandidateServes
<1> QED  BY <1>1, ServedThroughout, PTL
=============================================================================
