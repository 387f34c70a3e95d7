--------------------------- MODULE MessagesProofs ---------------------------
(***************************************************************************)
(* Proofs about the ways of a message.                                     *)
(*                                                                         *)
(* Out, Deliveries: what a record says is true, duplicates are bounded by  *)
(* attempts and faults, and no chunk overtakes another.  All follow from   *)
(* what the transaction open on a record may have changed of it, and from  *)
(* how far its attempt is.                                                 *)
(*                                                                         *)
(* In, Inbound: it is accepted once, for the one principal of its sender,  *)
(* since unique keys make the second writer wait.  And past the limiter,   *)
(* RateLimits, which is instantiated: what it assumes of its limits is a   *)
(* hypothesis here.                                                        *)
(***************************************************************************)
EXTENDS Deliveries, Inbound, Integers, FiniteSetTheorems, TLAPS

Typed ==
    /\ answered \subseteq Reply /\ todo \subseteq Reply /\ due \subseteq Reply
    /\ status \in [Reply -> {"absent", "pending"} \cup Final]
    /\ seen \in [Reply -> {"absent", "pending"} \cup Final]
    /\ attempts \in [Reply -> Nat] /\ tried \in [Reply -> Nat]
    /\ stage \in [Reply -> {"none", "owed", "sending", "settled"}]
    /\ part \in [Reply -> Nat]
    /\ received = [d \in Reply |-> received[d]]
    /\ \A d \in Reply : received[d] \in [Chunk(d) -> Nat]
    /\ sweep \in {"idle", "running"} /\ faults \in Nat

One(b) == IF b THEN 1 ELSE 0
Delivered(d) == One(seen[d] = "delivered")

\* The record of d, and the transaction open on it.
Tracked(d) ==
    /\ d \notin answered => stage[d] = "none" /\ status[d] = "absent"
    /\ status[d] = "absent" => attempts[d] = 0
    /\ stage[d] \in {"none", "owed"} => seen[d] = status[d] /\ tried[d] = attempts[d]
    /\ stage[d] = "owed" => status[d] = "absent"
    /\ stage[d] = "sending" => seen[d] = "pending" /\ tried[d] = attempts[d]
    /\ stage[d] = "settled" => seen[d] # "absent" /\ tried[d] + Delivered(d) <= attempts[d] + 1
    /\ stage[d] \in {"sending", "settled"} => status[d] \in {"absent", "pending"}
    /\ seen[d] = "pending" => tried[d] < MaxAttempts
    /\ tried[d] + Delivered(d) <= MaxAttempts
    /\ attempts[d] <= tried[d]
    /\ status[d] = "pending" => attempts[d] < MaxAttempts
    /\ d \in todo => status[d] = "pending" /\ stage[d] = "none"

\* What the recipient has, and what is said of it.
Told(d) ==
    /\ seen[d] = "delivered" \/ status[d] = "delivered" => \A k \in Chunk(d) : received[d][k] > 0
    /\ seen[d] = "failed" => tried[d] = MaxAttempts \/ d \in aged
    /\ status[d] = "failed" => attempts[d] = MaxAttempts \/ d \in aged
    /\ stage[d] = "sending" =>
         part[d] <= Chunks[d] /\ \A k \in Chunk(d) : k <= part[d] => received[d][k] > 0

\* The chunks of the attempt in progress come on top of those of the others.
Out(d, k) == One(seen[d] = "delivered" \/ (stage[d] = "sending" /\ k <= part[d]))

Counted(d) == \A k \in Chunk(d) : received[d][k] <= tried[d] + faults + Out(d, k)

Ordered(d) ==
    \A j, k \in Chunk(d) : j < k =>
        /\ received[d][j] >= received[d][k]
        /\ stage[d] = "sending" /\ j <= part[d] /\ part[d] < k => received[d][j] > received[d][k]

Sound(d) == Tracked(d) /\ Told(d) /\ Counted(d) /\ Ordered(d)

\* Between two passes nothing of a record is under way.
Rests == sweep = "idle" => todo = {} /\ \A d \in Reply : status[d] # "absent" => stage[d] = "none"

IInv == Typed /\ Rests /\ \A d \in Reply : Sound(d)

-----------------------------------------------------------------------------
\* A step leaves the record and the attempt of d alone; time goes on.
Still(d) ==
    /\ status'[d] = status[d] /\ attempts'[d] = attempts[d]
    /\ seen'[d] = seen[d] /\ tried'[d] = tried[d]
    /\ stage'[d] = stage[d] /\ part'[d] = part[d] /\ received'[d] = received[d]
    /\ d \in answered' <=> d \in answered
    /\ d \in todo' => d \in todo
Onward == aged \subseteq aged' /\ faults' \in Nat /\ faults' >= faults

LEMMA Untouched ==
    ASSUME NEW d \in Reply, Typed, Sound(d), Still(d), Onward
    PROVE  Sound(d)'
  <1>1. Tracked(d)'
    BY DEF Sound, Tracked, Delivered, One, Still
  <1>2. Told(d)'
    BY DEF Sound, Told, Still, Onward, Chunk
  <1>3. Counted(d)'
    <2>1. \A k \in Chunk(d) : Out(d, k)' = Out(d, k)
      BY DEF Out, One, Still
    <2>2. \A k \in Chunk(d) : received[d][k] \in Nat /\ tried[d] \in Nat /\ Out(d, k) \in Nat
      BY DEF Typed, Out, One
    <2>3. Chunk(d)' = Chunk(d)
      BY DEF Chunk
    <2> QED BY <2>1, <2>2, <2>3 DEF Sound, Counted, Typed, Still, Onward
  <1>4. Ordered(d)'
    BY DEF Sound, Ordered, Chunk, Still
  <1> QED BY <1>1, <1>2, <1>3, <1>4 DEF Sound

LEMMA Bounds ==
    /\ MaxAttempts \in Nat \ {0}
    /\ \A d \in Reply : Chunks[d] \in Nat \ {0}
    /\ \A b : One(b) \in {0, 1}
  BY BoundAssumption DEF One

LEMMA ChunkNumbers ==
    ASSUME Typed, NEW d \in Reply, NEW k \in Chunk(d)
    PROVE  received[d][k] \in Nat /\ k \in Nat
  <1>1. received[d][k] \in Nat
    BY DEF Typed
  <1>2. k \in Nat
    BY Bounds DEF Chunk
  <1> QED BY <1>1, <1>2

\* One reply moves, the others do not.
LEMMA Moves ==
    ASSUME IInv, NEW d \in Reply, Typed', Rests', Sound(d)',
           \A e \in Reply \ {d} : Still(e), Onward
    PROVE  IInv'
  <1>1. ASSUME NEW e \in Reply \ {d} PROVE Sound(e)'
    BY Untouched DEF IInv
  <1> QED BY <1>1 DEF IInv

LEMMA Answers ==
    ASSUME IInv, NEW d \in Reply, Answer(d)
    PROVE  IInv'
  <1>1. /\ d \notin answered /\ answered' = answered \cup {d}
        /\ stage' = [stage EXCEPT ![d] = "owed"]
        /\ UNCHANGED <<status, attempts, seen, tried, due, aged, part, sweep, todo, received, faults>>
    BY DEF Answer, Stage, rows
  <1>2. Typed'
    BY <1>1 DEF IInv, Typed, Chunk
  <1>3. Rests'
    BY <1>1 DEF IInv, Typed, Rests, Sound, Tracked
  <1>4. Sound(d)'
    BY <1>1, Bounds
    DEF IInv, Typed, Sound, Tracked, Told, Counted, Ordered, Out, Delivered, One, Chunk
  <1>5. Onward /\ \A e \in Reply \ {d} : Still(e)
    BY <1>1 DEF IInv, Typed, Onward, Still
  <1> QED BY <1>2, <1>3, <1>4, <1>5, Moves

LEMMA Enqueues ==
    ASSUME IInv, NEW d \in Reply, Enqueue(d)
    PROVE  IInv'
  <1>1. /\ stage[d] = "owed" /\ stage' = [stage EXCEPT ![d] = "sending"]
        /\ seen' = [seen EXCEPT ![d] = "pending"] /\ part' = [part EXCEPT ![d] = 0]
        /\ UNCHANGED <<answered, status, attempts, tried, due, aged, sweep, todo, received, faults>>
    BY DEF Enqueue, Stage, rows
  <1>2. Typed'
    BY <1>1 DEF IInv, Typed, Chunk
  <1>3. Rests'
    BY <1>1 DEF IInv, Typed, Rests, Sound, Tracked
  <1>4. Sound(d)'
    <2>1. status[d] = "absent" /\ tried[d] = 0 /\ seen[d] = "absent"
      BY <1>1 DEF IInv, Sound, Tracked
    <2>2. Tracked(d)' /\ Told(d)'
      BY <1>1, <2>1, Bounds DEF IInv, Typed, Sound, Tracked, Told, Delivered, One, Chunk
    <2>3. seen'[d] = "pending" /\ part'[d] = 0 /\ stage'[d] = "sending"
      BY <1>1 DEF IInv, Typed
    <2>4. Counted(d)'
      <3>1. \A k \in Chunk(d) : received[d][k] <= faults /\ received[d][k] \in Nat
        BY <1>1, <2>1 DEF IInv, Typed, Sound, Counted, Out, One
      <3>2. \A k \in Chunk(d) : Out(d, k)' \in {0, 1}
        BY DEF Out, One
      <3>3. \A k \in Chunk(d) : received[d][k] <= tried[d] + faults + Out(d, k)'
        BY <2>1, <3>1, <3>2 DEF IInv, Typed
      <3> QED BY <1>1, <3>3 DEF Counted, Chunk
    <2>5. Ordered(d)'
      BY <1>1, <2>3 DEF IInv, Sound, Ordered, Chunk
    <2> QED BY <2>2, <2>4, <2>5 DEF Sound
  <1>5. Onward /\ \A e \in Reply \ {d} : Still(e)
    BY <1>1 DEF IInv, Typed, Onward, Still
  <1> QED BY <1>2, <1>3, <1>4, <1>5, Moves

\* A chunk goes out, whatever the client says of it.
LEMMA SendsChunk ==
    ASSUME IInv, NEW d \in Reply, SendChunk(d)
    PROVE  IInv'
  <1> DEFINE p == part[d] + 1
  <1>1. /\ stage[d] = "sending" /\ part[d] < Chunks[d]
        /\ received' = [received EXCEPT ![d][p] = @ + 1]
        /\ part' = [part EXCEPT ![d] = p]
        /\ UNCHANGED <<answered, status, attempts, seen, tried, due, aged, stage, sweep, todo, faults>>
    BY DEF SendChunk, Hand, rows
  <1>2. p \in Chunk(d) /\ part[d] \in Nat /\ p = part[d] + 1
    BY <1>1, Bounds DEF IInv, Typed, Chunk
  <1> HIDE DEF p
  <1>3. /\ received'[d] \in [Chunk(d) -> Nat]
        /\ received'[d][p] = received[d][p] + 1
        /\ \A k \in Chunk(d) \ {p} : received'[d][k] = received[d][k]
        /\ \A e \in Reply \ {d} : received'[e] = received[e]
        /\ received' = [e \in Reply |-> received'[e]]
        /\ part'[d] = p
    <2>1. received[d] \in [Chunk(d) -> Nat] /\ received = [e \in Reply |-> received[e]]
      BY DEF IInv, Typed
    <2>2. /\ received'[d] = [received[d] EXCEPT ![p] = @ + 1]
          /\ \A e \in Reply \ {d} : received'[e] = received[e]
          /\ received' = [e \in Reply |-> received'[e]]
      BY <1>1, <2>1
    <2>3. part'[d] = p
      BY <1>1 DEF IInv, Typed
    <2> QED BY <1>2, <2>1, <2>2, <2>3
  <1>4. Typed'
    BY <1>1, <1>2, <1>3 DEF IInv, Typed, Chunk
  <1>5. Rests'
    BY <1>1 DEF IInv, Rests
  <1>6. Tracked(d)'
    BY <1>1 DEF IInv, Sound, Tracked, Delivered, One
  <1>7. Told(d)'
    <2>1. Chunks[d] \in Nat /\ Chunk(d) = 1..Chunks[d] /\ Chunk(d)' = Chunk(d)
      BY Bounds DEF Chunk
    <2>2. \A k \in Chunk(d) : received[d][k] \in Nat
      BY DEF IInv, Typed
    <2>3. \A k \in Chunk(d) : received'[d][k] >= received[d][k]
      BY <1>2, <1>3, <2>2
    <2>4. \A k \in Chunk(d) : k <= p => received'[d][k] > 0
      BY <1>1, <1>2, <1>3, <2>1, <2>2 DEF IInv, Sound, Told
    <2>5. p <= Chunks[d]
      BY <1>2, <2>1
    <2>6. \A k \in Chunk(d) : received'[d][k] \in Nat
      BY <1>3
    <2>7. seen[d] = "delivered" \/ status[d] = "delivered" => \A k \in Chunk(d) : received'[d][k] > 0
      BY <2>2, <2>3, <2>6 DEF IInv, Sound, Told
    <2> QED BY <1>1, <1>3, <2>1, <2>4, <2>5, <2>7 DEF IInv, Sound, Told
  <1>8. Counted(d)'
    <2>1. seen[d] = "pending"
      BY <1>1 DEF IInv, Sound, Tracked
    <2>2. \A k \in Chunk(d) : received[d][k] <= tried[d] + faults + (IF k <= part[d] THEN 1 ELSE 0)
      BY <1>1, <2>1 DEF IInv, Sound, Counted, Out, One
    <2>3. \A k \in Chunk(d) : received'[d][k] <= tried[d] + faults + (IF k <= p THEN 1 ELSE 0)
      <3>1. /\ \A k \in Chunk(d) : received[d][k] \in Nat /\ k \in Nat
            /\ tried[d] \in Nat /\ faults \in Nat
        BY ChunkNumbers DEF IInv, Typed
      <3> QED BY <1>2, <1>3, <2>2, <3>1
    <2> QED BY <1>1, <1>3, <2>1, <2>3 DEF Counted, Out, One, Chunk
  <1>9. Ordered(d)'
    <2>1. \A k \in Chunk(d) : received[d][k] \in Nat /\ k \in Nat
      BY ChunkNumbers DEF IInv
    <2>2. \A j, k \in Chunk(d) : j < k =>
            /\ received[d][j] >= received[d][k]
            /\ j <= part[d] /\ part[d] < k => received[d][j] > received[d][k]
      BY <1>1 DEF IInv, Sound, Ordered
    <2>3. ASSUME NEW j \in Chunk(d), NEW k \in Chunk(d), j < k
          PROVE  /\ received'[d][j] >= received'[d][k]
                 /\ j <= p /\ p < k => received'[d][j] > received'[d][k]
      <3>1. CASE j = p
        BY <1>2, <1>3, <2>1, <2>2, <2>3, <3>1
      <3>2. CASE k = p
        BY <1>2, <1>3, <2>1, <2>2, <2>3, <3>2
      <3>3. CASE j # p /\ k # p
        BY <1>2, <1>3, <2>1, <2>2, <2>3, <3>3
      <3> QED BY <3>1, <3>2, <3>3
    <2> QED BY <1>1, <1>3, <2>3 DEF Ordered, Chunk
  <1>10. Sound(d)'
    BY <1>6, <1>7, <1>8, <1>9 DEF Sound
  <1>11. Onward /\ \A e \in Reply \ {d} : Still(e)
    BY <1>1, <1>3 DEF IInv, Typed, Onward, Still
  <1> QED BY <1>4, <1>5, <1>10, <1>11, Moves

\* The order of what was sent outlives the attempt.
LEMMA StaysOrdered ==
    ASSUME NEW d \in Reply, Sound(d), received'[d] = received[d], stage'[d] # "sending"
    PROVE  Ordered(d)'
  BY DEF Sound, Ordered, Chunk

\* The client raises, after the recipient has the chunk or before.
LEMMA Raises ==
    ASSUME IInv, NEW d \in Reply, SendFails(d)
    PROVE  IInv'
  <1> DEFINE p == part[d] + 1
  <1>1. PICK got \in BOOLEAN :
           received' = [received EXCEPT ![d][p] = IF got THEN @ + 1 ELSE @]
    BY DEF SendFails, Hand
  <1>2. /\ stage[d] = "sending" /\ part[d] < Chunks[d]
        /\ tried' = [tried EXCEPT ![d] = @ + 1]
        /\ seen' = [seen EXCEPT ![d] = IF tried[d] + 1 >= MaxAttempts THEN "failed" ELSE @]
        /\ stage' = [stage EXCEPT ![d] = "settled"]
        /\ UNCHANGED <<answered, status, attempts, due, aged, part, sweep, todo, faults>>
    BY DEF SendFails, Stage, rows
  <1>3. p \in Chunk(d) /\ part[d] \in Nat /\ p = part[d] + 1
    BY <1>2, Bounds DEF IInv, Typed, Chunk
  <1> HIDE DEF p
  <1>4. /\ received'[d] \in [Chunk(d) -> Nat]
        /\ received'[d][p] \in {received[d][p], received[d][p] + 1}
        /\ \A k \in Chunk(d) \ {p} : received'[d][k] = received[d][k]
        /\ \A e \in Reply \ {d} : received'[e] = received[e]
        /\ received' = [e \in Reply |-> received'[e]]
    <2>1. received[d] \in [Chunk(d) -> Nat] /\ received = [e \in Reply |-> received[e]]
      BY DEF IInv, Typed
    <2>2. /\ received'[d] = [received[d] EXCEPT ![p] = IF got THEN @ + 1 ELSE @]
          /\ \A e \in Reply \ {d} : received'[e] = received[e]
          /\ received' = [e \in Reply |-> received'[e]]
      BY <1>1, <2>1
    <2>3. received[d][p] \in Nat
      BY <1>3, <2>1
    <2> QED BY <1>3, <2>1, <2>2, <2>3
  <1>5. Typed'
    <2>1. tried' \in [Reply -> Nat]
      BY <1>2 DEF IInv, Typed
    <2>2. \A e \in Reply : received'[e] \in [Chunk(e) -> Nat]
      BY <1>4 DEF IInv, Typed
    <2>3. seen' \in [Reply -> {"absent", "pending"} \cup Final]
      BY <1>2 DEF IInv, Typed, Final
    <2>4. stage' \in [Reply -> {"none", "owed", "sending", "settled"}]
      BY <1>2 DEF IInv, Typed
    <2> QED BY <1>2, <1>4, <2>1, <2>2, <2>3, <2>4 DEF IInv, Typed, Chunk
  <1>6. Rests'
    BY <1>2 DEF IInv, Typed, Rests, Sound, Tracked
  <1>7. /\ seen[d] = "pending" /\ tried[d] < MaxAttempts /\ tried[d] = attempts[d]
        /\ tried[d] \in Nat /\ tried'[d] = tried[d] + 1 /\ stage'[d] = "settled"
        /\ seen'[d] = IF tried[d] + 1 >= MaxAttempts THEN "failed" ELSE "pending"
    BY <1>2 DEF IInv, Typed, Sound, Tracked
  <1>8. Tracked(d)'
    BY <1>2, <1>7, Bounds DEF IInv, Sound, Tracked, Delivered, One
  <1>9. Told(d)'
    <2>1. status[d] # "delivered" /\ seen'[d] # "delivered"
      BY <1>2, <1>7 DEF IInv, Sound, Tracked
    <2> QED BY <1>2, <1>7, <2>1, Bounds DEF IInv, Sound, Told, Tracked
  <1>10. Counted(d)'
    <2>1. \A k \in Chunk(d) : received[d][k] <= tried[d] + faults + (IF k <= part[d] THEN 1 ELSE 0)
      BY <1>2, <1>7 DEF IInv, Sound, Counted, Out, One
    <2>2. \A k \in Chunk(d) : received'[d][k] <= tried[d] + 1 + faults
      <3>1. /\ \A k \in Chunk(d) : received[d][k] \in Nat /\ k \in Nat
            /\ tried[d] \in Nat /\ faults \in Nat
        BY ChunkNumbers DEF IInv, Typed
      <3> QED BY <1>3, <1>4, <2>1, <3>1
    <2>3. \A k \in Chunk(d) : received'[d][k] \in Nat /\ faults \in Nat
      BY <1>4 DEF IInv, Typed
    <2> QED BY <1>2, <1>7, <2>2, <2>3 DEF Counted, Out, One, Chunk
  <1>11. Ordered(d)'
    <2>1. \A k \in Chunk(d) : received[d][k] \in Nat /\ k \in Nat
      BY ChunkNumbers DEF IInv
    <2>2. \A j, k \in Chunk(d) : j < k =>
            /\ received[d][j] >= received[d][k]
            /\ j <= part[d] /\ part[d] < k => received[d][j] > received[d][k]
      BY <1>2 DEF IInv, Sound, Ordered
    <2>3. ASSUME NEW j \in Chunk(d), NEW k \in Chunk(d), j < k
          PROVE  received'[d][j] >= received'[d][k]
      <3>1. CASE j = p
        BY <1>3, <1>4, <2>1, <2>2, <2>3, <3>1
      <3>2. CASE k = p
        BY <1>3, <1>4, <2>1, <2>2, <2>3, <3>2
      <3>3. CASE j # p /\ k # p
        BY <1>3, <1>4, <2>1, <2>2, <2>3, <3>3
      <3> QED BY <3>1, <3>2, <3>3
    <2> QED BY <1>7, <2>3 DEF Ordered, Chunk
  <1>12. Sound(d)'
    BY <1>8, <1>9, <1>10, <1>11 DEF Sound
  <1>13. Onward /\ \A e \in Reply \ {d} : Still(e)
    BY <1>2, <1>4 DEF IInv, Typed, Onward, Still
  <1> QED BY <1>5, <1>6, <1>12, <1>13, Moves

LEMMA Returns ==
    ASSUME IInv, NEW d \in Reply, SendReturns(d)
    PROVE  IInv'
  <1>1. /\ stage[d] = "sending" /\ part[d] = Chunks[d]
        /\ seen' = [seen EXCEPT ![d] = "delivered"]
        /\ stage' = [stage EXCEPT ![d] = "settled"]
        /\ UNCHANGED <<answered, status, attempts, tried, due, aged, part, sweep, todo,
                       received, faults>>
    BY DEF SendReturns, Stage, rows
  <1>2. Typed'
    BY <1>1 DEF IInv, Typed, Chunk, Final
  <1>3. Rests'
    BY <1>1 DEF IInv, Typed, Rests, Sound, Tracked
  <1>4. /\ seen[d] = "pending" /\ tried[d] < MaxAttempts /\ tried[d] = attempts[d]
        /\ tried[d] \in Nat /\ stage'[d] = "settled" /\ seen'[d] = "delivered"
    BY <1>1 DEF IInv, Typed, Sound, Tracked
  <1>5. Tracked(d)'
    BY <1>1, <1>4, Bounds DEF IInv, Sound, Tracked, Delivered, One
  <1>6. Told(d)'
    <2>1. \A k \in Chunk(d) : received[d][k] > 0
      BY <1>1, Bounds DEF IInv, Sound, Told, Chunk
    <2> QED BY <1>1, <1>4, <2>1 DEF IInv, Sound, Told, Chunk
  <1>7. Counted(d)'
    <2>1. \A k \in Chunk(d) : received[d][k] <= tried[d] + faults + (IF k <= part[d] THEN 1 ELSE 0)
      BY <1>1, <1>4 DEF IInv, Sound, Counted, Out, One
    <2>2. \A k \in Chunk(d) : received[d][k] <= tried[d] + faults + 1
      <3>1. \A k \in Chunk(d) : k <= part[d]
        BY <1>1, Bounds DEF Chunk
      <3> QED BY <2>1, <3>1
    <2> QED BY <1>1, <1>4, <2>2 DEF Counted, Out, One, Chunk
  <1>8. Sound(d)'
    BY <1>1, <1>4, <1>5, <1>6, <1>7, StaysOrdered DEF IInv, Sound
  <1>9. Onward /\ \A e \in Reply \ {d} : Still(e)
    BY <1>1 DEF IInv, Typed, Onward, Still
  <1> QED BY <1>2, <1>3, <1>8, <1>9, Moves

LEMMA WorkerDone ==
    ASSUME IInv, NEW d \in Reply, WorkerCommits(d)
    PROVE  IInv'
  <1>1. /\ stage[d] = "settled" /\ status[d] = "absent"
        /\ status' = [status EXCEPT ![d] = seen[d]]
        /\ attempts' = [attempts EXCEPT ![d] = tried[d]]
        /\ stage' = [stage EXCEPT ![d] = "none"]
        /\ UNCHANGED <<answered, seen, tried, due, aged, part, sweep, todo, received, faults>>
    BY DEF WorkerCommits, Stage
  <1>2. Typed'
    BY <1>1 DEF IInv, Typed, Chunk
  <1>3. Rests'
    BY <1>1 DEF IInv, Typed, Rests
  <1>4. /\ status'[d] = seen[d] /\ attempts'[d] = tried[d] /\ stage'[d] = "none"
        /\ d \notin todo /\ tried[d] \in Nat
    BY <1>1 DEF IInv, Typed, Sound, Tracked
  <1>5. Tracked(d)'
    BY <1>1, <1>4 DEF IInv, Sound, Tracked, Delivered
  <1>6. Told(d)' /\ Counted(d)'
    BY <1>1, <1>4 DEF IInv, Sound, Told, Counted, Out, One, Chunk
  <1>7. Sound(d)'
    BY <1>1, <1>4, <1>5, <1>6, StaysOrdered DEF IInv, Sound
  <1>8. Onward /\ \A e \in Reply \ {d} : Still(e)
    BY <1>1 DEF IInv, Typed, Onward, Still
  <1> QED BY <1>2, <1>3, <1>7, <1>8, Moves

\* The transaction on a record is lost: what its attempt may have sent is paid
\* for by the fault.
LEMMA Lost ==
    ASSUME IInv, NEW d \in Reply,
           faults' = faults + 1, stage'[d] = "none", received'[d] = received[d],
           status'[d] = status[d], attempts'[d] = attempts[d],
           seen'[d] = status[d], tried'[d] = attempts[d], part'[d] = part[d],
           answered' = answered, aged' = aged,
           d \in todo' => d \in todo,
           stage[d] # "none" => d \in answered
    PROVE  Sound(d)'
  <1>0. /\ attempts[d] \in Nat /\ tried[d] \in Nat /\ faults \in Nat
        /\ Delivered(d) \in {0, 1} /\ One(status[d] = "delivered") \in {0, 1}
    BY DEF IInv, Typed, Delivered, One
  <1>1. /\ attempts[d] + One(status[d] = "delivered") <= MaxAttempts
        /\ status[d] = "pending" => attempts[d] < MaxAttempts
    <2>1. CASE stage[d] \in {"none", "owed"}
      BY <2>1 DEF IInv, Sound, Tracked, Delivered
    <2>2. CASE stage[d] \in {"sending", "settled"}
      BY <1>0, <2>2, Bounds DEF IInv, Sound, Tracked, One
    <2> QED BY <2>1, <2>2 DEF IInv, Typed
  <1>2. Tracked(d)'
    BY <1>0, <1>1 DEF IInv, Sound, Tracked, Delivered, One
  <1>3. Told(d)'
    BY DEF IInv, Sound, Told, Chunk
  <1>4. Counted(d)'
    <2>1. \A k \in Chunk(d) : received[d][k] <= attempts[d] + faults + 1
      <3>1. CASE stage[d] \in {"none", "owed"}
        <4>1. tried[d] = attempts[d]
          BY <3>1 DEF IInv, Sound, Tracked
        <4>2. \A k \in Chunk(d) : Out(d, k) \in {0, 1} /\ received[d][k] \in Nat
          BY ChunkNumbers DEF Out, One, IInv
        <4> QED BY <1>0, <4>1, <4>2 DEF IInv, Sound, Counted
      <3>2. CASE stage[d] = "sending"
        <4>1. tried[d] = attempts[d]
          BY <3>2 DEF IInv, Sound, Tracked
        <4>2. \A k \in Chunk(d) : Out(d, k) \in {0, 1} /\ received[d][k] \in Nat
          BY ChunkNumbers DEF Out, One, IInv
        <4> QED BY <1>0, <4>1, <4>2 DEF IInv, Sound, Counted
      <3>3. CASE stage[d] = "settled"
        <4>1. tried[d] + Delivered(d) <= attempts[d] + 1
          BY <3>3 DEF IInv, Sound, Tracked
        <4>2. \A k \in Chunk(d) : Out(d, k) = Delivered(d) /\ received[d][k] \in Nat
          BY <3>3, ChunkNumbers DEF Out, Delivered, One, IInv
        <4> QED BY <1>0, <4>1, <4>2 DEF IInv, Sound, Counted
      <3> QED BY <3>1, <3>2, <3>3 DEF IInv, Typed
    <2>2. \A k \in Chunk(d) : Out(d, k)' \in {0, 1} /\ received[d][k] \in Nat
      BY ChunkNumbers DEF Out, One, IInv
    <2>3. \A k \in Chunk(d) : received'[d][k] <= tried'[d] + faults' + Out(d, k)'
      BY <1>0, <2>1, <2>2
    <2> QED BY <2>3 DEF Counted, Chunk
  <1>5. Ordered(d)'
    BY StaysOrdered DEF IInv
  <1> QED BY <1>2, <1>3, <1>4, <1>5 DEF Sound

LEMMA WorkerLost ==
    ASSUME IInv, NEW d \in Reply, WorkerFails(d)
    PROVE  IInv'
  <1>1. /\ stage[d] # "none" /\ status[d] = "absent" /\ faults' = faults + 1
        /\ seen' = [seen EXCEPT ![d] = "absent"] /\ tried' = [tried EXCEPT ![d] = 0]
        /\ stage' = [stage EXCEPT ![d] = "none"]
        /\ UNCHANGED <<answered, status, attempts, due, aged, part, sweep, todo, received>>
    BY DEF WorkerFails, Stage, rows
  <1>2. Typed'
    BY <1>1 DEF IInv, Typed, Chunk
  <1>3. Rests'
    BY <1>1 DEF IInv, Typed, Rests
  <1>4. /\ stage'[d] = "none" /\ seen'[d] = status[d] /\ tried'[d] = attempts[d]
        /\ d \in answered
    BY <1>1 DEF IInv, Typed, Sound, Tracked
  <1>5. Sound(d)'
    BY <1>1, <1>4, Lost
  <1>6. Onward /\ \A e \in Reply \ {d} : Still(e)
    BY <1>1 DEF IInv, Typed, Onward, Still
  <1> QED BY <1>2, <1>3, <1>5, <1>6, Moves

-----------------------------------------------------------------------------
(* The maintenance pass.                                                    *)

LEMMA Reads ==
    ASSUME IInv, SweepReads
    PROVE  IInv'
  <1>1. /\ sweep = "idle" /\ sweep' = "running" /\ todo' \subseteq Due
        /\ UNCHANGED <<answered, status, attempts, seen, tried, due, aged, stage, part,
                       received, faults>>
    BY DEF SweepReads, rows
  <1>2. \A d \in Reply : d \in todo' => status[d] = "pending" /\ stage[d] = "none"
    BY <1>1 DEF IInv, Rests, Due
  <1>3. todo' \subseteq Reply
    BY <1>1 DEF IInv, Typed, Due
  <1>4. Typed' /\ Rests'
    BY <1>1, <1>3 DEF IInv, Typed, Rests, Chunk
  <1>5. ASSUME NEW d \in Reply PROVE Sound(d)'
    <2>1. Tracked(d)'
      BY <1>1, <1>2 DEF IInv, Sound, Tracked, Delivered
    <2>2. Told(d)' /\ Counted(d)' /\ Ordered(d)'
      BY <1>1 DEF IInv, Sound, Told, Counted, Ordered, Out, One, Chunk
    <2> QED BY <2>1, <2>2 DEF Sound
  <1> QED BY <1>4, <1>5 DEF IInv
LEMMA Attempts ==
    ASSUME IInv, NEW d \in Reply, SweepAttempts(d)
    PROVE  IInv'
  <1>1. /\ d \in todo /\ todo' = todo \ {d} /\ part' = [part EXCEPT ![d] = 0]
        /\ \/ /\ d \in aged /\ seen' = [seen EXCEPT ![d] = "failed"]
              /\ stage' = [stage EXCEPT ![d] = "settled"]
           \/ seen' = seen /\ stage' = [stage EXCEPT ![d] = "sending"]
        /\ UNCHANGED <<answered, status, attempts, tried, due, aged, sweep, received, faults>>
    BY DEF SweepAttempts, Stage, rows
  <1>2. /\ status[d] = "pending" /\ stage[d] = "none" /\ seen[d] = "pending"
        /\ tried[d] = attempts[d] /\ tried[d] \in Nat /\ faults \in Nat
        /\ tried[d] < MaxAttempts /\ d \in answered /\ sweep = "running"
    BY <1>1 DEF IInv, Typed, Rests, Sound, Tracked
  <1>3. Typed'
    BY <1>1 DEF IInv, Typed, Chunk, Final
  <1>4. Rests'
    BY <1>1, <1>2 DEF Rests
  <1>5. d \notin todo' /\ part'[d] = 0
        /\ \/ d \in aged /\ seen'[d] = "failed" /\ stage'[d] = "settled"
           \/ seen'[d] = "pending" /\ stage'[d] = "sending"
    BY <1>1, <1>2 DEF IInv, Typed
  <1>6. Tracked(d)'
    BY <1>1, <1>2, <1>5, Bounds DEF IInv, Sound, Tracked, Delivered, One
  <1>7. Told(d)'
    <2>1. \A k \in Chunk(d) : k \in Nat /\ ~(k <= 0)
      BY Bounds DEF Chunk
    <2> QED BY <1>1, <1>2, <1>5, <2>1, Bounds DEF Told, Chunk
  <1>8. Counted(d)'
    <2>1. \A k \in Chunk(d) : received[d][k] <= tried[d] + faults /\ received[d][k] \in Nat
      BY <1>2, ChunkNumbers DEF IInv, Sound, Counted, Out, One
    <2>2. \A k \in Chunk(d) : Out(d, k)' \in {0, 1}
      BY DEF Out, One
    <2>3. \A k \in Chunk(d) : received[d][k] <= tried[d] + faults + Out(d, k)'
      BY <1>2, <2>1, <2>2
    <2> QED BY <1>1, <2>3 DEF Counted, Chunk
  <1>9. Ordered(d)'
    <2>1. \A k \in Chunk(d) : k \in Nat /\ ~(k <= 0)
      BY Bounds DEF Chunk
    <2> QED BY <1>1, <1>5, <2>1 DEF IInv, Sound, Ordered, Chunk
  <1>10. Sound(d)'
    BY <1>6, <1>7, <1>8, <1>9 DEF Sound
  <1>11. Onward /\ \A e \in Reply \ {d} : Still(e)
    BY <1>1 DEF IInv, Typed, Onward, Still
  <1> QED BY <1>3, <1>4, <1>10, <1>11, Moves

LEMMA PassDone ==
    ASSUME IInv, SweepCommits
    PROVE  IInv'
  <1>1. /\ sweep = "running" /\ todo = {} /\ sweep' = "idle" /\ Sending = {}
        /\ status' = [d \in Reply |-> IF d \in Swept THEN seen[d] ELSE status[d]]
        /\ attempts' = [d \in Reply |-> IF d \in Swept THEN tried[d] ELSE attempts[d]]
        /\ stage' = [d \in Reply |-> IF d \in Swept THEN "none" ELSE stage[d]]
        /\ due' \subseteq due
        /\ UNCHANGED <<answered, seen, tried, aged, part, todo, received, faults>>
    BY DEF SweepCommits
  <1>2. Typed'
    BY <1>1 DEF IInv, Typed, Chunk
  <1>3. ASSUME NEW d \in Reply, d \in Swept PROVE Sound(d)'
    <2>1. /\ status'[d] = seen[d] /\ attempts'[d] = tried[d] /\ stage'[d] = "none"
          /\ stage[d] = "settled" /\ status[d] # "absent" /\ tried[d] \in Nat
      BY <1>1, <1>3 DEF IInv, Typed, Swept
    <2>2. Tracked(d)'
      BY <1>1, <2>1 DEF IInv, Sound, Tracked, Delivered
    <2>3. Told(d)' /\ Counted(d)'
      BY <1>1, <2>1 DEF IInv, Sound, Told, Counted, Out, One, Chunk
    <2> QED BY <1>1, <2>1, <2>2, <2>3, StaysOrdered DEF IInv, Sound
  <1>4. ASSUME NEW d \in Reply, d \notin Swept PROVE Sound(d)'
    <2>1. Still(d) /\ Onward
      BY <1>1, <1>4 DEF IInv, Typed, Still, Onward
    <2> QED BY <2>1, Untouched DEF IInv
  <1>5. Rests'
    <2>1. ASSUME NEW d \in Reply, status'[d] # "absent" PROVE stage'[d] = "none"
      <3>1. CASE d \in Swept
        BY <1>1, <3>1
      <3>2. CASE d \notin Swept
        <4>1. status[d] # "absent" /\ stage'[d] = stage[d]
          BY <1>1, <2>1, <3>2
        <4>2. stage[d] \notin {"sending", "settled", "owed"}
          BY <1>1, <3>2, <4>1 DEF Sending, Swept, IInv, Sound, Tracked
        <4> QED BY <4>1, <4>2 DEF IInv, Typed
      <3> QED BY <3>1, <3>2
    <2> QED BY <1>1, <2>1 DEF Rests
  <1> QED BY <1>2, <1>3, <1>4, <1>5 DEF IInv

LEMMA PassLost ==
    ASSUME IInv, SweepFails
    PROVE  IInv'
  <1>1. /\ faults' = faults + 1
        /\ seen' = [d \in Reply |-> IF status[d] # "absent" THEN status[d] ELSE seen[d]]
        /\ tried' = [d \in Reply |-> IF status[d] # "absent" THEN attempts[d] ELSE tried[d]]
        /\ stage' = [d \in Reply |-> IF status[d] # "absent" THEN "none" ELSE stage[d]]
        /\ sweep' = "idle" /\ todo' = {}
        /\ UNCHANGED <<answered, status, attempts, due, aged, part, received>>
    BY DEF SweepFails, rows
  <1>2. Typed'
    BY <1>1 DEF IInv, Typed, Chunk
  <1>3. Rests'
    BY <1>1 DEF Rests
  <1>4. ASSUME NEW d \in Reply, status[d] # "absent" PROVE Sound(d)'
    <2>1. d \in answered
      BY <1>4 DEF IInv, Sound, Tracked
    <2>2. stage'[d] = "none" /\ seen'[d] = status[d] /\ tried'[d] = attempts[d]
      BY <1>1, <1>4
    <2> QED BY <1>1, <2>1, <2>2, Lost
  <1>5. ASSUME NEW d \in Reply, status[d] = "absent" PROVE Sound(d)'
    <2>1. Still(d) /\ Onward
      BY <1>1, <1>5 DEF IInv, Typed, Still, Onward
    <2> QED BY <2>1, Untouched DEF IInv
  <1> QED BY <1>2, <1>3, <1>4, <1>5 DEF IInv

\* Time and the pass's reading list: nothing of any record changes.
LEMMA TimePasses ==
    ASSUME IInv, aged \subseteq aged', due' \subseteq Reply,
           UNCHANGED <<answered, status, attempts, seen, tried, stage, part, sweep, todo,
                       received, faults>>
    PROVE  IInv'
  <1>1. Typed' /\ Rests'
    BY DEF IInv, Typed, Rests, Chunk
  <1>2. ASSUME NEW d \in Reply PROVE Sound(d)'
    <2>1. Still(d) /\ Onward
      BY DEF IInv, Typed, Still, Onward
    <2> QED BY <2>1, Untouched DEF IInv
  <1> QED BY <1>1, <1>2 DEF IInv

LEMMA Inductive ==
    ASSUME IInv, [Next]_vars
    PROVE  IInv'
  <1>1. ASSUME NEW d \in Reply, BackoffEnds(d) \/ HorizonPasses(d) PROVE IInv'
    <2>1. /\ aged \subseteq aged' /\ due' \subseteq Reply
          /\ UNCHANGED <<answered, status, attempts, seen, tried, stage, part, sweep, todo,
                         received, faults>>
      BY <1>1 DEF BackoffEnds, HorizonPasses, rows, IInv, Typed
    <2> QED BY <2>1, TimePasses
  <1>2. ASSUME NEW d \in Reply,
               Answer(d) \/ Worker(d) \/ WorkerFails(d) \/ Attempt(d) \/ SweepAttempts(d)
        PROVE  IInv'
    BY <1>2, Answers, Enqueues, WorkerDone, WorkerLost, SendsChunk, Raises, Returns, Attempts
    DEF Worker, Attempt
  <1>3. CASE UNCHANGED vars
    <2>1. /\ aged \subseteq aged' /\ due' \subseteq Reply
          /\ UNCHANGED <<answered, status, attempts, seen, tried, stage, part, sweep, todo,
                         received, faults>>
      BY <1>3 DEF vars, IInv, Typed
    <2> QED BY <2>1, TimePasses
  <1> QED BY <1>1, <1>2, <1>3, Reads, PassDone, PassLost DEF Next, Sweeper

\* The invariant behind the three theorems: what the transaction open on a
\* record has changed of it, and how far its attempt is.
THEOREM DeliveriesKept == Spec => []IInv
  <1>1. Init => IInv
    <2> SUFFICES ASSUME Init PROVE IInv
      OBVIOUS
    <2>1. Typed /\ Rests
      BY DEF Init, Typed, Rests
    <2>2. ASSUME NEW d \in Reply PROVE Sound(d)
      <3>1. Tracked(d) /\ Told(d)
        BY Bounds DEF Init, Tracked, Told, Delivered, One
      <3>2. Counted(d) /\ Ordered(d)
        BY DEF Init, Counted, Ordered, Out, One
      <3> QED BY <3>1, <3>2 DEF Sound
    <2> QED BY <2>1, <2>2 DEF IInv
  <1>2. IInv /\ [Next]_vars => IInv'
    BY Inductive
  <1> QED BY <1>1, <1>2, PTL DEF Spec

\* A record is marked delivered only when every message of the reply has reached
\* its recipient, and failed only when its attempts or its horizon are used up,
\* for any number of replies, chunks, attempts and faults
\* (runtime/delivery_queue.py:61-201).
THEOREM OutcomesTrue == Spec => []OutcomesAreTrue
  <1>1. IInv => OutcomesAreTrue
    BY DEF IInv, Sound, Told, OutcomesAreTrue
  <1> QED BY <1>1, DeliveriesKept, PTL

\* No message of a reply is received more often than the attempts allow and one
\* transaction was lost for each time beyond (runtime/delivery_queue.py:98-181).
THEOREM DuplicatesBounded == Spec => []DuplicatesAreBounded
  <1>1. ASSUME IInv PROVE DuplicatesAreBounded
    <2> SUFFICES ASSUME NEW d \in Reply, NEW k \in Chunk(d)
                 PROVE  received[d][k] <= MaxAttempts + faults
      BY DEF DuplicatesAreBounded
    <2>1. /\ received[d][k] \in Nat /\ tried[d] \in Nat /\ faults \in Nat
          /\ Delivered(d) \in {0, 1} /\ Out(d, k) \in {0, 1}
      BY <1>1, ChunkNumbers DEF IInv, Typed, Delivered, Out, One
    <2>2. tried[d] + Out(d, k) <= MaxAttempts
      <3>1. CASE Out(d, k) = 0 \/ seen[d] = "delivered"
        BY <1>1, <2>1, <3>1, Bounds DEF IInv, Sound, Tracked, Delivered, Out, One
      <3>2. CASE Out(d, k) # 0 /\ seen[d] # "delivered"
        <4>1. seen[d] = "pending"
          BY <1>1, <3>2 DEF IInv, Sound, Tracked, Out, One
        <4> QED BY <1>1, <2>1, <4>1, Bounds DEF IInv, Sound, Tracked
      <3> QED BY <3>1, <3>2
    <2>3. received[d][k] <= tried[d] + faults + Out(d, k)
      BY <1>1 DEF IInv, Sound, Counted
    <2> QED BY <2>1, <2>2, <2>3, Bounds
  <1> QED BY <1>1, DeliveriesKept, PTL

\* No message of a reply overtakes an earlier one, whichever attempt sent them
\* and wherever it broke off (interfaces/whatsapp/client.py:82-121).
THEOREM ChunksKeepOrder == Spec => []ChunksInOrder
  <1>1. IInv => ChunksInOrder
    BY DEF IInv, Sound, Ordered, ChunksInOrder
  <1> QED BY <1>1, DeliveriesKept, PTL

-----------------------------------------------------------------------------
(* The way in: the webhook's acceptance, Inbound.                           *)

\* What Inbound assumes of its constants.
LEMMA Wiring ==
    Carries \in [Request -> Message] /\ From \in [Message -> Sender] /\ None \notin Request
  BY CarriesAssumption, FromAssumption, NoneAssumption

By(r) == From[Carries[r]]
Placed == {"record", "schedule", "commit"}

InTypes ==
    /\ pc \in [Request -> {"arriving", "resolve", "create", "check", "attach", "again",
                           "record", "schedule", "commit", "answered", "dropped"}]
    /\ principal \in [Request -> Request \cup {None}]
    /\ wrote \in [Request -> SUBSET {"principal", "credential", "message", "work"}]
    /\ principals \subseteq Request
    /\ credential \in [Sender -> Request \cup {None}]
    /\ row \in [Message -> Request \cup {None}]
    /\ work \in [Request -> Request \cup {None}]
    /\ fate \in [Request -> {"none", "pending", "succeeded", "dead"}]

\* What an open transaction has written, and whom it works for.
Written(r) ==
    /\ pc[r] \notin Placed \cup {"check", "attach"} => wrote[r] = {}
    /\ pc[r] \in {"check", "attach"} => wrote[r] = {"principal"} /\ principal[r] = r
    /\ pc[r] \in Placed =>
         /\ "principal" \in wrote[r] <=> "credential" \in wrote[r]
         /\ IF "credential" \in wrote[r] THEN principal[r] = r
            ELSE principal[r] = credential[By(r)] /\ principal[r] # None
    /\ pc[r] = "record" => {"message", "work"} \cap wrote[r] = {}
    /\ pc[r] = "schedule" => "message" \in wrote[r]
    /\ pc[r] = "commit" => ("message" \in wrote[r] <=> "work" \in wrote[r])
    /\ pc[r] = "again" => credential[By(r)] # None

\* The unique keys of what is written and not committed.
Unique(r) ==
    /\ "credential" \in wrote[r] =>
         /\ credential[By(r)] = None
         /\ \A o \in Request \ {r} : By(o) = By(r) => "credential" \notin wrote[o]
    /\ "message" \in wrote[r] =>
         /\ row[Carries[r]] = None
         /\ \A o \in Request \ {r} : Carries[o] = Carries[r] => "message" \notin wrote[o]

Stored ==
    /\ \A p \in principals : credential[By(p)] = p
    /\ \A m \in Message : row[m] # None => row[m] = credential[From[m]]
    /\ \A r \in Request : work[r] # None <=> fate[r] # "none"
    /\ \A r \in Request : work[r] # None => work[r] = credential[By(r)] /\ row[Carries[r]] # None
    /\ \A r, o \in Request :
         work[r] # None /\ work[o] # None /\ Carries[r] = Carries[o] => r = o
    /\ \A m \in Message : row[m] # None => \E r \in Request : Carries[r] = m /\ work[r] # None

InInv == InTypes /\ Stored /\ \A r \in Request : Written(r) /\ Unique(r)

\* One transaction moves; nothing is committed.
LEMMA Transacts ==
    ASSUME InInv, NEW r \in Request,
           UNCHANGED <<principals, credential, row, work, fate>>,
           InTypes', Written(r)', Unique(r)',
           \A o \in Request \ {r} :
               pc'[o] = pc[o] /\ principal'[o] = principal[o] /\ wrote'[o] = wrote[o]
    PROVE  InInv'
  <1>1. Stored'
    BY DEF InInv, Stored, By
  <1>2. ASSUME NEW o \in Request \ {r} PROVE Written(o)' /\ Unique(o)'
    <2>1. Written(o)'
      BY DEF InInv, Written, By
    <2>2. /\ "credential" \in wrote'[o] /\ By(r) = By(o) => "credential" \notin wrote'[r]
          /\ "message" \in wrote'[o] /\ Carries[r] = Carries[o] => "message" \notin wrote'[r]
      BY DEF Unique, By
    <2>3. Unique(o)'
      BY <2>2 DEF InInv, Unique, By
    <2> QED BY <2>1, <2>3
  <1> QED BY <1>1, <1>2 DEF InInv

LEMMA Senders ==
    ASSUME NEW r \in Request
    PROVE  Carries[r] \in Message /\ By(r) \in Sender /\ Sends(r) = By(r)
  BY Wiring DEF By, Sends

LEMMA StatementStep ==
    ASSUME InInv, NEW r \in Request,
           \/ Receive(r) \/ Resolve(r) \/ CreatePrincipal(r)
           \/ CheckCredential(r) \/ AttachCredential(r)
           \/ RecordMessage(r) \/ ScheduleWork(r) \/ StatementFails(r)
    PROVE  InInv'
  <1>s. Carries[r] \in Message /\ By(r) \in Sender /\ Sends(r) = By(r)
    BY Senders
  <1>t. InTypes
    BY DEF InInv
  <1>0. /\ pc[r] \in {"arriving", "resolve", "create", "check", "attach", "again",
                      "record", "schedule", "commit", "answered", "dropped"}
        /\ wrote[r] \subseteq {"principal", "credential", "message", "work"}
        /\ principal[r] \in Request \cup {None} /\ credential[By(r)] \in Request \cup {None}
    BY <1>s, <1>t DEF InTypes
  <1>1. CASE Receive(r)
    <2>1. /\ pc[r] \in {"arriving", "dropped"} /\ pc' = [pc EXCEPT ![r] = "resolve"]
          /\ UNCHANGED <<principal, wrote, principals, credential, row, work, fate>>
      BY <1>1 DEF Receive, Goes, store, queue
    <2>2. InTypes'
      BY <1>t, <2>1 DEF InTypes
    <2>3. pc'[r] = "resolve" /\ wrote'[r] = {}
      BY <1>t, <2>1 DEF InTypes, InInv, Written, Placed
    <2>4. Written(r)' /\ Unique(r)'
      BY <2>3 DEF Written, Unique, Placed
    <2> QED BY <1>t, <2>1, <2>2, <2>4, Transacts DEF InTypes
  <1>2. CASE Resolve(r)
    <2>1. /\ pc[r] \in {"resolve", "again"}
          /\ principal' = [principal EXCEPT ![r] = credential[By(r)]]
          /\ pc' = [pc EXCEPT ![r] = IF credential[By(r)] # None THEN "record"
                                     ELSE IF pc[r] = "resolve" THEN "create" ELSE "answered"]
          /\ UNCHANGED <<wrote, principals, credential, row, work, fate>>
      BY <1>s, <1>2 DEF Resolve, Goes, WorksFor, store, queue
    <2>2. InTypes'
      BY <1>0, <1>t, <2>1 DEF InTypes
    <2>3. /\ wrote'[r] = {} /\ principal'[r] = credential[By(r)]
          /\ pc'[r] = IF credential[By(r)] # None THEN "record"
                      ELSE IF pc[r] = "resolve" THEN "create" ELSE "answered"
      BY <1>t, <2>1 DEF InTypes, InInv, Written, Placed
    <2>4. Written(r)' /\ Unique(r)'
      BY <2>1, <2>3 DEF Written, Unique, Placed, By
    <2> QED BY <1>t, <2>1, <2>2, <2>4, Transacts DEF InTypes
  <1>3. CASE CreatePrincipal(r)
    <2>1. /\ pc[r] = "create" /\ principal' = [principal EXCEPT ![r] = r]
          /\ wrote' = [wrote EXCEPT ![r] = @ \cup {"principal"}]
          /\ pc' = [pc EXCEPT ![r] = "check"]
          /\ UNCHANGED <<principals, credential, row, work, fate>>
      BY <1>3 DEF CreatePrincipal, Goes, Inserts, WorksFor,
                  store, queue
    <2>2. InTypes'
      BY <1>0, <1>t, <2>1 DEF InTypes
    <2>3. wrote'[r] = {"principal"} /\ principal'[r] = r /\ pc'[r] = "check"
      BY <1>t, <2>1 DEF InTypes, InInv, Written, Placed
    <2>4. Written(r)' /\ Unique(r)'
      BY <2>3 DEF Written, Unique, Placed
    <2> QED BY <1>t, <2>1, <2>2, <2>4, Transacts DEF InTypes
  <1>4. ASSUME pc[r] \in {"check", "attach"}, credential[By(r)] # None,
               LosesRace(r), UNCHANGED <<principals, credential, row, work, fate>>
        PROVE  InInv'
    <2>1. /\ pc' = [pc EXCEPT ![r] = "again"] /\ wrote' = [wrote EXCEPT ![r] = {}]
          /\ principal' = [principal EXCEPT ![r] = None]
      BY <1>4 DEF LosesRace, Goes, WorksFor
    <2>2. InTypes'
      BY <1>t, <1>4, <2>1 DEF InTypes
    <2>3. pc'[r] = "again" /\ wrote'[r] = {}
      BY <1>t, <2>1 DEF InTypes
    <2>4. Written(r)' /\ Unique(r)'
      BY <1>4, <2>3 DEF Written, Unique, Placed, By
    <2> QED BY <1>t, <1>4, <2>1, <2>2, <2>4, Transacts DEF InTypes
  <1>5. CASE CheckCredential(r)
    <2>1. /\ pc[r] = "check" /\ UNCHANGED <<principals, credential, row, work, fate>>
          /\ IF credential[By(r)] = None
             THEN pc' = [pc EXCEPT ![r] = "attach"] /\ UNCHANGED <<principal, wrote>>
             ELSE LosesRace(r)
      BY <1>s, <1>5 DEF CheckCredential, Goes, store, queue
    <2>2. CASE credential[By(r)] = None
      <3>1. InTypes'
        BY <1>t, <2>1, <2>2 DEF InTypes
      <3>2. pc'[r] = "attach" /\ wrote'[r] = {"principal"} /\ principal'[r] = r
        BY <1>t, <2>1, <2>2 DEF InTypes, InInv, Written
      <3>3. Written(r)' /\ Unique(r)'
        BY <3>2 DEF Written, Unique, Placed
      <3> QED BY <1>t, <2>1, <2>2, <3>1, <3>3, Transacts DEF InTypes
    <2> QED BY <1>4, <2>1, <2>2
  <1>6. CASE AttachCredential(r)
    <2>1. /\ pc[r] = "attach" /\ UNCHANGED <<principals, credential, row, work, fate>>
          /\ \A o \in Request \ {r} : By(o) = By(r) => "credential" \notin wrote[o]
          /\ IF credential[By(r)] = None
             THEN /\ pc' = [pc EXCEPT ![r] = "record"] /\ principal' = principal
                  /\ wrote' = [wrote EXCEPT ![r] = @ \cup {"credential"}]
             ELSE LosesRace(r)
      BY <1>s, <1>6, Senders
      DEF AttachCredential, Goes, Inserts, CredentialLocked,
          store, queue
    <2>2. CASE credential[By(r)] = None
      <3>1. InTypes'
        BY <1>0, <1>t, <2>1, <2>2 DEF InTypes
      <3>2. /\ pc'[r] = "record" /\ wrote'[r] = {"principal", "credential"} /\ principal'[r] = r
            /\ \A o \in Request \ {r} : wrote'[o] = wrote[o]
        BY <1>t, <2>1, <2>2 DEF InTypes, InInv, Written
      <3>3. Written(r)'
        BY <3>2 DEF Written, Placed
      <3>4. Unique(r)'
        BY <2>1, <2>2, <3>2 DEF Unique, By
      <3> QED BY <1>t, <2>1, <2>2, <3>1, <3>3, <3>4, Transacts DEF InTypes
    <2> QED BY <1>4, <2>1, <2>2
  <1>7. CASE RecordMessage(r)
    <2>1. /\ pc[r] = "record" /\ UNCHANGED <<principal, principals, credential, row, work, fate>>
          /\ \A o \in Request \ {r} : Carries[o] = Carries[r] => "message" \notin wrote[o]
          /\ IF row[Carries[r]] = None
             THEN /\ pc' = [pc EXCEPT ![r] = "schedule"]
                  /\ wrote' = [wrote EXCEPT ![r] = @ \cup {"message"}]
             ELSE pc' = [pc EXCEPT ![r] = "commit"] /\ wrote' = wrote
      BY <1>7
      DEF RecordMessage, Goes, Inserts, MessageLocked,
          store, queue
    <2>2. InTypes'
      BY <1>0, <1>t, <2>1 DEF InTypes
    <2>3. /\ \A o \in Request \ {r} : wrote'[o] = wrote[o]
          /\ \/ /\ row[Carries[r]] = None
                /\ pc'[r] = "schedule" /\ wrote'[r] = wrote[r] \cup {"message"}
             \/ pc'[r] = "commit" /\ wrote'[r] = wrote[r]
      BY <1>t, <2>1 DEF InTypes
    <2>4. Written(r)'
      BY <2>1, <2>3 DEF InInv, Written, Placed, By
    <2>5. Unique(r)'
      BY <2>1, <2>3 DEF InInv, Written, Unique, By
    <2> QED BY <1>t, <2>1, <2>2, <2>4, <2>5, Transacts DEF InTypes
  <1>8. CASE ScheduleWork(r)
    <2>1. /\ pc[r] = "schedule" /\ pc' = [pc EXCEPT ![r] = "commit"]
          /\ wrote' = [wrote EXCEPT ![r] = @ \cup {"work"}]
          /\ UNCHANGED <<principal, principals, credential, row, work, fate>>
      BY <1>8 DEF ScheduleWork, Goes, Inserts, store, queue
    <2>2. InTypes'
      BY <1>0, <1>t, <2>1 DEF InTypes
    <2>3. /\ \A o \in Request \ {r} : wrote'[o] = wrote[o]
          /\ pc'[r] = "commit" /\ wrote'[r] = wrote[r] \cup {"work"}
      BY <1>t, <2>1 DEF InTypes
    <2>4. Written(r)'
      BY <2>1, <2>3 DEF InInv, Written, Placed, By
    <2>5. Unique(r)'
      BY <2>1, <2>3 DEF InInv, Unique, By
    <2> QED BY <1>t, <2>1, <2>2, <2>4, <2>5, Transacts DEF InTypes
  <1>9. CASE StatementFails(r)
    <2>1. /\ pc' = [pc EXCEPT ![r] = "answered"] /\ wrote' = [wrote EXCEPT ![r] = {}]
          /\ UNCHANGED <<principal, principals, credential, row, work, fate>>
      BY <1>9 DEF StatementFails, Goes, store, queue
    <2>2. InTypes'
      BY <1>t, <2>1 DEF InTypes
    <2>3. pc'[r] = "answered" /\ wrote'[r] = {}
      BY <1>t, <2>1 DEF InTypes
    <2>4. Written(r)' /\ Unique(r)'
      BY <2>3 DEF Written, Unique, Placed
    <2> QED BY <1>t, <2>1, <2>2, <2>4, Transacts DEF InTypes
  <1> QED BY <1>1, <1>2, <1>3, <1>5, <1>6, <1>7, <1>8, <1>9

\* The commit: what was unique while it was open becomes unique in the tables.
LEMMA CommitStep ==
    ASSUME InInv, NEW r \in Request, Commit(r)
    PROVE  InInv'
  <1> DEFINE W == wrote[r]
             p == principal[r]
             s == By(r)
             m == Carries[r]
  <1>s. m \in Message /\ s \in Sender /\ From[m] = s /\ \A o \in Request : By(o) \in Sender
    BY Senders DEF By
  <1>t. InTypes /\ Stored /\ Written(r) /\ Unique(r)
    BY DEF InInv
  <1>1. /\ pc[r] = "commit"
        /\ principals' = principals \cup (IF "principal" \in W THEN {r} ELSE {})
        /\ credential' = IF "credential" \in W THEN [credential EXCEPT ![s] = p] ELSE credential
        /\ row' = IF "message" \in W THEN [row EXCEPT ![m] = p] ELSE row
        /\ work' = IF "work" \in W THEN [work EXCEPT ![r] = p] ELSE work
        /\ fate' = IF "work" \in W THEN [fate EXCEPT ![r] = "pending"] ELSE fate
        /\ wrote' = [wrote EXCEPT ![r] = {}] /\ pc' = [pc EXCEPT ![r] = "answered"]
        /\ principal' = principal
    BY Senders DEF Commit, Goes
  <1>2. /\ p \in Request
        /\ "credential" \in W => p = r /\ credential[s] = None
        /\ "credential" \notin W => credential[s] = p
        /\ "principal" \in W <=> "credential" \in W
        /\ "message" \in W <=> "work" \in W
        /\ "message" \in W => row[m] = None
    BY <1>t, <1>1 DEF InTypes, Written, Unique, Placed
  <1>3. InTypes'
    BY <1>t, <1>1, <1>2 DEF InTypes
  <1>4. /\ credential'[s] = p
        /\ \A x \in Sender : credential[x] # None => credential'[x] = credential[x]
        /\ \A x \in Sender \ {s} : credential'[x] = credential[x]
    BY <1>s, <1>t, <1>1, <1>2 DEF InTypes
  <1>5. /\ "message" \in W => row'[m] = p
        /\ \A x \in Message : x # m \/ "message" \notin W => row'[x] = row[x]
        /\ \A x \in Message : row[x] # None => row'[x] = row[x]
    BY <1>s, <1>t, <1>1, <1>2 DEF InTypes
  <1>6. /\ "message" \in W => work'[r] = p /\ fate'[r] = "pending"
        /\ \A o \in Request : o # r \/ "message" \notin W => work'[o] = work[o] /\ fate'[o] = fate[o]
    BY <1>t, <1>1, <1>2 DEF InTypes
  <1>7. p # None
    BY <1>2, Wiring
  <1>8. Stored'
    <2>1. \A x \in principals' : credential'[By(x)] = x
      <3>1. \A x \in principals : x \in Request /\ x # None
        BY <1>t, Wiring DEF InTypes
      <3>2. \A x \in principals : credential'[By(x)] = x
        BY <1>s, <1>t, <1>4, <3>1 DEF Stored
      <3> QED BY <1>1, <1>2, <1>4, <3>2
    <2>2. \A x \in Message : row'[x] # None => row'[x] = credential'[From[x]]
      <3>1. \A x \in Message : From[x] \in Sender
        BY Wiring
      <3> QED BY <1>s, <1>t, <1>4, <1>5, <3>1 DEF Stored
    <2>3. \A o \in Request : work'[o] # None <=> fate'[o] # "none"
      BY <1>t, <1>6, <1>7 DEF Stored
    <2>4. \A o \in Request : work[o] # None /\ "message" \in W => Carries[o] # m
      BY <1>t, <1>2 DEF Stored
    <2>5. \A o \in Request : work'[o] # None =>
            work'[o] = credential'[By(o)] /\ row'[Carries[o]] # None
      <3>1. \A o \in Request : Carries[o] \in Message
        BY Wiring
      <3> QED BY <1>s, <1>t, <1>4, <1>5, <1>6, <1>7, <3>1 DEF Stored
    <2>6. \A o, q \in Request :
            work'[o] # None /\ work'[q] # None /\ Carries[o] = Carries[q] => o = q
      BY <1>t, <1>6, <2>4 DEF Stored
    <2>7. \A x \in Message : row'[x] # None =>
            \E o \in Request : Carries[o] = x /\ work'[o] # None
      <3>1. ASSUME NEW x \in Message, row'[x] # None
            PROVE  \E o \in Request : Carries[o] = x /\ work'[o] # None
        <4>1. CASE x = m /\ "message" \in W
          BY <1>6, <1>7, <4>1
        <4>2. CASE x # m \/ "message" \notin W
          <5>1. PICK o \in Request : Carries[o] = x /\ work[o] # None
            BY <1>t, <1>5, <3>1, <4>2 DEF Stored
          <5> QED BY <1>6, <1>7, <4>2, <5>1
        <4> QED BY <4>1, <4>2
      <3> QED BY <3>1
    <2> QED BY <2>1, <2>2, <2>3, <2>5, <2>6, <2>7 DEF Stored, By
  <1>9. ASSUME NEW o \in Request PROVE Written(o)' /\ Unique(o)'
    <2>1. CASE o = r
      <3>1. pc'[o] = "answered" /\ wrote'[o] = {}
        BY <1>t, <1>1, <2>1 DEF InTypes
      <3> QED BY <3>1 DEF Written, Unique, Placed
    <2>2. CASE o # r
      <3>1. /\ pc'[o] = pc[o] /\ wrote'[o] = wrote[o] /\ principal'[o] = principal[o]
            /\ \A q \in Request : wrote'[q] = wrote[q] \/ wrote'[q] = {}
        BY <1>t, <1>1, <2>2 DEF InTypes
      <3>2. /\ Written(o) /\ Unique(o) /\ By(o) \in Sender /\ Carries[o] \in Message
            /\ credential[By(o)] # None => credential'[By(o)] = credential[By(o)]
        BY <1>s, <1>4, Wiring DEF InInv
      <3>3. Written(o)'
        BY <3>1, <3>2 DEF Written, By
      <3>4. "credential" \in wrote[o] => credential'[By(o)] = None
        <4>1. "credential" \in wrote[o] /\ By(o) = s => "credential" \notin W
          BY <2>2, <1>t DEF Unique
        <4>2. "credential" \in wrote[o] => credential[By(o)] = None
          BY <3>2 DEF Unique
        <4> QED BY <1>2, <1>4, <1>7, <3>2, <4>1, <4>2
      <3>5. "message" \in wrote[o] => row'[Carries[o]] = None
        BY <1>t, <1>5, <2>2, <3>2 DEF Unique
      <3> QED BY <3>1, <3>2, <3>3, <3>4, <3>5 DEF Unique, By
    <2> QED BY <2>1, <2>2
  <1> QED BY <1>3, <1>8, <1>9 DEF InInv

LEMMA WebhookStep ==
    ASSUME InInv, [WebhookNext]_webhook
    PROVE  InInv'
  <1>1. CASE Crash
    <2>1. /\ wrote' = [r \in Request |-> {}]
          /\ pc' = [r \in Request |-> IF Open(r) THEN "dropped" ELSE pc[r]]
          /\ UNCHANGED <<principal, principals, credential, row, work, fate>>
      BY <1>1 DEF Crash, store, queue
    <2>2. \A r \in Request : pc'[r] \in {"arriving", "answered", "dropped"}
      BY <2>1 DEF Open, InInv, InTypes
    <2>3. InTypes'
      BY <2>1, <2>2 DEF InInv, InTypes
    <2>4. Stored'
      BY <2>1 DEF InInv, Stored, By
    <2>5. \A r \in Request : Written(r)' /\ Unique(r)'
      BY <2>1, <2>2 DEF Written, Unique, Placed
    <2> QED BY <2>3, <2>4, <2>5 DEF InInv
  <1>2. ASSUME NEW r \in Request, RunHandler(r) PROVE InInv'
    <2>1. /\ \E f \in {"pending", "succeeded", "dead"} : fate' = [fate EXCEPT ![r] = f]
          /\ fate[r] = "pending"
          /\ UNCHANGED <<pc, principal, wrote, principals, credential, row, work>>
      BY <1>2 DEF RunHandler, tx, store
    <2>2. /\ fate' \in [Request -> {"none", "pending", "succeeded", "dead"}]
          /\ \A o \in Request : fate'[o] # "none" <=> fate[o] # "none"
      BY <2>1 DEF InInv, InTypes
    <2>3. InTypes' /\ Stored'
      BY <2>1, <2>2 DEF InInv, InTypes, Stored, By
    <2>4. \A o \in Request : Written(o)' /\ Unique(o)'
      BY <2>1 DEF InInv, Written, Unique, By
    <2> QED BY <2>3, <2>4 DEF InInv
  <1>3. CASE UNCHANGED webhook
    <2>1. UNCHANGED <<pc, principal, wrote, principals, credential, row, work, fate>>
      BY <1>3 DEF webhook, tx, store, queue
    <2> QED BY <2>1 DEF InInv, InTypes, Stored, Written, Unique, By
  <1> QED
    BY <1>1, <1>2, <1>3, StatementStep, CommitStep DEF WebhookNext, Step

LEMMA WebhookBegins ==
    ASSUME WebhookInit
    PROVE  InInv
  <1>1. InTypes /\ Stored
    BY DEF WebhookInit, InTypes, Stored
  <1>2. \A r \in Request : Written(r) /\ Unique(r)
    BY DEF WebhookInit, Written, Unique, Placed
  <1> QED BY <1>1, <1>2 DEF InInv

\* However often a message is delivered to the webhook and at whatever statement
\* a request fails or the process ends, one delivery of it is accepted, and the
\* row that makes it a duplicate is there exactly if a work item is
\* (runtime/inbound.py:91-252).
THEOREM AcceptedExactlyOnce ==
    WebhookSpec => []AcceptedOnce
  <1>1. WebhookInit => InInv
    BY WebhookBegins
  <1>2. InInv /\ [WebhookNext]_webhook => InInv'
    BY WebhookStep
  <1>3. InInv => AcceptedOnce
    <2>1. InInv /\ InTypes => \A r \in Request : Accepted(r) <=> work[r] # None
      BY DEF InInv, Stored, Accepted
    <2> QED BY <2>1 DEF InInv, Stored, AcceptedOnce
  <1> QED BY <1>1, <1>2, <1>3, PTL DEF WebhookSpec

\* Two requests that make a principal of the same sender at once leave one: no
\* committed principal without its credential, no row or work item of another
\* principal, and the loser of the race finds the winner's
\* (runtime/inbound.py:91-138, identity/repository.py:41-129).
THEOREM SendersHaveOnePrincipal ==
    WebhookSpec => []OnePrincipalPerSender
  <1>1. WebhookInit => InInv
    BY WebhookBegins
  <1>2. InInv /\ [WebhookNext]_webhook => InInv'
    BY WebhookStep
  <1>3. ASSUME InInv PROVE OnePrincipalPerSender
    <2>1. \A p \in principals : p \in Request /\ Sends(p) = By(p)
      BY <1>3, Senders DEF InInv, InTypes
    <2>2. \A r \in Request : /\ Accepted(r) <=> work[r] # None
                             /\ Sends(r) = By(r) /\ Written(r)
      BY <1>3, Senders DEF InInv, Stored, Accepted
    <2>3. \A r \in Request : pc[r] = "again" => credential[By(r)] # None
      BY <2>2 DEF Written
    <2> QED BY <1>3, <2>1, <2>2, <2>3 DEF InInv, Stored, OnePrincipalPerSender
  <1> QED BY <1>1, <1>2, <1>3, PTL DEF WebhookSpec

-----------------------------------------------------------------------------
(* Before both: the flood control, RateLimits, for every window, limit and  *)
(* clock.                                                                   *)

CONSTANTS Principals, Window, MaxMessages
VARIABLES now, hits, let, calls

Flood == INSTANCE RateLimits

LEMMA SameCount == \A S : Flood!Cardinality(S) = Cardinality(S)
  BY DEF Flood!Cardinality, Cardinality

Hit == [n : Nat, at : Nat]

Limits == Window \in Nat /\ MaxMessages \in Nat

\* What is remembered was let through, and what was let through within the
\* window is remembered.
Remembered(p) ==
    /\ hits[p] \subseteq let[p]
    /\ \A h \in let[p] : h.at > now - Window => h \in hits[p]

FloodTypes ==
    /\ now \in Nat /\ calls \in Nat
    /\ hits \in [Principals -> SUBSET Hit]
    /\ let \in [Principals -> SUBSET Hit]
    /\ \A p \in Principals : IsFiniteSet(let[p])
    /\ \A p \in Principals : \A h \in let[p] : h.n < calls /\ h.at <= now

FInv == FloodTypes /\ (\A p \in Principals : Remembered(p)) /\ Flood!FloodIsBounded

LEMMA FloodBegins == Limits /\ Flood!Init => FInv
  <1> SUFFICES ASSUME Limits, Flood!Init
               PROVE  FInv
    OBVIOUS
  <1>1. FloodTypes /\ \A p \in Principals : Remembered(p)
    BY FS_EmptySet DEF Flood!Init, FloodTypes, Remembered
  <1>2. ASSUME NEW p \in Principals, NEW t \in Int
        PROVE  Cardinality(Flood!During(p, t)) <= MaxMessages
    <2>1. Flood!During(p, t) = {}
      BY DEF Flood!During, Flood!Init
    <2> QED BY <2>1, FS_EmptySet DEF Limits
  <1> QED BY <1>1, <1>2, SameCount DEF FInv, Flood!FloodIsBounded

LEMMA RecentIsFinite ==
    ASSUME FInv, NEW p \in Principals
    PROVE  /\ IsFiniteSet(Flood!Recent(p)) /\ Cardinality(Flood!Recent(p)) \in Nat
           /\ Flood!Recent(p) \in SUBSET Hit /\ Flood!Recent(p) \subseteq hits[p]
  <1>1. Flood!Recent(p) \subseteq let[p] /\ IsFiniteSet(let[p])
    BY DEF FInv, Remembered, Flood!Recent, FloodTypes
  <1> QED BY <1>1, FS_Subset, FS_CardinalityType DEF FInv, FloodTypes, Flood!Recent

\* The call that is let through.
LEMMA LetsThrough ==
    ASSUME Limits, FInv, NEW p \in Principals, Flood!Passes(p)
    PROVE  FInv'
  <1> DEFINE call == [n |-> calls, at |-> now]
  <1>1. /\ FloodTypes /\ \A q \in Principals : Remembered(q)
        /\ \A q \in Principals : \A t \in Int : Cardinality(Flood!During(q, t)) <= MaxMessages
    BY SameCount DEF FInv, Flood!FloodIsBounded
  <1>2. /\ hits' = [hits EXCEPT ![p] = Flood!Recent(p) \union {call}]
        /\ let' = [let EXCEPT ![p] = let[p] \union {call}]
        /\ calls' = calls + 1 /\ now' = now
        /\ Cardinality(Flood!Recent(p)) < MaxMessages
    BY SameCount DEF Flood!Passes
  <1>3. call \in Hit /\ call.at = now /\ call.n = calls /\ call \notin let[p]
    BY <1>1 DEF FloodTypes, Hit
  <1> HIDE DEF call
  <1>4. /\ hits'[p] = Flood!Recent(p) \union {call} /\ let'[p] = let[p] \union {call}
        /\ \A q \in Principals \ {p} : hits'[q] = hits[q] /\ let'[q] = let[q]
    BY <1>1, <1>2 DEF FloodTypes
  <1>5. IsFiniteSet(let'[p])
    BY <1>1, <1>4, FS_AddElement DEF FloodTypes
  <1>6. FloodTypes'
    <2>1. hits' \in [Principals -> SUBSET Hit] /\ let' \in [Principals -> SUBSET Hit]
      BY <1>1, <1>2, <1>3, RecentIsFinite DEF FloodTypes
    <2>2. \A q \in Principals : IsFiniteSet(let'[q])
      BY <1>1, <1>4, <1>5 DEF FloodTypes
    <2>3. \A q \in Principals : \A h \in let'[q] : h.n < calls' /\ h.at <= now'
      BY <1>1, <1>2, <1>3, <1>4 DEF FloodTypes, Hit
    <2>4. now' \in Nat /\ calls' \in Nat
      BY <1>1, <1>2 DEF FloodTypes
    <2> QED BY <2>1, <2>2, <2>3, <2>4 DEF FloodTypes
  <1>7. ASSUME NEW q \in Principals
        PROVE  Remembered(q)'
    BY <1>1, <1>2, <1>4, <1>7 DEF Remembered, Flood!Recent
  <1>8. ASSUME NEW q \in Principals, NEW t \in Int
        PROVE  Cardinality(Flood!During(q, t)') <= MaxMessages
    <2>1. CASE q # p \/ t < now
      <3>1. Flood!During(q, t)' = Flood!During(q, t)
        BY <1>1, <1>3, <1>4, <2>1 DEF Flood!During, FloodTypes, Limits
      <3> QED BY <1>1, <3>1
    <2>2. CASE q = p /\ t >= now
      <3>1. Flood!During(q, t)' \subseteq Flood!Recent(p) \union {call}
        <4> SUFFICES ASSUME NEW h \in let'[p], t - Window < h.at, h.at <= t, h # call
                     PROVE  h \in Flood!Recent(p)
          BY <2>2 DEF Flood!During
        <4>1. h \in let[p] /\ h \in Hit
          BY <1>1, <1>4 DEF FloodTypes
        <4>2. h.at > now - Window
          BY <1>1, <2>2, <4>1 DEF FloodTypes, Hit, Limits
        <4> QED BY <1>1, <4>1, <4>2 DEF Remembered, Flood!Recent
      <3>2. IsFiniteSet(Flood!Recent(p)) /\ call \notin Flood!Recent(p)
        BY <1>1, <1>3, RecentIsFinite DEF Remembered
      <3>3. /\ IsFiniteSet(Flood!Recent(p) \union {call})
            /\ Cardinality(Flood!Recent(p) \union {call}) = Cardinality(Flood!Recent(p)) + 1
        BY <3>2, FS_AddElement
      <3>4. /\ Cardinality(Flood!During(q, t)') <= Cardinality(Flood!Recent(p) \union {call})
            /\ Cardinality(Flood!During(q, t)') \in Nat
        BY <3>1, <3>3, FS_Subset, FS_CardinalityType
      <3> QED BY <1>2, <3>3, <3>4, RecentIsFinite DEF Limits
    <2> QED BY <1>1, <2>1, <2>2 DEF FloodTypes
  <1>9. Flood!FloodIsBounded'
    BY <1>8, SameCount DEF Flood!FloodIsBounded
  <1> QED BY <1>6, <1>7, <1>9 DEF FInv

LEMMA FloodStep == Limits /\ FInv /\ [Flood!Next]_(Flood!vars) => FInv'
  <1> SUFFICES ASSUME Limits, FInv, [Flood!Next]_(Flood!vars)
               PROVE  FInv'
    OBVIOUS
  <1>1. ASSUME NEW p \in Principals, Flood!Refuses(p)
        PROVE  FInv'
    <2>1. /\ hits' = [hits EXCEPT ![p] = Flood!Recent(p)] /\ UNCHANGED <<now, let, calls>>
          /\ hits' \in [Principals -> SUBSET Hit]
      BY <1>1, RecentIsFinite DEF Flood!Refuses, FInv, FloodTypes
    <2>2. FloodTypes'
      BY <2>1 DEF FInv, FloodTypes
    <2>3. \A q \in Principals : Remembered(q)'
      BY <2>1, <1>1 DEF FInv, FloodTypes, Remembered, Flood!Recent
    <2>4. Flood!FloodIsBounded'
      BY <2>1 DEF FInv, Flood!FloodIsBounded, Flood!During
    <2> QED BY <2>2, <2>3, <2>4 DEF FInv
  <1>2. CASE Flood!Ticks
    <2>1. now' \in Nat /\ now' > now /\ UNCHANGED <<hits, let, calls>>
      BY <1>2 DEF Flood!Ticks
    <2>2. FloodTypes'
      BY <2>1 DEF FInv, FloodTypes, Hit
    <2>3. \A q \in Principals : Remembered(q)'
      BY <2>1 DEF FInv, FloodTypes, Hit, Remembered, Limits
    <2>4. Flood!FloodIsBounded'
      BY <2>1 DEF FInv, Flood!FloodIsBounded, Flood!During
    <2> QED BY <2>2, <2>3, <2>4 DEF FInv
  <1>3. CASE Flood!Restarts
    <2>1. /\ \A q \in Principals : hits'[q] = {} /\ let'[q] = {}
          /\ UNCHANGED <<now, calls>>
          /\ hits' \in [Principals -> SUBSET Hit] /\ let' \in [Principals -> SUBSET Hit]
      BY <1>3 DEF Flood!Restarts
    <2>2. FloodTypes' /\ \A q \in Principals : Remembered(q)'
      BY <2>1, FS_EmptySet DEF FInv, FloodTypes, Remembered
    <2>3. ASSUME NEW q \in Principals, NEW t \in Int
          PROVE  Cardinality(Flood!During(q, t)') <= MaxMessages
      <3>1. Flood!During(q, t)' = {}
        BY <2>1 DEF Flood!During
      <3> QED BY <3>1, FS_EmptySet DEF Limits
    <2> QED BY <2>2, <2>3, SameCount DEF FInv, Flood!FloodIsBounded
  <1>4. CASE UNCHANGED Flood!vars
    BY <1>4 DEF Flood!vars, FInv, FloodTypes, Remembered, Flood!FloodIsBounded, Flood!During
  <1> QED BY <1>1, <1>2, <1>3, <1>4, LetsThrough DEF Flood!Next

\* No hour, wherever it begins, lets a principal through more often than the
\* limit, though the limiter forgets and prunes (runtime/rate_limit.py:30-39).
THEOREM FloodBounded ==
    ASSUME Limits
    PROVE  Flood!Spec => []Flood!FloodIsBounded
  <1>1. Flood!Init => FInv
    BY FloodBegins
  <1>2. FInv /\ [Flood!Next]_(Flood!vars) => FInv'
    BY FloodStep
  <1>3. FInv => Flood!FloodIsBounded
    BY DEF FInv
  <1> QED BY <1>1, <1>2, <1>3, PTL DEF Flood!Spec

\* Whom the limiter refuses has been let through that often in the last hour,
\* and remaining() tells how often it is to come (runtime/rate_limit.py:36-46).
THEOREM RefusedOnEvidence ==
    ASSUME Limits
    PROVE  Flood!Spec => []Flood!RecentIsExact
  <1>1. Flood!Init => FInv
    BY FloodBegins
  <1>2. FInv /\ [Flood!Next]_(Flood!vars) => FInv'
    BY FloodStep
  <1>3. FInv => Flood!RecentIsExact
    BY DEF FInv, FloodTypes, Hit, Remembered, Flood!RecentIsExact, Flood!Recent, Flood!During, Limits
  <1> QED BY <1>1, <1>2, <1>3, PTL DEF Flood!Spec
=============================================================================
