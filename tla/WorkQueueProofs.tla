-------------------------- MODULE WorkQueueProofs --------------------------
(***************************************************************************)
(* Theorems of WorkQueue for every set of items and runners, every bound,  *)
(* whatever leases, owner names, deadlines and cancellations do; where a   *)
(* theorem asks for more, that is its hypothesis.                          *)
(*                                                                         *)
(* Argument.  TypeOK and RunnerOK are inductive together: the item a busy  *)
(* runner holds is an item, so its writes hit a row.  Everything else is   *)
(* proved relative to them: attempts pay for starts; an owner's name leads *)
(* back to the last claim; and what a transaction has read of a row still  *)
(* holds when it writes, unless another one wrote the row in between,      *)
(* which tears the item (Undisturbed).  So for items not torn the writes   *)
(* are fenced, the queue implements WorkLifecycle and the ledger is true.  *)
(***************************************************************************)
EXTENDS WorkQueue, FiniteSetTheorems, TLAPS

LEMMA InitTypeInv == Init => TypeInv
BY WorkerAssumption, BoundAssumption
   DEF Init, TypeInv, TypeOK, RunnerOK, Status, Held, Terminal, Pc, Busy

\* A row the ledger gains is a well-formed signal.
LEMMA EmittedIsSignal ==
    ASSUME NEW n \in Name
    PROVE  Emitted(n) \in Signal
BY DEF Emitted, Signal

\* RunnerOK speaks of the runners only.
LEMMA RunnerOKFrame ==
    ASSUME RunnerOK, UNCHANGED workerVars
    PROVE  RunnerOK'
BY DEF RunnerOK, workerVars

\* Every step of the environment keeps the types and leaves the runners alone.
LEMMA EnvironmentTypeInv ==
    ASSUME TypeInv, Environment
    PROVE  TypeInv'
<1> USE DEF TypeInv, table, rowVars, workerVars, history
<1>1. ASSUME NEW i \in Item, Schedule(i) PROVE TypeInv'
  BY <1>1, RunnerOKFrame DEF Schedule, TypeOK, Status
<1>2. ASSUME NEW i \in Item, FloorPasses(i) PROVE TypeInv'
  BY <1>2, RunnerOKFrame DEF FloorPasses, TypeOK
<1>3. ASSUME NEW i \in Item, DeadlinePasses(i) PROVE TypeInv'
  BY <1>3, RunnerOKFrame DEF DeadlinePasses, TypeOK
<1>4. ASSUME NEW i \in Item, LeaseLapses(i) PROVE TypeInv'
  BY <1>4, RunnerOKFrame DEF LeaseLapses, TypeOK
<1>5. ASSUME NEW i \in Item, CancelRead(i) PROVE TypeInv'
  <2>1. PICK held \in BOOLEAN : held <=> status[i] \in Held
    OBVIOUS
  <2>2. (status[i] \in Held) = held
    BY <2>1, Zenon
  <2>3. cancelling' = cancelling \cup {<<i, held>>}
    BY <1>5, <2>2, Zenon DEF CancelRead
  <2>4. cancelling' \subseteq Item \X BOOLEAN
    BY <2>3 DEF TypeOK
  <2> QED  BY <1>5, <2>4, RunnerOKFrame DEF CancelRead, TypeOK
<1>6. ASSUME NEW i \in Item, NEW held \in BOOLEAN, CancelWrite(i, held) PROVE TypeInv'
  BY <1>6, RunnerOKFrame DEF CancelWrite, NoteTears, TypeOK, Status, Terminal
<1>7. ASSUME NEW n \in External, EmitExternal(n) PROVE TypeInv'
  <2>1. ledger' \subseteq Signal
    BY <1>7, EmittedIsSignal DEF EmitExternal, TypeOK, Name
  <2> QED  BY <1>7, <2>1, RunnerOKFrame DEF EmitExternal, TypeOK
<1>8. ASSUME NEW s \in ledger, Prune(s) PROVE TypeInv'
  BY <1>8, RunnerOKFrame DEF Prune, TypeOK
<1> QED  BY <1>1, <1>2, <1>3, <1>4, <1>5, <1>6, <1>7, <1>8 DEF Environment

\* So does every step of a runner.
LEMMA RunnerTypeInv ==
    ASSUME TypeInv, NEW w \in Worker, Start(w) \/ Exit(w) \/ RunOnce(w) \/ Heartbeat(w)
    PROVE  TypeInv'
<1> USE DEF TypeInv, table, rowVars, workerVars, history, Goto, Busy
<1>0. None \notin Item
  BY WorkerAssumption
<1>1. CASE Start(w)
  BY <1>1 DEF Start, TypeOK, RunnerOK, Pc
<1>2. CASE Exit(w)
  <2>1. TypeOK'
    BY <1>2 DEF Exit, TypeOK, Pc
  <2>2. RunnerOK'
    BY <1>0, <1>2 DEF Exit, TypeOK, RunnerOK
  <2> QED  BY <2>1, <2>2
<1>3. CASE SweepRead(w)
  BY <1>3 DEF SweepRead, TypeOK, RunnerOK, Pc
<1>4. CASE ClaimFails(w)
  BY <1>4, BoundAssumption DEF ClaimFails, TypeOK, RunnerOK, Pc
<1>6. ASSUME NEW i \in Item, MarkRunningRead(w, i) PROVE TypeInv'
  BY <1>6 DEF MarkRunningRead, TypeOK, RunnerOK, Pc
<1>7. ASSUME NEW i \in Item, SkipItem(w, i) PROVE TypeInv'
  BY <1>7 DEF SkipItem, Onwards, TypeOK, RunnerOK, Pc
<1>8. ASSUME NEW i \in Item, NoHandler(w, i) PROVE TypeInv'
  BY <1>8 DEF NoHandler, TypeOK, RunnerOK, Pc
<1>9. CASE MarkRunningWrite(w)
  BY <1>9 DEF MarkRunningWrite, NoteTears, TypeOK, RunnerOK, Pc, Status, Held
<1>10. CASE RenewRead(w)
  BY <1>10 DEF RenewRead, TypeOK, RunnerOK
<1>11. CASE RenewWrite(w)
  BY <1>11 DEF RenewWrite, TypeOK, RunnerOK
<1>12. CASE HandlerReturns(w)
  <2>1. CASE Goto(w, "succeeding") /\ UNCHANGED <<swept, todo, cur, beat>>
    BY <1>12, <2>1 DEF HandlerReturns, TypeOK, RunnerOK, Pc
  <2>2. CASE LeaveItem(w)
    BY <1>0, <1>12, <2>2 DEF HandlerReturns, LeaveItem, Onwards, TypeOK, RunnerOK, Pc
  <2> QED  BY <1>12, <2>1, <2>2 DEF HandlerReturns
<1>13. CASE MarkSucceededWrite(w)
  <2>1. cur[w] \in Item
    BY <1>13 DEF MarkSucceededWrite, RunnerOK
  <2>2. ledger' \subseteq Signal
    BY <1>13, <2>1, EmittedIsSignal DEF MarkSucceededWrite, TypeOK, Says, Name
  <2> QED
    BY <1>0, <1>13, <2>2 DEF MarkSucceededWrite, NoteTears, End, LeaveItem, Onwards, TypeOK, RunnerOK, Pc, Status, Terminal
<1>14. CASE HandlerRaises(w)
  BY <1>14 DEF HandlerRaises, TypeOK, RunnerOK, Pc
<1>15. CASE MarkFails(w)
  BY <1>15, BoundAssumption DEF MarkFails, TypeOK, RunnerOK, Pc
<1>16. CASE MarkFailedRead(w)
  BY <1>16 DEF MarkFailedRead, TypeOK, RunnerOK, Pc
<1>17. CASE FailureNotRecorded(w)
  BY <1>0, <1>17 DEF FailureNotRecorded, LeaveItem, Onwards, TypeOK, RunnerOK, Pc
<1>18. CASE MarkDeadWrite(w)
  <2>1. cur[w] \in Item
    BY <1>18 DEF MarkDeadWrite, RunnerOK
  <2>2. ledger' \subseteq Signal
    BY <1>18, <2>1, EmittedIsSignal DEF MarkDeadWrite, TypeOK, Says, Name
  <2> QED
    BY <1>0, <1>18, <2>2 DEF MarkDeadWrite, NoteTears, End, LeaveItem, Onwards, TypeOK, RunnerOK, Pc, Status, Terminal
<1>19. CASE FinalizeFails(w)
  BY <1>0, <1>19, BoundAssumption DEF FinalizeFails, LeaveItem, Onwards, TypeOK, RunnerOK, Pc
<1>20. CASE Claim(w)
  <2> PICK batch \in SUBSET Claimable(w) : Take(w, batch)
    BY <1>20 DEF Claim
  <2> DEFINE spent == {i \in batch : Exhausted(i)}
             taken == batch \ spent
  <2>1. taken \subseteq Item /\ spent \subseteq Item /\ swept[w] \subseteq Item
    BY DEF Claimable, TypeOK
  <2>2. Id[w] \in Owner
    BY DEF Owner
  <2>3. ledger' \subseteq Signal
    BY <2>1, EmittedIsSignal DEF Take, TypeOK, Says, Name
  <2>4. /\ status' \in [Item -> Status] /\ lease' \in [Item -> {"none", "live", "lapsed"}]
        /\ attempts' \in [Item -> Nat]
    BY DEF Take, TypeOK, Status, Held, Terminal
  <2>5. owner' \in [Item -> Owner \cup {None}]
    BY <2>2 DEF Take, TypeOK
  <2>6. claimer' \in [Item -> Worker \cup {None}]
    BY DEF Take, TypeOK
  <2>7. /\ todo' = [todo EXCEPT ![w] = taken]
        /\ pc' = [pc EXCEPT ![w] = IF taken = {} THEN "polling" ELSE "dispatch"]
    BY DEF Take
  <2> HIDE DEF taken, spent
  <2>8. TypeOK'
    BY <1>20, <2>1, <2>3, <2>4, <2>5, <2>6, <2>7 DEF Claim, NoteTears, TypeOK, Pc
  <2>9. RunnerOK'
    BY <1>0, <1>20, <2>1, <2>7 DEF Claim, RunnerOK, TypeOK
  <2> QED  BY <2>8, <2>9
<1> QED
  BY <1>1, <1>2, <1>3, <1>4, <1>6, <1>7, <1>8, <1>9, <1>10, <1>11, <1>12, <1>13, <1>14,
     <1>15, <1>16, <1>17, <1>18, <1>19, <1>20 DEF RunOnce, Heartbeat

LEMMA NextTypeInv == TypeInv /\ [Next]_vars => TypeInv'
<1> SUFFICES ASSUME TypeInv, [Next]_vars PROVE TypeInv'
  OBVIOUS
<1>1. CASE UNCHANGED vars
  BY <1>1, RunnerOKFrame DEF vars, TypeInv, TypeOK, workerVars
<1> QED
  BY <1>1, EnvironmentTypeInv, RunnerTypeInv DEF Next

\* The tables stay well typed, and a runner's position agrees with what it
\* holds, in every reachable state.
THEOREM TypeCorrect == Spec => []TypeInv
<1> QED  BY InitTypeInv, NextTypeInv, PTL DEF Spec

-----------------------------------------------------------------------------
(* Attempts.  Only a claim pass changes attempts, and only of an item it   *)
(* finds pending (and then unspent) or held with attempts to spare.        *)

LEMMA AttemptsFrame ==
    ASSUME TypeInv, Next, ~\E w \in Worker : Claim(w)
    PROVE  /\ UNCHANGED attempts
           /\ \A i \in Item : status'[i] \in {"absent", "pending"} =>
                                  status[i] \in {"absent", "pending"}
<1> USE DEF TypeInv, table, rowVars, Scheduled, End
<1>1. CASE Environment
  BY <1>1 DEF Environment, Schedule, FloorPasses, DeadlinePasses, LeaseLapses,
     CancelRead, CancelWrite, EmitExternal, Prune, TypeOK
<1>2. ASSUME NEW w \in Worker, RunOnce(w)
      PROVE  /\ UNCHANGED attempts
             /\ \A i \in Item : status'[i] \in {"absent", "pending"} =>
                                    status[i] \in {"absent", "pending"}
  BY <1>2 DEF RunOnce, SweepRead, ClaimFails, MarkRunningRead, SkipItem, NoHandler,
     MarkRunningWrite, HandlerReturns, HandlerRaises, MarkSucceededWrite, MarkFails,
     MarkFailedRead, FailureNotRecorded, MarkDeadWrite, FinalizeFails, TypeOK
<1>3. ASSUME NEW w \in Worker, Start(w) \/ Exit(w) \/ Heartbeat(w)
      PROVE  UNCHANGED <<attempts, status>>
  BY <1>3 DEF Start, Exit, Heartbeat, RenewRead, RenewWrite
<1> QED  BY <1>1, <1>2, <1>3 DEF Next

LEMMA ClaimAttempts ==
    ASSUME TypeInv, NEW w \in Worker, Claim(w), NEW i \in Item, AttemptsWithinBudget
    PROVE  /\ attempts'[i] <= MaxAttempts
           /\ status'[i] \in {"absent", "pending"} => attempts'[i] = 0
<1> PICK batch \in SUBSET Claimable(w) : Take(w, batch)
  BY DEF Claim
<1>1. CASE i \in batch /\ ~Exhausted(i)
  <2>1. attempts'[i] = attempts[i] + 1
    BY <1>1 DEF Take
  <2>2. attempts[i] + 1 <= MaxAttempts
    BY <1>1, BoundAssumption
       DEF Claimable, Exhausted, AttemptsWithinBudget, TypeInv, TypeOK, Held
  <2>3. status'[i] \in {"leased", "dead"}
    BY <1>1 DEF Take
  <2> QED  BY <2>1, <2>2, <2>3
<1>2. CASE ~(i \in batch /\ ~Exhausted(i))
  <2>1. attempts'[i] = attempts[i]
    BY <1>2 DEF Take
  <2>2. status'[i] \in {"dead", status[i]}
    BY <1>2 DEF Take
  <2> QED  BY <2>1, <2>2 DEF AttemptsWithinBudget
<1> QED  BY <1>1, <1>2

\* No item is tried more than max_attempts times, and an item that still
\* waits has not been tried at all.
THEOREM AttemptsBounded == Spec => []AttemptsWithinBudget
<1>1. Init => AttemptsWithinBudget
  BY BoundAssumption DEF Init, AttemptsWithinBudget
<1>2. TypeInv /\ AttemptsWithinBudget /\ [Next]_vars => AttemptsWithinBudget'
  <2> SUFFICES ASSUME TypeInv, AttemptsWithinBudget, [Next]_vars
               PROVE  AttemptsWithinBudget'
    OBVIOUS
  <2>1. CASE \E w \in Worker : Claim(w)
    BY <2>1, ClaimAttempts DEF AttemptsWithinBudget
  <2>2. CASE Next /\ ~\E w \in Worker : Claim(w)
    BY <2>2, AttemptsFrame DEF AttemptsWithinBudget
  <2>3. CASE UNCHANGED vars
    BY <2>3 DEF vars, AttemptsWithinBudget
  <2> QED  BY <2>1, <2>2, <2>3
<1> QED  BY <1>1, <1>2, TypeCorrect, PTL DEF Spec

-----------------------------------------------------------------------------
(* Starts.  A handler start is paid for by the attempt of the claim that   *)
(* led to it: the runners with a ticket for an item, and the starts made,  *)
(* together never outnumber the attempts.                                  *)

LEMMA TicketsFinite ==
    ASSUME NEW i \in Item
    PROVE  IsFiniteSet(Tickets(i)) /\ IsFiniteSet(Tickets(i)')
<1> IsFiniteSet(Worker)
  BY WorkerAssumption
<1> QED  BY FS_Subset DEF Tickets

LEMMA OneMore ==
    ASSUME NEW S, NEW x, IsFiniteSet(S)
    PROVE  Cardinality(S \cup {x}) <= Cardinality(S) + 1
<1>1. Cardinality(S) \in Nat
  BY FS_CardinalityType
<1>2. Cardinality(S \cup {x}) = IF x \in S THEN Cardinality(S) ELSE Cardinality(S) + 1
  BY FS_AddElement
<1> QED  BY <1>1, <1>2

\* No start, no new ticket: the account stays balanced.
LEMMA FewerTickets ==
    ASSUME TypeInv, TypeInv', NEW i \in Item,
           runs[i] + Cardinality(Tickets(i)) <= attempts[i],
           Tickets(i)' \subseteq Tickets(i), runs'[i] = runs[i], attempts'[i] = attempts[i]
    PROVE  runs'[i] + Cardinality(Tickets(i)') <= attempts'[i]
<1>1. /\ Cardinality(Tickets(i)) \in Nat /\ Cardinality(Tickets(i)') \in Nat
      /\ Cardinality(Tickets(i)') <= Cardinality(Tickets(i))
  BY TicketsFinite, FS_Subset, FS_CardinalityType
<1>2. runs[i] \in Nat /\ attempts[i] \in Nat
  BY DEF TypeInv, TypeOK
<1> QED  BY <1>1, <1>2

\* The steps that neither claim nor start hand out no ticket.
LEMMA TicketsFrame ==
    ASSUME TypeInv, Next, ~\E w \in Worker : Claim(w) \/ MarkRunningWrite(w),
           NEW i \in Item
    PROVE  Tickets(i)' \subseteq Tickets(i) /\ UNCHANGED runs
<1> USE DEF TypeInv, rowVars, workerVars, history, Goto, Tickets
<1>0. None \notin Item
  BY WorkerAssumption
<1>1. CASE Environment
  BY <1>1 DEF Environment, Schedule, FloorPasses, DeadlinePasses, LeaseLapses,
     CancelRead, CancelWrite, EmitExternal, Prune
<1>2. ASSUME NEW w \in Worker,
             \/ SweepRead(w) \/ ClaimFails(w) \/ HandlerRaises(w) \/ MarkFails(w)
             \/ MarkFailedRead(w) \/ Start(w) \/ Heartbeat(w)
      PROVE  Tickets(i)' \subseteq Tickets(i) /\ UNCHANGED runs
  BY <1>2 DEF SweepRead, ClaimFails, HandlerRaises, MarkFails, MarkFailedRead,
     Start, Heartbeat, RenewRead, RenewWrite, TypeOK
<1>3. ASSUME NEW w \in Worker, Exit(w)
      PROVE  Tickets(i)' \subseteq Tickets(i) /\ UNCHANGED runs
  BY <1>0, <1>3 DEF Exit, TypeOK
<1>4. ASSUME NEW w \in Worker, NEW j \in Item,
             MarkRunningRead(w, j) \/ SkipItem(w, j) \/ NoHandler(w, j)
      PROVE  Tickets(i)' \subseteq Tickets(i) /\ UNCHANGED runs
  BY <1>4 DEF MarkRunningRead, SkipItem, NoHandler, Onwards, TypeOK
<1>5. ASSUME NEW w \in Worker,
             \/ HandlerReturns(w) \/ MarkSucceededWrite(w) \/ FailureNotRecorded(w)
             \/ MarkDeadWrite(w) \/ FinalizeFails(w)
      PROVE  Tickets(i)' \subseteq Tickets(i) /\ UNCHANGED runs
  BY <1>0, <1>5 DEF HandlerReturns, MarkSucceededWrite, FailureNotRecorded,
     MarkDeadWrite, FinalizeFails, LeaveItem, Onwards, TypeOK
<1> QED  BY <1>1, <1>2, <1>3, <1>4, <1>5 DEF Next, RunOnce

\* A claim gives one ticket to its runner, for one attempt.
LEMMA ClaimPays ==
    ASSUME TypeInv, TypeInv', NEW w \in Worker, Claim(w), NEW i \in Item,
           runs[i] + Cardinality(Tickets(i)) <= attempts[i]
    PROVE  runs'[i] + Cardinality(Tickets(i)') <= attempts'[i]
<1> PICK batch \in SUBSET Claimable(w) : Take(w, batch)
  BY DEF Claim
<1> DEFINE taken == batch \ {j \in batch : Exhausted(j)}
<1>1. /\ pc[w] = "claiming" /\ todo[w] = {} /\ UNCHANGED <<cur, runs>>
      /\ todo' = [todo EXCEPT ![w] = taken]
      /\ pc' = [pc EXCEPT ![w] = IF taken = {} THEN "polling" ELSE "dispatch"]
  BY DEF Claim, Take, Goto, TypeInv, RunnerOK, Busy
<1>2. CASE i \in taken
  <2>1. attempts'[i] = attempts[i] + 1
    BY <1>2 DEF Take
  <2>2. Tickets(i)' = Tickets(i) \cup {w}
    BY <1>1, <1>2 DEF Tickets, TypeInv, TypeOK
  <2>3. Cardinality(Tickets(i)') <= Cardinality(Tickets(i)) + 1
    BY <2>2, TicketsFinite, OneMore
  <2>4. runs[i] \in Nat /\ attempts[i] \in Nat /\ runs'[i] = runs[i]
    BY <1>1 DEF TypeInv, TypeOK
  <2>5. Cardinality(Tickets(i)) \in Nat /\ Cardinality(Tickets(i)') \in Nat
    BY TicketsFinite, FS_CardinalityType
  <2> QED  BY <2>1, <2>3, <2>4, <2>5
<1>3. CASE i \notin taken
  <2>1. attempts'[i] = attempts[i] /\ runs'[i] = runs[i]
    BY <1>1, <1>3 DEF Take
  <2>2. Tickets(i)' \subseteq Tickets(i)
    BY <1>1, <1>3 DEF Tickets, TypeInv, TypeOK
  <2> QED  BY <2>1, <2>2, FewerTickets
<1> QED  BY <1>2, <1>3

\* A start trades the ticket of its runner.
LEMMA StartSpends ==
    ASSUME TypeInv, TypeInv', NEW w \in Worker, MarkRunningWrite(w), NEW i \in Item,
           runs[i] + Cardinality(Tickets(i)) <= attempts[i]
    PROVE  runs'[i] + Cardinality(Tickets(i)') <= attempts'[i]
<1>1. /\ pc[w] = "starting" /\ UNCHANGED <<attempts, todo, cur>>
      /\ pc' = [pc EXCEPT ![w] = "handling"] /\ runs' = [runs EXCEPT ![cur[w]] = @ + 1]
  BY DEF MarkRunningWrite, Goto
<1>2. CASE i = cur[w]
  <2>1. Tickets(i)' = Tickets(i) \ {w} /\ w \in Tickets(i)
    BY <1>1, <1>2 DEF Tickets, TypeInv, TypeOK, RunnerOK
  <2>2. Cardinality(Tickets(i)') = Cardinality(Tickets(i)) - 1
    BY <2>1, TicketsFinite, FS_RemoveElement
  <2>3. runs'[i] = runs[i] + 1 /\ attempts'[i] = attempts[i]
    BY <1>1, <1>2 DEF TypeInv, TypeOK
  <2>4. runs[i] \in Nat /\ attempts[i] \in Nat /\ Cardinality(Tickets(i)) \in Nat
    BY TicketsFinite, FS_CardinalityType DEF TypeInv, TypeOK
  <2> QED  BY <2>2, <2>3, <2>4
<1>3. CASE i # cur[w]
  <2>1. Tickets(i)' \subseteq Tickets(i) /\ runs'[i] = runs[i] /\ attempts'[i] = attempts[i]
    BY <1>1, <1>3 DEF Tickets, TypeInv, TypeOK
  <2> QED  BY <2>1, FewerTickets
<1> QED  BY <1>2, <1>3

\* Every start, made or still possible, was paid for by an attempt.
THEOREM StartsPaid == Spec => []StartsArePaid
<1>1. Init => StartsArePaid
  <2> SUFFICES ASSUME Init, NEW i \in Item
               PROVE  runs[i] + Cardinality(Tickets(i)) <= attempts[i]
    BY DEF StartsArePaid
  <2>1. Tickets(i) = {}
    BY WorkerAssumption DEF Init, Tickets
  <2> QED  BY <2>1, FS_EmptySet DEF Init
<1>2. TypeInv /\ TypeInv' /\ StartsArePaid /\ [Next]_vars => StartsArePaid'
  <2> SUFFICES ASSUME TypeInv, TypeInv', StartsArePaid, [Next]_vars, NEW i \in Item
               PROVE  runs'[i] + Cardinality(Tickets(i)') <= attempts'[i]
    BY DEF StartsArePaid
  <2>0. runs[i] + Cardinality(Tickets(i)) <= attempts[i]
    BY DEF StartsArePaid
  <2>1. ASSUME NEW w \in Worker, Claim(w)
        PROVE  runs'[i] + Cardinality(Tickets(i)') <= attempts'[i]
    BY <2>0, <2>1, ClaimPays
  <2>2. ASSUME NEW w \in Worker, MarkRunningWrite(w)
        PROVE  runs'[i] + Cardinality(Tickets(i)') <= attempts'[i]
    BY <2>0, <2>2, StartSpends
  <2>3. CASE Next /\ ~\E w \in Worker : Claim(w) \/ MarkRunningWrite(w)
    BY <2>0, <2>3, TicketsFrame, AttemptsFrame, FewerTickets
  <2>4. CASE UNCHANGED vars
    <3>1. Tickets(i)' \subseteq Tickets(i) /\ runs'[i] = runs[i] /\ attempts'[i] = attempts[i]
      BY <2>4 DEF vars, Tickets
    <3> QED  BY <2>0, <3>1, FewerTickets
  <2> QED  BY <2>1, <2>2, <2>3, <2>4
<1> QED  BY <1>1, <1>2, TypeCorrect, PTL DEF Spec

\* The handler of an item is started at most max_attempts times in its life.
THEOREM RunsBounded == Spec => []RunsWithinBudget
<1>1. TypeInv /\ StartsArePaid /\ AttemptsWithinBudget => RunsWithinBudget
  <2> SUFFICES ASSUME TypeInv, StartsArePaid, AttemptsWithinBudget, NEW i \in Item
               PROVE  runs[i] <= MaxAttempts
    BY DEF RunsWithinBudget
  <2>1. /\ runs[i] \in Nat /\ attempts[i] \in Nat /\ MaxAttempts \in Nat
        /\ Cardinality(Tickets(i)) \in Nat
    BY BoundAssumption, TicketsFinite, FS_CardinalityType DEF TypeInv, TypeOK
  <2>2. runs[i] + Cardinality(Tickets(i)) <= attempts[i] /\ attempts[i] <= MaxAttempts
    BY DEF StartsArePaid, AttemptsWithinBudget
  <2> QED  BY <2>1, <2>2
<1> QED  BY <1>1, TypeCorrect, StartsPaid, AttemptsBounded, PTL

-----------------------------------------------------------------------------
(* Announcements, waits and fencing.                                       *)

\* A row becomes succeeded or dead in three kinds of steps only.
LEMMA OnlyTheseEnd ==
    ASSUME TypeInv, [Next]_vars, NEW i \in Item,
           status'[i] # status[i], status'[i] \in {"succeeded", "dead"}
    PROVE  \E w \in Worker : Claim(w) \/ MarkSucceededWrite(w) \/ MarkDeadWrite(w)
<1> USE DEF TypeInv, table, rowVars
<1>1. CASE Environment
  BY <1>1 DEF Environment, Schedule, FloorPasses, DeadlinePasses, LeaseLapses,
     CancelRead, CancelWrite, EmitExternal, Prune, TypeOK
<1>2. ASSUME NEW w \in Worker, Start(w) \/ Exit(w) \/ Heartbeat(w)
      PROVE  FALSE
  BY <1>2 DEF Start, Exit, Heartbeat, RenewRead, RenewWrite
<1>3. ASSUME NEW w \in Worker, RunOnce(w)
      PROVE  Claim(w) \/ MarkSucceededWrite(w) \/ MarkDeadWrite(w)
  BY <1>3 DEF RunOnce, SweepRead, ClaimFails, MarkRunningRead, SkipItem, NoHandler,
     MarkRunningWrite, HandlerReturns, HandlerRaises, MarkFails, MarkFailedRead,
     FailureNotRecorded, FinalizeFails, TypeOK
<1>4. CASE UNCHANGED vars
  BY <1>4 DEF vars
<1> QED  BY <1>1, <1>2, <1>3, <1>4 DEF Next

\* Every death and every success is on the ledger in the step that makes it.
THEOREM Announced == Spec => EndsAreAnnounced
<1> DEFINE A(i) ==
      /\ status[i] # "dead" /\ status'[i] = "dead" =>
             \E s \in ledger' : s.name \in {Says("dead", i), Says("expired", i)}
      /\ status[i] # "succeeded" /\ status'[i] = "succeeded" =>
             \E s \in ledger' : s.name = Says("succeeded", i)
<1>1. TypeInv /\ [Next]_vars => \A i \in Item : A(i)
  <2> SUFFICES ASSUME TypeInv, [Next]_vars, NEW i \in Item, status'[i] # status[i],
                      status'[i] \in {"succeeded", "dead"}
               PROVE  A(i)
    OBVIOUS
  <2>0. \A n : Emitted(n).name = n
    BY DEF Emitted
  <2>1. ASSUME NEW w \in Worker, Claim(w) PROVE A(i)
    <3> PICK batch \in SUBSET Claimable(w) : Take(w, batch)
      BY <2>1 DEF Claim
    <3>1. /\ status'[i] = "dead"
          /\ i \in swept[w] \/ (i \in batch /\ Exhausted(i))
      BY DEF Take
    <3>2. Emitted(Says("expired", i)) \in ledger' \/ Emitted(Says("dead", i)) \in ledger'
      BY <3>1 DEF Take
    <3> QED  BY <2>0, <3>1, <3>2
  <2>2. ASSUME NEW w \in Worker, MarkSucceededWrite(w) PROVE A(i)
    BY <2>0, <2>2 DEF MarkSucceededWrite, End, TypeInv, TypeOK
  <2>3. ASSUME NEW w \in Worker, MarkDeadWrite(w) PROVE A(i)
    BY <2>0, <2>3 DEF MarkDeadWrite, End, TypeInv, TypeOK
  <2> QED  BY <2>1, <2>2, <2>3, OnlyTheseEnd
<1> QED  BY <1>1, TypeCorrect, PTL DEF Spec, EndsAreAnnounced

\* Pruning aside, the ledger only grows, and floors never rise again.
LEMMA LedgerGrows ==
    ASSUME TypeInv, [Next]_vars, ~\E s \in ledger : Prune(s)
    PROVE  ledger \subseteq ledger' /\ ready \subseteq ready'
<1> USE DEF table, rowVars
<1>1. CASE Environment
  BY <1>1 DEF Environment, Schedule, FloorPasses, DeadlinePasses, LeaseLapses,
     CancelRead, CancelWrite, EmitExternal
<1>2. ASSUME NEW w \in Worker, Start(w) \/ Exit(w) \/ Heartbeat(w)
      PROVE  ledger \subseteq ledger' /\ ready \subseteq ready'
  BY <1>2 DEF Start, Exit, Heartbeat, RenewRead, RenewWrite
<1>3. ASSUME NEW w \in Worker, RunOnce(w)
      PROVE  ledger \subseteq ledger' /\ ready \subseteq ready'
  BY <1>3 DEF RunOnce, SweepRead, Claim, Take, ClaimFails, MarkRunningRead, SkipItem,
     NoHandler, MarkRunningWrite, HandlerReturns, HandlerRaises, MarkSucceededWrite,
     MarkFails, MarkFailedRead, FailureNotRecorded, MarkDeadWrite, FinalizeFails
<1>4. CASE UNCHANGED vars
  BY <1>4 DEF vars
<1> QED  BY <1>1, <1>2, <1>3, <1>4 DEF Next

\* A waiting item that could be woken can be woken for as long as it waits.
THEOREM WakesKept == Spec => WakeIsNotLost
<1> DEFINE A(i) ==
      status[i] = "pending" /\ WakeConditionMet(i) /\ status'[i] = "pending"
      => WakeConditionMet(i)'
<1>1. TypeInv /\ [Next]_vars => \A i \in Item : A(i)
  <2> SUFFICES ASSUME TypeInv, [Next]_vars, NEW i \in Item,
                      status[i] = "pending", WakeConditionMet(i)
               PROVE  WakeConditionMet(i)'
    OBVIOUS
  <2>1. ASSUME NEW s \in ledger, Prune(s) PROVE WakeConditionMet(i)'
    <3>1. ready' = ready /\ ledger' = ledger \ {s} /\ ~NeededByAWaiter(s)
      BY <2>1 DEF Prune, rowVars
    <3>2. ~(s.name = WakeEvent[i] /\ i \in s.wakes)
      BY <3>1 DEF NeededByAWaiter
    <3> QED  BY <3>1, <3>2 DEF WakeConditionMet
  <2>2. CASE ~\E s \in ledger : Prune(s)
    BY <2>2, LedgerGrows DEF WakeConditionMet
  <2> QED  BY <2>1, <2>2
<1> QED  BY <1>1, TypeCorrect, PTL DEF Spec, WakeIsNotLost

\* The owner column names the incarnation that claimed the item last.
OwnerIsClaimer ==
    \A i \in Item : owner[i] # None => claimer[i] \in Worker /\ owner[i] = Id[claimer[i]]

LEMMA InitOwner == Init => OwnerIsClaimer
BY DEF Init, OwnerIsClaimer

LEMMA NextOwner == TypeInv /\ OwnerIsClaimer /\ [Next]_vars => OwnerIsClaimer'
<1> SUFFICES ASSUME TypeInv, OwnerIsClaimer, [Next]_vars PROVE OwnerIsClaimer'
  OBVIOUS
<1> USE DEF TypeInv, OwnerIsClaimer, table, rowVars, history
<1>1. CASE Environment
  <2>1. ASSUME NEW i \in Item, NEW held \in BOOLEAN, CancelWrite(i, held)
        PROVE  OwnerIsClaimer'
    <3>1. claimer' = claimer /\ \A j \in Item : owner'[j] \in {owner[j], None}
      BY <2>1 DEF CancelWrite, TypeOK
    <3> QED  BY <3>1
  <2>2. CASE ~\E i \in Item, held \in BOOLEAN : CancelWrite(i, held)
    <3>1. UNCHANGED <<owner, claimer>>
      BY <1>1, <2>2 DEF Environment, Schedule, FloorPasses, DeadlinePasses, LeaseLapses,
         CancelRead, EmitExternal, Prune
    <3> QED  BY <3>1
  <2> QED  BY <2>1, <2>2
<1>2. ASSUME NEW w \in Worker, Start(w) \/ Exit(w) \/ Heartbeat(w)
      PROVE  UNCHANGED <<owner, claimer>>
  BY <1>2 DEF Start, Exit, Heartbeat, RenewRead, RenewWrite
<1>3. ASSUME NEW w \in Worker, Claim(w) PROVE OwnerIsClaimer'
  <2> PICK batch \in SUBSET Claimable(w) : Take(w, batch)
    BY <1>3 DEF Claim
  <2> SUFFICES ASSUME NEW i \in Item, owner'[i] # None
               PROVE  claimer'[i] \in Worker /\ owner'[i] = Id[claimer'[i]]
    OBVIOUS
  <2> DEFINE spent == {j \in batch : Exhausted(j)}
  <2>1. /\ owner'[i] = IF i \in spent THEN None
                       ELSE IF i \in batch \ spent THEN Id[w] ELSE owner[i]
        /\ claimer'[i] = IF i \in batch \ spent THEN w ELSE claimer[i]
    BY DEF Take
  <2> QED  BY <2>1
<1>4. ASSUME NEW w \in Worker, MarkSucceededWrite(w) \/ MarkDeadWrite(w)
      PROVE  OwnerIsClaimer'
  BY <1>4 DEF MarkSucceededWrite, MarkDeadWrite, End, TypeOK
<1>5. ASSUME NEW w \in Worker, RunOnce(w),
             ~(Claim(w) \/ MarkSucceededWrite(w) \/ MarkDeadWrite(w))
      PROVE  UNCHANGED <<owner, claimer>>
  BY <1>5 DEF RunOnce, SweepRead, ClaimFails, MarkRunningRead, SkipItem, NoHandler,
     MarkRunningWrite, HandlerReturns, HandlerRaises, MarkFails, MarkFailedRead,
     FailureNotRecorded, FinalizeFails
<1>6. CASE UNCHANGED vars
  BY <1>6 DEF vars
<1> QED  BY <1>1, <1>2, <1>3, <1>4, <1>5, <1>6 DEF Next

\* Only mark_succeeded's own read takes a runner from its handler to the write.
LEMMA OnlyTheReturnSucceeds ==
    ASSUME TypeInv, [Next]_vars, NEW w \in Worker,
           pc[w] = "handling", pc'[w] = "succeeding"
    PROVE  HandlerReturns(w)
<1> USE DEF TypeInv, workerVars, Goto
<1>1. CASE Environment
  BY <1>1 DEF Environment, Schedule, FloorPasses, DeadlinePasses, LeaseLapses,
     CancelRead, CancelWrite, EmitExternal, Prune
<1>2. ASSUME NEW v \in Worker, Start(v) \/ Exit(v) \/ Heartbeat(v)
      PROVE  FALSE
  BY <1>2 DEF Start, Exit, Heartbeat, RenewRead, RenewWrite, TypeOK
<1>3. ASSUME NEW v \in Worker, RunOnce(v)
      PROVE  HandlerReturns(w)
  <2>1. CASE v = w
    BY <1>3, <2>1 DEF RunOnce, SweepRead, Claim, ClaimFails, MarkRunningRead, SkipItem,
       NoHandler, MarkRunningWrite, HandlerRaises, MarkSucceededWrite,
       MarkFails, MarkFailedRead, FailureNotRecorded, MarkDeadWrite, FinalizeFails, TypeOK
  <2>2. CASE v # w
    BY <1>3, <2>2 DEF RunOnce, SweepRead, Claim, Take, ClaimFails, MarkRunningRead, SkipItem,
       NoHandler, MarkRunningWrite, HandlerReturns, HandlerRaises, MarkSucceededWrite,
       MarkFails, MarkFailedRead, FailureNotRecorded, MarkDeadWrite, FinalizeFails,
       LeaveItem, Onwards, TypeOK
  <2> QED  BY <2>1, <2>2
<1>4. CASE UNCHANGED vars
  BY <1>4 DEF vars
<1> QED  BY <1>1, <1>2, <1>3, <1>4 DEF Next

\* A runner overtaken by a claim under another name is turned away before it
\* writes a result, whatever the leases did (repository.py, mark_succeeded).
THEOREM ZombiesFenced == Spec => FenceStopsZombies
<1> DEFINE A(w) == pc[w] = "handling" /\ pc'[w] = "succeeding" => ClaimedAs(w, cur[w])
<1>1. TypeInv /\ OwnerIsClaimer /\ [Next]_vars => \A w \in Worker : A(w)
  <2> SUFFICES ASSUME TypeInv, OwnerIsClaimer, [Next]_vars, NEW w \in Worker,
                      pc[w] = "handling", pc'[w] = "succeeding"
               PROVE  ClaimedAs(w, cur[w])
    OBVIOUS
  <2>1. HandlerReturns(w)
    BY OnlyTheReturnSucceeds
  <2>2. cur[w] \in Item
    BY DEF TypeInv, RunnerOK, Busy
  <2>3. owner[cur[w]] = Id[w]
    BY <2>1 DEF HandlerReturns, LeaveItem, Onwards, Goto, Owns, TypeInv, TypeOK
  <2>4. Id[w] # None
    BY WorkerAssumption
  <2> QED  BY <2>2, <2>3, <2>4 DEF OwnerIsClaimer, ClaimedAs
<1> QED  BY <1>1, InitOwner, NextOwner, TypeCorrect, PTL DEF Spec, FenceStopsZombies

-----------------------------------------------------------------------------
(* Sweeps.  The deadline sweep reads its rows before it writes them.  They *)
(* still wait (or were cancelled) when it does, if there is one replica,   *)
(* or nothing has a deadline.                                              *)

Alone == \A v, w \in Worker : Alive(v) /\ Alive(w) => v = w

SweptWait ==
    /\ overdue \subseteq Deadlined
    /\ \A w \in Worker : \A i \in swept[w] :
           pc[w] = "claiming" /\ i \in Deadlined /\ status[i] \in {"pending", "cancelled"}

\* A runner about to bury its item found its attempts spent.
BurySpent == \A w \in Worker : pc[w] = "burying" => attempts[cur[w]] >= MaxAttempts

LEMMA NextAlone == MaxAlive = 1 /\ TypeInv /\ Alone /\ [Next]_vars => Alone'
<1> SUFFICES ASSUME MaxAlive = 1, TypeInv, Alone, [Next]_vars PROVE Alone'
  OBVIOUS
<1> USE DEF TypeInv, TypeOK, Goto
<1>1. ASSUME NEW u \in Worker, Start(u) PROVE Alone'
  <2> DEFINE up == {v \in Worker : Alive(v)}
  <2>1. Cardinality(up) < 1 /\ pc' = [pc EXCEPT ![u] = "polling"]
    BY <1>1 DEF Start
  <2>2. IsFiniteSet(up)
    BY WorkerAssumption, FS_Subset
  <2>3. up = {}
    <3> HIDE DEF up
    <3>1. Cardinality(up) \in Nat
      BY <2>2, FS_CardinalityType
    <3>2. Cardinality(up) = 0
      BY <2>1, <3>1
    <3> QED  BY <2>2, <3>2, FS_EmptySet
  <2> QED  BY <2>1, <2>3 DEF Alone, Alive
<1>2. CASE Next /\ ~\E u \in Worker : Start(u)
  <2>1. \A w \in Worker : Alive(w)' => Alive(w)
    <3>1. CASE Environment
      BY <3>1 DEF Environment, Schedule, FloorPasses, DeadlinePasses, LeaseLapses, CancelRead,
         CancelWrite, EmitExternal, Prune, workerVars, Alive
    <3>2. ASSUME NEW u \in Worker, Exit(u) \/ RunOnce(u) \/ Heartbeat(u)
          PROVE  \A w \in Worker : Alive(w)' => Alive(w)
      BY <3>2 DEF Exit, RunOnce, SweepRead, Claim, Take, ClaimFails, MarkRunningRead, SkipItem,
         NoHandler, MarkRunningWrite, HandlerReturns, HandlerRaises, MarkSucceededWrite,
         MarkFails, MarkFailedRead, FailureNotRecorded, MarkDeadWrite, FinalizeFails,
         Heartbeat, RenewRead, RenewWrite, LeaveItem, Onwards, Alive
    <3> QED  BY <1>2, <3>1, <3>2 DEF Next
  <2> QED  BY <2>1 DEF Alone
<1>3. CASE UNCHANGED vars
  BY <1>3 DEF vars, Alone, Alive
<1> QED  BY <1>1, <1>2, <1>3

\* While a sweep is between its halves, no other runner takes its rows.
LEMMA NextSweptWait ==
    ASSUME Deadlined = {} \/ Alone, TypeInv, SweptWait, [Next]_vars
    PROVE  SweptWait'
<1> USE DEF TypeInv, TypeOK, table, rowVars, workerVars
<1>1. CASE Environment
  BY <1>1 DEF Environment, Schedule, Scheduled, FloorPasses, DeadlinePasses, LeaseLapses,
     CancelRead, CancelWrite, EmitExternal, Prune, SweptWait
<1>2. ASSUME NEW u \in Worker, SweepRead(u) PROVE SweptWait'
  BY <1>2 DEF SweepRead, SweptWait, Goto
<1>3. ASSUME NEW u \in Worker, Claim(u) PROVE SweptWait'
  <2> PICK batch \in SUBSET Claimable(u) : Take(u, batch)
    BY <1>3 DEF Claim
  <2>1. /\ pc[u] = "claiming" /\ overdue' = overdue /\ swept' = [swept EXCEPT ![u] = {}]
        /\ \A v \in Worker \ {u} : pc'[v] = pc[v]
    BY <1>3 DEF Claim, Take, Goto
  <2>2. \A v \in Worker \ {u} : swept[v] = {}
    BY <2>1 DEF SweptWait, Alone, Alive
  <2> QED  BY <2>1, <2>2 DEF SweptWait
<1>4. ASSUME NEW u \in Worker, ClaimFails(u) \/ Exit(u) PROVE SweptWait'
  BY <1>4 DEF ClaimFails, Exit, SweptWait, Goto
<1>5. ASSUME NEW u \in Worker, Start(u) \/ Heartbeat(u) PROVE SweptWait'
  BY <1>5 DEF Start, Heartbeat, RenewRead, RenewWrite, SweptWait, Goto
<1>6. ASSUME NEW u \in Worker, RunOnce(u), ~(SweepRead(u) \/ Claim(u) \/ ClaimFails(u))
      PROVE  SweptWait'
  <2>1. UNCHANGED <<overdue, swept>> /\ Alive(u) /\ pc[u] # "claiming"
    BY <1>6 DEF RunOnce, MarkRunningRead, SkipItem, NoHandler, MarkRunningWrite, HandlerReturns,
       HandlerRaises, MarkSucceededWrite, MarkFails, MarkFailedRead, FailureNotRecorded,
       MarkDeadWrite, FinalizeFails, LeaveItem, Alive
  <2>2. \A v \in Worker : swept[v] = {}
    BY <2>1 DEF SweptWait, Alone, Alive
  <2> QED  BY <2>1, <2>2 DEF SweptWait
<1>7. CASE UNCHANGED vars
  BY <1>7 DEF vars, SweptWait
<1> QED  BY <1>1, <1>2, <1>3, <1>4, <1>5, <1>6, <1>7 DEF Next

LEMMA NextBurySpent == TypeInv /\ BurySpent /\ [Next]_vars => BurySpent'
<1> SUFFICES ASSUME TypeInv, BurySpent, [Next]_vars, NEW w \in Worker, pc'[w] = "burying"
             PROVE  attempts'[cur'[w]] >= MaxAttempts
  BY DEF BurySpent
<1> USE DEF TypeInv, TypeOK, table, rowVars, workerVars, Goto
<1>1. ASSUME NEW u \in Worker, Claim(u) PROVE attempts'[cur'[w]] >= MaxAttempts
  <2> PICK batch \in SUBSET Claimable(u) : Take(u, batch)
    BY <1>1 DEF Claim
  <2>1. pc[w] = "burying" /\ cur' = cur /\ cur[w] \in Item
    BY <1>1 DEF Claim, Take, RunnerOK, Busy
  <2>2. attempts'[cur[w]] \in {attempts[cur[w]], attempts[cur[w]] + 1}
    BY <2>1 DEF Take
  <2> QED  BY <2>1, <2>2, BoundAssumption DEF BurySpent
<1>2. CASE Next /\ ~\E u \in Worker : Claim(u)
  <2>1. UNCHANGED attempts
    BY <1>2, AttemptsFrame
  <2>2. attempts[cur'[w]] >= MaxAttempts
    <3>1. CASE Environment
      BY <3>1 DEF Environment, Schedule, FloorPasses, DeadlinePasses, LeaseLapses, CancelRead,
         CancelWrite, EmitExternal, Prune, BurySpent
    <3>2. ASSUME NEW u \in Worker, Start(u) \/ Exit(u) \/ RunOnce(u) \/ Heartbeat(u), ~Claim(u)
          PROVE  attempts[cur'[w]] >= MaxAttempts
      BY <3>2 DEF Start, Exit, RunOnce, SweepRead, ClaimFails, MarkRunningRead, SkipItem,
         NoHandler, MarkRunningWrite, HandlerReturns, HandlerRaises, MarkSucceededWrite,
         MarkFails, MarkFailedRead, LastAttempt, FailureNotRecorded, MarkDeadWrite,
         FinalizeFails, Heartbeat, RenewRead, RenewWrite, LeaveItem, Onwards, BurySpent
    <3> QED  BY <1>2, <3>1, <3>2 DEF Next
  <2> QED  BY <2>1, <2>2
<1>3. CASE UNCHANGED vars
  BY <1>3 DEF vars, BurySpent
<1> QED  BY <1>1, <1>2, <1>3

\* One replica, or no deadlines.
OneSweeper == MaxAlive = 1 \/ Deadlined = {}

\* Then a sweep finds its rows waiting when it writes them, and the deadline
\* of claim_due never hits an item somebody has claimed (repository.py).
THEOREM SweepsAtomic == OneSweeper => (Spec => [](SweptWait /\ BurySpent))
<1> SUFFICES ASSUME OneSweeper PROVE Spec => [](SweptWait /\ BurySpent)
  OBVIOUS
<1>1. Init => SweptWait /\ BurySpent /\ (MaxAlive = 1 => Alone)
  BY DEF Init, SweptWait, BurySpent, Alone, Alive
<1>2. /\ TypeInv /\ SweptWait /\ BurySpent /\ (MaxAlive = 1 => Alone) /\ [Next]_vars
      => SweptWait' /\ BurySpent' /\ (MaxAlive = 1 => Alone)'
  BY NextAlone, NextSweptWait, NextBurySpent DEF OneSweeper
<1> QED  BY <1>1, <1>2, TypeCorrect, PTL DEF Spec

\* With one replica, or no deadlines, an item that was woken in time does not
\* expire: once claimed it dies of its attempts only (repository.py, claim_due).
THEOREM WokenInTime == OneSweeper => (Spec => WokenNeverExpires)
<1> DEFINE A(i) == status[i] \in Held /\ status'[i] = "dead" => attempts[i] >= MaxAttempts
<1>1. TypeInv /\ SweptWait /\ BurySpent /\ [Next]_vars => \A i \in Item : A(i)
  <2> SUFFICES ASSUME TypeInv, SweptWait, BurySpent, [Next]_vars, NEW i \in Item,
                      status[i] \in Held, status'[i] = "dead"
               PROVE  attempts[i] >= MaxAttempts
    OBVIOUS
  <2>1. ASSUME NEW u \in Worker, Claim(u) PROVE attempts[i] >= MaxAttempts
    <3> PICK batch \in SUBSET Claimable(u) : Take(u, batch)
      BY <2>1 DEF Claim
    <3>1. i \in swept[u] \/ (i \in batch /\ Exhausted(i))
      BY DEF Take, Held
    <3> QED  BY <3>1 DEF SweptWait, Exhausted, Held
  <2>2. ASSUME NEW u \in Worker, MarkSucceededWrite(u) \/ MarkDeadWrite(u)
        PROVE  attempts[i] >= MaxAttempts
    BY <2>2 DEF MarkSucceededWrite, MarkDeadWrite, End, TypeInv, TypeOK, BurySpent, Held
  <2> QED  BY <2>1, <2>2, OnlyTheseEnd DEF Held
<1> QED  BY <1>1, SweepsAtomic, TypeCorrect, PTL DEF Spec, WokenNeverExpires

-----------------------------------------------------------------------------
(* Reads.  What a transaction found in a row still holds when it writes,   *)
(* or another transaction wrote the row meanwhile and the item is torn.    *)

ViewsHold(i) ==
    /\ \A w \in Worker :
        /\ cur[w] = i =>
            /\ pc[w] = "starting" => status[i] = "leased" /\ Owns(w, i)
            /\ pc[w] = "succeeding" => status[i] \in Held /\ Owns(w, i)
            /\ pc[w] = "burying" => status[i] \in Held /\ Owns(w, i) /\ attempts[i] >= MaxAttempts
        /\ i \in swept[w] => status[i] = "pending"
    /\ \A held \in BOOLEAN :
        <<i, held>> \in cancelling =>
            status[i] \notin Terminal \cup {"absent"} /\ (held <=> status[i] \in Held)

Undisturbed == \A i \in Item \ torn : ViewsHold(i)

\* Who may write a row, besides the one that schedules it, looks for readers.
LEMMA WritersNoteTears ==
    ASSUME TypeInv, [Next]_vars, NEW i \in Item, Row(i)' # Row(i)
    PROVE  Schedule(i) \/ NoteTears
<1> USE DEF TypeInv, TypeOK, table, rowVars, Row
<1>1. CASE Environment
  BY <1>1 DEF Environment, Schedule, FloorPasses, DeadlinePasses, LeaseLapses, CancelRead,
     CancelWrite, EmitExternal, Prune
<1>2. ASSUME NEW u \in Worker, Start(u) \/ Exit(u) \/ RunOnce(u) \/ Heartbeat(u)
      PROVE  NoteTears
  BY <1>2 DEF Start, Exit, RunOnce, SweepRead, Claim, ClaimFails, MarkRunningRead, SkipItem,
     NoHandler, MarkRunningWrite, HandlerReturns, HandlerRaises, MarkSucceededWrite, MarkFails,
     MarkFailedRead, FailureNotRecorded, MarkDeadWrite, FinalizeFails, Heartbeat, RenewRead, RenewWrite
<1>3. CASE UNCHANGED vars
  BY <1>3 DEF vars
<1> QED  BY <1>1, <1>2, <1>3 DEF Next

\* An item once torn is never taken for whole again, and only a write tears.
LEMMA TornGrows ==
    ASSUME TypeInv, [Next]_vars
    PROVE  torn \subseteq torn' /\ \A i \in torn' \ torn : Row(i)' # Row(i)
<1> USE DEF table, rowVars, history
<1>1. CASE NoteTears
  BY <1>1 DEF NoteTears
<1>2. CASE Environment /\ ~NoteTears
  BY <1>2 DEF Environment, Schedule, FloorPasses, DeadlinePasses, LeaseLapses, CancelRead,
     CancelWrite, EmitExternal, Prune
<1>3. ASSUME NEW u \in Worker, Start(u) \/ Exit(u) \/ RunOnce(u) \/ Heartbeat(u), ~NoteTears
      PROVE  UNCHANGED torn
  BY <1>3 DEF Start, Exit, RunOnce, SweepRead, Claim, ClaimFails, MarkRunningRead, SkipItem,
     NoHandler, MarkRunningWrite, HandlerReturns, HandlerRaises, MarkSucceededWrite, MarkFails,
     MarkFailedRead, FailureNotRecorded, MarkDeadWrite, FinalizeFails, Heartbeat, RenewRead, RenewWrite
<1>4. CASE UNCHANGED vars
  BY <1>4 DEF vars
<1> QED  BY <1>1, <1>2, <1>3, <1>4 DEF Next

\* A runner between a read and a write was so before, or has read just now.
LEMMA ReadersHaveRead ==
    ASSUME TypeInv, [Next]_vars, NEW w \in Worker, NEW i \in Item
    PROVE  /\ cur'[w] = i /\ pc'[w] = "starting" =>
                  (cur[w] = i /\ pc[w] = "starting") \/ (status[i] = "leased" /\ Owns(w, i))
           /\ cur'[w] = i /\ pc'[w] = "succeeding" =>
                  (cur[w] = i /\ pc[w] = "succeeding") \/ (status[i] \in Held /\ Owns(w, i))
           /\ cur'[w] = i /\ pc'[w] = "burying" =>
                  \/ cur[w] = i /\ pc[w] = "burying"
                  \/ status[i] \in Held /\ Owns(w, i) /\ attempts[i] >= MaxAttempts
           /\ i \in swept'[w] => i \in swept[w] \/ status[i] = "pending"
<1> USE DEF TypeInv, workerVars, Goto
<1>0. None \notin Item
  BY WorkerAssumption
<1> DEFINE Known ==
      /\ cur'[w] = i /\ pc'[w] = "starting" =>
             (cur[w] = i /\ pc[w] = "starting") \/ (status[i] = "leased" /\ Owns(w, i))
      /\ cur'[w] = i /\ pc'[w] = "succeeding" =>
             (cur[w] = i /\ pc[w] = "succeeding") \/ (status[i] \in Held /\ Owns(w, i))
      /\ cur'[w] = i /\ pc'[w] = "burying" =>
             \/ cur[w] = i /\ pc[w] = "burying"
             \/ status[i] \in Held /\ Owns(w, i) /\ attempts[i] >= MaxAttempts
      /\ i \in swept'[w] => i \in swept[w] \/ status[i] = "pending"
<1>1. CASE Environment
  BY <1>1 DEF Environment, Schedule, FloorPasses, DeadlinePasses, LeaseLapses,
     CancelRead, CancelWrite, EmitExternal, Prune
<1>2. ASSUME NEW v \in Worker, Start(v) \/ Exit(v) \/ RunOnce(v) \/ Heartbeat(v), v # w
      PROVE  pc'[w] = pc[w] /\ cur'[w] = cur[w] /\ swept'[w] = swept[w]
  BY <1>2 DEF Start, Exit, RunOnce, SweepRead, Claim, Take, ClaimFails, MarkRunningRead, SkipItem,
     NoHandler, MarkRunningWrite, HandlerReturns, HandlerRaises, MarkSucceededWrite,
     MarkFails, MarkFailedRead, FailureNotRecorded, MarkDeadWrite, FinalizeFails,
     Heartbeat, RenewRead, RenewWrite, LeaveItem, Onwards, TypeOK
<1>3. CASE Start(w) \/ Exit(w) \/ SweepRead(w) \/ Claim(w) \/ ClaimFails(w)
  BY <1>0, <1>3 DEF Start, Exit, SweepRead, Claim, Take, ClaimFails, TypeOK
<1>4. ASSUME NEW j \in Item, MarkRunningRead(w, j) \/ SkipItem(w, j) \/ NoHandler(w, j)
      PROVE  Known
  BY <1>4 DEF MarkRunningRead, SkipItem, NoHandler, Onwards, TypeOK
<1>5. CASE HandlerReturns(w)
  <2>1. CASE Goto(w, "succeeding") /\ UNCHANGED <<swept, todo, cur, beat>>
    BY <1>5, <2>1 DEF HandlerReturns, LeaveItem, Onwards, TypeOK
  <2>2. CASE LeaveItem(w)
    BY <1>0, <2>2 DEF LeaveItem, Onwards, TypeOK
  <2> QED  BY <1>5, <2>1, <2>2 DEF HandlerReturns
<1>6. CASE MarkSucceededWrite(w) \/ FailureNotRecorded(w) \/ MarkDeadWrite(w) \/ FinalizeFails(w)
  BY <1>0, <1>6 DEF MarkSucceededWrite, FailureNotRecorded, MarkDeadWrite, FinalizeFails,
     LeaveItem, Onwards, TypeOK
<1>7. CASE MarkFailedRead(w)
  BY <1>7 DEF MarkFailedRead, LastAttempt, TypeOK
<1>8. CASE MarkRunningWrite(w) \/ HandlerRaises(w) \/ MarkFails(w) \/ Heartbeat(w)
  BY <1>8 DEF MarkRunningWrite, HandlerRaises, MarkFails, Heartbeat, RenewRead, RenewWrite, TypeOK
<1>9. CASE UNCHANGED vars
  BY <1>9 DEF vars
<1> QED
  BY <1>1, <1>2, <1>3, <1>4, <1>5, <1>6, <1>7, <1>8, <1>9 DEF Next, RunOnce

\* A cancellation under way was under way before, or has read just now.
LEMMA CancellersHaveRead ==
    ASSUME TypeInv, [Next]_vars, NEW i \in Item, NEW held \in BOOLEAN, <<i, held>> \in cancelling'
    PROVE  \/ <<i, held>> \in cancelling
           \/ status[i] \notin Terminal \cup {"absent"} /\ (held <=> status[i] \in Held)
<1>1. ASSUME NEW j \in Item, CancelRead(j), <<i, held>> \notin cancelling
      PROVE  status[i] \notin Terminal \cup {"absent"} /\ (held <=> status[i] \in Held)
  <2>1. <<i, held>> = <<j, status[j] \in Held>>
    BY <1>1, Zenon DEF CancelRead
  <2>2. i = j /\ held = (status[j] \in Held)
    BY <2>1, Zenon
  <2>3. status[j] \notin Terminal \cup {"absent"}
    BY <1>1 DEF CancelRead, Scheduled
  <2> QED  BY <2>2, <2>3, Zenon
<1>2. ASSUME NEW j \in Item, NEW h \in BOOLEAN, CancelWrite(j, h)
      PROVE  <<i, held>> \in cancelling
  BY <1>2 DEF CancelWrite
<1>3. CASE Environment /\ ~\E j \in Item : CancelRead(j) \/ \E h \in BOOLEAN : CancelWrite(j, h)
  BY <1>3 DEF Environment, Schedule, FloorPasses, DeadlinePasses, LeaseLapses, EmitExternal, Prune
<1>4. ASSUME NEW u \in Worker, Start(u) \/ Exit(u) \/ RunOnce(u) \/ Heartbeat(u)
      PROVE  UNCHANGED cancelling
  BY <1>4 DEF Start, Exit, RunOnce, SweepRead, Claim, ClaimFails, MarkRunningRead, SkipItem,
     NoHandler, MarkRunningWrite, HandlerReturns, HandlerRaises, MarkSucceededWrite, MarkFails,
     MarkFailedRead, FailureNotRecorded, MarkDeadWrite, FinalizeFails, Heartbeat, RenewRead, RenewWrite
<1>5. CASE UNCHANGED vars
  BY <1>5 DEF vars
<1> QED  BY <1>1, <1>2, <1>3, <1>4, <1>5 DEF Next

LEMMA NextUndisturbed == TypeInv /\ Undisturbed /\ [Next]_vars => Undisturbed'
<1> SUFFICES ASSUME TypeInv, Undisturbed, [Next]_vars, NEW i \in Item, i \notin torn'
             PROVE  ViewsHold(i)'
  BY DEF Undisturbed
<1>0. i \notin torn /\ ViewsHold(i)
  BY TornGrows DEF Undisturbed
<1>1. CASE Row(i)' # Row(i)
  <2>1. ~Open(i)'
    <3>1. CASE Schedule(i)
      <4>1. status[i] = "absent" /\ UNCHANGED <<cur, pc, swept, cancelling>>
        BY <3>1 DEF Schedule, Scheduled, workerVars
      <4>2. ~Open(i)
        BY <1>0, <4>1 DEF ViewsHold, Open, Held
      <4> QED  BY <4>1, <4>2 DEF Open
    <3>2. CASE NoteTears
      BY <1>1, <3>2 DEF NoteTears
    <3> QED  BY <1>1, <3>1, <3>2, WritersNoteTears
  <2> QED  BY <2>1 DEF Open, ViewsHold
<1>2. CASE Row(i)' = Row(i)
  <2>1. status'[i] = status[i] /\ owner'[i] = owner[i] /\ attempts'[i] = attempts[i]
    BY <1>2 DEF Row
  <2>2. ASSUME NEW w \in Worker
        PROVE  /\ cur'[w] = i =>
                   /\ pc'[w] = "starting" => status[i] = "leased" /\ owner[i] = Id[w]
                   /\ pc'[w] = "succeeding" => status[i] \in Held /\ owner[i] = Id[w]
                   /\ pc'[w] = "burying" =>
                          status[i] \in Held /\ owner[i] = Id[w] /\ attempts[i] >= MaxAttempts
               /\ i \in swept'[w] => status[i] = "pending"
    BY <1>0, ReadersHaveRead DEF ViewsHold, Owns
  <2>3. ASSUME NEW held \in BOOLEAN, <<i, held>> \in cancelling'
        PROVE  status[i] \notin Terminal \cup {"absent"} /\ (held <=> status[i] \in Held)
    BY <1>0, <2>3, CancellersHaveRead DEF ViewsHold
  <2> QED  BY <2>1, <2>2, <2>3 DEF ViewsHold, Owns
<1> QED  BY <1>1, <1>2

\* What a transaction has read of an item's row still holds when it writes,
\* unless the row was written in between: with replicas, lapsed leases, late
\* runners, deadlines and cancellations (repository.py, claim_due to cancel).
THEOREM UndisturbedKept == Spec => []Undisturbed
<1>1. Init => Undisturbed
  BY WorkerAssumption DEF Init, Undisturbed, ViewsHold
<1> QED  BY <1>1, NextUndisturbed, TypeCorrect, PTL DEF Spec

\* The result of an item is recorded by a runner of the name that claimed it
\* last, and that owns it still, unless its row was written between
\* mark_succeeded's read and its write (repository.py, mark_succeeded).
THEOREM ResultsFenced == Spec => ResultIsFenced
<1> DEFINE A(i, w) == Records(w, i) => ClaimedAs(w, i) /\ Owns(w, i) /\ status[i] \in Held
<1>1. OwnerIsClaimer /\ Undisturbed => \A i \in Item \ torn, w \in Worker : A(i, w)
  <2> SUFFICES ASSUME OwnerIsClaimer, Undisturbed, NEW i \in Item \ torn, NEW w \in Worker,
                      Records(w, i)
               PROVE  ClaimedAs(w, i) /\ Owns(w, i) /\ status[i] \in Held
    OBVIOUS
  <2>1. Owns(w, i) /\ status[i] \in Held
    BY DEF Records, Undisturbed, ViewsHold
  <2> QED  BY <2>1, WorkerAssumption DEF Owns, OwnerIsClaimer, ClaimedAs
<1> QED
  BY <1>1, UndisturbedKept, InitOwner, NextOwner, TypeCorrect, PTL DEF Spec, ResultIsFenced

\* An item is started on a claim that still stands: what was reclaimed while
\* it was queued in a batch is left alone (repository.py, mark_running).
THEOREM StartsFenced == Spec => StartIsFenced
<1> DEFINE A(w) == pc[w] = "starting" /\ pc'[w] = "handling" /\ cur[w] \notin torn =>
                       ClaimedAs(w, cur[w]) /\ status[cur[w]] = "leased"
<1>1. TypeInv /\ OwnerIsClaimer /\ Undisturbed => \A w \in Worker : A(w)
  <2> SUFFICES ASSUME TypeInv, OwnerIsClaimer, Undisturbed, NEW w \in Worker,
                      pc[w] = "starting", cur[w] \notin torn
               PROVE  ClaimedAs(w, cur[w]) /\ status[cur[w]] = "leased"
    OBVIOUS
  <2>1. cur[w] \in Item
    BY DEF TypeInv, RunnerOK, Busy
  <2>2. status[cur[w]] = "leased" /\ owner[cur[w]] = Id[w]
    BY <2>1 DEF Undisturbed, ViewsHold, Owns
  <2> QED  BY <2>1, <2>2, WorkerAssumption DEF OwnerIsClaimer, ClaimedAs
<1> QED
  BY <1>1, UndisturbedKept, InitOwner, NextOwner, TypeCorrect, PTL DEF Spec, StartIsFenced

-----------------------------------------------------------------------------
(* The contract.                                                           *)

QueueInv == TypeInv /\ AttemptsWithinBudget /\ Undisturbed

LEMMA QueueInvKept == Spec => []QueueInv
BY TypeCorrect, AttemptsBounded, UndisturbedKept, PTL DEF QueueInv

\* What a step does to an item that was not torn before it.
LEMMA EveryStepIsOfTheLifecycle ==
    ASSUME QueueInv, [Next]_vars, NEW i \in Item, i \notin torn
    PROVE  \/ Row(i)' = Row(i)
           \/ /\ status[i] = "absent" /\ status'[i] = "pending"
              /\ attempts'[i] = attempts[i] /\ UNCHANGED torn
           \/ /\ status[i] = "pending" /\ status'[i] = "leased"
              /\ attempts[i] < MaxAttempts /\ attempts'[i] = attempts[i] + 1
           \/ /\ status[i] \in Held /\ status'[i] = "leased"
              /\ attempts[i] < MaxAttempts /\ attempts'[i] = attempts[i] + 1
           \/ status[i] \in Held /\ status'[i] \in {"running", "succeeded"} /\ attempts'[i] = attempts[i]
           \/ status[i] = "pending" /\ status'[i] = "dead" /\ attempts'[i] = attempts[i]
           \/ /\ status[i] \in Held /\ status'[i] = "dead"
              /\ attempts[i] = MaxAttempts /\ attempts'[i] = attempts[i]
           \/ /\ status[i] \in {"pending"} \cup Held /\ status'[i] = "cancelled"
              /\ attempts'[i] = attempts[i]
<1> USE DEF QueueInv, TypeInv, TypeOK, table, rowVars
<1>0. /\ attempts[i] \in Nat /\ MaxAttempts \in Nat /\ attempts[i] <= MaxAttempts /\ MaxAttempts # 0
      /\ status[i] = "pending" => attempts[i] < MaxAttempts
  BY BoundAssumption DEF AttemptsWithinBudget
<1>00. ViewsHold(i)
  BY DEF Undisturbed
<1>1. ASSUME NEW u \in Worker, Claim(u)
      PROVE  \/ Row(i)' = Row(i)
             \/ /\ status[i] = "pending" /\ status'[i] = "leased"
                /\ attempts[i] < MaxAttempts /\ attempts'[i] = attempts[i] + 1
             \/ /\ status[i] \in Held /\ status'[i] = "leased"
                /\ attempts[i] < MaxAttempts /\ attempts'[i] = attempts[i] + 1
             \/ status[i] = "pending" /\ status'[i] = "dead" /\ attempts'[i] = attempts[i]
             \/ /\ status[i] \in Held /\ status'[i] = "dead"
                /\ attempts[i] = MaxAttempts /\ attempts'[i] = attempts[i]
  <2> PICK batch \in SUBSET Claimable(u) : Take(u, batch)
    BY <1>1 DEF Claim
  <2> DEFINE spent == {j \in batch : Exhausted(j)}
             taken == batch \ spent
  <2>1. /\ status'[i] = IF i \in swept[u] \cup spent THEN "dead"
                        ELSE IF i \in taken THEN "leased" ELSE status[i]
        /\ owner'[i] = IF i \in spent THEN None ELSE IF i \in taken THEN Id[u] ELSE owner[i]
        /\ attempts'[i] = IF i \in taken THEN attempts[i] + 1 ELSE attempts[i]
    BY DEF Take
  <2>2. batch \cap swept[u] = {}
    BY DEF Claimable
  <2>3. i \in swept[u] => status[i] = "pending"
    BY <1>00 DEF ViewsHold
  <2>4. i \in spent => status[i] \in Held /\ attempts[i] = MaxAttempts
    BY <1>0 DEF Exhausted
  <2>5. i \in taken => (status[i] = "pending" \/ status[i] \in Held) /\ attempts[i] < MaxAttempts
    BY <1>0 DEF Exhausted, Claimable
  <2> QED  BY <2>1, <2>2, <2>3, <2>4, <2>5 DEF Row
<1>2. ASSUME NEW u \in Worker, MarkRunningWrite(u)
      PROVE  \/ Row(i)' = Row(i)
             \/ status[i] \in Held /\ status'[i] = "running" /\ attempts'[i] = attempts[i]
  <2>1. cur[u] = i => status[i] \in Held
    BY <1>00, <1>2 DEF MarkRunningWrite, ViewsHold, Held
  <2> QED  BY <1>2, <2>1 DEF MarkRunningWrite, Row
<1>3. ASSUME NEW u \in Worker, MarkSucceededWrite(u)
      PROVE  \/ Row(i)' = Row(i)
             \/ status[i] \in Held /\ status'[i] = "succeeded" /\ attempts'[i] = attempts[i]
  <2>1. cur[u] = i => status[i] \in Held
    BY <1>00, <1>3 DEF MarkSucceededWrite, ViewsHold
  <2> QED  BY <1>3, <2>1 DEF MarkSucceededWrite, End, Row
<1>4. ASSUME NEW u \in Worker, MarkDeadWrite(u)
      PROVE  \/ Row(i)' = Row(i)
             \/ /\ status[i] \in Held /\ status'[i] = "dead"
                /\ attempts[i] = MaxAttempts /\ attempts'[i] = attempts[i]
  <2>0. pc[u] = "burying"
    BY <1>4 DEF MarkDeadWrite
  <2>1. cur[u] = i => status[i] \in Held /\ attempts[i] = MaxAttempts
    <3>1. cur[u] = i => status[i] \in Held /\ attempts[i] >= MaxAttempts
      BY <1>00, <2>0 DEF ViewsHold
    <3> QED  BY <1>0, <3>1
  <2> QED  BY <1>4, <2>1 DEF MarkDeadWrite, End, Row
<1>5. ASSUME NEW j \in Item, NEW held \in BOOLEAN, CancelWrite(j, held)
      PROVE  \/ Row(i)' = Row(i)
             \/ /\ status[i] \in {"pending"} \cup Held /\ status'[i] = "cancelled"
                /\ attempts'[i] = attempts[i]
  <2>1. i = j => status[i] \in {"pending"} \cup Held
    BY <1>00, <1>5 DEF CancelWrite, ViewsHold, Status
  <2> QED  BY <1>5, <2>1 DEF CancelWrite, Row
<1>6. ASSUME NEW j \in Item, Schedule(j)
      PROVE  \/ Row(i)' = Row(i)
             \/ /\ status[i] = "absent" /\ status'[i] = "pending"
                /\ attempts'[i] = attempts[i] /\ UNCHANGED torn
  BY <1>6 DEF Schedule, Scheduled, history, Row
<1>7. CASE /\ Environment
           /\ ~\E j \in Item : Schedule(j) \/ \E held \in BOOLEAN : CancelWrite(j, held)
  BY <1>7 DEF Environment, FloorPasses, DeadlinePasses, LeaseLapses,
     CancelRead, EmitExternal, Prune, Row
<1>8. ASSUME NEW u \in Worker, Start(u) \/ Exit(u) \/ RunOnce(u) \/ Heartbeat(u),
             ~(Claim(u) \/ MarkRunningWrite(u) \/ MarkSucceededWrite(u) \/ MarkDeadWrite(u))
      PROVE  Row(i)' = Row(i)
  BY <1>8 DEF Start, Exit, RunOnce, SweepRead, ClaimFails, MarkRunningRead, SkipItem, NoHandler,
     HandlerReturns, HandlerRaises, MarkFails, MarkFailedRead, FailureNotRecorded,
     FinalizeFails, Heartbeat, RenewRead, RenewWrite, Row
<1>9. CASE UNCHANGED vars
  BY <1>9 DEF vars, Row
<1> HIDE DEF QueueInv, TypeInv, TypeOK, table, rowVars
<1> QED  BY <1>1, <1>2, <1>3, <1>4, <1>5, <1>6, <1>7, <1>8, <1>9 DEF Next

\* Torn or not, an item is tried within its budget.
LEMMA TriesStayInBudget ==
    ASSUME QueueInv, [Next]_vars, NEW i \in Item
    PROVE  \/ attempts'[i] = attempts[i]
           \/ attempts[i] < MaxAttempts /\ attempts'[i] = attempts[i] + 1
<1>0. attempts[i] \in Nat /\ MaxAttempts \in Nat /\ TypeInv /\ AttemptsWithinBudget
  BY BoundAssumption DEF QueueInv, TypeInv, TypeOK
<1>1. ASSUME NEW u \in Worker, Claim(u)
      PROVE  \/ attempts'[i] = attempts[i]
             \/ attempts[i] < MaxAttempts /\ attempts'[i] = attempts[i] + 1
  <2> PICK batch \in SUBSET Claimable(u) : Take(u, batch)
    BY <1>1 DEF Claim
  <2>1. attempts'[i] \in {attempts[i], attempts[i] + 1}
    BY DEF Take
  <2>2. attempts'[i] <= MaxAttempts
    BY <1>0, <1>1, ClaimAttempts
  <2> QED  BY <1>0, <2>1, <2>2
<1>2. CASE Next /\ ~\E u \in Worker : Claim(u)
  BY <1>0, <1>2, AttemptsFrame
<1>3. CASE UNCHANGED vars
  BY <1>3 DEF vars
<1> QED  BY <1>1, <1>2, <1>3

\* The queue implements the lifecycle of an item: it ends once, stays ended,
\* and dies only of its deadline while it waits or of its attempts once it
\* was claimed, until its row is written under a reader; and its tries stay
\* within their bound for good (repository.py, read as one contract).
THEOREM ImplementsLifecycle == Spec => KeepsLifecycle
<1> DEFINE Phase == [i \in Item |-> IF i \in torn THEN "torn" ELSE LifecyclePhase(status[i])]
<1>1. Init => Lifecycle!Init
  BY DEF Init, Lifecycle!Init, LifecyclePhase, Held
<1>2. QueueInv /\ [Next]_vars => [Lifecycle!Next]_<<Phase, attempts>>
  <2> SUFFICES ASSUME QueueInv, [Next]_vars, NEW i \in Item
               PROVE  \/ Lifecycle!Submit(i) \/ Lifecycle!Activate(i) \/ Lifecycle!Retry(i)
                      \/ Lifecycle!Succeed(i) \/ Lifecycle!Expire(i) \/ Lifecycle!GiveUp(i)
                      \/ Lifecycle!Cancel(i) \/ Lifecycle!Rest(i) \/ Lifecycle!Tear(i)
    BY DEF Lifecycle!Next
  <2>0. attempts[i] \in Nat /\ TypeInv
    BY DEF QueueInv, TypeInv, TypeOK
  <2>1. CASE i \in torn
    <3>1. Phase[i] = "torn" /\ Phase'[i] = "torn"
      BY <2>0, <2>1, TornGrows
    <3> QED
      BY <2>0, <3>1, TriesStayInBudget DEF Lifecycle!Tear, Lifecycle!Rest, Lifecycle!Spends
  <2>2. CASE i \in torn' \ torn
    <3>1. Row(i)' # Row(i) /\ Phase'[i] = "torn" /\ Phase[i] = LifecyclePhase(status[i])
      BY <2>0, <2>2, TornGrows
    <3>2. status[i] \in {"pending"} \cup Held
      BY <2>2, <3>1, EveryStepIsOfTheLifecycle
    <3> QED
      BY <2>0, <3>1, <3>2, TriesStayInBudget
         DEF Lifecycle!Tear, Lifecycle!Spends, LifecyclePhase, Held
  <2>3. CASE i \notin torn /\ i \notin torn'
    <3>1. Phase[i] = LifecyclePhase(status[i]) /\ Phase'[i] = LifecyclePhase(status'[i])
      BY <2>3
    <3> QED
      BY <2>0, <2>3, <3>1, EveryStepIsOfTheLifecycle
         DEF Lifecycle!Submit, Lifecycle!Activate, Lifecycle!Retry, Lifecycle!Succeed,
             Lifecycle!Expire, Lifecycle!GiveUp, Lifecycle!Cancel, Lifecycle!Rest,
             Lifecycle!Moves, Lifecycle!Spends, LifecyclePhase, Held, Row
  <2> QED  BY <2>1, <2>2, <2>3
<1> QED  BY <1>1, <1>2, QueueInvKept, PTL DEF Spec, KeepsLifecycle, Lifecycle!Spec

\* Nobody but the runner speaks of work on the ledger: the namespace work.*
\* is reserved (signals.py, RESERVED_SIGNAL_PREFIXES).
RunnerSpeaksAlone == External \cap ({"succeeded", "dead", "expired"} \X Item) = {}

\* What a step adds to the ledger about an item is what it did to its row.
LEMMA NewRowsAreTrue ==
    ASSUME RunnerSpeaksAlone, TypeInv, [Next]_vars, NEW s \in ledger' \ ledger, NEW i \in Item
    PROVE  /\ s.name = Says("succeeded", i) => status'[i] = "succeeded"
           /\ s.name \in {Says("dead", i), Says("expired", i)} => status'[i] = "dead"
<1> USE DEF TypeInv, TypeOK, table, rowVars, Says
<1>0. \A n : Emitted(n).name = n
  BY DEF Emitted
<1>1. ASSUME NEW n \in External, EmitExternal(n)
      PROVE  s.name \notin {Says("succeeded", i), Says("dead", i), Says("expired", i)}
  <2>1. s.name \in External
    BY <1>0, <1>1 DEF EmitExternal
  <2> QED  BY <2>1 DEF RunnerSpeaksAlone
<1>2. ASSUME NEW u \in Worker, Claim(u)
      PROVE  \E j \in Item : s.name \in {Says("expired", j), Says("dead", j)} /\ status'[j] = "dead"
  <2> PICK batch \in SUBSET Claimable(u) : Take(u, batch)
    BY <1>2 DEF Claim
  <2> DEFINE spent == {j \in batch : Exhausted(j)}
  <2>1. PICK j \in swept[u] \cup spent : s = Emitted(Says("expired", j)) \/ s = Emitted(Says("dead", j))
    BY DEF Take
  <2>2. j \in Item
    BY <2>1 DEF Claimable
  <2>3. status'[j] = "dead"
    BY <2>1, <2>2 DEF Take
  <2> QED  BY <1>0, <2>1, <2>2, <2>3
<1>3. ASSUME NEW u \in Worker, MarkSucceededWrite(u)
      PROVE  \E j \in Item : s.name = Says("succeeded", j) /\ status'[j] = "succeeded"
  <2>1. cur[u] \in Item /\ s = Emitted(Says("succeeded", cur[u]))
    BY <1>3 DEF MarkSucceededWrite, RunnerOK, Busy
  <2> QED  BY <1>0, <1>3, <2>1 DEF MarkSucceededWrite, End
<1>4. ASSUME NEW u \in Worker, MarkDeadWrite(u)
      PROVE  \E j \in Item : s.name = Says("dead", j) /\ status'[j] = "dead"
  <2>1. cur[u] \in Item /\ s = Emitted(Says("dead", cur[u]))
    BY <1>4 DEF MarkDeadWrite, RunnerOK, Busy
  <2> QED  BY <1>0, <1>4, <2>1 DEF MarkDeadWrite, End
<1>5. ASSUME NEW u \in Worker, Start(u) \/ Exit(u) \/ RunOnce(u) \/ Heartbeat(u),
             ~(Claim(u) \/ MarkSucceededWrite(u) \/ MarkDeadWrite(u))
      PROVE  FALSE
  BY <1>5 DEF Start, Exit, RunOnce, SweepRead, ClaimFails, MarkRunningRead, SkipItem, NoHandler,
     MarkRunningWrite, HandlerReturns, HandlerRaises, MarkFails, MarkFailedRead,
     FailureNotRecorded, FinalizeFails, Heartbeat, RenewRead, RenewWrite
<1>6. CASE Environment /\ ~\E n \in External : EmitExternal(n)
  BY <1>6 DEF Environment, Schedule, FloorPasses, DeadlinePasses, LeaseLapses, CancelRead,
     CancelWrite, Prune
<1>7. CASE UNCHANGED vars
  BY <1>7 DEF vars
<1>8. \/ s.name \notin {Says("succeeded", i), Says("dead", i), Says("expired", i)}
      \/ \E j \in Item : s.name \in {Says("expired", j), Says("dead", j)} /\ status'[j] = "dead"
      \/ \E j \in Item : s.name = Says("succeeded", j) /\ status'[j] = "succeeded"
  <2> HIDE DEF TypeInv, TypeOK, table, rowVars, Says
  <2> QED  BY <1>1, <1>2, <1>3, <1>4, <1>5, <1>6, <1>7 DEF Next
<1> HIDE DEF TypeInv, TypeOK, table, rowVars
<1>9. CASE s.name \notin {Says("succeeded", i), Says("dead", i), Says("expired", i)}
  BY <1>9
<1>10. ASSUME NEW j \in Item, s.name \in {<<"expired", j>>, <<"dead", j>>}, status'[j] = "dead"
       PROVE  s.name # <<"succeeded", i>> /\ (s.name \in {<<"dead", i>>, <<"expired", i>>} => i = j)
  BY <1>10
<1>11. ASSUME NEW j \in Item, s.name = <<"succeeded", j>>, status'[j] = "succeeded"
       PROVE  s.name \notin {<<"dead", i>>, <<"expired", i>>} /\ (s.name = <<"succeeded", i>> => i = j)
  BY <1>11
<1> QED  BY <1>8, <1>9, <1>10, <1>11

\* What the ledger says of an item that was not torn is, and stays, its row's
\* outcome: those who wait for "this work finished" or "this work died" react
\* to a fact (runner.py, run_once, mark_succeeded and mark_failed).
THEOREM LedgerTrue == RunnerSpeaksAlone => (Spec => []LedgerIsTrue)
<1> SUFFICES ASSUME RunnerSpeaksAlone PROVE Spec => []LedgerIsTrue
  OBVIOUS
<1>1. Init => LedgerIsTrue
  BY DEF Init, LedgerIsTrue
<1>2. QueueInv /\ LedgerIsTrue /\ [Next]_vars => LedgerIsTrue'
  <2> SUFFICES ASSUME QueueInv, LedgerIsTrue, [Next]_vars, NEW s \in ledger',
                      NEW i \in Item, i \notin torn'
               PROVE  /\ s.name = Says("succeeded", i) => status'[i] = "succeeded"
                      /\ s.name \in {Says("dead", i), Says("expired", i)} => status'[i] = "dead"
    BY DEF LedgerIsTrue, Says
  <2>0. TypeInv /\ i \notin torn
    BY TornGrows DEF QueueInv
  <2>1. CASE s \in ledger
    <3>1. status[i] \in {"succeeded", "dead"} => status'[i] = status[i]
      BY <2>0, EveryStepIsOfTheLifecycle DEF Held, Row
    <3> QED  BY <2>0, <2>1, <3>1 DEF LedgerIsTrue
  <2>2. CASE s \notin ledger
    BY <2>0, <2>2, NewRowsAreTrue
  <2> QED  BY <2>1, <2>2
<1> QED  BY <1>1, <1>2, QueueInvKept, PTL DEF Spec
=============================================================================
