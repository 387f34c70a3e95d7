----------------------------- MODULE HostProofs ------------------------------
(***************************************************************************)
(* Proofs about Host: clients are closed after the runner, so that a turn  *)
(* meets closed ones only where the runner's stop was cut off.             *)
(***************************************************************************)
EXTENDS Host, TLAPS

\* The first n handlers: those left to run.
Left(n) == [i \in 1..n |-> Handlers[i]]

\* What has been closed, and how the runner's handler has ended, follows from
\* how many handlers are left.
Orderly(n) ==
    /\ handlers = Left(n)
    /\ n < 4 => stopping /\ (overrun \/ task = "done")
    /\ closed # {} => n < 4
    /\ server = "up" => n = 6

OInv == \E n \in 0..6 : Orderly(n)

LEMMA HandlersLeft ==
    /\ Handlers = Left(6)
    /\ Handlers[6] = "runtime_maintenance" /\ Handlers[5] = "memory_reaper"
    /\ Handlers[4] = "work_runner" /\ Handlers[3] = "whatsapp"
    /\ Handlers[2] = "intelligence" /\ Handlers[1] = "engine"
  BY DEF Handlers, Left

LEMMA LeftFacts ==
    ASSUME NEW n \in 0..6
    PROVE  /\ Len(Left(n)) = n
           /\ Left(n) = <<>> <=> n = 0
           /\ n > 0 => /\ Left(n)[n] = Handlers[n]
                       /\ SubSeq(Left(n), 1, n - 1) = Left(n - 1)
  BY DEF Left

LEMMA Started == Init => OInv
  BY HandlersLeft DEF Init, OInv, Orderly

\* A handler is taken from the back.
LEMMA Pops ==
    ASSUME NEW n \in 0..6, Orderly(n), NEW name, NextHandler(name), handlers' = Popped
    PROVE  n > 0 /\ name = Handlers[n] /\ n - 1 \in 0..6 /\ handlers' = Left(n - 1)
<1>1. /\ handlers = Left(n) /\ handlers # <<>> /\ handlers[Len(handlers)] = name
      /\ handlers' = SubSeq(handlers, 1, Len(handlers) - 1)
  BY DEF Orderly, NextHandler, Popped
<1>2. Len(handlers) = n /\ n > 0
  <2>1. Len(handlers) = n
    BY <1>1, LeftFacts
  <2>2. n # 0
    BY <1>1, LeftFacts
  <2> QED BY <2>1, <2>2
<1>3. handlers[n] = Handlers[n] /\ SubSeq(handlers, 1, n - 1) = Left(n - 1)
  BY <1>1, <1>2, LeftFacts
<1>4. name = Handlers[n] /\ handlers' = Left(n - 1)
  BY <1>1, <1>2, <1>3
<1>5. n - 1 \in 0..6
  BY <1>2
<1> QED BY <1>2, <1>4, <1>5

LEMMA Goes == OInv /\ [Next]_vars => OInv'
<1> SUFFICES ASSUME OInv, [Next]_vars
             PROVE  OInv'
  OBVIOUS
<1> PICK n \in 0..6 : Orderly(n)
  BY DEF OInv
<1>1. ASSUME NEW name, Releases(name)
      PROVE  OInv'
  <2>1. n > 0 /\ name = Handlers[n] /\ n - 1 \in 0..6 /\ handlers' = Left(n - 1)
    BY <1>1, Pops DEF Releases
  <2>2. n # 4
    BY <1>1, <2>1, HandlersLeft DEF Releases
  <2>3. closed' # closed => n < 4
    BY <1>1, <2>1, HandlersLeft DEF Releases, Clients
  <2>4. Orderly(n - 1)'
    BY <1>1, <2>1, <2>2, <2>3 DEF Orderly, Releases, NextHandler
  <2> QED BY <2>1, <2>4 DEF OInv
<1>2. ASSUME StopReturns \/ StopTimesOut
      PROVE  OInv'
  <2>1. n > 0 /\ "work_runner" = Handlers[n] /\ n - 1 \in 0..6 /\ handlers' = Left(n - 1)
    BY <1>2, Pops DEF StopReturns, StopTimesOut
  <2>2. n = 4
    BY <2>1, HandlersLeft
  <2>3. Orderly(n - 1)'
    BY <1>2, <2>1, <2>2 DEF Orderly, StopReturns, StopTimesOut, NextHandler
  <2> QED BY <2>1, <2>3 DEF OInv
<1>3. CASE StopBegins
  BY <1>3 DEF StopBegins, OInv, Orderly
<1>4. CASE Boots
  BY <1>4, HandlersLeft DEF Boots, OInv, Orderly
<1>5. CASE Exits
  <2>1. /\ server' = "exited" /\ task' = "done"
        /\ UNCHANGED <<handlers, stopping, overrun, closed>>
    BY <1>5 DEF Exits
  <2>2. Orderly(n)'
    BY <2>1 DEF Orderly
  <2> QED BY <2>2 DEF OInv
<1>6. CASE Shutdown
  BY <1>6 DEF Shutdown, OInv, Orderly
<1>7. CASE Claims \/ TurnEnds \/ LoopEnds
  <2>1. /\ UNCHANGED <<server, handlers, stopping, overrun, closed>>
        /\ task' = "done" \/ (task # "done" /\ task' # "done")
    BY <1>7 DEF Claims, TurnEnds, LoopEnds
  <2>2. Orderly(n)'
    BY <2>1 DEF Orderly
  <2> QED BY <2>2 DEF OInv
<1>8. CASE UNCHANGED serverVars
  BY <1>8 DEF serverVars, OInv, Orderly
<1>9. ASSUME NEW c \in Commands, Execute(c) \/ ExecuteDetached(c) \/ Process(c) \/ Terminal(c)
      PROVE  UNCHANGED serverVars
  BY <1>9 DEF Execute, ExecuteDetached, Process, Terminal, Forks, BashExits, ChildExits,
     Returns, TimesOut, Drains, Registers
<1>10. Reaps \/ UNCHANGED vars => UNCHANGED serverVars
  BY DEF Reaps, vars
<1> QED BY <1>1, <1>2, <1>3, <1>4, <1>5, <1>6, <1>7, <1>8, <1>9, <1>10 DEF Next, Ending

\* Clients are closed after the runner, whatever the turn's commands do and
\* however many items it has in hand (lifecycle.py:61-86, app.py:52-179).
THEOREM ClientsOutliveTurns == Spec => []TurnSeesOpenClients
<1>1. OInv => TurnSeesOpenClients
  BY DEF OInv, Orderly, TurnSeesOpenClients
<1> QED BY <1>1, Started, Goes, PTL DEF Spec

=============================================================================
