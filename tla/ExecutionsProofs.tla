-------------------------- MODULE ExecutionsProofs --------------------------
(***************************************************************************)
(* Proofs about Executions: one turn per message, no committed execution   *)
(* left running, and no item reported as done before it is.  All three     *)
(* follow from what an attempt owns: its number, hence its execution row,  *)
(* and, from the insert of its idempotency row to the commit, its message. *)
(* On them rest that open conversations are few, and that Executions       *)
(* implements Turns.  The last part is about the functions of Recovery.    *)
(***************************************************************************)
EXTENDS Executions, Recovery, FiniteSetTheorems, TLAPS

Busy(w) == pc[w] # "idle"

\* Places from which an attempt may still commit a turn.
Before == {"admitting", "inserting", "reentering", "finding", "touching", "looping",
           "committing"}

Places ==
    \A w \in Worker :
        /\ Busy(w) => cur[w] \in Item /\ try[w] \in 1..attempts[cur[w]]
        /\ pc[w] \in {"admitting", "inserting", "replying"} => Inbound(cur[w])
        /\ pc[w] = "reentering" => ~ Inbound(cur[w])
        /\ pc[w] = "committing" => result[w] \in Ending

\* Attempts at one item have numbers of their own, and rows of their own.
Numbered ==
    /\ \A w, v \in Worker :
         w # v /\ Busy(w) /\ Busy(v) /\ cur[w] = cur[v] => try[w] # try[v]
    /\ \A i \in Item : \A a \in Attempt : execution[i][a] # "absent" => a <= attempts[i]
    /\ \A w \in Worker : pc[w] \in Before => execution[cur[w]][try[w]] = "absent"

\* The unique key of processed_messages, as long as its row is not committed.
Keyed ==
    \A w \in Worker : InTurn(w) /\ Inbound(cur[w]) =>
        /\ processed[cur[w][1]] = "absent"
        /\ \A v \in Worker : v # w /\ InTurn(v) => cur[v] # cur[w]

\* OneTurnPerMessage without cardinalities.
OneRow ==
    \A m \in Message :
        /\ ~ Settled(m) => \A a \in Attempt : execution[<<m, 0>>][a] = "absent"
        /\ Settled(m) =>
             \E a \in Attempt :
                 /\ execution[<<m, 0>>][a] # "absent"
                 /\ \A b \in Attempt : execution[<<m, 0>>][b] # "absent" => b = a

Done(i) ==
    IF Inbound(i)
    THEN processed[i[1]] # "absent"
    ELSE \E a \in Attempt : execution[i][a] \in {"answered", "paused"}

Reported == \A w \in Worker : pc[w] \in {"replying", "reporting"} => Done(cur[w])

\* DoneIsDone as far as attempts go: RInv has the rest of it.
Finished == \A i \in Item : status[i] = "succeeded" => Done(i)

IInv == Types /\ Places /\ Numbered /\ Keyed /\ OneRow /\ Reported /\ Finished

-----------------------------------------------------------------------------
(* The two ways of a step that leaves the tables alone.                    *)

Turning == {"finding", "touching", "looping", "committing"}

LEMMA BeforeTurning ==
    /\ Turning \subseteq Before /\ Before \subseteq Place
    /\ "idle" \notin Before
    /\ \A w \in Worker : InTurn(w) <=> pc[w] \in Turning
  BY DEF Turning, Before, Place, InTurn

\* Runner w goes from one place to another with its item in hand.
LEMMA Walks ==
    ASSUME IInv, NEW w \in Worker, NEW to \in Place,
           pc' = [pc EXCEPT ![w] = to],
           UNCHANGED <<status, attempts, owner, processed, execution, cur, try>>,
           result' \in [Worker -> Ending \cup {"running"}],
           \A v \in Worker \ {w} : result'[v] = result[v],
           Busy(w), to # "idle",
           to \in {"admitting", "inserting", "replying"} => Inbound(cur[w]),
           to = "reentering" => ~ Inbound(cur[w]),
           to = "committing" => result'[w] \in Ending,
           to \in Before => pc[w] \in Before,
           to \in Turning /\ ~ InTurn(w) /\ Inbound(cur[w]) =>
               /\ processed[cur[w][1]] = "absent"
               /\ \A v \in Worker \ {w} : InTurn(v) => cur[v] # cur[w],
           to \in {"replying", "reporting"} => Done(cur[w])
    PROVE  IInv'
  <1>1. Types' /\ pc'[w] = to /\ \A v \in Worker \ {w} : pc'[v] = pc[v]
    BY DEF IInv, Types
  <1>2. \A v \in Worker : Busy(v)' <=> Busy(v)
    BY <1>1 DEF Busy
  <1>3. \A i \in Item : Done(i)' <=> Done(i)
    BY DEF Done
  <1>4. Places'
    BY <1>1, <1>2 DEF IInv, Places, Busy
  <1>5. Numbered'
    BY <1>1, <1>2 DEF IInv, Numbered
  <1>6. Keyed'
    <2>1. \A v \in Worker : InTurn(v)' <=> pc'[v] \in Turning
      BY DEF InTurn, Turning
    <2>2. \A v \in Worker \ {w} : InTurn(v)' <=> InTurn(v)
      BY <1>1 DEF InTurn
    <2>3. ASSUME InTurn(w)', Inbound(cur[w])
          PROVE  /\ processed[cur[w][1]] = "absent"
                 /\ \A v \in Worker \ {w} : InTurn(v) => cur[v] # cur[w]
      BY <1>1, <2>1, <2>3 DEF IInv, Keyed
    <2> QED BY <2>2, <2>3 DEF IInv, Keyed, Inbound
  <1>7. OneRow' /\ Finished'
    BY <1>3 DEF IInv, OneRow, Finished, Settled
  <1>8. Reported'
    BY <1>1, <1>3, <1>4 DEF IInv, Reported, Places, Busy
  <1> QED BY <1>1, <1>4, <1>5, <1>6, <1>7, <1>8 DEF IInv

\* Runner w lays its item down; what it records of it is true.
LEMMA LaysDown ==
    ASSUME IInv, NEW w \in Worker,
           pc' = [pc EXCEPT ![w] = "idle"],
           cur' = [cur EXCEPT ![w] = NoItem],
           try' = [try EXCEPT ![w] = 0],
           result' \in [Worker -> Ending \cup {"running"}],
           \A v \in Worker \ {w} : result'[v] = result[v],
           UNCHANGED <<attempts, processed, execution>>,
           status' \in [Item -> {"absent", "pending", "held", "succeeded", "dead"}],
           owner' \in [Item -> Worker \cup {"none"}],
           \A i \in Item : status'[i] = "succeeded" => status[i] = "succeeded" \/ Done(i)
    PROVE  IInv'
  <1>1. Types' /\ pc'[w] = "idle"
               /\ \A v \in Worker \ {w} : pc'[v] = pc[v] /\ cur'[v] = cur[v] /\ try'[v] = try[v]
    <2>1. MaxAttempts \in Nat
      BY BoundAssumption
    <2>2. try' \in [Worker -> 0..MaxAttempts]
      BY <2>1 DEF IInv, Types
    <2>3. pc' \in [Worker -> Place] /\ cur' \in [Worker -> Item \cup {NoItem}]
      BY DEF IInv, Types, Place
    <2> QED BY <2>2, <2>3 DEF IInv, Types
  <1>2. \A v \in Worker : Busy(v)' <=> Busy(v) /\ v # w
    BY <1>1 DEF Busy
  <1>3. \A i \in Item : Done(i)' <=> Done(i)
    BY DEF Done
  <1>4. Places'
    BY <1>1, <1>2 DEF IInv, Places, Busy
  <1>5. Numbered'
    BY <1>1, <1>2 DEF IInv, Numbered, Before
  <1>6. Keyed'
    BY <1>1 DEF IInv, Keyed, InTurn
  <1>7. OneRow'
    BY DEF IInv, OneRow, Settled
  <1>8. Finished'
    BY DEF IInv, Finished, Done
  <1>9. Reported'
    BY <1>1, <1>3, <1>4 DEF IInv, Reported, Places, Busy
  <1> QED BY <1>1, <1>4, <1>5, <1>6, <1>7, <1>8, <1>9 DEF IInv

\* Only a row of the queue changes, to a status that claims nothing.
LEMMA Requeues ==
    ASSUME IInv, UNCHANGED <<attempts, processed, execution, pc, cur, try, result>>,
           status' \in [Item -> {"absent", "pending", "held", "succeeded", "dead"}],
           owner' \in [Item -> Worker \cup {"none"}],
           \A i \in Item : status'[i] = "succeeded" => status[i] = "succeeded"
    PROVE  IInv'
  <1>1. Types' /\ Places' /\ Numbered' /\ OneRow'
    BY DEF IInv, Types, Places, Numbered, OneRow, Settled, Busy
  <1>2. Keyed' /\ Reported' /\ Finished'
    BY DEF IInv, Keyed, InTurn, Reported, Finished, Done
  <1> QED BY <1>1, <1>2 DEF IInv

\* A row of the webhook settles nothing, and keys no turn.
LEMMA Accepts ==
    ASSUME IInv, NEW m \in Message, Accept(m)
    PROVE  IInv'
  <1>1. /\ UNCHANGED <<attempts, owner, execution, pc, cur, try, result>>
        /\ processed[m] = "absent" /\ processed' = [processed EXCEPT ![m] = "pending"]
        /\ status' = [status EXCEPT ![<<m, 0>>] = "pending"]
    BY DEF Accept, local
  <1>2. /\ Types' /\ processed'[m] = "pending"
        /\ \A n \in Message \ {m} : processed'[n] = processed[n]
    BY <1>1 DEF IInv, Types
  <1>3. Places' /\ Numbered'
    BY <1>1 DEF IInv, Places, Numbered, Busy
  <1>4. Keyed'
    <2> SUFFICES ASSUME NEW w \in Worker, InTurn(w), Inbound(cur[w])
                 PROVE  /\ processed'[cur[w][1]] = "absent"
                        /\ \A v \in Worker : v # w /\ InTurn(v) => cur[v] # cur[w]
      BY <1>1 DEF Keyed, InTurn, Inbound
    <2>1. cur[w] \in Item /\ cur[w] = <<cur[w][1], 0>> /\ cur[w][1] \in Message
      BY DEF IInv, Places, Busy, InTurn, Inbound, Item
    <2>2. cur[w] # <<m, 0>>
      BY DEF Accept
    <2>3. cur[w][1] # m
      BY <2>1, <2>2
    <2> QED BY <1>2, <2>1, <2>3 DEF IInv, Keyed
  <1>5. OneRow'
    BY <1>1, <1>2 DEF IInv, OneRow, Settled
  <1>6. \A i \in Item : Done(i) => Done(i)'
    BY <1>1, <1>2 DEF Done, Inbound, Item
  <1>7. Finished'
    BY <1>1, <1>6 DEF IInv, Types, Finished
  <1>8. Reported'
    BY <1>1, <1>6 DEF IInv, Places, Busy, Reported, Done
  <1> QED BY <1>2, <1>3, <1>4, <1>5, <1>7, <1>8 DEF IInv

-----------------------------------------------------------------------------
(* The two steps that matter: a claim makes an attempt, a commit ends one. *)

LEMMA Claims ==
    ASSUME IInv, NEW w \in Worker, NEW i \in Item, Claim(w, i)
    PROVE  IInv'
  <1> DEFINE n == attempts[i] + 1
  <1>1. /\ attempts' = [attempts EXCEPT ![i] = n]
        /\ n \in Attempt /\ attempts[i] < n
        /\ attempts'[i] = n
    BY BoundAssumption DEF IInv, Types, Claim, Attempt
  <1>2. /\ pc[w] = "idle" /\ pc'[w] \in {"admitting", "reentering"}
        /\ pc'[w] = "admitting" => Inbound(i)
        /\ pc'[w] = "reentering" => ~ Inbound(i)
        /\ cur'[w] = i /\ try'[w] = n
        /\ \A v \in Worker \ {w} : pc'[v] = pc[v] /\ cur'[v] = cur[v] /\ try'[v] = try[v]
    BY <1>1 DEF IInv, Types, Claim, Step
  <1>3. UNCHANGED <<processed, execution, result>>
    BY DEF Claim, tables, KeepTurn
  <1>4. Types'
    <2>1. attempts' \in [Item -> 0..MaxAttempts] /\ try' \in [Worker -> 0..MaxAttempts]
      BY <1>1, BoundAssumption DEF IInv, Types, Claim, Attempt
    <2>2. status' \in [Item -> {"absent", "pending", "held", "succeeded", "dead"}]
          /\ owner' \in [Item -> Worker \cup {"none"}]
      BY DEF IInv, Types, Claim
    <2>3. pc' \in [Worker -> Place] /\ cur' \in [Worker -> Item \cup {NoItem}]
      BY DEF IInv, Types, Claim, Step, Place
    <2> QED BY <1>3, <2>1, <2>2, <2>3 DEF IInv, Types
  <1>5. \A v \in Worker : Busy(v)' <=> Busy(v) \/ v = w
    BY <1>2 DEF Busy
  <1>6. \A j \in Item : attempts'[j] \in Nat /\ attempts[j] \in Nat /\ attempts[j] <= attempts'[j]
    BY <1>1, <1>4, BoundAssumption DEF IInv, Types
  <1>7. Places'
    <2>1. \A v \in Worker : Busy(v)' => cur'[v] \in Item /\ try'[v] \in 1..attempts'[cur'[v]]
      BY <1>1, <1>2, <1>5, <1>6 DEF IInv, Places, Attempt
    <2> QED BY <1>2, <1>3, <2>1 DEF IInv, Places
  <1>8. Numbered'
    <2>1. \A v \in Worker \ {w} : Busy(v) /\ cur[v] = i => try[v] # n
      BY <1>1, <1>6 DEF IInv, Places
    <2>2. \A u, v \in Worker :
            u # v /\ Busy(u)' /\ Busy(v)' /\ cur'[u] = cur'[v] => try'[u] # try'[v]
      BY <1>2, <1>5, <2>1 DEF IInv, Numbered
    <2>3. execution[i][n] = "absent"
      BY <1>1, <1>6 DEF IInv, Numbered, Attempt
    <2>4. \A j \in Item : \A a \in Attempt : execution[j][a] # "absent" => a <= attempts'[j]
      BY <1>6 DEF IInv, Numbered, Attempt
    <2>5. \A v \in Worker : pc'[v] \in Before => execution[cur'[v]][try'[v]] = "absent"
      BY <1>2, <2>3 DEF IInv, Numbered
    <2> QED BY <1>3, <2>2, <2>4, <2>5 DEF Numbered
  <1>9. Keyed'
    BY <1>2, <1>3 DEF IInv, Keyed, InTurn
  <1>10. OneRow'
    BY <1>3 DEF IInv, OneRow, Settled
  <1>11. Finished'
    BY <1>3 DEF IInv, Finished, Done, Types, Claim
  <1>12. Reported'
    BY <1>2, <1>3 DEF IInv, Reported, Done
  <1> QED BY <1>4, <1>7, <1>8, <1>9, <1>10, <1>11, <1>12 DEF IInv

\* What a commit writes is a row of its own, and of a message that is its own.
LEMMA CommitsItsOwn ==
    ASSUME IInv, NEW w \in Worker, Commit(w)
    PROVE  LET i == cur[w]
               m == i[1]
               t == try[w]
           IN  /\ i \in Item /\ m \in Message /\ t \in Attempt /\ t \in 1..attempts[i]
               /\ result[w] \in Ending
               /\ execution[i][t] = "absent"
               /\ Inbound(i) => i = <<m, 0>> /\ processed[m] = "absent"
                                /\ \A v \in Worker \ {w} : InTurn(v) => cur[v] # i
               /\ execution'[i][t] = result[w]
               /\ \A j \in Item : \A a \in Attempt :
                    <<j, a>> # <<i, t>> => execution'[j][a] = execution[j][a]
  <1> DEFINE i == cur[w]
             m == i[1]
             t == try[w]
  <1>1. pc[w] = "committing" /\ Busy(w) /\ InTurn(w)
    BY DEF Commit, Step, Busy, InTurn
  <1>2. i \in Item /\ m \in Message /\ t \in 1..attempts[i] /\ result[w] \in Ending
    BY <1>1 DEF IInv, Places, Item
  <1>3. t \in Attempt
    BY <1>2, BoundAssumption DEF IInv, Types, Attempt
  <1>4. execution[i][t] = "absent"
    BY <1>1 DEF IInv, Numbered, Before
  <1>5. ASSUME Inbound(i)
        PROVE  i = <<m, 0>> /\ processed[m] = "absent"
               /\ \A v \in Worker \ {w} : InTurn(v) => cur[v] # i
    BY <1>1, <1>2, <1>5 DEF IInv, Keyed, Inbound, Item
  <1>6. /\ execution'[i][t] = result[w]
        /\ \A j \in Item : \A a \in Attempt :
             <<j, a>> # <<i, t>> => execution'[j][a] = execution[j][a]
    BY <1>2, <1>3 DEF IInv, Types, Commit
  <1> QED BY <1>2, <1>3, <1>4, <1>5, <1>6

LEMMA Commits ==
    ASSUME IInv, NEW w \in Worker, Commit(w)
    PROVE  IInv'
  <1> DEFINE i == cur[w]
             m == i[1]
             t == try[w]
  <1>1. /\ i \in Item /\ m \in Message /\ t \in Attempt /\ t \in 1..attempts[i]
        /\ result[w] \in Ending
        /\ execution[i][t] = "absent"
        /\ Inbound(i) => i = <<m, 0>> /\ processed[m] = "absent"
                         /\ \A v \in Worker \ {w} : InTurn(v) => cur[v] # i
    BY CommitsItsOwn
  <1>2. /\ pc'[w] = IF result[w] = "failed" THEN "failing"
                    ELSE IF Inbound(i) THEN "replying" ELSE "reporting"
        /\ \A v \in Worker \ {w} : pc'[v] = pc[v]
        /\ pc' \in [Worker -> Place]
    BY DEF IInv, Types, Commit, Step, Place, AfterTurn
  <1>3. UNCHANGED <<attempts, owner, cur, try>> /\ result' = [result EXCEPT ![w] = "running"]
    BY DEF Commit, Forget
  <1>4. execution' = [execution EXCEPT ![i][t] = result[w]]
    BY DEF Commit
  <1>5. /\ Inbound(i) => \E o \in {"success", "internal_error"} :
                           processed' = [processed EXCEPT ![m] = o]
        /\ ~ Inbound(i) => processed' = processed
    BY DEF Commit
  <1>6. /\ status' \in [Item -> {"absent", "pending", "held", "succeeded", "dead"}]
        /\ \A j \in Item : status'[j] = "succeeded" => status[j] = "succeeded"
    BY DEF IInv, Types, Commit
  <1>7. Types'
    <2>1. execution' \in [Item -> [Attempt -> {"absent"} \cup Ending]]
      BY <1>1, <1>4 DEF IInv, Types
    <2>2. processed' \in [Message -> {"absent", "pending", "success", "internal_error"}]
      BY <1>5 DEF IInv, Types
    <2>3. result' \in [Worker -> Ending \cup {"running"}]
      BY <1>3 DEF IInv, Types
    <2> QED BY <1>2, <1>3, <1>6, <2>1, <2>2, <2>3 DEF IInv, Types
  <1>8. /\ execution'[i][t] = result[w]
        /\ \A j \in Item : \A a \in Attempt :
             <<j, a>> # <<i, t>> => execution'[j][a] = execution[j][a]
    BY CommitsItsOwn
  <1>9. \A v \in Worker : Busy(v)' <=> Busy(v)
    <2>1. pc[w] = "committing"
      BY DEF Commit, Step
    <2> QED BY <1>2, <2>1 DEF Busy
  <1>10. Places'
    BY <1>1, <1>2, <1>3, <1>9 DEF IInv, Places, Busy
  <1>11. Numbered'
    <2>1. \A u, v \in Worker :
            u # v /\ Busy(u)' /\ Busy(v)' /\ cur'[u] = cur'[v] => try'[u] # try'[v]
      BY <1>3, <1>9 DEF IInv, Numbered
    <2>2. \A j \in Item : \A a \in Attempt : execution'[j][a] # "absent" => a <= attempts'[j]
      BY <1>1, <1>3, <1>8 DEF IInv, Numbered
    <2>3. ASSUME NEW v \in Worker, pc'[v] \in Before
          PROVE  execution'[cur'[v]][try'[v]] = "absent"
      <3>1. v # w /\ pc[v] \in Before
        BY <1>2, <2>3 DEF Before
      <3>2. Busy(v) /\ Busy(w)
        BY <3>1 DEF Before, Busy, Commit, Step
      <3>3. <<cur[v], try[v]>> # <<i, t>>
        BY <3>1, <3>2 DEF IInv, Numbered
      <3>4. cur[v] \in Item /\ try[v] \in Attempt
        BY <3>2, BoundAssumption DEF IInv, Places, Types, Attempt
      <3> QED BY <1>3, <1>8, <3>1, <3>3, <3>4 DEF IInv, Numbered
    <2> QED BY <2>1, <2>2, <2>3 DEF Numbered
  <1>12. Keyed'
    <2>1. \A v \in Worker : InTurn(v)' => v # w /\ InTurn(v)
      BY <1>2 DEF InTurn
    <2>2. ASSUME NEW v \in Worker, InTurn(v)', Inbound(cur[v])
          PROVE  processed'[cur[v][1]] = "absent"
      <3>1. v # w /\ InTurn(v) /\ Busy(v)
        BY <2>1, <2>2 DEF InTurn, Busy
      <3>2. cur[v] \in Item /\ processed[cur[v][1]] = "absent" /\ cur[v] = <<cur[v][1], 0>>
        BY <2>2, <3>1 DEF IInv, Keyed, Places, Inbound, Item
      <3>3. CASE Inbound(i)
        <4>1. cur[v] # i /\ i = <<m, 0>>
          BY <1>1, <3>1, <3>3
        <4>2. cur[v][1] # m
          BY <3>2, <4>1
        <4>3. cur[v][1] \in Message
          BY <3>2 DEF Item
        <4>4. PICK o \in {"success", "internal_error"} : processed' = [processed EXCEPT ![m] = o]
          BY <1>5, <3>3
        <4> QED BY <3>2, <4>2, <4>3, <4>4 DEF IInv, Types
      <3>4. CASE ~ Inbound(i)
        BY <1>5, <3>2, <3>4
      <3> QED BY <3>3, <3>4
    <2> QED BY <1>3, <2>1, <2>2 DEF IInv, Keyed, Inbound
  <1>13. OneRow'
    <2>1. CASE Inbound(i)
      <3>1. \A b \in Attempt : execution'[<<m, 0>>][b] # "absent" <=> b = t
        BY <1>1, <1>8, <2>1 DEF IInv, OneRow, Settled, Ending
      <3>2. processed'[m] \in {"success", "internal_error"}
        BY <1>1, <1>5, <2>1 DEF IInv, Types
      <3>3. \A k \in Message \ {m} :
              /\ processed'[k] = processed[k]
              /\ \A b \in Attempt : execution'[<<k, 0>>][b] = execution[<<k, 0>>][b]
        BY <1>1, <1>5, <1>8, <2>1 DEF IInv, Types, Item
      <3> QED BY <1>1, <3>1, <3>2, <3>3 DEF IInv, OneRow, Settled
    <2>2. CASE ~ Inbound(i)
      <3>1. \A k \in Message : \A b \in Attempt :
              execution'[<<k, 0>>][b] = execution[<<k, 0>>][b]
        BY <1>8, <2>2, BoundAssumption DEF Item, Inbound
      <3> QED BY <1>5, <2>2, <3>1 DEF IInv, OneRow, Settled
    <2> QED BY <2>1, <2>2
  <1>14. \A j \in Item : Done(j) => Done(j)'
    <2>1. \A k \in Message : processed[k] # "absent" => processed'[k] # "absent"
      BY <1>1, <1>5 DEF IInv, Types
    <2>2. \A j \in Item : \A a \in Attempt :
            execution[j][a] \in {"answered", "paused"} => execution'[j][a] = execution[j][a]
      BY <1>1, <1>8
    <2> QED BY <2>1, <2>2 DEF Done, Item, Inbound
  <1>15. Finished'
    BY <1>6, <1>14 DEF IInv, Finished, Done
  <1>16. Reported'
    <2>1. pc'[w] \in {"replying", "reporting"} => Done(i)'
      <3>1. CASE Inbound(i)
        <4>1. PICK o \in {"success", "internal_error"} : processed' = [processed EXCEPT ![m] = o]
          BY <1>5, <3>1
        <4>2. processed'[m] # "absent"
          BY <1>1, <4>1 DEF IInv, Types
        <4> QED BY <1>3, <3>1, <4>2 DEF Done, Inbound
      <3>2. CASE ~ Inbound(i) /\ pc'[w] = "reporting"
        <4>1. execution'[i][t] \in {"answered", "paused"}
          BY <1>1, <1>2, <1>8, <3>2 DEF Ending
        <4> QED BY <1>1, <1>3, <3>2, <4>1 DEF Done, Inbound
      <3> QED BY <1>2, <3>1, <3>2
    <2>2. \A v \in Worker : pc[v] \in {"replying", "reporting"} => cur[v] \in Item
      BY DEF IInv, Places, Busy
    <2> QED BY <1>2, <1>3, <1>14, <2>1, <2>2 DEF IInv, Reported
  <1> QED BY <1>7, <1>10, <1>11, <1>12, <1>13, <1>15, <1>16 DEF IInv

-----------------------------------------------------------------------------
(* The invariant, and what it says.                                        *)

LEMMA HandlerStep ==
    ASSUME IInv, NEW w \in Worker, Handler(w)
    PROVE  IInv'
  <1>1. ASSUME NEW to \in Place, Step(w, pc[w], to), Busy(w), KeepTurn,
               UNCHANGED <<items, processed, execution, cur, try>>,
               to # "idle", to # "committing",
               to \in {"inserting", "replying"} => Inbound(cur[w]),
               to \notin {"admitting", "reentering"},
               to \in Before => pc[w] \in Before,
               to \in Turning /\ ~ InTurn(w) /\ Inbound(cur[w]) =>
                   /\ processed[cur[w][1]] = "absent"
                   /\ \A v \in Worker \ {w} : InTurn(v) => cur[v] # cur[w],
               to \in {"replying", "reporting"} => Done(cur[w])
        PROVE  IInv'
    <2>1. result' \in [Worker -> Ending \cup {"running"}]
      BY <1>1 DEF IInv, Types, KeepTurn
    <2> QED BY <1>1, <2>1, Walks DEF Step, KeepTurn, items
  <1>2. CASE Refuse(w)
    BY <1>1, <1>2 DEF Refuse, Step, tables, Busy, Before, Turning, Place
  <1>3. CASE Admit(w)
    <2>1. Inbound(cur[w])
      BY <1>3 DEF IInv, Places, Admit, Step
    <2>2. CASE processed[cur[w][1]] = "absent"
      BY <1>1, <1>3, <2>1, <2>2 DEF Admit, Step, tables, Busy, Before, Turning, Place
    <2>3. CASE processed[cur[w][1]] # "absent"
      BY <1>1, <1>3, <2>1, <2>3 DEF Admit, Step, tables, Busy, Before, Turning, Place, Done
    <2> QED BY <2>2, <2>3
  <1>4. CASE Insert(w)
    <2>1. Inbound(cur[w])
      BY <1>4 DEF IInv, Places, Insert, Step
    <2>2. CASE processed[cur[w][1]] = "absent"
      BY <1>1, <1>4, <2>1, <2>2 DEF Insert, Step, tables, Busy, Before, Turning, Place
    <2>3. CASE processed[cur[w][1]] # "absent"
      BY <1>1, <1>4, <2>1, <2>3 DEF Insert, Step, tables, Busy, Before, Turning, Place
    <2> QED BY <2>2, <2>3
  <1>5. CASE Reenter(w)
    <2>1. ~ Inbound(cur[w])
      BY <1>5 DEF IInv, Places, Reenter, Step
    <2> QED
      BY <1>1, <1>5, <2>1 DEF Reenter, Step, tables, Busy, Before, Turning, Place
  <1>6. CASE FindConversation(w)
    <2>1. result' \in [Worker -> Ending \cup {"running"}]
      BY <1>6 DEF IInv, Types, FindConversation
    <2> QED
      BY <1>6, <2>1, Walks
      DEF FindConversation, Step, items, tables, Busy, Before, Turning, Place, InTurn
  <1>7. CASE Touch(w)
    BY <1>1, <1>7 DEF Touch, Step, tables, Busy, Before, Turning, Place, InTurn
  <1>8. CASE TerminalRound(w)
    <2>1. result' \in [Worker -> Ending \cup {"running"}]
      BY <1>8 DEF IInv, Types, TerminalRound
    <2> QED
      BY <1>8, <2>1, Walks
      DEF TerminalRound, Step, items, tables, Busy, Before, Turning, Place, InTurn
  <1>9. ASSUME NEW how \in Ending, End(w, how)
        PROVE  IInv'
    <2>1. result' \in [Worker -> Ending \cup {"running"}] /\ result'[w] \in Ending
          /\ \A v \in Worker \ {w} : result'[v] = result[v]
      BY <1>9 DEF IInv, Types, End
    <2> QED
      BY <1>9, <2>1, Walks
      DEF End, Step, items, tables, Busy, Before, Turning, Place, InTurn
  <1>10. CASE Answer(w) \/ Exhaust(w) \/ ModelFails(w)
    BY <1>9, <1>10 DEF Answer, Exhaust, ModelFails, Ending
  <1>11. CASE Commit(w)
    BY <1>11, Commits
  <1>12. CASE Reply(w)
    <2>1. Done(cur[w])
      BY <1>12 DEF IInv, Reported, Reply, Step
    <2> QED
      BY <1>1, <1>12, <2>1 DEF Reply, Step, items, Busy, Before, Turning, Place
  <1>13. CASE Report(w)
    <2>1. Done(cur[w]) /\ cur[w] \in Item
      BY <1>13 DEF IInv, Reported, Places, Busy, Report, Step
    <2>2. /\ status' \in [Item -> {"absent", "pending", "held", "succeeded", "dead"}]
          /\ owner' \in [Item -> Worker \cup {"none"}]
          /\ \A i \in Item : status'[i] = "succeeded" => status[i] = "succeeded" \/ Done(i)
      BY <1>13, <2>1 DEF IInv, Types, Report
    <2>3. /\ result' \in [Worker -> Ending \cup {"running"}]
          /\ \A v \in Worker \ {w} : result'[v] = result[v]
      BY <1>13 DEF IInv, Types, Report, Forget
    <2> QED BY <1>13, <2>2, <2>3, LaysDown DEF Report, Step, LayDown, tables
  <1>14. CASE ReportFailure(w)
    <2>1. /\ status' \in [Item -> {"absent", "pending", "held", "succeeded", "dead"}]
          /\ owner' \in [Item -> Worker \cup {"none"}]
          /\ \A i \in Item : status'[i] = "succeeded" => status[i] = "succeeded"
      BY <1>14 DEF IInv, Types, ReportFailure
    <2>2. /\ result' \in [Worker -> Ending \cup {"running"}]
          /\ \A v \in Worker \ {w} : result'[v] = result[v]
      BY <1>14 DEF IInv, Types, ReportFailure, Forget
    <2> QED BY <1>14, <2>1, <2>2, LaysDown DEF ReportFailure, Step, LayDown, tables
  <1> QED
    BY <1>2, <1>3, <1>4, <1>5, <1>6, <1>7, <1>8, <1>10, <1>11, <1>12, <1>13, <1>14
    DEF Handler

LEMMA Inductive ==
    ASSUME IInv, [Next]_vars
    PROVE  IInv'
  <1>1. CASE \E m \in Message : Arrive(m)
    <2>1. PICK m \in Message : Arrive(m)
      BY <1>1
    <2> QED BY <2>1, Requeues DEF IInv, Types, Arrive, tables, local
  <1>8. CASE \E m \in Message : Accept(m)
    BY <1>8, Accepts
  <1>2. ASSUME NEW w \in Worker, Handler(w) PROVE IInv'
    BY <1>2, HandlerStep
  <1>3. ASSUME NEW w \in Worker, DbFault(w) PROVE IInv'
    <2>1. /\ result' \in [Worker -> Ending \cup {"running"}]
          /\ \A v \in Worker \ {w} : result'[v] = result[v]
      BY <1>3 DEF IInv, Types, DbFault, Forget
    <2>2. CASE pc[w] = "failing"
      BY <1>3, <2>1, <2>2, LaysDown DEF IInv, Types, DbFault, LayDown, items, tables
    <2>3. CASE pc[w] # "failing"
      BY <1>3, <2>1, <2>3, Walks
      DEF IInv, Types, DbFault, items, tables, Busy, Before, Turning, Place
    <2> QED BY <2>2, <2>3
  <1>4. ASSUME NEW w \in Worker, Crash(w) PROVE IInv'
    <2>1. /\ result' \in [Worker -> Ending \cup {"running"}]
          /\ \A v \in Worker \ {w} : result'[v] = result[v]
      BY <1>4 DEF IInv, Types, Crash, Forget
    <2> QED
      BY <1>4, <2>1, LaysDown DEF IInv, Types, Crash, LayDown, items, tables
  <1>5. ASSUME NEW w \in Worker, NEW i \in Item, Poll(w, i) PROVE IInv'
    <2>1. CASE Claim(w, i)
      BY <2>1, Claims
    <2>2. CASE Bury(w, i)
      BY <2>2, Requeues DEF IInv, Types, Bury, tables, local
    <2> QED BY <1>5, <2>1, <2>2 DEF Poll
  <1>6. CASE \E c \in Conv : ArchiveStale(c)
    <2>1. PICK c \in Conv : ArchiveStale(c)
      BY <1>6
    <2> QED BY <2>1, Requeues DEF IInv, Types, ArchiveStale, items, local
  <1>7. CASE UNCHANGED vars
    BY <1>7, Requeues DEF IInv, Types, vars, items, tables, local
  <1> QED BY <1>1, <1>2, <1>3, <1>4, <1>5, <1>6, <1>7, <1>8 DEF Next

\* The invariant behind the theorems below: an attempt owns its number, hence a
\* row of its own, and from the insert of processed_messages to its commit the
\* message as well.
THEOREM Invariance == Spec => []IInv
  <1>1. Init => IInv
    <2> SUFFICES ASSUME Init PROVE IInv
      OBVIOUS
    <2>1. Types
      <3>1. 0 \in 0..MaxAttempts
        BY BoundAssumption
      <3> QED BY <3>1 DEF Init, Types, Place
    <2>2. Places /\ Numbered /\ Keyed /\ Reported
      BY DEF Init, Places, Numbered, Keyed, Reported, Busy, Before, InTurn
    <2>3. OneRow
      <3>1. \A m \in Message : <<m, 0>> \in Item
        BY BoundAssumption DEF Item
      <3> QED BY <3>1 DEF Init, OneRow, Settled
    <2>4. Finished
      BY DEF Init, Finished
    <2> QED BY <2>1, <2>2, <2>3, <2>4 DEF IInv
  <1>2. IInv /\ [Next]_vars => IInv'
    BY Inductive
  <1> QED BY <1>1, <1>2, PTL DEF Spec

\* The variables of the queue, the tables and the runners keep their types, for
\* any number of messages, runners and attempts.
THEOREM TypeCorrect == Spec => []Types
  <1>1. IInv => Types
    BY DEF IInv
  <1> QED BY <1>1, Invariance, PTL

\* However many attempts at a message overlap, lapse, fail or are repeated, at
\* most one of them commits an execution: one does if a turn settled the message,
\* and none does of a message whose row the webhook wrote.
THEOREM OneTurn == Spec => []OneTurnPerMessage
  <1>1. ASSUME IInv PROVE OneTurnPerMessage
    <2> SUFFICES ASSUME NEW m \in Message
                 PROVE  Cardinality(Committed(<<m, 0>>)) = IF Settled(m) THEN 1 ELSE 0
      BY DEF OneTurnPerMessage
    <2>1. CASE ~ Settled(m)
      <3>1. Committed(<<m, 0>>) = {}
        BY <1>1, <2>1 DEF IInv, OneRow, Committed
      <3> QED BY <2>1, <3>1, FS_EmptySet
    <2>2. CASE Settled(m)
      <3>1. PICK a \in Attempt :
               /\ execution[<<m, 0>>][a] # "absent"
               /\ \A b \in Attempt : execution[<<m, 0>>][b] # "absent" => b = a
        BY <1>1, <2>2 DEF IInv, OneRow
      <3>2. Committed(<<m, 0>>) = {a}
        BY <3>1 DEF Committed
      <3> QED BY <2>2, <3>2, FS_Singleton
    <2> QED BY <2>1, <2>2
  <1> QED BY <1>1, Invariance, PTL

\* No turn ever commits its execution as running, so there is nothing that a
\* starting replica could take for the remains of a crash.
THEOREM TurnsOver == Spec => []CommittedTurnsAreOver
  <1>1. IInv => CommittedTurnsAreOver
    BY DEF IInv, Types, CommittedTurnsAreOver
  <1> QED BY <1>1, Invariance, PTL

-----------------------------------------------------------------------------
(* Conversations: those that are open, and those a turn has found or made.  *)

Talked == {talk[w] : w \in Worker} \ {0}
Around == Open \cup Talked

CInv ==
    /\ conv \in [Conv -> {"absent", "active", "idle", "archived"}]
    /\ talk \in [Worker -> {0} \cup Conv]
    /\ IsFiniteSet(Around) /\ Cardinality(Around) <= Cardinality(Worker)

LEMMA ValuesAreFew ==
    ASSUME NEW f \in [Worker -> {0} \cup Conv]
    PROVE  LET T == {f[w] : w \in Worker} \ {0}
           IN  IsFiniteSet(T) /\ Cardinality(T) <= Cardinality(Worker)
  <1> DEFINE V == {f[w] : w \in Worker}
             T == {f[w] : w \in Worker} \ {0}
  <1>1. f \in Surjection(Worker, V)
    BY DEF Surjection
  <1>2. T \in SUBSET V
    OBVIOUS
  <1> HIDE DEF V, T
  <1>3. IsFiniteSet(V) /\ Cardinality(V) <= Cardinality(Worker)
    BY <1>1, SetAssumption, FS_Surjection
  <1>4. /\ IsFiniteSet(T) /\ Cardinality(T) <= Cardinality(V)
        /\ Cardinality(T) \in Nat /\ Cardinality(V) \in Nat /\ Cardinality(Worker) \in Nat
    BY <1>2, <1>3, SetAssumption, FS_Subset, FS_CardinalityType
  <1>5. IsFiniteSet(T) /\ Cardinality(T) <= Cardinality(Worker)
    BY <1>3, <1>4
  <1> QED BY <1>5 DEF T

\* What is around only grows when a turn finds nothing open, and then all that
\* is around are conversations of turns.
LEMMA FewStay ==
    ASSUME CInv, conv' \in [Conv -> {"absent", "active", "idle", "archived"}],
           talk' \in [Worker -> {0} \cup Conv],
           Around' \subseteq Around \/ Around' = Talked'
    PROVE  CInv'
  <1>1. CASE Around' \subseteq Around
    <2>1. /\ IsFiniteSet(Around') /\ Cardinality(Around') <= Cardinality(Around)
          /\ Cardinality(Around') \in Nat /\ Cardinality(Around) \in Nat
          /\ Cardinality(Worker) \in Nat
      BY <1>1, SetAssumption, FS_Subset, FS_CardinalityType DEF CInv
    <2> QED BY <2>1 DEF CInv
  <1>2. CASE Around' = Talked'
    <2>1. IsFiniteSet(Talked') /\ Cardinality(Talked') <= Cardinality(Worker)
      BY ValuesAreFew DEF Talked
    <2> QED BY <1>2, <2>1 DEF CInv
  <1> QED BY <1>1, <1>2

LEMMA Forgets ==
    ASSUME CInv, NEW w \in Worker, talk' = [talk EXCEPT ![w] = 0], conv' = conv
    PROVE  CInv'
  <1>1. Around' \subseteq Around
    BY DEF CInv, Around, Talked, Open
  <1> QED BY <1>1, FewStay DEF CInv

LEMMA Finds ==
    ASSUME CInv, NEW w \in Worker, FindConversation(w)
    PROVE  CInv'
  <1>1. PICK c \in IF Open # {} THEN Open ELSE Created : talk' = [talk EXCEPT ![w] = c]
    BY DEF FindConversation
  <1>2. c \in Conv /\ conv' = conv /\ talk' \in [Worker -> {0} \cup Conv]
    BY <1>1 DEF CInv, FindConversation, tables, Open, Created, Unused
  <1>3. Around' \subseteq Around \/ Around' = Talked'
    <2>1. CASE Open # {}
      BY <1>1, <1>2, <2>1 DEF CInv, Around, Talked, Open
    <2>2. CASE Open = {}
      BY <1>2, <2>2 DEF Around, Open
    <2> QED BY <2>1, <2>2
  <1> QED BY <1>2, <1>3, FewStay DEF CInv

LEMMA CommitsFew ==
    ASSUME CInv, NEW w \in Worker, Commit(w)
    PROVE  CInv'
  <1>1. /\ conv' = [conv EXCEPT ![talk[w]] = Touched(w)]
        /\ talk' = [talk EXCEPT ![w] = 0]
    BY DEF Commit, Forget
  <1>2. conv' \in [Conv -> {"absent", "active", "idle", "archived"}]
    BY <1>1 DEF CInv, Touched
  <1>3. \A c \in Conv : c \in Open' => c \in Open \/ c = talk[w]
    BY <1>1, <1>2 DEF CInv, Open
  <1>4. Around' \subseteq Around
    BY <1>1, <1>3, BoundAssumption DEF CInv, Around, Talked, Open, Conv
  <1> QED BY <1>1, <1>2, <1>4, FewStay DEF CInv

LEMMA FewInductive ==
    ASSUME CInv, [Next]_vars
    PROVE  CInv'
  <1>1. ASSUME UNCHANGED <<conv, talk>> PROVE CInv'
    BY <1>1 DEF CInv, Around, Open, Talked
  <1>2. CASE \E m \in Message : Arrive(m) \/ Accept(m)
    BY <1>1, <1>2 DEF Arrive, Accept, tables, local
  <1>3. ASSUME NEW w \in Worker, Handler(w) PROVE CInv'
    <2>1. CASE Refuse(w) \/ Admit(w) \/ Insert(w) \/ Reenter(w) \/ Touch(w)
      BY <1>1, <2>1 DEF Refuse, Admit, Insert, Reenter, Touch, tables, KeepTurn
    <2>2. CASE TerminalRound(w) \/ Answer(w) \/ Exhaust(w) \/ ModelFails(w)
      BY <1>1, <2>2 DEF TerminalRound, Answer, Exhaust, ModelFails, End, tables
    <2>3. CASE Reply(w)
      BY <1>1, <2>3 DEF Reply, KeepTurn
    <2>4. CASE Report(w) \/ ReportFailure(w)
      BY <2>4, Forgets DEF Report, ReportFailure, Forget, tables
    <2>5. CASE FindConversation(w)
      BY <2>5, Finds
    <2>6. CASE Commit(w)
      BY <2>6, CommitsFew
    <2> QED BY <1>3, <2>1, <2>2, <2>3, <2>4, <2>5, <2>6 DEF Handler
  <1>4. ASSUME NEW w \in Worker, DbFault(w) \/ Crash(w) PROVE CInv'
    BY <1>4, Forgets DEF DbFault, Crash, Forget, tables
  <1>5. ASSUME NEW w \in Worker, NEW i \in Item, Poll(w, i) PROVE CInv'
    BY <1>1, <1>5 DEF Poll, Claim, Bury, tables, local, KeepTurn
  <1>6. ASSUME NEW c \in Conv, ArchiveStale(c) PROVE CInv'
    <2>1. talk' = talk /\ conv' \in [Conv -> {"absent", "active", "idle", "archived"}]
      BY <1>6 DEF CInv, ArchiveStale, Mark, local
    <2>2. Around' \subseteq Around
      BY <1>6, <2>1 DEF CInv, ArchiveStale, Mark, Around, Talked, Open
    <2> QED BY <2>1, <2>2, FewStay DEF CInv
  <1>7. CASE UNCHANGED vars
    BY <1>1, <1>7 DEF vars, tables, local
  <1> QED BY <1>2, <1>3, <1>4, <1>5, <1>6, <1>7 DEF Next

\* A principal has at most one open conversation per runner, although none is
\* locked while it is looked for or made, and although one that was archived in
\* between is opened again by the turn that found it
\* (continuity/repository.py:55-130).
THEOREM ConversationsAreFew == Spec => []FewConversations
  <1>1. Init => CInv
    <2> SUFFICES ASSUME Init PROVE CInv
      OBVIOUS
    <2>1. Around = {} /\ Cardinality(Worker) \in Nat
      BY SetAssumption, FS_CardinalityType DEF Init, Around, Open, Talked
    <2> QED BY <2>1, FS_EmptySet DEF Init, CInv
  <1>2. CInv /\ [Next]_vars => CInv'
    BY FewInductive
  <1>3. ASSUME CInv PROVE FewConversations
    <2>1. /\ Cardinality(Open) <= Cardinality(Around)
          /\ Cardinality(Open) \in Nat /\ Cardinality(Around) \in Nat
          /\ Cardinality(Worker) \in Nat
      BY <1>3, SetAssumption, FS_Subset, FS_CardinalityType DEF CInv, Around
    <2> QED BY <1>3, <2>1 DEF CInv, FewConversations
  <1> QED BY <1>1, <1>2, <1>3, PTL DEF Spec

-----------------------------------------------------------------------------
(* Refinement of Turns: what is written of a message.                       *)

\* Follow-ups exist of messages that were followed up, a reply of one that was
\* answered, and only one runner is about to give it.
RInv ==
    /\ made \in [Message -> Nat]
    /\ replies \in [Message -> Nat]
    /\ \A i \in Item : ~ Inbound(i) /\ status[i] # "absent" => made[i[1]] > 0
    /\ \A w \in Worker : Busy(w) /\ ~ Inbound(cur[w]) => made[cur[w][1]] > 0
    /\ \A m \in Message : ~ Settled(m) => replies[m] = 0 /\ made[m] = 0
    /\ \A w \in Worker : pc[w] = "replying" =>
         /\ processed[cur[w][1]] = "success" /\ replies[cur[w][1]] = 0
         /\ \A v \in Worker \ {w} : pc[v] = "replying" => cur[v][1] # cur[w][1]

\* The steps that write nothing of a message.
LEMMA WritesNothing ==
    ASSUME IInv, RInv, UNCHANGED <<made, replies, processed>>,
           \A i \in Item : status'[i] # "absent" => status[i] # "absent" \/ Inbound(i),
           \A v \in Worker : pc'[v] = "replying" => pc[v] = "replying" /\ cur'[v] = cur[v],
           \A v \in Worker : pc'[v] # "idle" =>
             \/ Busy(v) /\ cur'[v] = cur[v]
             \/ cur'[v] \in Item /\ status[cur'[v]] # "absent"
    PROVE  RInv'
  <1>1. /\ made' \in [Message -> Nat] /\ replies' \in [Message -> Nat]
        /\ \A m \in Message : ~ Settled(m)' => replies'[m] = 0 /\ made'[m] = 0
    BY DEF RInv, Settled
  <1>2. \A i \in Item : ~ Inbound(i) /\ status'[i] # "absent" => made'[i[1]] > 0
    BY DEF RInv
  <1>3. \A w \in Worker : pc'[w] # "idle" /\ ~ Inbound(cur'[w]) => made'[cur'[w][1]] > 0
    BY DEF RInv
  <1>4. \A w \in Worker : pc'[w] = "replying" =>
          /\ processed'[cur'[w][1]] = "success" /\ replies'[cur'[w][1]] = 0
          /\ \A v \in Worker \ {w} : pc'[v] = "replying" => cur'[v][1] # cur'[w][1]
    BY DEF RInv
  <1> QED BY <1>1, <1>2, <1>3, <1>4 DEF RInv, Busy, Inbound

LEMMA RepliesOnce ==
    ASSUME IInv, RInv, NEW w \in Worker, Reply(w)
    PROVE  RInv' /\ cur[w][1] \in Message /\ replies' = [replies EXCEPT ![cur[w][1]] = 1]
  <1> DEFINE m == cur[w][1]
  <1>1. pc[w] = "replying" /\ Busy(w) /\ m \in Message
    BY DEF Reply, Step, Busy, IInv, Places, Item
  <1>2. processed[m] = "success" /\ replies[m] = 0
    BY <1>1 DEF RInv
  <1>3. replies' = [replies EXCEPT ![m] = 1]
    BY <1>1, <1>2 DEF Reply, RInv
  <1>4. /\ UNCHANGED <<made, processed, status, cur>>
        /\ pc'[w] = "reporting" /\ \A v \in Worker \ {w} : pc'[v] = pc[v]
    BY DEF Reply, Step, items, IInv, Types
  <1>5. /\ made' \in [Message -> Nat] /\ replies' \in [Message -> Nat]
        /\ \A n \in Message : ~ Settled(n)' => replies'[n] = 0 /\ made'[n] = 0
    BY <1>1, <1>2, <1>3, <1>4 DEF RInv, Settled
  <1>6. /\ \A i \in Item : ~ Inbound(i) /\ status'[i] # "absent" => made'[i[1]] > 0
        /\ \A v \in Worker : pc'[v] # "idle" /\ ~ Inbound(cur'[v]) => made'[cur'[v][1]] > 0
    BY <1>1, <1>4 DEF RInv, Busy
  <1>7. \A v \in Worker : pc'[v] = "replying" =>
          v # w /\ pc[v] = "replying" /\ cur[v][1] # m /\ cur[v][1] \in Message
    BY <1>1, <1>4 DEF RInv, IInv, Places, Busy, Item
  <1>8. \A v \in Worker : pc'[v] = "replying" =>
          /\ processed'[cur'[v][1]] = "success" /\ replies'[cur'[v][1]] = 0
          /\ \A u \in Worker \ {v} : pc'[u] = "replying" => cur'[u][1] # cur'[v][1]
    BY <1>1, <1>3, <1>4, <1>7 DEF RInv
  <1> QED BY <1>1, <1>3, <1>5, <1>6, <1>8 DEF RInv, Busy, Inbound

LEMMA CommitWrites ==
    ASSUME IInv, RInv, NEW w \in Worker, Commit(w)
    PROVE  RInv'
  <1> DEFINE i == cur[w]
             m == i[1]
  <1>1. /\ i \in Item /\ m \in Message /\ result[w] \in Ending
        /\ Inbound(i) => i = <<m, 0>> /\ processed[m] = "absent"
    BY CommitsItsOwn
  <1>2. /\ pc[w] = "committing" /\ pc'[w] # "idle"
        /\ pc'[w] = "replying" => Inbound(i) /\ result[w] # "failed"
        /\ \A v \in Worker \ {w} : pc'[v] = pc[v]
        /\ UNCHANGED <<replies, cur>>
    BY DEF Commit, Step, AfterTurn, IInv, Types
  <1>3. /\ processed' \in [Message -> {"absent", "pending", "success", "internal_error"}]
        /\ \A n \in Message \ {m} : processed'[n] = processed[n]
        /\ ~ Inbound(i) => processed' = processed
        /\ Inbound(i) => processed'[m] = IF result[w] = "failed" THEN "internal_error" ELSE "success"
    BY <1>1 DEF Commit, IInv, Types
  <1>4. /\ made' \in [Message -> Nat]
        /\ \A n \in Message : made[n] > 0 => made'[n] > 0
        /\ \A n \in Message \ {m} : made'[n] = made[n]
        /\ \A j \in Item : status'[j] # "absent" => status[j] # "absent" \/ made'[j[1]] > 0
    <2>1. CASE FollowsUp(w)
      <3>1. made' = [made EXCEPT ![m] = @ + 1]
            /\ status' = [status EXCEPT ![<<m, made[m] + 1>>] = "pending"]
        BY <2>1 DEF Commit
      <3>2. made' \in [Message -> Nat] /\ made'[m] = made[m] + 1 /\ made[m] \in Nat
        BY <1>1, <3>1 DEF RInv
      <3>3. \A j \in Item : status'[j] = status[j] \/ j = <<m, made[m] + 1>>
        BY <3>1 DEF IInv, Types
      <3> QED BY <1>1, <3>1, <3>2, <3>3 DEF RInv
    <2>2. CASE ~ FollowsUp(w)
      BY <2>2 DEF Commit, RInv
    <2> QED BY <2>1, <2>2
  <1>5. /\ replies' \in [Message -> Nat]
        /\ \A n \in Message : ~ Settled(n)' => replies'[n] = 0 /\ made'[n] = 0
    <2>1. processed'[m] \in {"success", "internal_error"}
      <3>1. CASE Inbound(i)
        BY <1>3, <3>1
      <3>2. CASE ~ Inbound(i)
        <4>1. made[m] > 0
          BY <1>1, <1>2, <3>2 DEF RInv, Busy
        <4> QED BY <1>1, <1>3, <3>2, <4>1 DEF RInv, Settled
      <3> QED BY <3>1, <3>2
    <2> QED BY <1>2, <1>3, <1>4, <2>1 DEF RInv, Settled
  <1>6. \A j \in Item : ~ Inbound(j) /\ status'[j] # "absent" => made'[j[1]] > 0
    BY <1>4 DEF RInv, Item
  <1>7. \A v \in Worker : pc'[v] # "idle" /\ ~ Inbound(cur'[v]) => made'[cur'[v][1]] > 0
    <2>1. \A v \in Worker : pc'[v] # "idle" => Busy(v) /\ cur[v] \in Item /\ cur[v][1] \in Message
      BY <1>2 DEF Busy, IInv, Places, Item
    <2> QED BY <1>2, <1>4, <2>1 DEF RInv
  <1>8. \A v \in Worker \ {w} : pc'[v] = "replying" =>
          /\ pc[v] = "replying" /\ cur[v][1] \in Message
          /\ processed[cur[v][1]] = "success"
    BY <1>2 DEF RInv, IInv, Places, Busy, Item
  <1>9. \A v \in Worker : pc'[v] = "replying" =>
          /\ processed'[cur'[v][1]] = "success" /\ replies'[cur'[v][1]] = 0
          /\ \A u \in Worker \ {v} : pc'[u] = "replying" => cur'[u][1] # cur'[v][1]
    <2>1. ASSUME NEW v \in Worker, pc'[v] = "replying"
          PROVE  processed'[cur'[v][1]] = "success" /\ replies'[cur'[v][1]] = 0
      <3>1. CASE v = w
        BY <1>1, <1>2, <1>3, <2>1, <3>1 DEF RInv, Settled
      <3>2. CASE v # w
        <4>1. cur[v][1] # m \/ ~ Inbound(i)
          BY <1>1, <1>8, <2>1, <3>2
        <4> QED BY <1>2, <1>3, <1>8, <2>1, <3>2, <4>1 DEF RInv
      <3> QED BY <3>1, <3>2
    <2>2. ASSUME NEW v \in Worker, NEW u \in Worker \ {v}, pc'[v] = "replying", pc'[u] = "replying"
          PROVE  cur'[u][1] # cur'[v][1]
      <3>1. CASE v = w
        BY <1>1, <1>2, <1>8, <2>2, <3>1
      <3>2. CASE u = w
        BY <1>1, <1>2, <1>8, <2>2, <3>2
      <3>3. CASE v # w /\ u # w
        BY <1>2, <1>8, <2>2, <3>3 DEF RInv
      <3> QED BY <3>1, <3>2, <3>3
    <2> QED BY <2>1, <2>2
  <1> QED BY <1>4, <1>5, <1>6, <1>7, <1>9 DEF RInv, Busy, Inbound

\* The turns of a message that told the user that work goes on.
Owed(m) == UNION {{<<i, a>> : a \in Paused(i)} : i \in {m} \X (0..MaxMore)}
Pledged == [m \in Message |->
              Cardinality(Owed(m)) + IF processed[m] = "internal_error" THEN 1 ELSE 0]

LEMMA OwedIsFinite ==
    ASSUME NEW m \in Message
    PROVE  IsFiniteSet(Owed(m)) /\ Cardinality(Owed(m)) \in Nat
  <1> DEFINE Own == {m} \X (0..MaxMore)
             Rows == Own \X Attempt
  <1>1. IsFiniteSet({m}) /\ IsFiniteSet(0..MaxMore) /\ IsFiniteSet(Attempt)
    <2>1. 0 \in Int /\ 1 \in Int /\ MaxMore \in Int /\ MaxAttempts \in Int
      BY BoundAssumption
    <2>2. IsFiniteSet(0..MaxMore) /\ IsFiniteSet(1..MaxAttempts)
      BY <2>1, FS_Interval
    <2> QED BY <2>2, FS_Singleton DEF Attempt
  <1>2. IsFiniteSet(Own)
    BY <1>1, FS_Product
  <1>3. IsFiniteSet(Rows)
    <2> HIDE DEF Own
    <2> QED BY <1>1, <1>2, FS_Product
  <1>4. Owed(m) \subseteq Rows
    BY DEF Owed, Paused
  <1> HIDE DEF Rows
  <1> QED BY <1>3, <1>4, FS_Subset, FS_CardinalityType

\* A commit pledges what it schedules.
LEMMA CommitPledges ==
    ASSUME IInv, RInv, NEW w \in Worker, Commit(w)
    PROVE  LET m == cur[w][1]
               n == IF FollowsUp(w) THEN 1 ELSE 0
           IN  /\ Pledged' = [Pledged EXCEPT ![m] = @ + n]
               /\ made' = [made EXCEPT ![m] = @ + n]
  <1>m. PICK m \in Message : m = cur[w][1]
    BY CommitsItsOwn
  <1> DEFINE i == cur[w]
             t == try[w]
             n == IF FollowsUp(w) THEN 1 ELSE 0
             k == IF result[w] = "paused" THEN 1 ELSE 0
             f == IF result[w] = "failed" /\ Inbound(i) THEN 1 ELSE 0
  <1>1. /\ i \in Item /\ m \in Message /\ m = i[1] /\ t \in Attempt /\ result[w] \in Ending
        /\ execution[i][t] = "absent"
        /\ Inbound(i) => i = <<m, 0>> /\ processed[m] = "absent"
        /\ execution'[i][t] = result[w]
        /\ \A j \in Item : \A a \in Attempt :
             <<j, a>> # <<i, t>> => execution'[j][a] = execution[j][a]
    BY <1>m, CommitsItsOwn
  <1>2. made' = [made EXCEPT ![m] = @ + n]
    <2>1. CASE FollowsUp(w)
      BY <1>1, <2>1 DEF Commit
    <2>2. CASE ~ FollowsUp(w)
      BY <1>1, <2>2 DEF Commit, RInv
    <2> QED BY <2>1, <2>2
  <1>3. \A c \in Message \ {m} : Owed(c)' = Owed(c)
    <2> SUFFICES ASSUME NEW c \in Message \ {m}
                 PROVE  Owed(c)' = Owed(c)
      OBVIOUS
    <2>1. ASSUME NEW j \in {c} \X (0..MaxMore)
          PROVE  Paused(j)' = Paused(j)
      <3>1. j \in Item /\ j # i
        BY <1>1, <2>1 DEF Item
      <3> QED BY <1>1, <3>1 DEF Paused
    <2> QED BY <2>1 DEF Owed
  <1>4. Cardinality(Owed(m))' = Cardinality(Owed(m)) + k
    <2>1. \A j \in {m} \X (0..MaxMore) : j \in Item
      BY <1>1 DEF Item
    <2>2. i \in {m} \X (0..MaxMore)
      BY <1>1 DEF Item
    <2>3. <<i, t>> \notin Owed(m)
      BY <1>1 DEF Owed, Paused
    <2>4. CASE result[w] = "paused"
      <3>1. Owed(m)' = Owed(m) \cup {<<i, t>>}
        <4>1. \A j \in {m} \X (0..MaxMore) : \A a \in Attempt :
                execution'[j][a] = "paused" <=> execution[j][a] = "paused" \/ <<j, a>> = <<i, t>>
          BY <1>1, <2>1, <2>4
        <4>2. \A x : x \in Owed(m)' <=>
                \E j \in {m} \X (0..MaxMore) : \E a \in Attempt :
                  x = <<j, a>> /\ execution'[j][a] = "paused"
          BY DEF Owed, Paused
        <4>3. \A x : x \in Owed(m) <=>
                \E j \in {m} \X (0..MaxMore) : \E a \in Attempt :
                  x = <<j, a>> /\ execution[j][a] = "paused"
          BY DEF Owed, Paused
        <4> QED BY <1>1, <2>2, <4>1, <4>2, <4>3
      <3>2. Cardinality(Owed(m) \cup {<<i, t>>}) = Cardinality(Owed(m)) + 1
        BY <1>1, <2>3, OwedIsFinite, FS_AddElement
      <3> QED BY <2>4, <3>1, <3>2
    <2>5. CASE result[w] # "paused"
      <3>1. ASSUME NEW j \in {m} \X (0..MaxMore)
            PROVE  Paused(j)' = Paused(j)
        BY <1>1, <2>1, <2>5 DEF Paused
      <3>2. Owed(m)' = Owed(m)
        BY <3>1 DEF Owed
      <3> QED BY <1>1, <2>5, <3>2, OwedIsFinite
    <2> QED BY <2>4, <2>5
  <1>5. /\ \A c \in Message \ {m} : processed'[c] = processed[c]
        /\ (IF processed'[m] = "internal_error" THEN 1 ELSE 0)
             = (IF processed[m] = "internal_error" THEN 1 ELSE 0) + f
    <2>1. CASE Inbound(i)
      BY <1>1, <2>1 DEF Commit, IInv, Types
    <2>2. CASE ~ Inbound(i)
      BY <1>1, <2>2 DEF Commit, IInv, Types
    <2> QED BY <2>1, <2>2
  <1>6. n = k + f
    BY <1>1 DEF FollowsUp
  <1> HIDE DEF n, k, f
  <1>7. k \in Nat /\ f \in Nat
    BY DEF k, f
  <1>8. \A c \in Message : Cardinality(Owed(c)) \in Nat
    BY OwedIsFinite
  <1>9. Pledged'[m] = Pledged[m] + n
    BY <1>1, <1>4, <1>5, <1>6, <1>7, <1>8 DEF Pledged
  <1>10. \A c \in Message \ {m} : Pledged'[c] = Pledged[c]
    BY <1>3, <1>5 DEF Pledged
  <1>11. Pledged' = [Pledged EXCEPT ![m] = @ + n]
    BY <1>1, <1>9, <1>10 DEF Pledged
  <1> QED BY <1>m, <1>2, <1>11 DEF n

Promises == [Promised!Next]_(Promised!vars)

LEMMA PromisesNothing ==
    ASSUME UNCHANGED <<processed, execution, made, replies>>
    PROVE  Promises
  BY DEF Promises, Promised!vars, Paused, Settled

\* To those who wait for an answer an accepted message is as open as before.
LEMMA AcceptPromises ==
    ASSUME IInv, RInv, NEW m \in Message, Accept(m)
    PROVE  RInv' /\ Promises
  <1>1. /\ UNCHANGED <<execution, made, replies, pc, cur>>
        /\ processed[m] = "absent" /\ processed' = [processed EXCEPT ![m] = "pending"]
        /\ status' = [status EXCEPT ![<<m, 0>>] = "pending"]
    BY DEF Accept, local
  <1>2. /\ processed'[m] = "pending"
        /\ \A n \in Message \ {m} : processed'[n] = processed[n]
    BY <1>1 DEF IInv, Types
  <1>3. \A n \in Message :
          /\ processed'[n] \in {"success", "internal_error"} <=> Settled(n)
          /\ Settled(n) => processed'[n] = processed[n]
    BY <1>1, <1>2 DEF Settled
  <1>4. RInv'
    <2>1. \A i \in Item : ~ Inbound(i) /\ status'[i] # "absent" => status[i] # "absent"
      BY <1>1 DEF IInv, Types, Inbound
    <2>2. \A w \in Worker : pc[w] = "replying" =>
            cur[w][1] \in Message /\ processed[cur[w][1]] = "success"
      BY DEF RInv, IInv, Places, Busy, Item
    <2>3. \A w \in Worker : pc[w] = "replying" => processed'[cur[w][1]] = "success"
      BY <1>1, <1>2, <2>2
    <2>4. \A n \in Message : ~ Settled(n)' => replies'[n] = 0 /\ made'[n] = 0
      BY <1>1, <1>3 DEF RInv, Settled
    <2> QED BY <1>1, <2>1, <2>3, <2>4 DEF RInv, Busy, Inbound
  <1>5. Promises
    <2>1. [n \in Message |-> IF Settled(n) THEN processed[n] ELSE "open"]'
            = [n \in Message |-> IF Settled(n) THEN processed[n] ELSE "open"]
      BY <1>3 DEF Settled
    <2>2. Pledged' = Pledged
      <3>1. \A n \in Message : Owed(n)' = Owed(n)
        BY <1>1 DEF Owed, Paused
      <3>2. \A n \in Message : processed'[n] = "internal_error" <=> processed[n] = "internal_error"
        BY <1>1, <1>2
      <3> QED BY <3>1, <3>2 DEF Pledged
    <2>3. UNCHANGED Promised!vars
      BY <1>1, <2>1, <2>2 DEF Promised!vars, Pledged, Owed, Settled
    <2> QED BY <2>3 DEF Promises
  <1> QED BY <1>4, <1>5

LEMMA CommitPromises ==
    ASSUME IInv, RInv, NEW w \in Worker, Commit(w)
    PROVE  Promises
  <1>m. PICK m \in Message : m = cur[w][1]
    BY CommitsItsOwn
  <1> DEFINE i == cur[w]
             n == IF FollowsUp(w) THEN 1 ELSE 0
             Settles == [c \in Message |-> IF Settled(c) THEN processed[c] ELSE "open"]
  <1>1. /\ i \in Item /\ m \in Message /\ m = i[1] /\ result[w] \in Ending
        /\ Inbound(i) => processed[m] = "absent"
    BY <1>m, CommitsItsOwn
  <1>2. /\ Pledged' = [Pledged EXCEPT ![m] = @ + n]
        /\ made' = [made EXCEPT ![m] = @ + n]
    BY <1>m, CommitPledges
  <1>3. replies' = replies
    BY DEF Commit
  <1>4. CASE Inbound(i) /\ result[w] # "failed"
    <2>1. processed' = [processed EXCEPT ![m] = "success"] /\ n \in 0..1
      BY <1>1, <1>4 DEF Commit
    <2>2. Settles' = [Settles EXCEPT ![m] = "success"] /\ Settles[m] = "open"
      BY <1>1, <1>4, <2>1 DEF IInv, Types, Settled
    <2>3. Promised!Succeed(m)
      <3> HIDE DEF n
      <3> QED BY <1>2, <1>3, <2>1, <2>2 DEF Promised!Succeed, Promised!Pledge, Pledged, Owed
    <2> QED BY <1>1, <2>3 DEF Promises, Promised!Next
  <1>5. CASE Inbound(i) /\ result[w] = "failed"
    <2>1. processed' = [processed EXCEPT ![m] = "internal_error"] /\ n = 1
      BY <1>1, <1>5 DEF Commit, FollowsUp
    <2>2. Settles' = [Settles EXCEPT ![m] = "internal_error"] /\ Settles[m] = "open"
      BY <1>1, <1>5, <2>1 DEF IInv, Types, Settled
    <2>3. Promised!Fail(m)
      <3> HIDE DEF n
      <3> QED BY <1>2, <1>3, <2>1, <2>2 DEF Promised!Fail, Promised!Pledge, Pledged, Owed
    <2> QED BY <1>1, <2>3 DEF Promises, Promised!Next
  <1>6. CASE ~ Inbound(i) /\ result[w] = "paused"
    <2>1. processed' = processed /\ n = 1
      BY <1>1, <1>6 DEF Commit, FollowsUp
    <2>2. made[m] > 0
      BY <1>1, <1>6 DEF RInv, Commit, Step, Busy
    <2>3. Promised!GoOn(m)
      <3> HIDE DEF n
      <3> QED BY <1>2, <1>3, <2>1, <2>2 DEF Promised!GoOn, Promised!Pledge, Pledged, Owed, Settled
    <2> QED BY <1>1, <2>3 DEF Promises, Promised!Next
  <1>7. CASE ~ Inbound(i) /\ result[w] # "paused"
    <2>1. processed' = processed /\ n = 0
      BY <1>1, <1>7 DEF Commit, FollowsUp
    <2>2. Pledged[m] \in Nat /\ made[m] \in Nat
      BY <1>1, OwedIsFinite DEF Pledged, RInv
    <2>3. Pledged' = Pledged /\ made' = made
      BY <1>1, <1>2, <2>1, <2>2 DEF Pledged, RInv
    <2>4. UNCHANGED Promised!vars
      BY <1>3, <2>1, <2>3 DEF Promised!vars, Pledged, Owed, Settled
    <2> QED BY <2>4 DEF Promises
  <1> QED BY <1>4, <1>5, <1>6, <1>7

LEMMA StepsPromise ==
    ASSUME IInv, RInv, [Next]_vars
    PROVE  RInv' /\ Promises
  <1>1. CASE \E m \in Message : Arrive(m)
    <2>1. PICK m \in Message : Arrive(m)
      BY <1>1
    <2>2. \A i \in Item : status'[i] # "absent" => status[i] # "absent" \/ Inbound(i)
      BY <2>1 DEF Arrive, IInv, Types, Inbound
    <2> QED
      BY <2>1, <2>2, WritesNothing, PromisesNothing DEF Arrive, tables, local, Busy
  <1>8. CASE \E m \in Message : Accept(m)
    BY <1>8, AcceptPromises
  <1>2. ASSUME NEW w \in Worker, Handler(w) PROVE RInv' /\ Promises
    <2>1. CASE \/ Refuse(w) \/ Admit(w) \/ Insert(w) \/ Reenter(w) \/ Touch(w)
               \/ FindConversation(w)
               \/ TerminalRound(w) \/ Answer(w) \/ Exhaust(w) \/ ModelFails(w)
      <3>1. /\ UNCHANGED <<items, tables, cur>>
            /\ \E to \in Place \ {"idle", "replying"} :
                 pc' = [pc EXCEPT ![w] = to] /\ pc[w] # "idle"
        BY <2>1
        DEF Refuse, Admit, Insert, Reenter, Touch, FindConversation, TerminalRound, Answer,
            Exhaust, ModelFails, End, Step, Place, IInv, Types
      <3>2. \A v \in Worker : /\ pc'[v] = "replying" => pc[v] = "replying"
                              /\ pc'[v] # "idle" => Busy(v)
        BY <3>1 DEF Busy, IInv, Types
      <3> QED BY <3>1, <3>2, WritesNothing, PromisesNothing DEF items, tables
    <2>2. CASE Commit(w)
      BY <2>2, CommitWrites, CommitPromises
    <2>3. CASE Reply(w)
      <3>1. PICK m \in Message : m = cur[w][1]
        BY <2>3, RepliesOnce
      <3>2. /\ RInv' /\ replies' = [replies EXCEPT ![m] = 1]
            /\ UNCHANGED <<processed, execution, made>>
            /\ processed[m] = "success" /\ replies[m] = 0
        BY <2>3, <3>1, RepliesOnce DEF Reply, Step, RInv
      <3>3. Promised!ReplyTo(m)
        BY <3>2 DEF Promised!ReplyTo, Paused, Settled
      <3> QED BY <3>2, <3>3 DEF Promises, Promised!Next
    <2>4. CASE Report(w) \/ ReportFailure(w)
      <3>1. /\ UNCHANGED tables
            /\ pc[w] # "idle" /\ pc' = [pc EXCEPT ![w] = "idle"]
            /\ cur' = [cur EXCEPT ![w] = NoItem]
        BY <2>4 DEF Report, ReportFailure, Step, LayDown
      <3>2. \A i \in Item : status'[i] # "absent" => status[i] # "absent"
        <4>1. IF status[cur[w]] = "held"
              THEN status' = status \/ \E s : status' = [status EXCEPT ![cur[w]] = s]
              ELSE status' = status
          BY <2>4 DEF Report, ReportFailure
        <4> QED BY <4>1 DEF IInv, Types
      <3>3. \A v \in Worker :
              /\ pc'[v] = "replying" => pc[v] = "replying" /\ cur'[v] = cur[v]
              /\ pc'[v] # "idle" => Busy(v) /\ cur'[v] = cur[v]
        BY <3>1 DEF Busy, IInv, Types
      <3> QED BY <3>1, <3>2, <3>3, WritesNothing, PromisesNothing DEF tables
    <2> QED BY <1>2, <2>1, <2>2, <2>3, <2>4 DEF Handler
  <1>3. ASSUME NEW w \in Worker, DbFault(w) \/ Crash(w) PROVE RInv' /\ Promises
    <2>1. \A v \in Worker :
            /\ pc'[v] = "replying" => pc[v] = "replying" /\ cur'[v] = cur[v]
            /\ pc'[v] # "idle" => Busy(v) /\ cur'[v] = cur[v]
      BY <1>3 DEF DbFault, Crash, LayDown, Busy, IInv, Types
    <2>2. UNCHANGED <<items, tables>>
      BY <1>3 DEF DbFault, Crash
    <2> QED BY <2>1, <2>2, WritesNothing, PromisesNothing DEF items, tables
  <1>4. ASSUME NEW w \in Worker, NEW i \in Item, Claim(w, i) PROVE RInv' /\ Promises
    <2>1. status[i] # "absent" /\ UNCHANGED tables
      BY <1>4 DEF Claim, Due
    <2>2. \A j \in Item : status'[j] # "absent" => status[j] # "absent"
      BY <1>4, <2>1 DEF Claim, IInv, Types
    <2>3. /\ cur'[w] = i /\ pc'[w] # "replying"
          /\ \A v \in Worker \ {w} : pc'[v] = pc[v] /\ cur'[v] = cur[v]
      BY <1>4 DEF Claim, Step, IInv, Types
    <2>4. \A v \in Worker :
            /\ pc'[v] = "replying" => pc[v] = "replying" /\ cur'[v] = cur[v]
            /\ pc'[v] # "idle" => \/ Busy(v) /\ cur'[v] = cur[v]
                                  \/ cur'[v] \in Item /\ status[cur'[v]] # "absent"
      BY <2>1, <2>3 DEF Busy
    <2> QED BY <2>1, <2>2, <2>4, WritesNothing, PromisesNothing DEF tables
  <1>5. ASSUME NEW w \in Worker, NEW i \in Item, Bury(w, i) PROVE RInv' /\ Promises
    <2>1. status[i] # "absent" /\ UNCHANGED <<tables, local>>
      BY <1>5 DEF Bury, Due
    <2>2. \A j \in Item : status'[j] # "absent" => status[j] # "absent"
      BY <1>5, <2>1 DEF Bury, IInv, Types
    <2> QED BY <2>1, <2>2, WritesNothing, PromisesNothing DEF tables, local, Busy
  <1>6. ASSUME NEW c \in Conv, ArchiveStale(c) PROVE RInv' /\ Promises
    BY <1>6, WritesNothing, PromisesNothing DEF ArchiveStale, items, local, Busy
  <1>7. CASE UNCHANGED vars
    BY <1>7, WritesNothing, PromisesNothing DEF vars, items, tables, local, Busy
  <1> QED BY <1>1, <1>2, <1>3, <1>4, <1>5, <1>6, <1>7, <1>8 DEF Next, Poll

\* The bridge implements Turns, for any number of messages, runners, attempts
\* and faults: a message is settled once, it is replied to at most once and only
\* as answered, and a turn that says that work goes on commits the item that
\* goes on with it (bridge/service.py:427-560, 911-1060).
THEOREM ImplementsTurns == Spec => KeepsTurns
  <1>1. Init => RInv /\ Promised!Init
    <2> SUFFICES ASSUME Init PROVE RInv /\ Promised!Init
      OBVIOUS
    <2>1. RInv
      BY DEF Init, RInv, Busy
    <2>2. \A m \in Message : Owed(m) = {}
      <3>1. \A m \in Message : \A i \in {m} \X (0..MaxMore) : i \in Item /\ Paused(i) = {}
        BY DEF Init, Paused, Item
      <3> QED BY <3>1 DEF Owed
    <2>3. Pledged = [m \in Message |-> 0]
      <3>1. Cardinality({}) = 0
        BY FS_EmptySet
      <3>2. \A m \in Message : processed[m] # "internal_error"
        BY DEF Init
      <3> QED BY <2>2, <3>1, <3>2 DEF Pledged
    <2>4. Promised!Init
      BY <2>3 DEF Promised!Init, Init, Pledged, Owed, Settled
    <2> QED BY <2>1, <2>4
  <1>2. IInv /\ RInv /\ [Next]_vars => RInv' /\ Promises
    BY StepsPromise
  <1>3. Spec => []IInv
    BY Invariance
  <1>4. Spec => Promised!Init /\ [][Promised!Next]_(Promised!vars)
    BY <1>1, <1>2, <1>3, PTL DEF Spec, Promises
  <1> QED BY <1>4 DEF KeepsTurns, Promised!Spec

\* An item recorded as succeeded is one whose message a turn settled, a re-entry
\* that succeeded, or a message whose row the webhook had written: that one has no
\* execution, no reply and no follow-up, whatever the leases and the faults, for
\* process takes it for a duplicate (bridge/service.py:237-250).
THEOREM DoneMeansDone == Spec => []DoneIsDone
  <1>1. Init => RInv
    BY DEF Init, RInv, Busy
  <1>2. IInv /\ RInv /\ [Next]_vars => RInv'
    BY StepsPromise
  <1>3. ASSUME IInv, RInv PROVE DoneIsDone
    <2> SUFFICES ASSUME NEW i \in Item, status[i] = "succeeded", Inbound(i)
                 PROVE  \/ Settled(i[1]) /\ Committed(i) # {}
                        \/ processed[i[1]] = "pending" /\ Committed(i) = {}
                           /\ replies[i[1]] = 0 /\ made[i[1]] = 0
      BY <1>3 DEF DoneIsDone, IInv, Finished, Done
    <2>1. i[1] \in Message /\ i = <<i[1], 0>>
      BY DEF Item, Inbound
    <2>2. processed[i[1]] # "absent"
      BY <1>3 DEF IInv, Finished, Done
    <2>3. CASE Settled(i[1])
      BY <1>3, <2>1, <2>3 DEF IInv, OneRow, Committed
    <2>4. CASE ~ Settled(i[1])
      <3>1. processed[i[1]] = "pending"
        BY <1>3, <2>1, <2>2, <2>4 DEF IInv, Types, Settled
      <3> QED BY <1>3, <2>1, <2>4, <3>1 DEF IInv, OneRow, RInv, Committed
    <2> QED BY <2>3, <2>4
  <1> QED BY <1>1, <1>2, <1>3, Invariance, PTL DEF Spec

-----------------------------------------------------------------------------
(* Recovery, for every execution and every sequence of steps.               *)

\* Recovering what was recovered changes nothing: a second restart, or the
\* start-up code of the application beside the runner's pass, finds the same
\* row (execution/recovery.py:183-304).
THEOREM RecoveryIsOnce ==
    ASSUME NEW e \in Executions
    PROVE  Recovered(Recovered(e)) = Recovered(e)
  <1> DEFINE r == Recovered(e)
  <1>1. CASE e.status \notin Crashing \/ e.resumable
    BY <1>1 DEF Recovered
  <1>2. CASE e.status \in Crashing /\ ~e.resumable
    <2>1. r = e \/ r.status \in {"unknown_effect", "succeeded", "failed"}
      BY <1>2 DEF Recovered, Moved, Executions
    <2>2. CASE r = e
      BY <2>2
    <2>3. CASE r.status \in {"unknown_effect", "succeeded", "failed"}
      <3>1. r.status \notin Crashing
        BY <2>3 DEF Crashing
      <3> HIDE DEF r
      <3>2. Recovered(r) = r
        BY <3>1 DEF Recovered
      <3> QED BY <3>2 DEF r
    <2> QED BY <2>1, <2>2, <2>3
  <1> QED BY <1>1, <1>2

\* "UNKNOWN_EFFECT: a terminal command ran but we can't prove its outcome"
\* (execution/recovery.py:27-28): without a checkpoint, such an execution is
\* put aside and never goes back to where it would be run again.
THEOREM UncertainIsNotRerun ==
    ASSUME NEW e \in Executions, e.status \in Crashing, ~e.resumable, Unverified(e) # {}
    PROVE  /\ Recovered(e).status = "unknown_effect"
           /\ Outcome(Recovered(e)) = "already_terminal"
  <1>1. Recovered(e).status = "unknown_effect"
    BY DEF Recovered, Executions
  <1> QED BY <1>1 DEF Outcome, Crashing

\* No step of the bridge is ever of a kind recovery can act on: whatever its
\* commands did, an execution without a checkpoint is to be tried again.
LEMMA BridgeStepsSayNothing ==
    ASSUME NEW e \in Executions, ByTheBridge(e), e.status = "running", ~e.resumable
    PROVE  Outcome(e) = "retry_from_start"
  <1>1. Unverified(e) = {}
    BY DEF Unverified, ByTheBridge, Crashing
  <1>2. ~OnlyEndMissing(e)
    <2>1. SUFFICES ASSUME CrashPoint(e) = "after_result_persistence" PROVE ~e.steps[Len(e.steps)].answered
      BY DEF OnlyEndMissing
    <2>2. e.steps # << >>
      BY <2>1 DEF CrashPoint, EndsWith
    <2>3. e.steps \in Seq(Steps)
      BY DEF Executions
    <2>4. Len(e.steps) \in DOMAIN e.steps
      BY <2>2, <2>3
    <2>5. e.steps[Len(e.steps)].kind = "terminal_observation"
      BY <2>1 DEF CrashPoint, EndsWith
    <2> QED BY <2>4, <2>5 DEF ByTheBridge
  <1> QED BY <1>1, <1>2 DEF Outcome, Crashing

\* The pass at start-up recovers no execution of the bridge: one that has no
\* checkpoint makes it raise, and the whole pass is rolled back
\* (runtime/work/runner.py:414-426, bridge/service.py:1509-1546).
THEOREM NoOrphanIsRecovered ==
    ASSUME NEW S, NEW orphans \in [S -> Executions], NEW i \in S,
           \A j \in S : ~orphans[j].resumable,
           orphans[i].status = "running", ByTheBridge(orphans[i])
    PROVE  Swept(orphans) = orphans
  <1>1. Outcome(orphans[i]) = "retry_from_start"
    BY BridgeStepsSayNothing
  <1>2. Raises(orphans[i])
    BY <1>1 DEF Raises
  <1> QED BY <1>2 DEF Swept

=============================================================================
