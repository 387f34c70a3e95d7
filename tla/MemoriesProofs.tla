-------------------------- MODULE MemoriesProofs --------------------------
(***************************************************************************)
(* Theorems about Memories: what the transactions of reflection, of the    *)
(* expiry sweep, of turns and of single statements do to the rows of a     *)
(* principal beside one another, for any number of each, and what          *)
(* retrieval shows of them.                                                *)
(*                                                                         *)
(* Argument.  A row is locked by one transaction at most; each transaction *)
(* knows what it wrote and what it still means to write (Reflects, Sweeps, *)
(* Turns); so the committed rows share no roots and have heirs (Committed). *)
(* Retrieval takes the first few of a strict order (FirstAreFew).          *)
(***************************************************************************)
EXTENDS Memories, FiniteSetTheorems, WellFoundedInduction, TLAPS

-----------------------------------------------------------------------------
(* The inductive invariant: what is committed, and what each of the three  *)
(* transactions has written and still means to write.                      *)

Typed ==
    /\ TypeOK
    /\ DOMAIN written = Actor
    /\ reflect \in [pc : {"idle", "cluster", "ask", "supersede"}, rest : SUBSET Ids,
                    shown : [Ids -> SUBSET Ids], n : Nat, cluster : SUBSET Ids,
                    new : Ids \union {None}, todo : SUBSET Ids]
    /\ sweep \in [todo : SUBSET Ids, seen : SUBSET Ids] /\ sweep.seen \subseteq due
    /\ turn \in [pc : {"idle", "store", "strengthen"}, count : 0..MaxPerTurn,
                 target : Ids \union {None}, turns : Nat]

\* A row is locked by one transaction at most.
Locked == \A a, b \in Actor : a # b => Wrote(a) \intersect Wrote(b) = {}

\* Every root is a first-hand memory that was once committed.
Known(T) == \A x \in T : mem[x].status # "none"

Committed == HasHeir /\ NoRootTwice /\ \A m \in Ids : Known(mem[m].roots)

\* The reflection pass: the rows it added, the episodes it has not looked at,
\* and its rows of old memories, superseded.
New == {m \in Wrote("reflect") : mem[m].status = "none"}
Row(m) == written["reflect"][m]
Pending == reflect.rest \union (IF reflect.pc = "ask" THEN reflect.cluster ELSE {})

Unseen(m) ==
    /\ mem[m].status # "none" /\ m \notin Wrote("reflect")
    /\ mem[m].roots \subseteq reflect.shown[m] /\ Known(reflect.shown[m])
    /\ \A x \in Pending : x # m => reflect.shown[m] \intersect reflect.shown[x] = {}
    /\ \A x \in Active : x # m => reflect.shown[m] \intersect mem[x].roots = {}
    /\ \A n \in New : reflect.shown[m] \intersect Row(n).roots = {}

Distilled(n) ==
    /\ Row(n).status = "active" /\ Known(Row(n).roots)
    /\ \A x \in New : x # n => Row(n).roots \intersect Row(x).roots = {}
    /\ \A m \in Active : Row(n).roots \intersect mem[m].roots # {}
           => m \in reflect.todo \/ m \in Wrote("reflect")

Replaced(m) ==
    /\ mem[m].status = "active"
    /\ Row(m) = [mem[m] EXCEPT !.status = "superseded", !.by = Row(m).by]
    /\ Row(m).by \in New /\ Row(m).by > m
    /\ mem[m].roots \subseteq Row(Row(m).by).roots

\* An episode of the cluster that is still to be superseded.
Due(m) ==
    /\ mem[m].status # "none" /\ m \notin Wrote("reflect") /\ m \notin reflect.rest
    /\ m < reflect.new /\ mem[m].roots \subseteq Row(reflect.new).roots

Reflects ==
    /\ \A m \in Pending : Unseen(m)
    /\ \A n \in New : Distilled(n)
    /\ \A m \in Wrote("reflect") : mem[m].status # "none" => Replaced(m)
    /\ \A m \in reflect.todo : Due(m)
    /\ reflect.pc = "idle" => Wrote("reflect") = {}
    /\ reflect.pc = "ask" =>
           reflect.cluster # {} /\ reflect.cluster \intersect reflect.rest = {}
    /\ reflect.pc = "supersede" => reflect.todo # {} /\ reflect.new \in New
    /\ reflect.pc # "supersede" => reflect.todo = {}

Sweeps ==
    /\ \A m \in Wrote("sweep") :
           /\ mem[m].status = "active"
           /\ written["sweep"][m] = [mem[m] EXCEPT !.status = "forgotten"]
    /\ \A m \in sweep.seen :
           /\ mem[m].status # "none"
           /\ m \in sweep.todo \/ Seen("sweep", m).status \in Gone
    /\ \A m \in audit : mem[m].status \in Gone

\* What a turn writes is a first-hand memory, or a row as it was.
Turns ==
    /\ \A m \in Wrote("turn") :
           IF mem[m].status = "none"
           THEN written["turn"][m].status = "active" /\ written["turn"][m].roots = {m}
           ELSE written["turn"][m] = mem[m]
    /\ turn.pc = "strengthen" =>
           /\ turn.target \in Ids /\ Seen("turn", turn.target).status # "none"
           /\ turn.count < MaxPerTurn

IInv == Typed /\ Locked /\ Committed /\ Reflects /\ Sweeps /\ Turns

-----------------------------------------------------------------------------
(* First and last elements. *)

\* Among natural numbers there is a least one.
LEMMA HasLeast ==
    ASSUME NEW S, S \subseteq Nat, S # {}
    PROVE  \E x \in S : \A y \in S : x <= y
  <1>1. PICK x \in S : \A y \in S : <<y, x>> \notin OpToRel(<, Nat)
    BY NatLessThanWellFounded, WFMin, Zenon
  <1>2. x \in Nat /\ \A y \in S : y \in Nat
    OBVIOUS
  <1>3. \A y \in S : ~(y < x)
    BY <1>1, <1>2, Zenon DEF OpToRel
  <1> QED BY <1>2, <1>3

\* A finite set that is strictly ordered has an element nothing comes before.
LEMMA HasFirst ==
    ASSUME NEW S, IsFiniteSet(S), S # {}, NEW R,
           \A x \in S : <<x, x>> \notin R,
           \A x, y, z \in S : <<x, y>> \in R /\ <<y, z>> \in R => <<x, z>> \in R
    PROVE  \E x \in S : \A y \in S : <<y, x>> \notin R
  <1> DEFINE Before(x) == {y \in S : <<y, x>> \in R}
             Counts == {Cardinality(Before(x)) : x \in S}
  <1>1. \A x \in S : IsFiniteSet(Before(x)) /\ Cardinality(Before(x)) \in Nat
    BY FS_Subset, FS_CardinalityType
  <1>2. \A x \in S : Cardinality(Before(x)) \in Nat
    BY <1>1
  <1>3. Counts \subseteq Nat /\ Counts # {}
    <2> HIDE DEF Before
    <2> QED BY <1>2
  <1>4. PICK n \in Counts : \A k \in Counts : n <= k
    <2> HIDE DEF Counts
    <2> QED BY <1>3, HasLeast
  <1>5. PICK x \in S : n = Cardinality(Before(x))
    BY <1>4
  <1>6. ASSUME NEW y \in S, <<y, x>> \in R
        PROVE  FALSE
    <2>1. Before(y) \in SUBSET (Before(x) \ {y}) /\ y \in Before(x)
      BY <1>6
    <2>2. IsFiniteSet(Before(x) \ {y})
          /\ Cardinality(Before(x) \ {y}) = Cardinality(Before(x)) - 1
      BY <1>1, <2>1, FS_RemoveElement
    <2>3. Cardinality(Before(y)) <= Cardinality(Before(x) \ {y})
      BY <2>1, <2>2, FS_Subset
    <2>4. Cardinality(Before(y)) \in Counts
      OBVIOUS
    <2> HIDE DEF Before, Counts
    <2>5. Cardinality(Before(x)) \in Nat /\ Cardinality(Before(y)) \in Nat
      BY <1>2
    <2> QED BY <1>4, <1>5, <2>2, <2>3, <2>4, <2>5
  <1> QED BY <1>6

\* Max is what its name says.
LEMMA MaxIs ==
    ASSUME NEW S, S \subseteq Nat, IsFiniteSet(S), S # {}
    PROVE  Max(S) \in S /\ \A x \in S : x <= Max(S)
  <1> DEFINE R == {p \in S \X S : p[1] > p[2]}
  <1>1. \A x, y \in S : <<x, y>> \in R <=> x > y
    OBVIOUS
  <1>2. \A x \in S : <<x, x>> \notin R
    BY <1>1
  <1>3. \A x, y, z \in S : <<x, y>> \in R /\ <<y, z>> \in R => <<x, z>> \in R
    BY <1>1
  <1>4. PICK x \in S : \A y \in S : <<y, x>> \notin R
    <2> HIDE DEF R
    <2> QED BY <1>2, <1>3, HasFirst
  <1>5. ASSUME NEW y \in S
        PROVE  x >= y
    <2>1. ~(y > x)
      <3> HIDE DEF R
      <3> QED BY <1>1, <1>4
    <2> QED BY <1>4, <2>1
  <1> QED BY <1>5 DEF Max

\* Min is what its name says.
LEMMA MinIs ==
    ASSUME NEW S, S \subseteq Nat, S # {}
    PROVE  Min(S) \in S /\ \A x \in S : Min(S) <= x
  <1>1. PICK x \in S : \A y \in S : x <= y
    BY HasLeast
  <1> QED BY <1>1 DEF Min

\* A new id belongs to no row, and is newer than those that are committed.
LEMMA FreshIsNew ==
    ASSUME MemoriesAssumption, Unused # {}
    PROVE  /\ Fresh \in Ids /\ mem[Fresh].status = "none" /\ Holder(Fresh) = {}
           /\ \A x \in Ids : mem[x].status # "none" => x < Fresh
  <1>1. Fresh \in Unused
    BY MinIs DEF Unused, Fresh, MemoriesAssumption
  <1>2. Fresh \in Ids /\ \A x \in Ids : x >= Fresh => mem[x].status = "none" /\ Holder(x) = {}
    BY <1>1 DEF Unused
  <1>3. \A x \in Ids : x \in Nat
    BY DEF MemoriesAssumption
  <1>4. Fresh >= Fresh /\ \A x \in Ids : x < Fresh \/ x >= Fresh
    BY <1>2, <1>3
  <1> QED BY <1>2, <1>4

-----------------------------------------------------------------------------
(* What a step does to the rows: it leaves them, adds one to a transaction,  *)
(* ends a transaction, or changes one that no transaction holds.             *)

Kept == mem' = mem /\ written' = written

\* Transaction a writes row of memory m, which no other transaction holds.
Adds(a, m, row) ==
    /\ mem' = mem /\ Holder(m) \subseteq {a} /\ m \in Ids /\ row \in RowType
    /\ DOMAIN written' = Actor /\ \A b \in Actor : b # a => written'[b] = written[b]
    /\ DOMAIN written'[a] = Wrote(a) \union {m}
    /\ written'[a][m] = row
    /\ \A x \in Wrote(a) : x # m => written'[a][x] = written[a][x]

\* Transaction a is over, and leaves the rows committed that it saw, or none.
Ends(a) ==
    /\ DOMAIN written' = Actor /\ \A b \in Actor : b # a => written'[b] = written[b]
    /\ DOMAIN written'[a] = {}
Publishes(a) ==
    /\ Ends(a)
    /\ \A m \in Ids : m \in Wrote(a) => mem'[m] = written[a][m]
    /\ \A m \in Ids : m \notin Wrote(a) => mem'[m] = mem[m]

\* A statement of its own.
Replaces(m, row) ==
    /\ m \in Ids /\ Holder(m) = {} /\ row \in RowType /\ written' = written
    /\ mem'[m] = row /\ \A x \in Ids : x # m => mem'[x] = mem[x]

\* A row that a transaction writes is added to those it wrote.
LEMMA WritesAdd ==
    ASSUME Typed, NEW a \in Actor, NEW m \in Ids, NEW row \in RowType,
           Free(a, m), Writes(a, m, row), mem' = mem
    PROVE  Adds(a, m, row)
  <1>1. written' = [b \in Actor |->
            IF b = a THEN [x \in Wrote(a) \union {m} |-> IF x = m THEN row ELSE Seen(a, x)]
            ELSE written[b]]
    BY DEF Writes, Typed
  <1>2. written'[a] = [x \in Wrote(a) \union {m} |-> IF x = m THEN row ELSE Seen(a, x)]
    BY <1>1
  <1>3. \A x \in Wrote(a) : Seen(a, x) = written[a][x]
    BY DEF Seen
  <1> QED BY <1>1, <1>2, <1>3 DEF Adds, Free

\* COMMIT publishes what the transaction saw.
LEMMA CommitPublishes ==
    ASSUME Typed, NEW a \in Actor, Commit(a)
    PROVE  Publishes(a) /\ mem' \in [Ids -> RowType]
  <1>1. \A m \in Ids : Seen(a, m) \in RowType
    BY DEF Typed, TypeOK, Seen
  <1>2. written' = [b \in Actor |-> IF b = a THEN Nothing ELSE written[b]]
    BY DEF Commit, Typed
  <1>3. DOMAIN Nothing = {}
    BY DEF Nothing
  <1>4. Ends(a)
    BY <1>2, <1>3 DEF Ends
  <1> QED BY <1>1, <1>4 DEF Commit, Published, Publishes, Seen

LEMMA DiscardEnds ==
    ASSUME Typed, NEW a \in Actor, Discard(a)
    PROVE  Ends(a)
  <1>1. written' = [b \in Actor |-> IF b = a THEN Nothing ELSE written[b]]
    BY DEF Discard, Typed
  <1>2. DOMAIN Nothing = {}
    BY DEF Nothing
  <1> QED BY <1>1, <1>2 DEF Ends

LEMMA SetsReplaces ==
    ASSUME Typed, NEW m \in Ids, NEW row \in RowType, Sets(m, row)
    PROVE  Replaces(m, row) /\ mem' \in [Ids -> RowType]
  BY DEF Sets, Replaces, Typed, TypeOK

\* The rows that the statements of the code write.
LEMMA RowsOfStatements ==
    ASSUME MemoriesAssumption, Typed
    PROVE  /\ \A m \in Ids, k \in Kinds : FirstHand(m, k) \in RowType
           /\ \A m \in Ids : Forgotten(mem[m]) \in RowType
           /\ \A a \in Actor, m \in Ids : /\ Seen(a, m) \in RowType
                                          /\ Forgotten(Seen(a, m)) \in RowType
           /\ \A k \in Kinds : Insight(k) \in RowType
           /\ \A m \in Ids, n \in Ids : Superseded(Seen("reflect", m), n) \in RowType
           /\ [Blank EXCEPT !.status = "deleted"] \in RowType
  <1>1. \A a \in Actor, m \in Ids : Seen(a, m) \in RowType
    BY DEF Typed, TypeOK, Seen
  <1>2. Blank \in RowType /\ None \notin Ids
    BY DEF Blank, RowType, Statuses, Kinds, MemoriesAssumption
  <1>3. \A m \in Ids, k \in Kinds : FirstHand(m, k) \in RowType
    BY <1>2 DEF FirstHand, RowType, Statuses, Blank
  <1>4. \A r \in RowType : Forgotten(r) \in RowType
    BY DEF Forgotten, RowType, Statuses, Gone
  <1>5. \A r \in RowType, n \in Ids : Superseded(r, n) \in RowType
    BY DEF Superseded, RowType, Statuses, Gone
  <1>6. \A m \in Ids : mem[m] \in RowType
    BY DEF Typed, TypeOK
  <1>7. (UNION {reflect.shown[m] : m \in reflect.cluster}) \in SUBSET Ids
    <2>1. \A m \in reflect.cluster : reflect.shown[m] \subseteq Ids
      BY DEF Typed
    <2> QED BY <2>1
  <1>8. \A k \in Kinds : Insight(k) \in RowType
    BY <1>7 DEF Insight, RowType, Statuses, Blank
  <1>9. [Blank EXCEPT !.status = "deleted"] \in RowType
    BY <1>2 DEF Blank, RowType, Statuses, Gone
  <1> QED BY <1>1, <1>3, <1>4, <1>5, <1>6, <1>8, <1>9 DEF Actor

-----------------------------------------------------------------------------
(* Types. *)

\* Adding a row, ending a transaction and publishing keep the rows typed.
RowsTyped ==
    /\ mem \in [Ids -> RowType] /\ DOMAIN written = Actor
    /\ \A a \in Actor : Wrote(a) \subseteq Ids /\ \A m \in Wrote(a) : written[a][m] \in RowType

LEMMA AddsTyped ==
    ASSUME Typed, NEW a \in Actor, NEW m \in Ids, NEW row \in RowType, Adds(a, m, row)
    PROVE  RowsTyped'
  <1>1. \A b \in Actor : Wrote(b) \subseteq Ids /\ \A x \in Wrote(b) : written[b][x] \in RowType
    BY DEF Typed, TypeOK
  <1>2. ASSUME NEW b \in Actor
        PROVE  DOMAIN written'[b] \subseteq Ids
               /\ \A x \in DOMAIN written'[b] : written'[b][x] \in RowType
    <2>1. CASE b = a
      BY <1>1, <2>1 DEF Adds
    <2>2. CASE b # a
      BY <1>1, <2>2 DEF Adds, Wrote
    <2> QED BY <2>1, <2>2
  <1>3. mem' \in [Ids -> RowType] /\ DOMAIN written' = Actor
    BY DEF Adds, Typed, TypeOK
  <1> QED BY <1>2, <1>3 DEF RowsTyped, Wrote

LEMMA EndsTyped ==
    ASSUME Typed, NEW a \in Actor, Ends(a), mem' \in [Ids -> RowType]
    PROVE  RowsTyped'
  <1>1. \A b \in Actor : Wrote(b) \subseteq Ids /\ \A x \in Wrote(b) : written[b][x] \in RowType
    BY DEF Typed, TypeOK
  <1>2. ASSUME NEW b \in Actor
        PROVE  DOMAIN written'[b] \subseteq Ids
               /\ \A x \in DOMAIN written'[b] : written'[b][x] \in RowType
    <2>1. CASE b = a
      BY <2>1 DEF Ends
    <2>2. CASE b # a
      BY <1>1, <2>2 DEF Ends, Wrote
    <2> QED BY <2>1, <2>2
  <1> QED BY <1>2 DEF RowsTyped, Ends, Wrote

\* The steps of the three walks, and of the statements.
ReflectType ==
    reflect \in [pc : {"idle", "cluster", "ask", "supersede"}, rest : SUBSET Ids,
                 shown : [Ids -> SUBSET Ids], n : Nat, cluster : SUBSET Ids,
                 new : Ids \union {None}, todo : SUBSET Ids]
SweepType ==
    /\ sweep \in [todo : SUBSET Ids, seen : SUBSET Ids]
    /\ sweep.todo \subseteq sweep.seen /\ sweep.seen \subseteq due
    /\ due \subseteq Expiring /\ audit \subseteq due
TurnType ==
    /\ turn \in [pc : {"idle", "store", "strengthen"}, count : 0..MaxPerTurn,
                 target : Ids \union {None}, turns : Nat]
    /\ turn.pc = "strengthen" => turn.count < MaxPerTurn
LinkType == links \subseteq Linkable /\ drawing \in Linkable \union {None}

LEMMA TypedIs ==
    ASSUME MemoriesAssumption
    PROVE  /\ Typed /\ Turns => RowsTyped /\ ReflectType /\ SweepType /\ TurnType /\ LinkType
           /\ RowsTyped /\ ReflectType /\ SweepType /\ TurnType /\ LinkType => Typed
  <1>1. SweepType => sweep.seen \subseteq Ids
    BY DEF SweepType, MemoriesAssumption
  <1> QED BY <1>1 DEF Typed, TypeOK, Turns, RowsTyped, ReflectType, SweepType, TurnType, LinkType

\* Every step is one of these five.
Shape ==
    \/ Kept
    \/ \E a \in Actor, m \in Ids, row \in RowType : Adds(a, m, row)
    \/ \E a \in Actor : Ends(a) /\ mem' = mem
    \/ \E a \in Actor : Publishes(a) /\ mem' \in [Ids -> RowType]
    \/ \E m \in Ids, row \in RowType : Replaces(m, row) /\ mem' \in [Ids -> RowType]

LEMMA Shapes ==
    ASSUME MemoriesAssumption, Typed, Turns, Reflects, Next
    PROVE  Shape
  <1> USE RowsOfStatements
  <1>1. ASSUME mem' = mem, written' = written
        PROVE  Shape
    BY <1>1 DEF Shape, Kept
  <1>2. ASSUME NEW a \in Actor, NEW m \in Ids, NEW row \in RowType,
               Free(a, m), Writes(a, m, row), mem' = mem
        PROVE  Shape
    BY <1>2, WritesAdd DEF Shape
  <1>3. ASSUME NEW a \in Actor, Commit(a)
        PROVE  Shape
    BY <1>3, CommitPublishes DEF Shape
  <1>4. ASSUME NEW a \in Actor, Discard(a), mem' = mem
        PROVE  Shape
    BY <1>4, DiscardEnds DEF Shape
  <1>5. ASSUME NEW m \in Ids, NEW row \in RowType, Sets(m, row)
        PROVE  Shape
    BY <1>5, SetsReplaces DEF Shape
  <1>6. Unused # {} => Fresh \in Ids /\ \A a \in Actor : Free(a, Fresh)
    BY FreshIsNew DEF Free
  <1>7. {"reflect", "sweep", "turn"} \subseteq Actor
    BY DEF Actor
  <1>8. CASE ReadEpisodes \/ NextCluster \/ NoInsight \/ SweepReads \/ TurnBegins \/ TurnFinds
             \/ LinkInserts \/ (\E e \in Linkable : LinkReads(e) \/ Unlink(e))
             \/ \E m \in Ids : Lapses(m)
    BY <1>1, <1>8 DEF ReadEpisodes, NextCluster, NoInsight, SweepReads, TurnBegins, TurnFinds,
       LinkInserts, LinkReads, Unlink, Lapses
  <1>9. CASE Distil
    BY <1>2, <1>6, <1>7, <1>9 DEF Distil
  <1>10. CASE SupersedeNext
    <2> DEFINE m == Max(reflect.todo)
               row == Superseded(Seen("reflect", m), reflect.new)
    <2>1. m \in Ids /\ reflect.new \in Ids
      <3>1. reflect.todo # {} /\ reflect.todo \subseteq Ids /\ Ids \subseteq Nat /\ IsFiniteSet(Ids)
        BY <1>10 DEF SupersedeNext, Reflects, Typed, MemoriesAssumption
      <3>2. IsFiniteSet(reflect.todo)
        BY <3>1, FS_Subset
      <3>3. m \in reflect.todo
        BY <3>1, <3>2, MaxIs
      <3> QED BY <1>10, <3>1, <3>3 DEF SupersedeNext, Reflects, New, Typed, TypeOK, Actor
    <2>2. row \in RowType
      BY <2>1
    <2>3. Free("reflect", m) /\ Updates("reflect", m, row) /\ mem' = mem
      BY <1>10 DEF SupersedeNext
    <2> HIDE DEF m, row
    <2> QED BY <1>1, <1>2, <1>7, <2>1, <2>2, <2>3 DEF Updates
  <1>11. CASE \E m \in Ids : SweepForgets(m)
    BY <1>1, <1>2, <1>7, <1>11 DEF SweepForgets, Updates
  <1>12. CASE TurnStores
    BY <1>2, <1>6, <1>7, <1>12 DEF TurnStores
  <1>13. CASE TurnStrengthens
    <2>1. turn.target \in Ids
      BY <1>13 DEF TurnStrengthens, Turns
    <2> QED BY <1>1, <1>2, <1>7, <1>13, <2>1 DEF TurnStrengthens
  <1>14. CASE ReflectCommits \/ SweepCommits \/ TurnCommits
    BY <1>3, <1>7, <1>14 DEF ReflectCommits, SweepCommits, TurnCommits
  <1>15. CASE \E k \in Kinds : Remember(k)
    BY <1>5, <1>6, <1>15 DEF Remember
  <1>16. CASE \E m \in Ids : Forget(m) \/ HardDelete(m)
    BY <1>5, <1>16 DEF Forget, HardDelete
  <1>17. CASE \E a \in Actor : RollBack(a)
    BY <1>4, <1>17 DEF RollBack
  <1> QED BY <1>8, <1>9, <1>10, <1>11, <1>12, <1>13, <1>14, <1>15, <1>16, <1>17
          DEF Next, Reflection, Sweeping, Extraction, Statement

LEMMA RowsTypedStep ==
    ASSUME MemoriesAssumption, Typed, Turns, Reflects, Next
    PROVE  RowsTyped'
  <1>1. RowsTyped
    BY TypedIs
  <1>2. CASE Kept
    BY <1>1, <1>2 DEF RowsTyped, Wrote, Kept
  <1>3. ASSUME NEW m \in Ids, NEW row \in RowType, Replaces(m, row), mem' \in [Ids -> RowType]
        PROVE  RowsTyped'
    BY <1>1, <1>3 DEF RowsTyped, Wrote, Replaces
  <1>4. mem' = mem => mem' \in [Ids -> RowType]
    BY <1>1 DEF RowsTyped
  <1> QED BY Shapes, AddsTyped, EndsTyped, <1>2, <1>3, <1>4 DEF Shape, Publishes

\* No step gives two transactions the same row.
LEMMA LockedStep ==
    ASSUME Typed, Locked, Shape
    PROVE  Locked'
  <1>1. CASE \A a \in Actor : DOMAIN written'[a] \subseteq Wrote(a)
    BY <1>1 DEF Locked, Wrote
  <1>2. ASSUME NEW a \in Actor, NEW m \in Ids, NEW row \in RowType, Adds(a, m, row)
        PROVE  Locked'
    <2>1. ASSUME NEW b \in Actor, b # a
          PROVE  DOMAIN written'[b] = Wrote(b) /\ DOMAIN written'[b] \intersect DOMAIN written'[a] = {}
      <3>1. m \notin Wrote(b) /\ Wrote(a) \intersect Wrote(b) = {}
        BY <1>2, <2>1 DEF Adds, Holder, Locked
      <3> QED BY <1>2, <2>1, <3>1 DEF Adds, Wrote
    <2>2. ASSUME NEW b \in Actor, NEW c \in Actor, b # c
          PROVE  DOMAIN written'[b] \intersect DOMAIN written'[c] = {}
      BY <2>1, <2>2 DEF Locked
    <2> QED BY <2>2 DEF Locked, Wrote
  <1>3. ASSUME NEW a \in Actor, Ends(a)
        PROVE  \A b \in Actor : DOMAIN written'[b] \subseteq Wrote(b)
    BY <1>3 DEF Ends, Wrote
  <1> QED BY <1>1, <1>2, <1>3 DEF Shape, Kept, Publishes, Replaces, Wrote

LEMMA ReflectTypedStep ==
    ASSUME MemoriesAssumption, Typed, Next
    PROVE  ReflectType'
  <1>1. ReflectType
    BY DEF Typed, ReflectType
  <1>2. ReflectType /\ reflect' = reflect => ReflectType'
    BY DEF ReflectType
  <1>3. Resting \in [pc : {"idle", "cluster", "ask", "supersede"}, rest : SUBSET Ids,
                     shown : [Ids -> SUBSET Ids], n : Nat, cluster : SUBSET Ids,
                     new : Ids \union {None}, todo : SUBSET Ids]
    BY DEF Resting
  <1>4. CASE ReadEpisodes
    <2>1. Episodes \subseteq Ids
      BY DEF Episodes, Active
    <2>2. [m \in Ids |-> IF m \in Episodes THEN mem[m].roots ELSE {}] \in [Ids -> SUBSET Ids]
      BY DEF Typed, TypeOK, RowType
    <2> DEFINE texts == [m \in Ids |-> IF m \in Episodes THEN mem[m].roots ELSE {}]
    <2>3. reflect' = [Resting EXCEPT !.pc = "cluster", !.rest = Episodes, !.shown = texts]
      BY <1>4 DEF ReadEpisodes
    <2> HIDE DEF texts
    <2>4. texts \in [Ids -> SUBSET Ids]
      BY <2>2 DEF texts
    <2> QED BY <2>1, <2>3, <2>4 DEF Resting, ReflectType
  <1>5. CASE NextCluster
    <2>1. ClusterOf(reflect.rest) \subseteq Ids
      BY <1>1 DEF ClusterOf, ReflectType
    <2> DEFINE cluster == ClusterOf(reflect.rest)
    <2>2. PICK p \in {"cluster", "ask"} :
              reflect' = [pc |-> p, rest |-> reflect.rest \ cluster, shown |-> reflect.shown,
                          n |-> reflect.n + 1, cluster |-> cluster, new |-> reflect.new,
                          todo |-> reflect.todo]
      BY <1>1, <1>5 DEF NextCluster, ReflectType
    <2> HIDE DEF cluster
    <2>3. /\ cluster \subseteq Ids /\ reflect.rest \subseteq Ids /\ reflect.n \in Nat
          /\ reflect.shown \in [Ids -> SUBSET Ids] /\ reflect.todo \subseteq Ids
          /\ reflect.new \in Ids \union {None}
      BY <1>1, <2>1 DEF ReflectType, cluster
    <2> QED BY <2>2, <2>3 DEF ReflectType
  <1>6. CASE NoInsight
    BY <1>1, <1>6 DEF NoInsight, ReflectType
  <1>7. CASE Distil
    BY <1>1, <1>7, FreshIsNew DEF Distil, ReflectType
  <1>8. CASE SupersedeNext
    BY <1>1, <1>8 DEF SupersedeNext, ReflectType
  <1>9. CASE ReflectCommits
    BY <1>3, <1>9 DEF ReflectCommits, ReflectType
  <1>10. CASE Sweeping \/ Extraction \/ Statement \/ \E m \in Ids : Lapses(m)
    BY <1>1, <1>2, <1>10 DEF Sweeping, SweepReads, SweepForgets, SweepCommits, Extraction,
       TurnBegins, TurnStores, TurnFinds, TurnStrengthens, TurnCommits, Statement, Remember,
       Forget, HardDelete, Sets, LinkReads, LinkInserts, Unlink, Lapses
  <1>11. CASE \E a \in Actor : RollBack(a)
    <2>1. reflect' = reflect \/ reflect' = Resting
      BY <1>11 DEF RollBack
    <2> QED BY <1>1, <1>2, <1>3, <2>1 DEF ReflectType
  <1> QED BY <1>4, <1>5, <1>6, <1>7, <1>8, <1>9, <1>10, <1>11 DEF Next, Reflection

LEMMA SweepTypedStep ==
    ASSUME MemoriesAssumption, Typed, Next
    PROVE  SweepType'
  <1>1. SweepType
    BY DEF Typed, TypeOK, SweepType
  <1>2. CASE SweepReads
    BY <1>1, <1>2 DEF SweepReads, SweepType, Active
  <1>3. CASE \E m \in Ids : SweepForgets(m)
    BY <1>1, <1>3 DEF SweepForgets, SweepType
  <1>4. CASE SweepCommits
    BY <1>1, <1>4 DEF SweepCommits, SweepType
  <1>5. CASE \E m \in Ids : Lapses(m)
    BY <1>1, <1>5 DEF Lapses, SweepType
  <1>6. CASE \E a \in Actor : RollBack(a)
    BY <1>1, <1>6 DEF RollBack, SweepType
  <1>7. CASE Reflection \/ Extraction \/ Statement
    <2>1. sweep' = sweep /\ due' = due /\ audit' = audit
      BY <1>7 DEF Reflection, ReadEpisodes, NextCluster, NoInsight, Distil, SupersedeNext,
         ReflectCommits, Extraction, TurnBegins, TurnStores, TurnFinds, TurnStrengthens,
         TurnCommits, Statement, Remember, Forget, HardDelete, Sets, LinkReads, LinkInserts,
         Unlink
    <2> QED BY <1>1, <2>1 DEF SweepType
  <1> QED BY <1>2, <1>3, <1>4, <1>5, <1>6, <1>7 DEF Next, Sweeping

LEMMA TurnTypedStep ==
    ASSUME MemoriesAssumption, Typed, Turns, Next
    PROVE  TurnType'
  <1>1. TurnType
    BY DEF Typed, Turns, TurnType
  <1>2. MaxPerTurn \in Nat
    BY DEF MemoriesAssumption
  <1>3. /\ turn.pc \in {"idle", "store", "strengthen"} /\ turn.count \in 0..MaxPerTurn
        /\ turn.target \in Ids \union {None} /\ turn.turns \in Nat
        /\ turn = [pc |-> turn.pc, count |-> turn.count, target |-> turn.target,
                   turns |-> turn.turns]
        /\ turn.pc = "strengthen" => turn.count < MaxPerTurn
    BY <1>1 DEF TurnType
  <1>4. ASSUME NEW p \in {"idle", "store", "strengthen"}, NEW c \in 0..MaxPerTurn,
               NEW t \in Ids \union {None}, NEW k \in Nat,
               turn' = [pc |-> p, count |-> c, target |-> t, turns |-> k],
               p = "strengthen" => c < MaxPerTurn
        PROVE  TurnType'
    BY <1>4 DEF TurnType
  <1> DEFINE Is(p, c, t, k) == turn' = [pc |-> p, count |-> c, target |-> t, turns |-> k]
  <1>5. CASE TurnBegins
    <2>1. Is("store", 0, turn.target, turn.turns + 1)
      BY <1>3, <1>5 DEF TurnBegins
    <2> QED BY <1>2, <1>3, <1>4, <2>1
  <1>6. CASE TurnStores
    <2>1. Is("store", turn.count + 1, turn.target, turn.turns) /\ turn.count < MaxPerTurn
      BY <1>3, <1>6 DEF TurnStores
    <2> QED BY <1>2, <1>3, <1>4, <2>1
  <1>7. CASE TurnFinds
    <2>1. PICK m \in Ids : Is("strengthen", turn.count, m, turn.turns)
      BY <1>3, <1>7 DEF TurnFinds
    <2>2. turn.count < MaxPerTurn
      BY <1>7 DEF TurnFinds
    <2> QED BY <1>3, <1>4, <2>1, <2>2
  <1>8. CASE TurnStrengthens
    <2>1. Is("store", turn.count + 1, None, turn.turns) /\ turn.count < MaxPerTurn
      BY <1>3, <1>8 DEF TurnStrengthens
    <2> QED BY <1>2, <1>3, <1>4, <2>1
  <1>9. CASE TurnCommits \/ \E a \in Actor : RollBack(a)
    <2>1. \/ turn' = turn
          \/ Is("idle", 0, turn.target, turn.turns) \/ Is("idle", 0, None, turn.turns)
      BY <1>3, <1>9 DEF TurnCommits, RollBack
    <2>2. 0 \in 0..MaxPerTurn
      BY <1>2
    <2> QED BY <1>1, <1>3, <1>4, <2>1, <2>2 DEF TurnType
  <1>10. CASE Reflection \/ Sweeping \/ Statement \/ \E m \in Ids : Lapses(m)
    <2>1. turn' = turn
      BY <1>10 DEF Reflection, ReadEpisodes, NextCluster, NoInsight, Distil, SupersedeNext,
         ReflectCommits, Sweeping, SweepReads, SweepForgets, SweepCommits, Statement, Remember,
         Forget, HardDelete, Sets, LinkReads, LinkInserts, Unlink, Lapses
    <2> QED BY <1>1, <2>1 DEF TurnType
  <1> QED BY <1>5, <1>6, <1>7, <1>8, <1>9, <1>10 DEF Next, Extraction

LEMMA LinkTypedStep ==
    ASSUME Typed, Next
    PROVE  LinkType'
  <1>1. LinkType
    BY DEF Typed, TypeOK, LinkType
  <1>2. CASE \E m \in Ids : HardDelete(m)
    BY <1>1, <1>2 DEF HardDelete, Sets, LinkType
  <1>3. CASE LinkInserts \/ \E e \in Linkable : LinkReads(e) \/ Unlink(e)
    BY <1>1, <1>3 DEF LinkInserts, LinkReads, Unlink, LinkType
  <1>4. CASE \/ Reflection \/ Sweeping \/ Extraction \/ \E k \in Kinds : Remember(k)
             \/ \E m \in Ids : Forget(m) \/ Lapses(m)
             \/ \E a \in Actor : RollBack(a)
    <2>1. links' = links /\ drawing' = drawing
      BY <1>4 DEF Reflection, ReadEpisodes, NextCluster, NoInsight, Distil, SupersedeNext,
         ReflectCommits, Sweeping, SweepReads, SweepForgets, SweepCommits, Extraction,
         TurnBegins, TurnStores, TurnFinds, TurnStrengthens, TurnCommits, Remember, Forget,
         Sets, Lapses, RollBack
    <2> QED BY <1>1, <2>1 DEF LinkType
  <1> QED BY <1>2, <1>3, <1>4 DEF Next, Statement

-----------------------------------------------------------------------------
(* How committed rows change. *)

Begins(m) == mem[m].status = "none" /\ mem'[m].status = "active"
Ceases(m) == mem[m].status # "none" /\ mem'[m].status = "deleted" /\ mem'[m].roots = {}

\* Whatever is not the reflection pass adds first-hand memories only.
Modest ==
    \A m \in Ids :
        \/ mem'[m] = mem[m]
        \/ Begins(m) /\ mem'[m].roots = {m}
        \/ /\ mem[m].status = "active" /\ mem'[m].status = "forgotten"
           /\ mem'[m].roots = mem[m].roots
        \/ Ceases(m)

Ages ==
    \A m \in Ids :
        \/ mem'[m] = mem[m]
        \/ Begins(m)
        \/ /\ mem[m].status = "active" /\ mem'[m].status \in {"superseded", "forgotten"}
           /\ mem'[m].roots = mem[m].roots
        \/ Ceases(m)

LEMMA ModestAges == Modest => Ages
  BY DEF Modest, Ages

LEMMA ModestStep ==
    ASSUME MemoriesAssumption, Typed, Sweeps, Turns, Next, ~ReflectCommits
    PROVE  Modest
  <1>1. mem' = mem => Modest
    BY DEF Modest
  <1>2. \A m \in Ids : mem[m] \in RowType
    BY DEF Typed, TypeOK
  <1>3. {"reflect", "sweep", "turn"} \subseteq Actor
    BY DEF Actor
  <1>4. CASE \/ ReadEpisodes \/ NextCluster \/ NoInsight \/ Distil \/ SupersedeNext
             \/ SweepReads \/ (\E m \in Ids : SweepForgets(m))
             \/ TurnBegins \/ TurnStores \/ TurnFinds \/ TurnStrengthens
             \/ LinkInserts \/ (\E e \in Linkable : LinkReads(e) \/ Unlink(e))
             \/ (\E m \in Ids : Lapses(m)) \/ \E a \in Actor : RollBack(a)
    BY <1>1, <1>4 DEF ReadEpisodes, NextCluster, NoInsight, Distil, SupersedeNext, SweepReads,
       SweepForgets, TurnBegins, TurnStores, TurnFinds, TurnStrengthens, LinkInserts, LinkReads,
       Unlink, Lapses, RollBack
  <1>5. CASE SweepCommits
    <2>1. Publishes("sweep")
      BY <1>3, <1>5, CommitPublishes DEF SweepCommits
    <2>2. ASSUME NEW m \in Ids, m \in Wrote("sweep")
          PROVE  mem[m].status = "active" /\ mem'[m] = [mem[m] EXCEPT !.status = "forgotten"]
      BY <2>1, <2>2 DEF Publishes, Sweeps
    <2>3. ASSUME NEW m \in Ids, m \in Wrote("sweep")
          PROVE  mem'[m].status = "forgotten" /\ mem'[m].roots = mem[m].roots
      <3>1. mem[m] \in RowType /\ mem'[m] = [mem[m] EXCEPT !.status = "forgotten"]
        BY <1>2, <2>2, <2>3
      <3> QED BY <3>1 DEF RowType
    <2> QED BY <2>1, <2>2, <2>3 DEF Publishes, Modest
  <1>6. CASE TurnCommits
    <2>1. Publishes("turn")
      BY <1>3, <1>6, CommitPublishes DEF TurnCommits
    <2> QED BY <2>1 DEF Publishes, Turns, Modest, Begins
  <1>7. CASE \E k \in Kinds : Remember(k)
    <2>1. PICK k \in Kinds : Unused # {} /\ Sets(Fresh, FirstHand(Fresh, k))
      BY <1>7 DEF Remember
    <2>2. Fresh \in Ids /\ mem[Fresh].status = "none" /\ FirstHand(Fresh, k) \in RowType
      BY <2>1, FreshIsNew, RowsOfStatements
    <2>3. FirstHand(Fresh, k).status = "active" /\ FirstHand(Fresh, k).roots = {Fresh}
      BY DEF FirstHand, Blank
    <2>4. Replaces(Fresh, FirstHand(Fresh, k))
      BY <2>1, <2>2, SetsReplaces
    <2> QED BY <2>2, <2>3, <2>4 DEF Replaces, Modest, Begins
  <1>8. CASE \E m \in Ids : Forget(m)
    <2>1. PICK m \in Ids : mem[m].status = "active" /\ Sets(m, Forgotten(mem[m]))
      BY <1>8 DEF Forget
    <2>2. Replaces(m, Forgotten(mem[m]))
      BY <2>1, SetsReplaces, RowsOfStatements
    <2>3. Forgotten(mem[m]).status = "forgotten" /\ Forgotten(mem[m]).roots = mem[m].roots
      BY <1>2, <2>1 DEF Forgotten, RowType
    <2> QED BY <2>1, <2>2, <2>3 DEF Replaces, Modest
  <1>9. CASE \E m \in Ids : HardDelete(m)
    <2> DEFINE row == [Blank EXCEPT !.status = "deleted"]
    <2>1. PICK m \in Ids : mem[m].status # "none" /\ Sets(m, row)
      BY <1>9 DEF HardDelete
    <2>2. row.status = "deleted" /\ row.roots = {}
      BY DEF Blank
    <2>3. Replaces(m, row)
      BY <2>1, SetsReplaces, RowsOfStatements
    <2> HIDE DEF row
    <2> QED BY <2>1, <2>2, <2>3 DEF Replaces, Modest, Ceases
  <1> QED BY <1>4, <1>5, <1>6, <1>7, <1>8, <1>9
          DEF Next, Reflection, Sweeping, Extraction, Statement

\* What the reflection pass commits.
Distils ==
    /\ Publishes("reflect") /\ reflect.todo = {}
    /\ \A m \in Ids : m \notin Wrote("reflect") => mem'[m] = mem[m]
    /\ \A m \in New : mem'[m] = Row(m)
    /\ \A m \in Wrote("reflect") : mem[m].status # "none" =>
           /\ mem'[m].status = "superseded" /\ mem'[m].by = Row(m).by
           /\ mem'[m].roots = mem[m].roots

LEMMA CommitDistils ==
    ASSUME Typed, Reflects, ReflectCommits
    PROVE  Distils
  <1>1. Publishes("reflect") /\ reflect.todo = {}
    BY CommitPublishes DEF ReflectCommits, Actor, Reflects
  <1>2. Wrote("reflect") \subseteq Ids
    BY DEF Typed, TypeOK, Actor
  <1>3. ASSUME NEW m \in Wrote("reflect"), mem[m].status # "none"
        PROVE  /\ mem'[m].status = "superseded" /\ mem'[m].by = Row(m).by
               /\ mem'[m].roots = mem[m].roots
    <2>1. mem[m] \in RowType
      BY <1>2 DEF Typed, TypeOK
    <2>2. mem'[m] = Row(m)
      BY <1>1, <1>2 DEF Publishes, Row
    <2>3. Row(m) = [mem[m] EXCEPT !.status = "superseded", !.by = Row(m).by]
      BY <1>3 DEF Reflects, Replaced
    <2> DEFINE s == Row(m).by
    <2>4. mem'[m] = [mem[m] EXCEPT !.status = "superseded", !.by = s]
      BY <2>2, <2>3
    <2> HIDE DEF s
    <2>5. mem'[m].status = "superseded" /\ mem'[m].by = s /\ mem'[m].roots = mem[m].roots
      BY <2>1, <2>4 DEF RowType
    <2> QED BY <2>5 DEF s
  <1> QED BY <1>1, <1>2, <1>3 DEF Distils, Publishes, New, Row

LEMMA DistilsAges ==
    ASSUME Typed, Reflects, Distils
    PROVE  Ages
  <1>1. \A m \in New : Row(m).status = "active"
    BY DEF Reflects, Distilled
  <1>2. \A m \in Wrote("reflect") : mem[m].status # "none" => mem[m].status = "active"
    BY DEF Reflects, Replaced
  <1> QED BY <1>1, <1>2 DEF Distils, Ages, New, Begins

-----------------------------------------------------------------------------
(* What is committed. *)

LEMMA CommittedByModest ==
    ASSUME MemoriesAssumption, Typed, Committed, Modest
    PROVE  Committed'
  <1>1. \A m \in Ids : mem[m].roots \subseteq Ids
    BY DEF Typed, TypeOK, RowType
  <1>2. ASSUME NEW m \in Ids, NEW x \in mem'[m].roots
        PROVE  mem'[x].status # "none"
    <2>1. CASE Begins(m) /\ mem'[m].roots = {m}
      BY <1>2, <2>1 DEF Begins
    <2>2. CASE mem'[m].roots \subseteq mem[m].roots
      <3>1. x \in Ids /\ mem[x].status # "none"
        BY <1>1, <1>2, <2>2 DEF Committed, Known
      <3> QED BY <3>1 DEF Modest, Begins, Ceases
    <2> QED BY <2>1, <2>2 DEF Modest, Ceases
  <1>3. ASSUME NEW m \in Ids, NEW n \in Ids, m # n,
               mem'[m].status = "active", mem'[n].status = "active"
        PROVE  mem'[m].roots \intersect mem'[n].roots = {}
    <2>1. \A x \in Ids : mem'[x].status = "active" =>
              \/ mem[x].status = "active" /\ mem'[x].roots = mem[x].roots
              \/ mem[x].status = "none" /\ mem'[x].roots = {x}
      BY DEF Modest, Begins, Ceases
    <2>2. \A x, y \in Ids : x \in mem[y].roots => mem[x].status # "none"
      BY DEF Committed, Known
    <2>3. mem[m].status = "active" /\ mem[n].status = "active"
              => mem[m].roots \intersect mem[n].roots = {}
      BY <1>3 DEF Committed, NoRootTwice, Active
    <2> QED BY <1>3, <2>1, <2>2, <2>3
  <1>4. ASSUME NEW m \in Ids, mem'[m].status = "superseded"
        PROVE  /\ mem'[m].by \in Ids /\ mem'[m].by > m /\ mem'[mem'[m].by].status # "none"
               /\ mem'[mem'[m].by].status # "deleted"
                      => mem'[m].roots \subseteq mem'[mem'[m].by].roots
    <2>1. mem'[m] = mem[m]
      BY <1>4 DEF Modest, Begins, Ceases
    <2> DEFINE s == mem[m].by
    <2>2. /\ s \in Ids /\ s > m /\ mem[s].status # "none"
          /\ mem[s].status # "deleted" => mem[m].roots \subseteq mem[s].roots
      BY <1>4, <2>1 DEF Committed, HasHeir
    <2>3. mem'[s].status # "none" /\ (mem'[s].status # "deleted"
              => mem[s].status # "deleted" /\ mem'[s].roots = mem[s].roots)
      <3> HIDE DEF s
      <3> QED BY <2>2 DEF Modest, Begins, Ceases
    <2> QED BY <2>1, <2>2, <2>3
  <1>5. HasHeir'
    BY <1>4 DEF HasHeir
  <1>6. NoRootTwice'
    BY <1>3 DEF NoRootTwice, Active
  <1> QED BY <1>2, <1>5, <1>6 DEF Committed, Known

LEMMA CommittedByDistils ==
    ASSUME MemoriesAssumption, Typed, Committed, Reflects, Distils
    PROVE  Committed'
  <1>1. \A m \in Ids : mem[m].roots \subseteq Ids
    BY DEF Typed, TypeOK, RowType
  <1>2. New \subseteq Wrote("reflect") /\ Wrote("reflect") \subseteq Ids
        /\ \A m \in Wrote("reflect") : m \in New \/ mem[m].status # "none"
    BY DEF New, Typed, TypeOK, Actor
  <1>3. \A n \in New : Row(n).status = "active" /\ Row(n).roots \subseteq Ids
        /\ \A x \in Row(n).roots : mem[x].status # "none"
    BY <1>2 DEF Reflects, Distilled, Known, Typed, TypeOK, RowType, Row, Actor
  <1>4. \A x \in Ids : mem[x].status # "none" => mem'[x].status # "none"
    BY <1>2 DEF Distils
  <1>5. \A m \in Ids : m \notin New => mem'[m].roots = mem[m].roots
    BY <1>2 DEF Distils
  <1>6. ASSUME NEW m \in Ids, NEW x \in mem'[m].roots
        PROVE  mem'[x].status # "none"
    <2>1. CASE m \in New
      BY <1>3, <1>4, <1>6, <2>1 DEF Distils
    <2>2. CASE m \notin New
      BY <1>1, <1>4, <1>5, <1>6, <2>2 DEF Committed, Known
    <2> QED BY <2>1, <2>2
  <1>7. \A x \in Ids : mem'[x].status = "active" =>
            \/ x \in New /\ mem'[x].roots = Row(x).roots
            \/ x \in Active /\ x \notin Wrote("reflect") /\ mem'[x].roots = mem[x].roots
    BY <1>2 DEF Distils, Active
  <1>8. ASSUME NEW n \in New
        PROVE  /\ \A x \in New : x # n => Row(n).roots \intersect Row(x).roots = {}
               /\ \A m \in Active : m \notin Wrote("reflect")
                      => Row(n).roots \intersect mem[m].roots = {}
    BY DEF Reflects, Distilled, Distils
  <1>9. ASSUME NEW m \in Ids, NEW n \in Ids, m # n,
               mem'[m].status = "active", mem'[n].status = "active"
        PROVE  mem'[m].roots \intersect mem'[n].roots = {}
    <2>1. m \in Active /\ n \in Active => mem[m].roots \intersect mem[n].roots = {}
      BY <1>9 DEF Committed, NoRootTwice
    <2> QED BY <1>7, <1>8, <1>9, <2>1
  <1>10. ASSUME NEW m \in Ids, mem'[m].status = "superseded"
         PROVE  /\ mem'[m].by \in Ids /\ mem'[m].by > m /\ mem'[mem'[m].by].status # "none"
                /\ mem'[mem'[m].by].status # "deleted"
                       => mem'[m].roots \subseteq mem'[mem'[m].by].roots
    <2>1. CASE m \in Wrote("reflect")
      <3>1. mem[m].status # "none"
        BY <1>2, <1>3, <1>10 DEF Distils
      <3>2. Row(m).by \in New /\ Row(m).by > m /\ mem[m].roots \subseteq Row(Row(m).by).roots
        BY <2>1, <3>1 DEF Reflects, Replaced
      <3>3. mem'[m].by = Row(m).by /\ mem'[m].roots = mem[m].roots
        BY <2>1, <3>1 DEF Distils
      <3>4. mem'[Row(m).by] = Row(Row(m).by)
        BY <3>2 DEF Distils
      <3> QED BY <1>2, <1>3, <3>2, <3>3, <3>4
    <2>2. CASE m \notin Wrote("reflect")
      <3> DEFINE s == mem[m].by
      <3>1. mem'[m] = mem[m]
        BY <2>2 DEF Distils
      <3>2. /\ s \in Ids /\ s > m /\ mem[s].status # "none"
            /\ mem[s].status # "deleted" => mem[m].roots \subseteq mem[s].roots
        BY <1>10, <3>1 DEF Committed, HasHeir
      <3>3. s \notin New
        BY <3>2 DEF New
      <3> HIDE DEF s
      <3>4. mem'[s].roots = mem[s].roots /\ mem'[s].status # "none"
        BY <1>4, <1>5, <3>2, <3>3
      <3>5. mem'[s].status # "deleted" => mem[s].status # "deleted"
        BY <1>2, <3>2, <3>3 DEF Distils, Reflects, Replaced
      <3> QED BY <3>1, <3>2, <3>4, <3>5 DEF s
    <2> QED BY <2>1, <2>2
  <1>11. HasHeir'
    BY <1>10 DEF HasHeir
  <1>12. NoRootTwice'
    BY <1>9 DEF NoRootTwice, Active
  <1> QED BY <1>6, <1>11, <1>12 DEF Committed, Known

-----------------------------------------------------------------------------
(* A transaction beside the others. *)

\* The rows transaction a wrote are still its own, and as they were committed.
Spared(a) == written'[a] = written[a] /\ \A m \in Wrote(a) : mem'[m] = mem[m]

LEMMA Spares ==
    ASSUME Typed, Locked, Shape, NEW a \in Actor, written'[a] = written[a]
    PROVE  Spared(a)
  <1>0. Wrote(a) \subseteq Ids
    BY DEF Typed, TypeOK
  <1>1. ASSUME NEW b \in Actor, Publishes(b)
        PROVE  \A m \in Wrote(a) : mem'[m] = mem[m]
    <2>1. CASE b = a
      BY <1>1, <2>1 DEF Publishes, Ends, Wrote
    <2>2. CASE b # a
      BY <1>0, <1>1, <2>2 DEF Publishes, Locked
    <2> QED BY <2>1, <2>2
  <1>2. ASSUME NEW m \in Ids, NEW row \in RowType, Replaces(m, row)
        PROVE  \A x \in Wrote(a) : mem'[x] = mem[x]
    BY <1>0, <1>2 DEF Replaces, Holder
  <1> QED BY <1>1, <1>2 DEF Spared, Shape, Kept, Adds

\* Steps of the others leave a transaction's rows alone.
LEMMA OthersWrite ==
    ASSUME Typed, Next
    PROVE  /\ ~(Distil \/ SupersedeNext \/ ReflectCommits \/ RollBack("reflect"))
                  => written'["reflect"] = written["reflect"]
           /\ ~(SweepCommits \/ RollBack("sweep") \/ \E m \in Ids : SweepForgets(m))
                  => written'["sweep"] = written["sweep"]
           /\ ~(TurnStores \/ TurnStrengthens \/ TurnCommits \/ RollBack("turn"))
                  => written'["turn"] = written["turn"]
  <1>1. DOMAIN written = Actor
    BY DEF Typed
  <1>2. \A a, b \in Actor : \A m, row : a # b /\ Writes(a, m, row)
            => written'[b] = written[b]
    BY <1>1 DEF Writes
  <1>3. \A a, b \in Actor : a # b /\ (Commit(a) \/ Discard(a)) => written'[b] = written[b]
    BY <1>1 DEF Commit, Discard
  <1>4. CASE \/ ReadEpisodes \/ NextCluster \/ NoInsight \/ SweepReads \/ TurnBegins \/ TurnFinds
             \/ Statement \/ \E m \in Ids : Lapses(m)
    BY <1>4 DEF ReadEpisodes, NextCluster, NoInsight, SweepReads, TurnBegins, TurnFinds,
       Statement, Remember, Forget, HardDelete, Sets, LinkInserts, LinkReads, Unlink, Lapses
  <1>5. CASE Distil \/ SupersedeNext \/ ReflectCommits
    <2>1. \/ \E m, row : Writes("reflect", m, row)
          \/ written' = written \/ Commit("reflect")
      BY <1>5 DEF Distil, SupersedeNext, Updates, ReflectCommits
    <2>2. written'["sweep"] = written["sweep"] /\ written'["turn"] = written["turn"]
      BY <1>2, <1>3, <2>1 DEF Actor
    <2> QED BY <1>5, <2>2
  <1>6. CASE SweepCommits \/ \E m \in Ids : SweepForgets(m)
    <2>1. \/ \E m, row : Writes("sweep", m, row)
          \/ written' = written \/ Commit("sweep")
      BY <1>6 DEF SweepForgets, Updates, SweepCommits
    <2>2. written'["reflect"] = written["reflect"] /\ written'["turn"] = written["turn"]
      BY <1>2, <1>3, <2>1 DEF Actor
    <2> QED BY <1>6, <2>2
  <1>7. CASE TurnStores \/ TurnStrengthens \/ TurnCommits
    <2>1. \/ \E m, row : Writes("turn", m, row)
          \/ written' = written \/ Commit("turn")
      BY <1>7 DEF TurnStores, TurnStrengthens, TurnCommits
    <2>2. written'["reflect"] = written["reflect"] /\ written'["sweep"] = written["sweep"]
      BY <1>2, <1>3, <2>1 DEF Actor
    <2> QED BY <1>7, <2>2
  <1>8. CASE \E a \in Actor : RollBack(a)
    BY <1>3, <1>8 DEF RollBack, Actor
  <1> QED BY <1>4, <1>5, <1>6, <1>7, <1>8 DEF Next, Reflection, Sweeping, Extraction

LEMMA SweepsBesides ==
    ASSUME MemoriesAssumption, Typed, Sweeps, Ages, Spared("sweep"), sweep' = sweep, audit' = audit
    PROVE  Sweeps'
  <1>1. Wrote("sweep") \subseteq Ids /\ DOMAIN written'["sweep"] = Wrote("sweep")
        /\ sweep.seen \subseteq Ids /\ audit \subseteq Ids
    BY DEF Spared, Wrote, Typed, TypeOK, Actor, MemoriesAssumption
  <1>2. ASSUME NEW m \in Wrote("sweep")
        PROVE  /\ mem'[m].status = "active"
               /\ written'["sweep"][m] = [mem'[m] EXCEPT !.status = "forgotten"]
    BY DEF Spared, Sweeps
  <1>3. ASSUME NEW m \in Ids, mem[m].status \in Gone
        PROVE  mem'[m].status \in Gone
    BY <1>3 DEF Ages, Begins, Ceases, Gone
  <1>4. ASSUME NEW m \in sweep.seen
        PROVE  mem'[m].status # "none" /\ (m \in sweep.todo \/ Seen("sweep", m)'.status \in Gone)
    <2>1. mem'[m].status # "none"
      BY <1>1, <1>4 DEF Sweeps, Ages, Begins, Ceases
    <2>2. CASE m \in Wrote("sweep")
      <3>1. Seen("sweep", m)' = Seen("sweep", m)
        BY <1>1, <2>2 DEF Seen, Wrote, Spared
      <3> QED BY <2>1, <3>1 DEF Sweeps
    <2>3. CASE m \notin Wrote("sweep")
      <3>1. Seen("sweep", m)' = mem'[m] /\ Seen("sweep", m) = mem[m]
        BY <1>1, <2>3 DEF Seen, Wrote
      <3> QED BY <1>1, <1>3, <2>1, <3>1 DEF Sweeps
    <2> QED BY <2>2, <2>3
  <1>5. \A m \in audit : m \in Ids
    BY <1>1
  <1>6. \A m \in audit : mem'[m].status \in Gone
    BY <1>3, <1>5 DEF Sweeps
  <1> QED BY <1>1, <1>2, <1>4, <1>6 DEF Sweeps, Wrote

LEMMA SweepsStep ==
    ASSUME MemoriesAssumption, Typed, Locked, Sweeps, Turns, Shape, Ages, Next
    PROVE  Sweeps'
  <1>0. "sweep" \in Actor /\ sweep.seen \subseteq Ids /\ audit \subseteq Ids
        /\ Wrote("sweep") \subseteq Ids /\ \A m \in Ids : mem[m] \in RowType
    BY DEF Actor, Typed, TypeOK, MemoriesAssumption
  <1>1. \A m \in audit : mem'[m].status \in Gone
    <2>1. \A m \in Ids : mem[m].status \in Gone => mem'[m].status \in Gone
      BY DEF Ages, Begins, Ceases, Gone
    <2> QED BY <1>0, <2>1 DEF Sweeps
  <1>2. CASE SweepReads
    <2>1. mem' = mem /\ written' = written /\ audit' = audit
          /\ sweep'.seen = due \intersect Active /\ sweep'.todo = sweep'.seen
      BY <1>2 DEF SweepReads
    <2>2. \A m \in sweep'.seen : mem'[m].status # "none" /\ m \in sweep'.todo
      BY <2>1 DEF Active
    <2>3. \A m \in Wrote("sweep") :
              /\ mem'[m].status = "active"
              /\ written'["sweep"][m] = [mem'[m] EXCEPT !.status = "forgotten"]
      BY <2>1 DEF Sweeps
    <2> QED BY <1>1, <2>1, <2>2, <2>3 DEF Sweeps, Wrote
  <1>3. ASSUME NEW m \in Ids, SweepForgets(m)
        PROVE  Sweeps'
    <2> DEFINE row == Forgotten(Seen("sweep", m))
    <2>1. /\ mem' = mem /\ audit' = audit /\ sweep'.seen = sweep.seen
          /\ sweep'.todo = sweep.todo \ {m} /\ m \in sweep.todo
          /\ Free("sweep", m) /\ Updates("sweep", m, row)
      BY <1>3 DEF SweepForgets, Typed
    <2>2. m \in sweep.seen
      BY <2>1 DEF Typed, TypeOK
    <2>3. Seen("sweep", m) \in RowType /\ row \in RowType
      BY <1>0, RowsOfStatements
    <2>4. CASE Seen("sweep", m).status = "active"
      <3>1. row # Seen("sweep", m) /\ row = [Seen("sweep", m) EXCEPT !.status = "forgotten"]
            /\ row.status = "forgotten"
        BY <2>3, <2>4 DEF Forgotten, RowType
      <3>2. Adds("sweep", m, row)
        <4> HIDE DEF row
        <4> QED BY <1>0, <2>1, <2>3, <3>1, WritesAdd DEF Updates
      <3>3. m \notin Wrote("sweep")
        <4>1. ASSUME m \in Wrote("sweep")
              PROVE  FALSE
          <5>1. mem[m] \in RowType
                /\ Seen("sweep", m) = [mem[m] EXCEPT !.status = "forgotten"]
            BY <1>0, <4>1 DEF Seen, Sweeps
          <5> QED BY <2>4, <5>1 DEF RowType
        <4> QED BY <4>1
      <3>4. Seen("sweep", m) = mem[m]
        BY <3>3 DEF Seen
      <3> HIDE DEF row
      <3>5. /\ DOMAIN written'["sweep"] = Wrote("sweep") \union {m}
            /\ \A x \in Wrote("sweep") : x # m => written'["sweep"][x] = written["sweep"][x]
            /\ written'["sweep"][m] = row
        BY <3>2 DEF Adds
      <3>6. \A x \in DOMAIN written'["sweep"] :
                /\ mem'[x].status = "active"
                /\ written'["sweep"][x] = [mem'[x] EXCEPT !.status = "forgotten"]
        BY <2>1, <2>4, <3>1, <3>4, <3>5 DEF Sweeps
      <3>7. \A x \in sweep'.seen :
                mem'[x].status # "none" /\ (x \in sweep'.todo \/ Seen("sweep", x)'.status \in Gone)
        <4>1. ASSUME NEW x \in sweep.seen
              PROVE  mem'[x].status # "none"
                     /\ (x \in sweep'.todo \/ Seen("sweep", x)'.status \in Gone)
          <5>1. CASE x = m
            <6>1. Seen("sweep", x)' = row
              BY <3>5, <5>1 DEF Seen, Wrote
            <6> QED BY <2>1, <2>4, <3>1, <3>4, <5>1, <6>1 DEF Gone
          <5>2. CASE x # m
            <6>1. Seen("sweep", x)' = Seen("sweep", x)
              BY <2>1, <3>5, <5>2 DEF Seen, Wrote
            <6> QED BY <2>1, <4>1, <5>2, <6>1 DEF Sweeps
          <5> QED BY <5>1, <5>2
        <4> QED BY <2>1, <4>1
      <3> QED BY <1>1, <2>1, <3>6, <3>7 DEF Sweeps, Wrote
    <2>5. CASE Seen("sweep", m).status # "active"
      <3>1. row = Seen("sweep", m)
        BY <2>5 DEF Forgotten
      <3>2. written' = written
        BY <2>1, <3>1 DEF Updates
      <3>3. Seen("sweep", m).status \in Gone
        <4>1. Seen("sweep", m).status # "none"
          <5>1. CASE m \in Wrote("sweep")
            <6>1. mem[m] \in RowType
                  /\ Seen("sweep", m) = [mem[m] EXCEPT !.status = "forgotten"]
              BY <1>0, <5>1 DEF Seen, Sweeps
            <6> QED BY <6>1 DEF RowType
          <5>2. CASE m \notin Wrote("sweep")
            BY <2>2, <5>2 DEF Seen, Sweeps
          <5> QED BY <5>1, <5>2
        <4> QED BY <2>3, <2>5, <4>1 DEF RowType, Statuses
      <3>4. ASSUME NEW x \in sweep.seen
            PROVE  mem'[x].status # "none"
                   /\ (x \in sweep'.todo \/ Seen("sweep", x)'.status \in Gone)
        <4>1. Seen("sweep", x)' = Seen("sweep", x)
          BY <2>1, <3>2 DEF Seen, Wrote
        <4> QED BY <2>1, <3>3, <3>4, <4>1 DEF Sweeps
      <3>5. \A x \in Wrote("sweep") :
                /\ mem'[x].status = "active"
                /\ written'["sweep"][x] = [mem'[x] EXCEPT !.status = "forgotten"]
        BY <2>1, <3>2 DEF Sweeps
      <3> QED BY <1>1, <2>1, <3>2, <3>4, <3>5 DEF Sweeps, Wrote
    <2> QED BY <2>4, <2>5
  <1>4. CASE SweepCommits
    <2>1. Publishes("sweep")
      BY <1>0, <1>4, CommitPublishes DEF SweepCommits
    <2>2. sweep'.seen = {} /\ audit' = audit \union sweep.seen /\ sweep.todo = {}
      BY <1>4 DEF SweepCommits
    <2>3. \A m \in sweep.seen : mem'[m] = Seen("sweep", m)
      BY <1>0, <2>1 DEF Publishes, Seen
    <2>4. \A m \in sweep.seen : mem'[m].status \in Gone
      BY <2>2, <2>3 DEF Sweeps
    <2>5. DOMAIN written'["sweep"] = {}
      BY <2>1 DEF Publishes, Ends
    <2> QED BY <1>1, <2>2, <2>4, <2>5 DEF Sweeps, Wrote
  <1>5. CASE RollBack("sweep")
    <2>1. DOMAIN written'["sweep"] = {}
      BY <1>0, <1>5, DiscardEnds DEF RollBack, Ends
    <2>2. sweep'.seen = {} /\ audit' = audit
      BY <1>5 DEF RollBack
    <2> QED BY <1>1, <2>1, <2>2 DEF Sweeps, Wrote
  <1>6. CASE ~(SweepReads \/ SweepCommits \/ RollBack("sweep") \/ \E m \in Ids : SweepForgets(m))
    <2>1. Spared("sweep")
      BY <1>0, <1>6, OthersWrite, Spares
    <2>2. sweep' = sweep /\ audit' = audit
      BY <1>6 DEF Next, Reflection, ReadEpisodes, NextCluster, NoInsight, Distil, SupersedeNext,
         ReflectCommits, Sweeping, Extraction, TurnBegins, TurnStores, TurnFinds,
         TurnStrengthens, TurnCommits, Statement, Remember, Forget, HardDelete, Sets, LinkReads,
         LinkInserts, Unlink, Lapses, RollBack
    <2> QED BY <2>1, <2>2, SweepsBesides
  <1> QED BY <1>2, <1>3, <1>4, <1>5, <1>6

LEMMA TurnsBesides ==
    ASSUME Typed, Turns, Ages, Spared("turn"), turn' = turn
    PROVE  Turns'
  <1>1. DOMAIN written'["turn"] = Wrote("turn")
    BY DEF Spared, Wrote
  <1>2. ASSUME NEW m \in Wrote("turn")
        PROVE  IF mem'[m].status = "none"
               THEN written'["turn"][m].status = "active" /\ written'["turn"][m].roots = {m}
               ELSE written'["turn"][m] = mem'[m]
    BY DEF Spared, Turns
  <1>3. ASSUME turn.pc = "strengthen"
        PROVE  /\ turn.target \in Ids /\ turn.count < MaxPerTurn
               /\ Seen("turn", turn.target)'.status # "none"
    <2> DEFINE m == turn.target
    <2>1. m \in Ids /\ turn.count < MaxPerTurn /\ Seen("turn", m).status # "none"
      BY <1>3 DEF Turns
    <2>2. CASE m \in Wrote("turn")
      <3>1. Seen("turn", turn.target)' = Seen("turn", turn.target)
        BY <1>1, <2>2 DEF Seen, Wrote, Spared
      <3> QED BY <2>1, <3>1
    <2>3. CASE m \notin Wrote("turn")
      <3>1. Seen("turn", turn.target)' = mem'[m] /\ Seen("turn", turn.target) = mem[m]
        BY <1>1, <2>3 DEF Seen, Wrote
      <3> HIDE DEF m
      <3>2. mem'[m].status # "none"
        BY <2>1, <3>1 DEF Ages, Begins, Ceases, m
      <3> QED BY <2>1, <3>1, <3>2 DEF m
    <2> QED BY <2>2, <2>3
  <1> QED BY <1>1, <1>2, <1>3 DEF Turns, Wrote

LEMMA TurnsStep ==
    ASSUME MemoriesAssumption, Typed, Locked, Sweeps, Turns, Shape, Ages, Next
    PROVE  Turns'
  <1>0. "turn" \in Actor /\ Wrote("turn") \subseteq Ids /\ \A m \in Ids : mem[m] \in RowType
    BY DEF Actor, Typed, TypeOK
  <1>1. ASSUME mem' = mem, written' = written, turn'.pc # "strengthen"
        PROVE  Turns'
    BY <1>1 DEF Turns, Wrote
  <1>2. ASSUME NEW m \in Ids, NEW row \in RowType, Adds("turn", m, row), turn'.pc # "strengthen",
               IF mem[m].status = "none" THEN row.status = "active" /\ row.roots = {m}
               ELSE row = mem[m]
        PROVE  Turns'
    BY <1>2 DEF Adds, Turns, Wrote
  <1>3. CASE TurnBegins
    <2>1. mem' = mem /\ written' = written /\ turn'.pc = "store"
      BY <1>3 DEF TurnBegins, Typed
    <2> QED BY <1>1, <2>1
  <1>4. CASE TurnStores
    <2>1. PICK k \in Kinds : Writes("turn", Fresh, FirstHand(Fresh, k))
      BY <1>4 DEF TurnStores
    <2>2. mem' = mem /\ turn'.pc = "store" /\ Unused # {}
      BY <1>4 DEF TurnStores, Typed
    <2>3. /\ Fresh \in Ids /\ mem[Fresh].status = "none" /\ Free("turn", Fresh)
          /\ FirstHand(Fresh, k) \in RowType
      BY <2>2, FreshIsNew, RowsOfStatements DEF Free
    <2>4. FirstHand(Fresh, k).status = "active" /\ FirstHand(Fresh, k).roots = {Fresh}
      BY DEF FirstHand, Blank
    <2>5. Adds("turn", Fresh, FirstHand(Fresh, k))
      BY <1>0, <2>1, <2>2, <2>3, WritesAdd
    <2> QED BY <1>2, <2>2, <2>3, <2>4, <2>5
  <1>5. CASE TurnFinds
    <2>1. PICK m \in Ids : /\ Seen("turn", m).status = "active"
                           /\ turn' = [turn EXCEPT !.pc = "strengthen", !.target = m]
      BY <1>5 DEF TurnFinds
    <2>2. mem' = mem /\ written' = written /\ turn.count < MaxPerTurn
      BY <1>5 DEF TurnFinds
    <2>3. turn'.target = m /\ turn'.count = turn.count
      BY <2>1 DEF Typed
    <2>4. Seen("turn", m)' = Seen("turn", m)
      BY <2>2 DEF Seen, Wrote
    <2>5. Seen("turn", turn.target)' = Seen("turn", m)'
      BY <2>3 DEF Seen, Wrote
    <2> QED BY <2>1, <2>2, <2>3, <2>4, <2>5 DEF Turns, Wrote
  <1>6. CASE TurnStrengthens
    <2> DEFINE m == turn.target
    <2>1. mem' = mem /\ turn'.pc = "store" /\ Free("turn", m) /\ turn.pc = "strengthen"
      BY <1>6 DEF TurnStrengthens, Typed
    <2>2. m \in Ids /\ Seen("turn", m).status # "none" /\ Seen("turn", m) \in RowType
      BY <1>0, <2>1, RowsOfStatements DEF Turns
    <2>3. written' = written \/ Writes("turn", m, Seen("turn", m))
      BY <1>6 DEF TurnStrengthens
    <2>4. IF mem[m].status = "none"
          THEN Seen("turn", m).status = "active" /\ Seen("turn", m).roots = {m}
          ELSE Seen("turn", m) = mem[m]
      BY <2>2 DEF Seen, Turns
    <2> HIDE DEF m
    <2>5. CASE Writes("turn", m, Seen("turn", m))
      <3>1. Adds("turn", m, Seen("turn", m))
        BY <1>0, <2>1, <2>2, <2>5, WritesAdd
      <3> QED BY <1>2, <2>1, <2>2, <2>4, <3>1
    <2> QED BY <1>1, <2>1, <2>3, <2>5
  <1>7. ASSUME DOMAIN written'["turn"] = {}, turn'.pc = "idle"
        PROVE  Turns'
    BY <1>7 DEF Turns, Wrote
  <1>8. CASE TurnCommits
    <2>1. DOMAIN written'["turn"] = {} /\ turn'.pc = "idle"
      BY <1>0, <1>8, CommitPublishes DEF TurnCommits, Publishes, Ends, Typed
    <2> QED BY <1>7, <2>1
  <1>9. CASE RollBack("turn")
    <2>1. DOMAIN written'["turn"] = {} /\ turn'.pc = "idle"
      BY <1>0, <1>9, DiscardEnds DEF RollBack, Ends, Typed
    <2> QED BY <1>7, <2>1
  <1>10. CASE ~(TurnBegins \/ TurnStores \/ TurnFinds \/ TurnStrengthens \/ TurnCommits
                \/ RollBack("turn"))
    <2>1. Spared("turn")
      BY <1>0, <1>10, OthersWrite, Spares
    <2>2. turn' = turn
      BY <1>10 DEF Next, Reflection, ReadEpisodes, NextCluster, NoInsight, Distil, SupersedeNext,
         ReflectCommits, Sweeping, SweepReads, SweepForgets, SweepCommits, Extraction, Statement,
         Remember, Forget, HardDelete, Sets, LinkReads, LinkInserts, Unlink, Lapses, RollBack
    <2> QED BY <2>1, <2>2, TurnsBesides
  <1> QED BY <1>3, <1>4, <1>5, <1>6, <1>8, <1>9, <1>10

-----------------------------------------------------------------------------
(* The reflection pass. *)

LEMMA ReflectSets ==
    ASSUME Typed
    PROVE  /\ Wrote("reflect") \subseteq Ids /\ New \subseteq Wrote("reflect")
           /\ Pending \subseteq Ids /\ reflect.todo \subseteq Ids /\ reflect.rest \subseteq Pending
           /\ \A m \in Ids : reflect.shown[m] \subseteq Ids /\ mem[m].roots \subseteq Ids
           /\ \A m \in Wrote("reflect") : Row(m) \in RowType /\ Row(m).roots \subseteq Ids
           /\ \A m \in Ids : mem[m] \in RowType
           /\ "reflect" \in Actor
  <1>1. \A m \in Wrote("reflect") : Row(m) \in RowType
    BY DEF Typed, TypeOK, Row, Actor
  <1> QED BY <1>1 DEF Typed, TypeOK, New, Pending, RowType, Actor

\* Where the pass has neither written anything nor anything to look at.
LEMMA ReflectsNothing ==
    ASSUME DOMAIN written'["reflect"] = {}, reflect' = Resting
    PROVE  Reflects'
  <1>1. Wrote("reflect")' = {} /\ New' = {} /\ Pending' = {} /\ reflect'.todo = {}
        /\ reflect'.pc = "idle"
    BY DEF Wrote, New, Pending, Resting
  <1> QED BY <1>1 DEF Reflects

LEMMA ReflectsBesides ==
    ASSUME Typed, Reflects, Modest, Spared("reflect"), reflect' = reflect
    PROVE  Reflects'
  <1> USE ReflectSets
  <1>1. /\ Wrote("reflect")' = Wrote("reflect") /\ Pending' = Pending
        /\ \A m : Row(m)' = Row(m)
    BY DEF Spared, Wrote, Row, Pending
  <1>2. New' = New
    BY <1>1 DEF New, Spared
  <1>3. \A x \in Ids : mem[x].status # "none" =>
            mem'[x].status # "none" /\ mem'[x].roots \subseteq mem[x].roots
    BY DEF Modest, Begins, Ceases
  <1>4. \A x \in Active' :
            \/ x \in Active /\ mem'[x].roots = mem[x].roots
            \/ x \in Ids /\ mem[x].status = "none" /\ mem'[x].roots = {x}
    BY DEF Modest, Begins, Ceases, Active
  <1>5. ASSUME NEW m \in Pending
        PROVE  Unseen(m)'
    <2>1. Unseen(m) /\ m \in Ids /\ reflect.shown[m] \subseteq Ids
      BY DEF Reflects
    <2>2. mem'[m].status # "none" /\ mem'[m].roots \subseteq reflect.shown[m]
          /\ m \notin Wrote("reflect")
      BY <1>3, <2>1 DEF Unseen
    <2>3. Known(reflect.shown[m])'
      BY <1>3, <2>1 DEF Unseen, Known
    <2>4. \A x \in Active' : x # m => reflect.shown[m] \intersect mem'[x].roots = {}
      BY <1>4, <2>1 DEF Unseen, Known
    <2>5. \A x \in Pending : x # m => reflect.shown[m] \intersect reflect.shown[x] = {}
      BY <2>1 DEF Unseen
    <2>6. \A n \in New : reflect.shown[m] \intersect Row(n).roots = {}
      BY <2>1 DEF Unseen
    <2> QED BY <1>1, <1>2, <2>2, <2>3, <2>4, <2>5, <2>6 DEF Unseen
  <1>6. ASSUME NEW n \in New
        PROVE  Distilled(n)'
    <2>1. Distilled(n) /\ Row(n).roots \subseteq Ids
      BY DEF Reflects
    <2>2. Known(Row(n).roots)'
      BY <1>1, <1>3, <2>1 DEF Distilled, Known
    <2>3. \A m \in Active' : Row(n).roots \intersect mem'[m].roots # {}
              => m \in reflect.todo \/ m \in Wrote("reflect")
      BY <1>4, <2>1 DEF Distilled, Known
    <2>4. \A x \in New : x # n => Row(n).roots \intersect Row(x).roots = {}
      BY <2>1 DEF Distilled
    <2>5. Row(n).status = "active"
      BY <2>1 DEF Distilled
    <2> QED BY <1>1, <1>2, <2>2, <2>3, <2>4, <2>5 DEF Distilled
  <1>7. ASSUME NEW m \in Wrote("reflect"), mem'[m].status # "none"
        PROVE  Replaced(m)'
    <2>1. mem'[m] = mem[m] /\ Replaced(m)
      BY <1>7 DEF Spared, Reflects
    <2> QED BY <1>1, <1>2, <2>1 DEF Replaced
  <1>8. ASSUME NEW m \in reflect.todo
        PROVE  Due(m)'
    <2>1. Due(m) /\ m \in Ids
      BY DEF Reflects
    <2>2. mem'[m].status # "none" /\ mem'[m].roots \subseteq mem[m].roots
      BY <1>3, <2>1 DEF Due
    <2>3. Row(reflect.new)' = Row(reflect.new)
      BY <1>1
    <2> QED BY <1>1, <2>1, <2>2, <2>3 DEF Due
  <1> QED BY <1>1, <1>2, <1>5, <1>6, <1>7, <1>8 DEF Reflects

\* Steps of the pass that write nothing and take nothing up.
LEMMA ReflectsFewer ==
    ASSUME Typed, Reflects, mem' = mem, written' = written,
           reflect'.shown = reflect.shown, Pending' \subseteq Pending,
           reflect.todo = {}, reflect'.todo = {}, reflect.pc # "idle",
           reflect'.pc = "cluster" \/ /\ reflect'.pc = "ask" /\ reflect'.cluster # {}
                                      /\ reflect'.cluster \intersect reflect'.rest = {}
    PROVE  Reflects'
  <1> USE ReflectSets
  <1>1. /\ Wrote("reflect")' = Wrote("reflect") /\ New' = New /\ Active' = Active
        /\ \A m : Row(m)' = Row(m)
    BY DEF Wrote, Row, New, Active
  <1>2. ASSUME NEW m \in Pending'
        PROVE  Unseen(m)'
    <2>1. Unseen(m)
      BY DEF Reflects
    <2>2. Known(reflect.shown[m])'
      BY <2>1 DEF Unseen, Known
    <2>3. \A x \in Pending' : x # m => reflect.shown[m] \intersect reflect.shown[x] = {}
      BY <2>1 DEF Unseen
    <2> QED BY <1>1, <2>1, <2>2, <2>3 DEF Unseen
  <1>3. ASSUME NEW n \in New
        PROVE  Distilled(n)'
    <2>1. Distilled(n)
      BY DEF Reflects
    <2>2. Known(Row(n).roots)'
      BY <1>1, <2>1 DEF Distilled, Known
    <2> QED BY <1>1, <2>1, <2>2 DEF Distilled
  <1>4. ASSUME NEW m \in Wrote("reflect"), mem[m].status # "none"
        PROVE  Replaced(m)'
    <2>1. Replaced(m)
      BY <1>4 DEF Reflects
    <2> QED BY <1>1, <2>1 DEF Replaced
  <1> QED BY <1>1, <1>2, <1>3, <1>4 DEF Reflects

LEMMA ReflectsFromEpisodes ==
    ASSUME MemoriesAssumption, Typed, Committed, Reflects, ReadEpisodes
    PROVE  Reflects'
  <1> DEFINE texts == [m \in Ids |-> IF m \in Episodes THEN mem[m].roots ELSE {}]
  <1>1. /\ mem' = mem /\ written' = written /\ reflect.pc = "idle"
        /\ reflect' = [Resting EXCEPT !.pc = "cluster", !.rest = Episodes, !.shown = texts]
    BY DEF ReadEpisodes
  <1>2. reflect'.shown = texts
    BY <1>1 DEF Resting
  <1>3. \A m \in Episodes : m \in Ids /\ texts[m] = mem[m].roots
    BY DEF Episodes, Active
  <1> HIDE DEF texts
  <1>4. /\ reflect'.rest = Episodes /\ reflect'.todo = {} /\ reflect'.pc = "cluster"
        /\ Pending' = Episodes
    BY <1>1 DEF Resting, Pending
  <1>5. Wrote("reflect")' = {} /\ New' = {} /\ Active' = Active
    BY <1>1 DEF Reflects, Wrote, New, Active
  <1>6. ASSUME NEW m \in Episodes
        PROVE  Unseen(m)'
    <2>1. m \in Active /\ m \in Ids /\ mem[m].status = "active" /\ reflect'.shown[m] = mem[m].roots
      BY <1>2, <1>3, <1>6 DEF Episodes, Active
    <2>2. Known(mem[m].roots)'
      BY <1>1, <2>1 DEF Committed, Known
    <2>3. \A x \in Active : x # m => mem[m].roots \intersect mem[x].roots = {}
      BY <2>1 DEF Committed, NoRootTwice
    <2>4. \A x \in Episodes : reflect'.shown[x] = mem[x].roots /\ x \in Active
      BY <1>2, <1>3 DEF Episodes
    <2> QED BY <1>1, <1>4, <1>5, <2>1, <2>2, <2>3, <2>4 DEF Unseen, Known
  <1> QED BY <1>4, <1>5, <1>6 DEF Reflects

LEMMA ReflectsOnClusters ==
    ASSUME MemoriesAssumption, Typed, Reflects, NextCluster
    PROVE  Reflects'
  <1> DEFINE cluster == ClusterOf(reflect.rest)
  <1>1. /\ mem' = mem /\ written' = written /\ reflect.pc = "cluster"
        /\ reflect'.shown = reflect.shown /\ reflect'.todo = reflect.todo
        /\ reflect'.rest = reflect.rest \ cluster /\ reflect'.cluster = cluster
        /\ reflect'.pc = IF Cardinality(cluster) < MinCluster THEN "cluster" ELSE "ask"
    BY DEF NextCluster, Typed
  <1>2. cluster \subseteq reflect.rest
    BY DEF ClusterOf
  <1>3. reflect.todo = {}
    BY <1>1 DEF Reflects
  <1>4. reflect'.pc = "ask" => cluster # {}
    <2>1. MinCluster \in Nat \ {0}
      BY DEF MemoriesAssumption
    <2>2. cluster = {} => Cardinality(cluster) = 0
      BY FS_EmptySet
    <2> HIDE DEF cluster
    <2> QED BY <1>1, <2>1, <2>2
  <1> HIDE DEF cluster
  <1>5. Pending' \subseteq Pending
    BY <1>1, <1>2 DEF Pending
  <1>6. reflect'.pc \in {"cluster", "ask"} /\ reflect.pc # "idle"
    BY <1>1
  <1> QED BY <1>1, <1>2, <1>3, <1>4, <1>5, <1>6, ReflectsFewer

LEMMA ReflectsAfterNoInsight ==
    ASSUME Typed, Reflects, NoInsight
    PROVE  Reflects'
  <1>1. /\ mem' = mem /\ written' = written /\ reflect.pc = "ask"
        /\ reflect'.shown = reflect.shown /\ reflect'.todo = reflect.todo
        /\ reflect'.rest = reflect.rest /\ reflect'.pc = "cluster"
    BY DEF NoInsight, Typed
  <1>2. Pending' \subseteq Pending
    BY <1>1 DEF Pending
  <1>3. reflect.todo = {}
    BY <1>1 DEF Reflects
  <1> QED BY <1>1, <1>2, <1>3, ReflectsFewer

\* The distilled row goes back to what its cluster goes back to, as no other does.
LEMMA ReflectsOnInsight ==
    ASSUME MemoriesAssumption, Typed, Reflects, Distil
    PROVE  Reflects'
  <1> USE ReflectSets
  <1>0. PICK f : f = Fresh
    OBVIOUS
  <1>1. PICK k \in Kinds : Writes("reflect", f, Insight(k))
    BY <1>0 DEF Distil
  <1> DEFINE row == Insight(k)
             cluster == reflect.cluster
  <1>2. /\ mem' = mem /\ reflect.pc = "ask" /\ Unused # {}
        /\ reflect'.shown = reflect.shown /\ reflect'.rest = reflect.rest
        /\ reflect'.pc = "supersede" /\ reflect'.new = f /\ reflect'.todo = cluster
    BY <1>0 DEF Distil, Typed
  <1>3. /\ f \in Ids /\ mem[f].status = "none" /\ Holder(f) = {}
        /\ \A x \in Ids : mem[x].status # "none" => x < f
    BY <1>0, <1>2, FreshIsNew
  <1>4. row.status = "active" /\ row.roots = UNION {reflect.shown[m] : m \in cluster}
    BY DEF Insight, Blank
  <1>5. Adds("reflect", f, row)
    BY <1>1, <1>2, <1>3, WritesAdd, RowsOfStatements DEF Free
  <1> HIDE DEF row
  <1>6. /\ Pending = reflect.rest \union cluster /\ Pending' = reflect.rest
        /\ cluster # {} /\ cluster \intersect reflect.rest = {} /\ reflect.todo = {}
        /\ cluster \subseteq Pending
    BY <1>2 DEF Pending, Reflects
  <1>7. f \notin Wrote("reflect")
    BY <1>3 DEF Holder
  <1> DEFINE R(x) == written'["reflect"][x]
  <1>8. /\ Wrote("reflect")' = Wrote("reflect") \union {f}
        /\ \A x \in Wrote("reflect") : R(x) = Row(x)
        /\ R(f) = row
    <2>1. Wrote("reflect")' = Wrote("reflect") \union {f}
      BY <1>5 DEF Adds, Wrote
    <2>2. \A x \in Wrote("reflect") : x # f
      BY <1>7
    <2> QED BY <1>5, <2>1, <2>2 DEF Adds, Row
  <1>9. New' = New \union {f} /\ Active' = Active /\ \A x \in New : R(x) = Row(x)
    BY <1>2, <1>3, <1>8 DEF New, Active
  <1>10. \A m \in Pending : Unseen(m)
    BY DEF Reflects
  <1>11. ASSUME NEW m \in reflect.rest
         PROVE  Unseen(m)'
    <2>1. Unseen(m) /\ m \in Pending /\ m # f /\ m \notin cluster
      BY <1>3, <1>6, <1>10 DEF Unseen
    <2>2. Known(reflect.shown[m])'
      BY <1>2, <2>1 DEF Unseen, Known
    <2>3. reflect.shown[m] \intersect row.roots = {}
      BY <1>4, <1>6, <2>1 DEF Unseen
    <2>4. \A n \in New' : reflect.shown[m] \intersect R(n).roots = {}
      BY <1>8, <1>9, <2>1, <2>3 DEF Unseen
    <2>5. m \notin Wrote("reflect")' /\ mem'[m].status # "none"
          /\ mem'[m].roots \subseteq reflect.shown[m]
      BY <1>2, <1>8, <2>1 DEF Unseen
    <2>6. \A x \in Pending' : x # m => reflect.shown[m] \intersect reflect.shown[x] = {}
      BY <1>6, <2>1 DEF Unseen
    <2>7. \A x \in Active' : x # m => reflect.shown[m] \intersect mem'[x].roots = {}
      BY <1>2, <1>9, <2>1 DEF Unseen
    <2> QED BY <1>2, <2>2, <2>4, <2>5, <2>6, <2>7 DEF Unseen, Row
  <1>12. Distilled(f)'
    <2>1. \A x \in row.roots : mem'[x].status # "none"
      BY <1>2, <1>4, <1>6, <1>10 DEF Unseen, Known
    <2>2. \A x \in New : row.roots \intersect Row(x).roots = {}
      BY <1>4, <1>6, <1>10 DEF Unseen
    <2>3. \A m \in Active : row.roots \intersect mem[m].roots # {} => m \in cluster
      BY <1>4, <1>6, <1>10 DEF Unseen
    <2>4. \A x \in New' : x # f => row.roots \intersect R(x).roots = {}
      BY <1>9, <2>2
    <2> QED BY <1>2, <1>4, <1>8, <1>9, <2>1, <2>3, <2>4 DEF Distilled, Known, Row
  <1>13. ASSUME NEW n \in New
         PROVE  Distilled(n)'
    <2>1. Distilled(n) /\ R(n) = Row(n) /\ n # f
      BY <1>7, <1>9 DEF Reflects
    <2>2. Row(n).roots \intersect row.roots = {}
      BY <1>4, <1>6, <1>10 DEF Unseen
    <2>3. \A x \in New' : x # n => Row(n).roots \intersect R(x).roots = {}
      BY <1>8, <1>9, <2>1, <2>2 DEF Distilled
    <2>4. \A m \in Active' : Row(n).roots \intersect mem'[m].roots # {}
              => m \in Wrote("reflect")'
      BY <1>2, <1>6, <1>8, <1>9, <2>1 DEF Distilled
    <2>5. Row(n).status = "active" /\ \A x \in Row(n).roots : mem'[x].status # "none"
      BY <1>2, <2>1 DEF Distilled, Known
    <2>6. Row(n)' = Row(n)
      BY <2>1 DEF Row
    <2>7. \A x \in New' : x # n => Row(n)'.roots \intersect Row(x)'.roots = {}
      BY <2>3, <2>6 DEF Row
    <2> QED BY <2>4, <2>5, <2>6, <2>7 DEF Distilled, Known
  <1>14. ASSUME NEW m \in Wrote("reflect"), mem[m].status # "none"
         PROVE  Replaced(m)'
    <2>1. Replaced(m) /\ R(m) = Row(m)
      BY <1>8, <1>14 DEF Reflects
    <2>2. Row(m).by \in New' /\ R(Row(m).by) = Row(Row(m).by)
      BY <1>9, <2>1 DEF Replaced
    <2> QED BY <1>2, <2>1, <2>2 DEF Replaced, Row
  <1>15. ASSUME NEW m \in cluster
         PROVE  Due(m)'
    <2>1. Unseen(m) /\ m \in Ids /\ m \notin reflect.rest
      BY <1>6, <1>10
    <2>2. mem[m].status # "none" /\ m < f /\ m # f /\ mem[m].roots \subseteq row.roots
      BY <1>3, <1>4, <2>1 DEF Unseen
    <2>3. R(reflect'.new) = row
      BY <1>2, <1>8
    <2>4. m \notin Wrote("reflect")'
      BY <1>8, <2>1, <2>2 DEF Unseen
    <2> QED BY <1>2, <2>1, <2>2, <2>3, <2>4 DEF Due, Row
  <1>16. f \in New'
    BY <1>9
  <1>17. /\ \A m \in Pending' : Unseen(m)'
         /\ \A n \in New' : Distilled(n)'
         /\ \A m \in Wrote("reflect")' : mem'[m].status # "none" => Replaced(m)'
         /\ \A m \in reflect'.todo : Due(m)'
    BY <1>2, <1>3, <1>6, <1>8, <1>9, <1>11, <1>12, <1>13, <1>14, <1>15
  <1> QED BY <1>2, <1>6, <1>16, <1>17 DEF Reflects

LEMMA ReflectsOnSuperseding ==
    ASSUME MemoriesAssumption, Typed, Reflects, SupersedeNext
    PROVE  Reflects'
  <1> USE ReflectSets
  <1>0. PICK m : m = Max(reflect.todo)
    OBVIOUS
  <1> DEFINE row == Superseded(Seen("reflect", m), reflect.new)
  <1>1. /\ mem' = mem /\ reflect.pc = "supersede" /\ Free("reflect", m)
        /\ Updates("reflect", m, row)
        /\ reflect'.shown = reflect.shown /\ reflect'.rest = reflect.rest
        /\ reflect'.new = reflect.new /\ reflect'.todo = reflect.todo \ {m}
        /\ reflect'.pc = IF reflect.todo = {m} THEN "cluster" ELSE "supersede"
    BY <1>0 DEF SupersedeNext, Typed
  <1>2. reflect.todo # {} /\ reflect.new \in New
    BY <1>1 DEF Reflects
  <1>3. m \in reflect.todo
    <2>1. IsFiniteSet(reflect.todo) /\ reflect.todo \subseteq Nat
      BY FS_Subset DEF MemoriesAssumption
    <2> QED BY <1>0, <1>2, <2>1, MaxIs
  <1>4. Due(m) /\ m \in Ids
    BY <1>3 DEF Reflects
  <1>5. Seen("reflect", m) = mem[m] /\ m \notin Wrote("reflect") /\ m \notin New
    BY <1>4 DEF Due, Seen
  <1>6. reflect'.todo = {} <=> reflect'.pc = "cluster"
    BY <1>1, <1>3
  <1>7. Pending' = reflect.rest /\ Pending = reflect.rest /\ Active' = Active
    BY <1>1 DEF Pending, Active
  <1>8. \A x \in reflect.rest : Unseen(x) /\ x # m /\ x \in Ids
    BY <1>4, <1>7 DEF Reflects, Due
  <1> DEFINE R(x) == written'["reflect"][x]
  <1>9. ASSUME /\ \A x \in Wrote("reflect") : R(x) = Row(x)
               /\ New' = New
               /\ Wrote("reflect")' \subseteq Wrote("reflect") \union {m}
               /\ Wrote("reflect") \subseteq Wrote("reflect")'
               /\ m \in Active => m \in Wrote("reflect")'
               /\ m \in Wrote("reflect")' => Replaced(m)'
        PROVE  Reflects'
    <2>1. \A x \in New : R(x) = Row(x)
      BY <1>9
    <2>2. ASSUME NEW x \in reflect.rest
          PROVE  Unseen(x)'
      <3>1. Unseen(x) /\ x # m
        BY <1>8
      <3>2. x \notin Wrote("reflect")'
        BY <1>9, <3>1 DEF Unseen
      <3>3. \A n \in New' : reflect.shown[x] \intersect R(n).roots = {}
        BY <1>9, <2>1, <3>1 DEF Unseen
      <3> QED BY <1>1, <1>7, <3>1, <3>2, <3>3 DEF Unseen, Known, Row
    <2>3. ASSUME NEW n \in New
          PROVE  Distilled(n)'
      <3>1. Distilled(n) /\ R(n) = Row(n)
        BY <2>1 DEF Reflects
      <3>2. \A x \in Active' : R(n).roots \intersect mem'[x].roots # {}
                => x \in reflect'.todo \/ x \in Wrote("reflect")'
        BY <1>1, <1>7, <1>9, <3>1 DEF Distilled
      <3>3. \A x \in New' : x # n => R(n).roots \intersect R(x).roots = {}
        BY <1>9, <2>1, <3>1 DEF Distilled
      <3> QED BY <1>1, <3>1, <3>2, <3>3 DEF Distilled, Known, Row
    <2>4. ASSUME NEW x \in Wrote("reflect"), mem[x].status # "none"
          PROVE  Replaced(x)'
      <3>1. Replaced(x) /\ R(x) = Row(x)
        BY <1>9, <2>4 DEF Reflects
      <3>2. Row(x).by \in New' /\ R(Row(x).by) = Row(Row(x).by)
        BY <1>9, <2>1, <3>1 DEF Replaced
      <3> QED BY <1>1, <3>1, <3>2 DEF Replaced, Row
    <2>5. ASSUME NEW x \in reflect'.todo
          PROVE  Due(x)'
      <3>1. Due(x) /\ x # m
        BY <1>1 DEF Reflects
      <3>2. x \notin Wrote("reflect")'
        BY <1>9, <3>1 DEF Due
      <3>3. R(reflect.new) = Row(reflect.new)
        BY <1>2, <2>1
      <3> QED BY <1>1, <3>1, <3>2, <3>3 DEF Due, Row
    <2>6. /\ \A x \in Pending' : Unseen(x)'
          /\ \A n \in New' : Distilled(n)'
          /\ \A x \in Wrote("reflect")' : mem'[x].status # "none" => Replaced(x)'
          /\ \A x \in reflect'.todo : Due(x)'
      BY <1>1, <1>7, <1>9, <2>2, <2>3, <2>4, <2>5
    <2>7. reflect'.pc \in {"cluster", "supersede"} /\ reflect'.new \in New'
      BY <1>1, <1>2, <1>9
    <2> QED BY <1>6, <2>6, <2>7 DEF Reflects
  <1>10. CASE mem[m].status = "active"
    <2>1. mem[m] \in RowType /\ reflect.new \in Ids
      BY <1>2, <1>4
    <2>2. row = [mem[m] EXCEPT !.status = "superseded", !.by = reflect.new]
      BY <1>5, <1>10 DEF Superseded
    <2>3. row \in RowType /\ row # mem[m] /\ row.by = reflect.new
          /\ row.roots = mem[m].roots
      BY <1>10, <2>1, <2>2 DEF RowType, Statuses, Gone
    <2> HIDE DEF row
    <2>4. Adds("reflect", m, row)
      BY <1>1, <1>4, <1>5, <2>3, WritesAdd DEF Updates
    <2>5. /\ Wrote("reflect")' = Wrote("reflect") \union {m} /\ R(m) = row
          /\ \A x \in Wrote("reflect") : R(x) = Row(x)
      <3>1. Wrote("reflect")' = Wrote("reflect") \union {m} /\ R(m) = row
        BY <2>4 DEF Adds, Wrote
      <3>2. \A x \in Wrote("reflect") : x # m
        BY <1>5
      <3> QED BY <2>4, <3>1, <3>2 DEF Adds, Row
    <2>6. New' = New
      BY <1>1, <1>4, <2>5 DEF New, Due
    <2>7. Replaced(m)'
      <3>1. R(reflect.new) = Row(reflect.new)
        BY <1>2, <2>5
      <3>2. R(m) = [mem[m] EXCEPT !.status = "superseded", !.by = R(m).by]
        BY <2>2, <2>3, <2>5
      <3>3. R(m).by \in New' /\ R(m).by > m /\ mem[m].roots \subseteq R(R(m).by).roots
        BY <1>2, <1>4, <2>1, <2>3, <2>5, <2>6, <3>1 DEF Due, MemoriesAssumption
      <3> QED BY <1>1, <1>10, <3>2, <3>3 DEF Replaced, Row
    <2> QED BY <1>9, <2>5, <2>6, <2>7
  <1>11. CASE mem[m].status # "active"
    <2>1. row = Seen("reflect", m)
      BY <1>5, <1>11 DEF Superseded
    <2>2. written' = written
      BY <1>1, <2>1 DEF Updates
    <2>3. /\ Wrote("reflect")' = Wrote("reflect") /\ New' = New
          /\ \A x \in Wrote("reflect") : R(x) = Row(x)
      BY <1>1, <2>2 DEF Wrote, New, Row
    <2> QED BY <1>5, <1>9, <1>11, <2>3 DEF Active
  <1> QED BY <1>10, <1>11

LEMMA ReflectsStep ==
    ASSUME MemoriesAssumption, Typed, Locked, Committed, Reflects, Sweeps, Turns, Shape, Next
    PROVE  Reflects'
  <1>1. CASE ReflectCommits
    <2>1. DOMAIN written'["reflect"] = {} /\ reflect' = Resting
      BY <1>1, CommitPublishes, ReflectSets DEF ReflectCommits, Publishes, Ends
    <2> QED BY <2>1, ReflectsNothing
  <1>2. CASE RollBack("reflect")
    <2>1. DOMAIN written'["reflect"] = {} /\ reflect' = Resting
      BY <1>2, DiscardEnds, ReflectSets DEF RollBack, Ends
    <2> QED BY <2>1, ReflectsNothing
  <1>3. CASE ~(\/ ReadEpisodes \/ NextCluster \/ NoInsight \/ Distil \/ SupersedeNext
               \/ ReflectCommits \/ RollBack("reflect"))
    <2>1. Spared("reflect")
      BY <1>3, OthersWrite, Spares, ReflectSets
    <2>2. reflect' = reflect
      BY <1>3 DEF Next, Reflection, Sweeping, SweepReads, SweepForgets, SweepCommits, Extraction,
         TurnBegins, TurnStores, TurnFinds, TurnStrengthens, TurnCommits, Statement, Remember,
         Forget, HardDelete, Sets, LinkReads, LinkInserts, Unlink, Lapses, RollBack
    <2> QED BY <1>3, <2>1, <2>2, ModestStep, ReflectsBesides
  <1> QED BY <1>1, <1>2, <1>3, ReflectsFromEpisodes, ReflectsOnClusters, ReflectsAfterNoInsight,
             ReflectsOnInsight, ReflectsOnSuperseding

-----------------------------------------------------------------------------
(* The invariant, and what it says of the code. *)

LEMMA InitIInv == MemoriesAssumption /\ Init => IInv
  <1> SUFFICES ASSUME MemoriesAssumption, Init
               PROVE  IInv
    OBVIOUS
  <1>1. Blank \in RowType /\ Blank.status = "none" /\ Blank.roots = {}
    BY DEF Blank, RowType, Statuses, Kinds
  <1>2. ASSUME NEW m \in Ids
        PROVE  /\ mem[m] = IF m \in Early THEN FirstHand(m, "episodic") ELSE Blank
               /\ FirstHand(m, "episodic") \in RowType
               /\ FirstHand(m, "episodic").status = "active"
               /\ FirstHand(m, "episodic").roots = {m}
    BY <1>1 DEF Init, FirstHand, Blank, RowType, Statuses, Kinds
  <1>3. mem \in [Ids -> RowType]
    BY <1>1, <1>2 DEF Init
  <1>4. DOMAIN written = Actor /\ \A a \in Actor : Wrote(a) = {}
    BY DEF Init, Wrote, Nothing
  <1>5. New = {} /\ Pending = {} /\ reflect.todo = {} /\ reflect.pc = "idle"
    BY <1>4 DEF Init, New, Pending, Resting, Actor
  <1>6. ReflectType
    BY DEF Init, Resting, ReflectType
  <1>7. SweepType /\ LinkType
    BY DEF Init, SweepType, LinkType
  <1>8. turn = [pc |-> "idle", count |-> 0, target |-> None, turns |-> 0] /\ MaxPerTurn \in Nat
    BY DEF Init, MemoriesAssumption
  <1>9. TurnType
    <2>1. 0 \in 0..MaxPerTurn
      BY <1>8
    <2> QED BY <1>8, <2>1 DEF TurnType
  <1>10. Typed
    BY <1>3, <1>4, <1>6, <1>7, <1>9, TypedIs DEF RowsTyped
  <1>11. Locked
    BY <1>4 DEF Locked
  <1>12. Committed
    <2>1. \A m \in Ids : \/ m \in Early /\ mem[m].status = "active" /\ mem[m].roots = {m}
                         \/ mem[m].status = "none" /\ mem[m].roots = {}
      BY <1>1, <1>2
    <2>2. HasHeir
      BY <2>1 DEF HasHeir
    <2>3. NoRootTwice
      BY <2>1 DEF NoRootTwice, Active
    <2> QED BY <2>1, <2>2, <2>3 DEF Committed, Known
  <1>13. Reflects
    BY <1>4, <1>5 DEF Reflects, Actor
  <1>14. Sweeps
    BY <1>4 DEF Sweeps, Init, Actor
  <1>15. Turns
    BY <1>4, <1>8 DEF Turns, Actor
  <1> QED BY <1>10, <1>11, <1>12, <1>13, <1>14, <1>15 DEF IInv

LEMMA NextIInv == MemoriesAssumption /\ IInv /\ [Next]_vars => IInv' /\ Ages
  <1> SUFFICES ASSUME MemoriesAssumption, IInv, [Next]_vars
               PROVE  IInv' /\ Ages
    OBVIOUS
  <1> USE DEF IInv
  <1>1. CASE UNCHANGED vars
    <2>1. Ages
      BY <1>1 DEF vars, Ages
    <2>2. /\ mem' = mem /\ links' = links /\ due' = due /\ audit' = audit /\ written' = written
          /\ drawing' = drawing /\ reflect' = reflect /\ sweep' = sweep /\ turn' = turn
      BY <1>1 DEF vars
    <2>3. Typed'
      BY <2>2 DEF Typed, TypeOK, Wrote
    <2>4. Locked' /\ Committed'
      BY <2>2 DEF Locked, Wrote, Committed, HasHeir, NoRootTwice, Known, Active
    <2>5. Modest /\ Spared("reflect")
      BY <2>2 DEF Modest, Spared
    <2>6. Reflects'
      BY <2>2, <2>5, ReflectsBesides
    <2>7. Sweeps' /\ Turns'
      BY <2>2 DEF Sweeps, Turns, Seen, Wrote
    <2> QED BY <2>1, <2>3, <2>4, <2>6, <2>7
  <1>2. CASE Next
    <2>1. Shape
      BY <1>2, Shapes
    <2>2. Modest \/ Distils
      BY <1>2, ModestStep, CommitDistils
    <2>3. Ages
      BY <2>2, ModestAges, DistilsAges
    <2>4. Typed'
      <3>1. RowsTyped' /\ ReflectType' /\ SweepType' /\ TurnType' /\ LinkType'
        BY <1>2, RowsTypedStep, ReflectTypedStep, SweepTypedStep, TurnTypedStep, LinkTypedStep
      <3>2. SweepType' => sweep'.seen \subseteq Ids
        BY DEF SweepType, MemoriesAssumption
      <3> QED BY <3>1, <3>2 DEF Typed, TypeOK, RowsTyped, ReflectType, SweepType, TurnType, LinkType
    <2>5. Locked'
      BY <2>1, LockedStep
    <2>6. Committed'
      BY <2>2, CommittedByModest, CommittedByDistils
    <2>7. Reflects'
      BY <1>2, <2>1, ReflectsStep
    <2>8. Sweeps' /\ Turns'
      BY <1>2, <2>1, <2>3, SweepsStep, TurnsStep
    <2> QED BY <2>3, <2>4, <2>5, <2>6, <2>7, <2>8
  <1> QED BY <1>1, <1>2

\* Whatever is remembered, distilled, forgotten, destroyed or rolled back, in
\* whichever order the transactions meet the rows, the invariant is kept.
THEOREM RowsKept == Spec => []IInv
  <1>1. Init => IInv
    BY InitIInv, MemoriesAssumption
  <1>2. IInv /\ [Next]_vars => IInv'
    BY NextIInv, MemoriesAssumption
  <1> QED BY <1>1, <1>2, PTL DEF Spec

\* Rows, edges and the three walks stay within their types; what is swept was
\* due (memory/lifecycle.py:26-45).
THEOREM TypeCorrect == Spec => []TypeOK
  <1>1. IInv => TypeOK
    BY DEF IInv, Typed
  <1> QED BY RowsKept, <1>1, PTL

\* A memory is superseded only by a newer one that was distilled from a prompt
\* that showed it and all it goes back to, or that was destroyed since, for any
\* interleaving of reflection with turns, expiry and deletion.  Nothing is claimed
\* of what the newer one says (memory/consolidation.py:108-163 and
\* MemoryRepository.supersede, memory/repository.py:106-138).
THEOREM HeirsKnow == Spec => []HasHeir
  <1>1. IInv => HasHeir
    BY DEF IInv, Committed
  <1> QED BY RowsKept, <1>1, PTL

\* No two active memories go back to the same first-hand one, however long the
\* model takes over what is changed meanwhile (consolidate_principal_memories,
\* memory/consolidation.py:100-174).
THEOREM NoRootIsDoubled == Spec => []NoRootTwice
  <1>1. IInv => NoRootTwice
    BY DEF IInv, Committed
  <1> QED BY RowsKept, <1>1, PTL

\* What is superseded, forgotten or deleted never comes back, and what took a
\* memory's place is never replaced (memory/repository.py:106-220).
THEOREM GoneForGood == Spec => KeepsLifecycle
  <1> DEFINE Keeps ==
          \A m \in Ids :
              /\ mem[m].status # "none" => mem'[m].status # "none"
              /\ mem[m].status \in Gone => mem'[m].status \in {mem[m].status, "deleted"}
              /\ mem'[m].status = "superseded" /\ mem[m].status = "superseded"
                    => mem'[m].by = mem[m].by
  <1>1. Ages => Keeps
    BY DEF Ages, Begins, Ceases, Gone
  <1>2. IInv /\ [Next]_vars => [Keeps]_vars
    BY <1>1, NextIInv, MemoriesAssumption
  <1>3. IInv /\ [Next]_vars => IInv'
    BY NextIInv, MemoriesAssumption
  <1>4. Init => IInv
    BY InitIInv, MemoriesAssumption
  <1> QED BY <1>2, <1>3, <1>4, PTL DEF Spec, KeepsLifecycle

-----------------------------------------------------------------------------
(* Recall. *)

\* Of a strictly ordered set, fewer than n are before each of the first n, and
\* so there are n of them at most.
LEMMA FirstAreFew ==
    ASSUME NEW S, IsFiniteSet(S), NEW R, NEW n \in Nat,
           \A x \in S : <<x, x>> \notin R,
           \A x, y, z \in S : <<x, y>> \in R /\ <<y, z>> \in R => <<x, z>> \in R,
           \A x, y \in S : x # y => <<x, y>> \in R \/ <<y, x>> \in R,
           NEW B, B \subseteq S,
           \A m \in B : \E T \in SUBSET S :
               /\ \A x \in S : x # m /\ <<x, m>> \in R => x \in T
               /\ Cardinality(T) < n
    PROVE  Cardinality(B) <= n
  <1>1. IsFiniteSet(B) /\ Cardinality(B) \in Nat
    BY FS_Subset, FS_CardinalityType
  <1>2. CASE B = {}
    BY <1>2, FS_EmptySet
  <1>3. CASE B # {}
    <2> DEFINE Q == {p \in B \X B : <<p[2], p[1]>> \in R}
    <2>1. \A x, y \in B : <<x, y>> \in Q <=> <<y, x>> \in R
      OBVIOUS
    <2> HIDE DEF Q
    <2>2. \A x \in B : <<x, x>> \notin Q
      BY <2>1
    <2>3. \A x, y, z \in B : <<x, y>> \in Q /\ <<y, z>> \in Q => <<x, z>> \in Q
      BY <2>1
    <2>4. PICK z \in B : \A y \in B : <<y, z>> \notin Q
      BY <1>1, <1>3, <2>2, <2>3, HasFirst
    <2>5. PICK T \in SUBSET S : /\ \A x \in S : x # z /\ <<x, z>> \in R => x \in T
                               /\ Cardinality(T) < n
      BY <2>4
    <2>6. IsFiniteSet(T) /\ Cardinality(T) \in Nat /\ B \ {z} \subseteq T
      BY <2>1, <2>4, <2>5, FS_Subset, FS_CardinalityType
    <2>7. Cardinality(B \ {z}) <= Cardinality(T)
      BY <2>6, FS_Subset
    <2>8. Cardinality(B \ {z}) = Cardinality(B) - 1
      BY <1>1, <2>4, FS_RemoveElement
    <2> QED BY <1>1, <2>5, <2>6, <2>7, <2>8
  <1> QED BY <1>2, <1>3

LEMMA HonestRecall ==
    ASSUME MemoriesAssumption, IInv
    PROVE  RecallIsHonest
  <1>1. /\ Hits \subseteq Ids /\ Hits \subseteq Active /\ Active \subseteq Ids
        /\ Ids \subseteq Nat /\ \A x \in Ids : Relevance[x] \in Nat
        /\ Limit \in Nat /\ Limit > 0
    BY DEF Hits, Active, MemoriesAssumption
  <1>2. \A S \in SUBSET Ids : IsFiniteSet(S) /\ Cardinality(S) \in Nat
    BY FS_Subset, FS_CardinalityType DEF MemoriesAssumption
  <1>3. \A x : x \in Results <=>
            x \in Hits /\ Cardinality({y \in Hits \ {x} : Stronger(y, x)}) < Limit
    BY DEF Results, Best
  <1>4. Anchors \subseteq Results /\ Results \subseteq Hits
    BY DEF Anchors, Results, Best
  <1>5. Neighbours \subseteq Active /\ \A n \in Neighbours : \E m \in Results : Linked(m, n)
    BY <1>4 DEF Neighbours
  <1> DEFINE Shown == Results \union Neighbours
  <1>6. \A x : x \in Found <=>
            x \in Shown /\ Cardinality({y \in Shown \ {x} : Precedes(y, x)}) < Limit
    BY DEF Found, Best
  <1>7. Shown \subseteq Active /\ Found \subseteq Shown
    BY <1>1, <1>4, <1>5, <1>6
  <1>8. Found \intersect audit = {}
    <2>1. \A m \in audit : mem[m].status \in Gone
      BY DEF IInv, Sweeps
    <2> QED BY <1>7, <2>1 DEF Active, Gone
  <1>9. \A m \in Found : Relevance[m] > 0 \/ \E h \in Hits : Linked(m, h)
    <2>1. \A m \in Results : Relevance[m] > 0
      BY <1>4 DEF Hits
    <2>2. \A m, n : Linked(m, n) <=> Linked(n, m)
      BY DEF Linked
    <2> QED BY <1>4, <1>5, <1>7, <2>1, <2>2
  <1>10. CASE Hits = {}
    <2>1. Found = {}
      BY <1>4, <1>5, <1>7, <1>10
    <2> QED BY <1>1, <1>7, <1>8, <1>10, <2>1, FS_EmptySet DEF RecallIsHonest
  <1>11. CASE Hits # {}
    <2>1. \E m \in Hits : \A x \in Hits : ~Stronger(x, m)
      <3> DEFINE R == {p \in Hits \X Hits : Stronger(p[1], p[2])}
      <3>1. \A x, y \in Hits : <<x, y>> \in R <=> Stronger(x, y)
        OBVIOUS
      <3> HIDE DEF R
      <3>2. \A x \in Hits : x \in Nat /\ Relevance[x] \in Nat
        BY <1>1
      <3>3. \A x \in Hits : <<x, x>> \notin R
        BY <3>1, <3>2 DEF Stronger
      <3>4. \A x, y, z \in Hits : <<x, y>> \in R /\ <<y, z>> \in R => <<x, z>> \in R
        BY <3>1, <3>2 DEF Stronger
      <3>5. PICK m \in Hits : \A x \in Hits : <<x, m>> \notin R
        BY <1>1, <1>2, <1>11, <3>3, <3>4, HasFirst
      <3> QED BY <3>1, <3>5
    <2>2. PICK m \in Hits : \A x \in Hits : ~Stronger(x, m)
      BY <2>1
    <2>3. \A x \in Hits \ {m} : Stronger(m, x)
      BY <1>1, <2>2 DEF Stronger
    <2>4. m \in Results
      <3>1. {y \in Hits \ {m} : Stronger(y, m)} = {}
        BY <2>2
      <3> QED BY <1>1, <1>3, <2>2, <3>1, FS_EmptySet
    <2>5. Relevance[m] > 0 /\ \A x \in Hits : Relevance[x] <= Relevance[m]
      BY <1>1, <2>2 DEF Hits, Stronger
    <2>6. Max({Relevance[x] : x \in Results}) = Relevance[m]
      <3> DEFINE T == {Relevance[x] : x \in Results}
      <3>1. Relevance[m] \in T /\ \A y \in T : y \in Nat /\ y <= Relevance[m]
        BY <1>1, <1>4, <2>4, <2>5
      <3> HIDE DEF T
      <3>2. Relevance[m] \in Nat /\ \A y \in T : Relevance[m] >= y
        BY <1>1, <3>1
      <3>3. \A x \in T : (\A y \in T : x >= y) => x = Relevance[m]
        BY <3>1, <3>2
      <3>4. Max(T) = Relevance[m]
        BY <3>1, <3>2, <3>3 DEF Max
      <3> QED BY <3>4 DEF T
    <2>7. \A x \in Shown : /\ x \in Nat /\ Score(x) \in Nat
                           /\ x \in Results => Score(x) = 10 * Relevance[x]
                           /\ x \notin Results => Score(x) = 6 * Relevance[m]
      BY <1>1, <1>4, <1>7, <2>6 DEF Score
    <2>8. m \in Found
      <3>1. ASSUME NEW y \in Shown, y # m
            PROVE  ~Precedes(y, m)
        <4>1. Relevance[m] \in Nat /\ m \in Shown /\ Score(m) = 10 * Relevance[m]
          BY <1>1, <2>4, <2>7
        <4>2. CASE y \in Results
          <5>1. Relevance[y] \in Nat /\ Relevance[y] <= Relevance[m] /\ ~Stronger(y, m)
                /\ Score(y) = 10 * Relevance[y]
            BY <1>1, <1>4, <2>2, <2>5, <2>7, <4>2
          <5> QED BY <2>4, <4>1, <4>2, <5>1 DEF Precedes, Stronger
        <4>3. CASE y \notin Results
          <5>1. Score(y) = 6 * Relevance[m]
            BY <2>7, <4>3
          <5> QED BY <2>4, <2>5, <4>1, <4>3, <5>1 DEF Precedes
        <4> QED BY <4>2, <4>3
      <3>2. {y \in Shown \ {m} : Precedes(y, m)} = {}
        BY <3>1
      <3>3. m \in Shown
        BY <2>4
      <3> HIDE DEF Shown
      <3> QED BY <1>1, <1>6, <3>2, <3>3, FS_EmptySet
    <2>9. Cardinality(Found) <= Limit
      <3> HIDE DEF Shown
      <3> DEFINE R == {p \in Shown \X Shown : Precedes(p[1], p[2])}
      <3>1. \A x, y \in Shown : <<x, y>> \in R <=> Precedes(x, y)
        OBVIOUS
      <3> HIDE DEF R
      <3>2. \A x \in Shown : <<x, x>> \notin R
        BY <2>7, <3>1 DEF Precedes
      <3>3. \A x, y, z \in Shown : <<x, y>> \in R /\ <<y, z>> \in R => <<x, z>> \in R
        BY <2>7, <3>1 DEF Precedes
      <3>4. \A x, y \in Shown : x # y => <<x, y>> \in R \/ <<y, x>> \in R
        BY <2>7, <3>1 DEF Precedes
      <3>5. ASSUME NEW x \in Found
            PROVE  \E T \in SUBSET Shown :
                       /\ \A y \in Shown : y # x /\ <<y, x>> \in R => y \in T
                       /\ Cardinality(T) < Limit
        <4> DEFINE T == {y \in Shown \ {x} : Precedes(y, x)}
        <4>1. x \in Shown /\ Cardinality(T) < Limit
          BY <1>6, <1>7
        <4>2. T \in SUBSET Shown /\ \A y \in Shown : y # x /\ <<y, x>> \in R => y \in T
          BY <3>1, <4>1
        <4> QED BY <4>1, <4>2
      <3>6. IsFiniteSet(Shown) /\ Found \subseteq Shown /\ Limit \in Nat
        BY <1>1, <1>2, <1>7
      <3> QED BY <3>2, <3>3, <3>4, <3>5, <3>6, FirstAreFew
    <2> QED BY <1>7, <1>8, <1>9, <2>3, <2>8, <2>9 DEF RecallIsHonest
  <1> QED BY <1>10, <1>11

\* Retrieval shows active memories, none whose expiry is on the audit log, its
\* limit at most, the best match among them, and of the others only neighbours
\* of a match (search_relevant, memory/repository.py:640-709; the log is
\* memory/lifecycle.py:37-45).
THEOREM RecallHonest == Spec => []RecallIsHonest
  <1>1. IInv => RecallIsHonest
    BY HonestRecall, MemoriesAssumption
  <1> QED BY RowsKept, <1>1, PTL

=============================================================================
