------------------------------ MODULE Memories ------------------------------
(***************************************************************************)
(* What WAX remembers of one principal: the memory rows and their edges,   *)
(* and the transactions that work on them side by side -- the reflection   *)
(* pass that distils clusters of episodes (memory/consolidation.py), the   *)
(* expiry sweep (memory/lifecycle.py), the extraction at the end of a turn *)
(* (memory/extraction.py) and the statements of the repository that run in *)
(* a transaction of their own (wax_runtime, memory/repository.py).         *)
(*                                                                         *)
(* Transactions are READ COMMITTED: a statement sees what is committed and *)
(* what its own transaction wrote; an UPDATE waits for the transaction     *)
(* that wrote the row and then evaluates its WHERE again.  The database    *)
(* rolls one of the transactions back that wait for one another.           *)
(*                                                                         *)
(* Of the content of a memory the model keeps its roots: the first-hand    *)
(* memories it goes back to, being one or distilled from a prompt that     *)
(* showed memories that do.  No row has them; they are what a reader of    *)
(* superseded_by can find out.  What a text SAYS is left out, and with it  *)
(* how much of its roots an insight keeps: the prompt has 200 characters   *)
(* of each episode, asks for an insight and no summary of them, and an     *)
(* answer without a content is stored as {} and takes their place as well. *)
(* Confidence and importance only weigh the ranking and are left out: of   *)
(* strengthen remains the row it locks.                                    *)
(***************************************************************************)
EXTENDS Integers, FiniteSets, FiniteSetsExt

CONSTANTS
    Ids,            \* identifiers of rows, newer ones larger, as ULIDs are
    Early,          \* the episodes remembered before the run begins
    Expiring,       \* the ids whose row is created with an expires_at
    Similar,        \* pairs of ids whose texts share two significant words
    Linkable,       \* bound: the edges anyone tries to draw
    Relevance,      \* BM25 blend of each id for the query under study
    MinCluster,     \* min_cluster_size
    MaxClusters,    \* max_clusters
    Limit,          \* limit of search_relevant
    MaxPerTurn,     \* memories extracted from a turn ([:5])
    MaxTurns,       \* bound: turns that extract memories
    MaxStatements,  \* bound: statements in a transaction of their own
    MaxFaults,      \* bound: transactions lost to a crash or a database fault
    None

ASSUME MemoriesAssumption ==
    /\ Ids \subseteq Nat /\ IsFiniteSet(Ids) /\ Early \subseteq Ids
    /\ Expiring \subseteq Ids
    /\ Similar \subseteq Ids \X Ids /\ Linkable \subseteq Ids \X Ids
    /\ Relevance \in [Ids -> Nat]
    /\ {MinCluster, MaxClusters, Limit, MaxPerTurn} \subseteq Nat \ {0}
    /\ {MaxTurns, MaxStatements, MaxFaults} \subseteq Nat /\ None \notin Ids

VARIABLES
    mem,        \* the committed rows
    links,      \* the committed edges of memory_links
    due,        \* rows whose expires_at has passed
    audit,      \* rows a committed memory.expired event names
    written,    \* per transaction: the rows it wrote and did not commit
    drawing,    \* the edge whose endpoints link() has read, or None
    reflect,    \* the reflection pass
    sweep,      \* the expiry sweep
    turn,       \* the extraction of a turn
    stated,     \* statements so far
    faults      \* faults so far

vars == <<mem, links, due, audit, written, drawing, reflect, sweep, turn, stated, faults>>

Actor == {"reflect", "sweep", "turn"}
Gone == {"superseded", "forgotten", "deleted"}
Statuses == {"none", "active"} \union Gone
Kinds == {"episodic", "fact"}

Blank == [status |-> "none", kind |-> "fact", by |-> None, roots |-> {}]
FirstHand(m, k) == [Blank EXCEPT !.status = "active", !.kind = k, !.roots = {m}]
Nothing == [m \in {} |-> Blank]

Resting == [pc |-> "idle", rest |-> {}, shown |-> [m \in Ids |-> {}], n |-> 0,
            cluster |-> {}, new |-> None, todo |-> {}]

Init ==
    /\ mem = [m \in Ids |-> IF m \in Early THEN FirstHand(m, "episodic") ELSE Blank]
    /\ links \in SUBSET {e \in Linkable : e[1] # e[2] /\ {e[1], e[2]} \subseteq Early}
    /\ due = {} /\ audit = {}
    /\ written = [a \in Actor |-> Nothing] /\ drawing = None
    /\ reflect = Resting
    /\ sweep = [todo |-> {}, seen |-> {}]
    /\ turn = [pc |-> "idle", count |-> 0, target |-> None, turns |-> 0]
    /\ stated = 0 /\ faults = 0

-----------------------------------------------------------------------------
(* Rows, as a transaction sees and changes them. *)

Wrote(a) == DOMAIN written[a]
Seen(a, m) == IF m \in Wrote(a) THEN written[a][m] ELSE mem[m]
Active == {m \in Ids : mem[m].status = "active"}

Holder(m) == {a \in Actor : m \in Wrote(a)}
Free(a, m) == Holder(m) \subseteq {a}

\* A new id is newer than every row there is, of open transactions too.
Unused == {m \in Ids : \A x \in Ids : x >= m => mem[x].status = "none" /\ Holder(x) = {}}
Fresh == Min(Unused)

Writes(a, m, row) ==
    written' = [written EXCEPT
        ![a] = [x \in Wrote(a) \union {m} |-> IF x = m THEN row ELSE Seen(a, x)]]

\* An UPDATE that matches no row leaves no lock.
Updates(a, m, row) == IF row = Seen(a, m) THEN UNCHANGED written ELSE Writes(a, m, row)

\* Mutant: supersede() without its WHERE on the status.
MutantSuperseded(row, new) == [row EXCEPT !.status = "superseded", !.by = new]

\* supersede: UPDATE ... WHERE id = old AND status = 'active'.
Superseded(row, new) ==
    IF row.status = "active" THEN [row EXCEPT !.status = "superseded", !.by = new] ELSE row

\* forget: UPDATE ... WHERE id = m AND status = 'active'.
Forgotten(row) == IF row.status = "active" THEN [row EXCEPT !.status = "forgotten"] ELSE row

\* COMMIT and ROLLBACK.
Published(a) == [m \in Ids |-> Seen(a, m)]
Commit(a) == mem' = Published(a) /\ written' = [written EXCEPT ![a] = Nothing]
Discard(a) == written' = [written EXCEPT ![a] = Nothing]

\* The rows an actor's next statement may update.
Wants(a) ==
    {m \in Ids : \/ a = "reflect" /\ reflect.pc = "supersede" /\ m = Max(reflect.todo)
                 \/ a = "sweep" /\ m \in sweep.todo
                 \/ a = "turn" /\ turn.pc = "strengthen" /\ m = turn.target}

WaitsFor(a) == {b \in Actor \ {a} : \E m \in Wants(a) : b \in Holder(m)}
Deadlocked(a) ==
    \E b \in WaitsFor(a) : a \in WaitsFor(b) \/ \E c \in WaitsFor(b) : a \in WaitsFor(c)

-----------------------------------------------------------------------------
(* Reflection: consolidate_principal_memories under _run_consolidation. *)

Episodes == {m \in Active : mem[m].kind = "episodic"}

ReadEpisodes ==
    /\ reflect.pc = "idle"
    /\ Cardinality(Episodes) >= MinCluster
    /\ reflect' = [Resting EXCEPT
           !.pc = "cluster", !.rest = Episodes,
           !.shown = [m \in Ids |-> IF m \in Episodes THEN mem[m].roots ELSE {}]]
    /\ UNCHANGED <<mem, links, due, audit, written, drawing, sweep, turn, stated, faults>>

\* _cluster_episodes: the newest unused episode and the unused ones like it.
ClusterOf(rest) == {m \in rest : m = Max(rest) \/ <<Max(rest), m>> \in Similar}

\* The first MaxClusters clusters are looked at, the small ones passed over.
NextCluster ==
    /\ reflect.pc = "cluster"
    /\ reflect.rest # {} /\ reflect.n < MaxClusters
    /\ LET cluster == ClusterOf(reflect.rest) IN
       reflect' = [reflect EXCEPT
           !.rest = @ \ cluster, !.n = @ + 1, !.cluster = cluster,
           !.pc = IF Cardinality(cluster) < MinCluster THEN "cluster" ELSE "ask"]
    /\ UNCHANGED <<mem, links, due, audit, written, drawing, sweep, turn, stated, faults>>

\* The model fails, skips, or answers something that cannot be stored.
NoInsight ==
    /\ reflect.pc = "ask"
    /\ reflect' = [reflect EXCEPT !.pc = "cluster"]
    /\ UNCHANGED <<mem, links, due, audit, written, drawing, sweep, turn, stated, faults>>

\* Mutant: of a cluster only the newest episode reaches the prompt.
MutantInsight(k) ==
    [Blank EXCEPT !.status = "active", !.kind = k, !.roots = reflect.shown[Max(reflect.cluster)]]

\* The prompt shows what the pass read of the cluster when it began, of memories
\* that were destroyed since, too.  Whatever the model makes of it goes back to
\* these; it may be empty.
Insight(k) ==
    [Blank EXCEPT !.status = "active", !.kind = k,
                  !.roots = UNION {reflect.shown[m] : m \in reflect.cluster}]

\* Mutant: create() commits, before the episodes are superseded.
MutantDistil ==
    /\ reflect.pc = "ask"
    /\ Unused # {}
    /\ \E k \in Kinds : mem' = [Published("reflect") EXCEPT ![Fresh] = Insight(k)]
    /\ written' = [written EXCEPT !["reflect"] = Nothing]
    /\ reflect' = [reflect EXCEPT !.pc = "supersede", !.new = Fresh, !.todo = reflect.cluster]
    /\ UNCHANGED <<links, due, audit, drawing, sweep, turn, stated, faults>>

Distil ==
    /\ reflect.pc = "ask"
    /\ Unused # {}
    /\ \E k \in Kinds : Writes("reflect", Fresh, Insight(k))
    /\ reflect' = [reflect EXCEPT !.pc = "supersede", !.new = Fresh, !.todo = reflect.cluster]
    /\ UNCHANGED <<mem, links, due, audit, drawing, sweep, turn, stated, faults>>

SupersedeNext ==
    /\ reflect.pc = "supersede"
    /\ LET m == Max(reflect.todo) IN
       /\ Free("reflect", m)
       /\ Updates("reflect", m, Superseded(Seen("reflect", m), reflect.new))
       /\ reflect' = [reflect EXCEPT
              !.todo = @ \ {m}, !.pc = IF reflect.todo = {m} THEN "cluster" ELSE @]
    /\ UNCHANGED <<mem, links, due, audit, drawing, sweep, turn, stated, faults>>

ReflectCommits ==
    /\ reflect.pc = "cluster"
    /\ reflect.rest = {} \/ reflect.n = MaxClusters
    /\ Commit("reflect")
    /\ reflect' = Resting
    /\ UNCHANGED <<links, due, audit, drawing, sweep, turn, stated, faults>>

-----------------------------------------------------------------------------
(* Expiry: expire_due_memories under memory_maintenance_loop.  The rows come *)
(* in no particular order.                                                   *)

Lapses(m) ==
    /\ m \in Expiring \ due
    /\ mem[m].status = "active"
    /\ due' = due \union {m}
    /\ UNCHANGED <<mem, links, audit, written, drawing, reflect, sweep, turn, stated, faults>>

\* Mutant: only facts are swept.
MutantSweepReadsFacts ==
    LET found == {m \in due \intersect Active : mem[m].kind = "fact"} IN
    /\ sweep.seen = {} /\ found # {}
    /\ sweep' = [todo |-> found, seen |-> found]
    /\ UNCHANGED <<mem, links, due, audit, written, drawing, reflect, turn, stated, faults>>

SweepReads ==
    /\ sweep.seen = {}
    /\ due \intersect Active # {}
    /\ sweep' = [todo |-> due \intersect Active, seen |-> due \intersect Active]
    /\ UNCHANGED <<mem, links, due, audit, written, drawing, reflect, turn, stated, faults>>

SweepForgets(m) ==
    /\ m \in sweep.todo /\ Free("sweep", m)
    /\ Updates("sweep", m, Forgotten(Seen("sweep", m)))
    /\ sweep' = [sweep EXCEPT !.todo = @ \ {m}]
    /\ UNCHANGED <<mem, links, due, audit, drawing, reflect, turn, stated, faults>>

\* An event is recorded for each row read, whatever forget() answered.
SweepCommits ==
    /\ sweep.seen # {} /\ sweep.todo = {}
    /\ Commit("sweep")
    /\ audit' = audit \union sweep.seen
    /\ sweep' = [todo |-> {}, seen |-> {}]
    /\ UNCHANGED <<links, due, drawing, reflect, turn, stated, faults>>

-----------------------------------------------------------------------------
(* Extraction: extract_memories, in the transaction of the turn. *)

TurnBegins ==
    /\ turn.pc = "idle" /\ turn.turns < MaxTurns
    /\ turn' = [turn EXCEPT !.pc = "store", !.count = 0, !.turns = @ + 1]
    /\ UNCHANGED <<mem, links, due, audit, written, drawing, reflect, sweep, stated, faults>>

TurnStores ==
    /\ turn.pc = "store" /\ turn.count < MaxPerTurn
    /\ Unused # {}
    /\ \E k \in Kinds : Writes("turn", Fresh, FirstHand(Fresh, k))
    /\ turn' = [turn EXCEPT !.count = @ + 1]
    /\ UNCHANGED <<mem, links, due, audit, drawing, reflect, sweep, stated, faults>>

\* A fact that says the same is found, and strengthened by its id.
TurnFinds ==
    /\ turn.pc = "store" /\ turn.count < MaxPerTurn
    /\ \E m \in Ids :
          /\ Seen("turn", m).status = "active" /\ Seen("turn", m).kind = "fact"
          /\ turn' = [turn EXCEPT !.pc = "strengthen", !.target = m]
    /\ UNCHANGED <<mem, links, due, audit, written, drawing, reflect, sweep, stated, faults>>

TurnStrengthens ==
    /\ turn.pc = "strengthen"
    /\ LET m == turn.target IN
       /\ Free("turn", m)
       /\ IF Seen("turn", m).status = "deleted" THEN UNCHANGED written
          ELSE Writes("turn", m, Seen("turn", m))
    /\ turn' = [turn EXCEPT !.pc = "store", !.target = None, !.count = @ + 1]
    /\ UNCHANGED <<mem, links, due, audit, drawing, reflect, sweep, stated, faults>>

TurnCommits ==
    /\ turn.pc = "store"
    /\ Commit("turn")
    /\ turn' = [turn EXCEPT !.pc = "idle", !.count = 0]
    /\ UNCHANGED <<links, due, audit, drawing, reflect, sweep, stated, faults>>

-----------------------------------------------------------------------------
(* Statements in a transaction of their own. *)

Counted == stated < MaxStatements /\ stated' = stated + 1

Sets(m, row) ==
    /\ Counted
    /\ Holder(m) = {}
    /\ mem' = [mem EXCEPT ![m] = row]
    /\ UNCHANGED <<due, audit, written, drawing, reflect, sweep, turn, faults>>

\* wax_runtime.remember, wax_runtime.forget.
Remember(k) == Unused # {} /\ Sets(Fresh, FirstHand(Fresh, k)) /\ UNCHANGED links
Forget(m) == mem[m].status = "active" /\ Sets(m, Forgotten(mem[m])) /\ UNCHANGED links

\* Edges first, then the row: an irreversible end, from whichever status.
HardDelete(m) ==
    /\ mem[m].status \notin {"none", "deleted"}
    /\ Sets(m, [Blank EXCEPT !.status = "deleted"])
    /\ links' = {e \in links : m \notin {e[1], e[2]}}

\* link() reads both endpoints, then inserts: the foreign keys refuse a row
\* that was deleted in between, and nothing refuses one forgotten in between.
LinkReads(e) ==
    /\ Counted
    /\ drawing = None
    /\ e[1] # e[2] /\ e \notin links
    /\ e[1] \in Active /\ e[2] \in Active
    /\ drawing' = e
    /\ UNCHANGED <<mem, links, due, audit, written, reflect, sweep, turn, faults>>

LinkInserts ==
    /\ drawing # None
    /\ links' = IF \E i \in {1, 2} : mem[drawing[i]].status = "deleted"
                THEN links ELSE links \union {drawing}
    /\ drawing' = None
    /\ UNCHANGED <<mem, due, audit, written, reflect, sweep, turn, stated, faults>>

Unlink(e) ==
    /\ Counted
    /\ e \in links
    /\ links' = links \ {e}
    /\ UNCHANGED <<mem, due, audit, written, drawing, reflect, sweep, turn, faults>>

-----------------------------------------------------------------------------
(* A transaction is rolled back: the victim of a deadlock, or a fault. *)

Busy(a) ==
    \/ a = "reflect" /\ reflect.pc # "idle"
    \/ a = "sweep" /\ sweep.seen # {}
    \/ a = "turn" /\ turn.pc # "idle"

RollBack(a) ==
    /\ Busy(a)
    /\ \/ Deadlocked(a) /\ UNCHANGED faults
       \/ faults < MaxFaults /\ faults' = faults + 1
    /\ Discard(a)
    /\ reflect' = IF a = "reflect" THEN Resting ELSE reflect
    /\ sweep' = IF a = "sweep" THEN [todo |-> {}, seen |-> {}] ELSE sweep
    /\ turn' = IF a = "turn" THEN [turn EXCEPT !.pc = "idle", !.count = 0, !.target = None]
               ELSE turn
    /\ UNCHANGED <<mem, links, due, audit, drawing, stated>>

-----------------------------------------------------------------------------

Reflection ==
    ReadEpisodes \/ NextCluster \/ NoInsight \/ Distil \/ SupersedeNext \/ ReflectCommits
Sweeping == SweepReads \/ (\E m \in Ids : SweepForgets(m)) \/ SweepCommits
Extraction == TurnBegins \/ TurnStores \/ TurnFinds \/ TurnStrengthens \/ TurnCommits
Statement ==
    \/ \E k \in Kinds : Remember(k)
    \/ \E m \in Ids : Forget(m) \/ HardDelete(m)
    \/ LinkInserts \/ \E e \in Linkable : LinkReads(e) \/ Unlink(e)

Next ==
    \/ Reflection \/ Sweeping \/ Extraction \/ Statement
    \/ \E m \in Ids : Lapses(m)
    \/ \E a \in Actor : RollBack(a)

\* Both loops run for ever and catch what they meet; a turn that holds rows
\* comes to its end; the database finds deadlocks, and serves those who wait
\* for a row in turn, so that none is overtaken for ever.
Fairness ==
    /\ WF_vars(Sweeping) /\ SF_vars(\E m \in Ids : SweepForgets(m))
    /\ WF_vars(NextCluster \/ NoInsight \/ Distil \/ SupersedeNext \/ ReflectCommits)
    /\ WF_vars(TurnStrengthens \/ TurnCommits)
    /\ WF_vars(\E a \in Actor : Deadlocked(a) /\ RollBack(a))

Spec == Init /\ [][Next]_vars /\ Fairness

-----------------------------------------------------------------------------
(* search_relevant: the best Limit of the matching memories, then the active *)
(* neighbours of the first three at six tenths of the best score, then the   *)
(* best Limit of both.                                                       *)

Hits == {m \in Active : Relevance[m] > 0}

Best(S, n, Before(_, _)) == {m \in S : Cardinality({x \in S \ {m} : Before(x, m)}) < n}

Stronger(x, y) ==
    Relevance[x] > Relevance[y] \/ (Relevance[x] = Relevance[y] /\ x > y)

Results == Best(Hits, Limit, Stronger)
Anchors == Best(Results, 3, Stronger)
Linked(m, n) == <<m, n>> \in links \/ <<n, m>> \in links
\* Neighbours are taken over edges of either direction and any kind; how many
\* edges of an anchor are followed at most is left out.

\* Mutant: a neighbour's status is not looked at.
MutantNeighbours ==
    {n \in Ids \ Results : mem[n].status # "none" /\ \E m \in Anchors : Linked(m, n)}

Neighbours == {n \in Active \ Results : \E m \in Anchors : Linked(m, n)}

Score(m) == IF m \in Results THEN 10 * Relevance[m]
            ELSE 6 * Max({Relevance[x] : x \in Results})
Precedes(x, y) ==
    \/ Score(x) > Score(y)
    \/ Score(x) = Score(y) /\ x \in Results /\ y \notin Results
    \/ Score(x) = Score(y) /\ (x \in Results <=> y \in Results) /\ x > y

Found == Best(Results \union Neighbours, Limit, Precedes)

-----------------------------------------------------------------------------

RowType == [status : Statuses, kind : Kinds, by : Ids \union {None}, roots : SUBSET Ids]

\* Rows, edges and the three walks stay within their types.
TypeOK ==
    /\ mem \in [Ids -> RowType]
    /\ links \subseteq Linkable /\ drawing \in Linkable \union {None}
    /\ due \subseteq Expiring /\ audit \subseteq due
    /\ \A a \in Actor : Wrote(a) \subseteq Ids /\ \A m \in Wrote(a) : written[a][m] \in RowType
    /\ reflect.pc \in {"idle", "cluster", "ask", "supersede"}
    /\ sweep.todo \subseteq sweep.seen /\ sweep.seen \subseteq Ids
    /\ turn.pc \in {"idle", "store", "strengthen"} /\ turn.count \in 0..MaxPerTurn

\* A superseded memory names an heir: a newer memory, distilled from a prompt
\* that showed it and all it goes back to (or since destroyed), so chains of
\* supersession end, at an insight that had the evidence before it.  What the
\* insight says of it is the model's (consolidation.py:108-163,
\* repository.py:106-138).
HasHeir ==
    \A m \in Ids : mem[m].status = "superseded" =>
        LET s == mem[m].by IN
        /\ s \in Ids /\ s > m /\ mem[s].status # "none"
        /\ mem[s].status # "deleted" => mem[m].roots \subseteq mem[s].roots

\* No two active memories go back to the same first-hand one, so no experience
\* counts twice in recall, whatever was forgotten, corroborated or rolled back
\* while the model was asked (consolidation.py:100-174).
NoRootTwice ==
    \A m, n \in Active : m # n => mem[m].roots \intersect mem[n].roots = {}

\* Retrieval never shows a memory that is not active, or whose expiry is on the
\* audit log (lifecycle.py:37-45 logs it whatever forget() answered), over
\* whatever edges it came; it fills at most its limit, and keeps the best match
\* (repository.py:671-709).
RecallIsHonest ==
    /\ Found \subseteq Active /\ Found \intersect audit = {}
    /\ Cardinality(Found) <= Limit
    /\ Hits # {} => \E m \in Found : \A x \in Hits \ {m} : Stronger(m, x)
    /\ \A m \in Found : Relevance[m] > 0 \/ \E h \in Hits : Linked(m, h)

\* What is superseded, forgotten or deleted never comes back, and what took a
\* memory's place is never replaced by something else (memory_models.py:38-43).
KeepsLifecycle ==
    [][\A m \in Ids :
          /\ mem[m].status # "none" => mem'[m].status # "none"
          /\ mem[m].status \in Gone => mem'[m].status \in {mem[m].status, "deleted"}
          /\ mem'[m].status = "superseded" /\ mem[m].status = "superseded"
                => mem'[m].by = mem[m].by]_vars

\* A memory past its time leaves recall, in spite of the rows reflection and
\* turns keep locked and of lost sweeps, unless sweeps are lost for ever
\* (lifecycle.py:49-73).
ExpiredEndsUp ==
    <>[][~RollBack("sweep")]_vars =>
        \A m \in Expiring :
            (m \in due /\ mem[m].status = "active") ~> (mem[m].status \in Gone)

=============================================================================
