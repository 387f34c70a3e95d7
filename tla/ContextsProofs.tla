--------------------------- MODULE ContextsProofs ----------------------------
(***************************************************************************)
(* Proofs about Contexts: the packet of a turn shows a row as it was       *)
(* committed during that turn, and a call wipes out another call's change  *)
(* only by a stale read, never after it set a status.                      *)
(***************************************************************************)
EXTENDS Contexts, TLAPS

Columns == {"status", "summary", "state"}
\* What a call is about to write.
IsOut(o) ==
    /\ DOMAIN o \subseteq Columns
    /\ "status" \in DOMAIN o => o.status \in Statuses
    /\ "summary" \in DOMAIN o => o.summary \in Optional
    /\ "state" \in DOMAIN o => o.state \in Patches

Outs == {o \in UNION {[D -> Statuses \union Optional \union Patches] : D \in SUBSET Columns} :
            IsOut(o)}

\* What a session may hold.
IsKnown(f) == DOMAIN f \subseteq Contexts /\ \A c \in DOMAIN f : f[c] \in Rows

\* A row under an update is a row; under an empty one it is what it was.
LEMMA OverRow ==
    ASSUME NEW o, IsOut(o), NEW row \in Rows
    PROVE  /\ Over(o, row) \in Rows
           /\ "state" \notin DOMAIN o => Over(o, row).state = row.state
           /\ "state" \in DOMAIN o => Over(o, row).state = o.state
<1>1. DOMAIN row = Columns
  BY DEF Rows, Columns
<1> DEFINE v == Over(o, row)
<1>2. /\ v.status = IF "status" \in DOMAIN o THEN o.status ELSE row.status
      /\ v.summary = IF "summary" \in DOMAIN o THEN o.summary ELSE row.summary
      /\ v.state = IF "state" \in DOMAIN o THEN o.state ELSE row.state
  BY <1>1 DEF Columns, Over
<1>3. v.status \in Statuses /\ v.summary \in Optional /\ v.state \in Patches
  BY <1>2 DEF IsOut, Rows
<1>4. v = [status |-> v.status, summary |-> v.summary, state |-> v.state]
  BY <1>1 DEF Over, IsOut, Columns
<1> HIDE DEF v
<1>5. v \in Rows
  BY <1>3, <1>4 DEF Rows
<1> QED BY <1>2, <1>5 DEF v

LEMMA OutOver ==
    ASSUME NEW o \in Outs, NEW p \in Outs
    PROVE  Over(o, p) \in Outs
<1> DEFINE v == Over(o, p)
<1> USE DEF Outs
<1>1. DOMAIN v = DOMAIN o \union DOMAIN p
  BY DEF Over
<1>2. "status" \in DOMAIN v => v.status = IF "status" \in DOMAIN o THEN o.status ELSE p.status
  BY DEF Over
<1>3. "summary" \in DOMAIN v => v.summary = IF "summary" \in DOMAIN o THEN o.summary ELSE p.summary
  BY DEF Over
<1>4. "state" \in DOMAIN v => v.state = IF "state" \in DOMAIN o THEN o.state ELSE p.state
  BY DEF Over
<1>5. v = [x \in DOMAIN v |-> v[x]]
  BY DEF Over
<1> HIDE DEF v
<1>6. IsOut(v)
  BY <1>1, <1>2, <1>3, <1>4 DEF IsOut
<1>7. \A x \in DOMAIN v : v[x] \in Statuses \union Optional \union Patches
  <2>1. \A x \in DOMAIN v : x \in {"status", "summary", "state"}
    BY <1>6 DEF IsOut, Columns
  <2> QED BY <2>1, <1>6 DEF IsOut
<1>8. v \in UNION {[D -> Statuses \union Optional \union Patches] : D \in SUBSET Columns}
  <2>1. v \in [DOMAIN v -> Statuses \union Optional \union Patches]
    BY <1>5, <1>7
  <2>2. DOMAIN v \in SUBSET Columns
    BY <1>6 DEF IsOut
  <2> QED BY <2>1, <2>2
<1>9. v \in Outs
  BY <1>6, <1>8
<1> QED BY <1>9 DEF v

LEMMA EmptyOut == << >> \in Outs
<1>1. << >> \in [{} -> Statuses \union Optional \union Patches]
  OBVIOUS
<1>2. IsOut(<< >>)
  BY DEF IsOut
<1> QED BY <1>1, <1>2 DEF Outs

\* The column a statement sets, or nothing where it has the value already.
LEMMA NetOut ==
    ASSUME NEW row, NEW value,
           NEW column \in Columns,
           column = "status" => value \in Statuses,
           column = "summary" => value \in Optional,
           column = "state" => value \in Patches
    PROVE  /\ Net(row, column, value) \in Outs
           /\ DOMAIN Net(row, column, value) \subseteq {column}
           /\ column \in DOMAIN Net(row, column, value) => Net(row, column, value)[column] = value
<1> DEFINE one == [x \in {column} |-> value]
<1>1. << >> \in Outs /\ DOMAIN << >> = {}
  BY EmptyOut
<1>2. value \in Statuses \union Optional \union Patches
  BY DEF Columns
<1>3. one \in [{column} -> Statuses \union Optional \union Patches] /\ {column} \in SUBSET Columns
  BY <1>2
<1>4. IsOut(one)
  BY DEF IsOut
<1>5. one \in Outs
  BY <1>3, <1>4 DEF Outs
<1>6. Net(row, column, value) = << >> \/ Net(row, column, value) = one
  BY DEF Net
<1> QED BY <1>1, <1>5, <1>6

-----------------------------------------------------------------------------
(* The rows and the calls that write them.                                 *)

Places == {"idle", "status", "load", "summary", "state", "commit"}
Writer == [pc : Places, job : Jobs \union {None}, loaded : Rows \union {None}, out : Outs]

RowTypes ==
    /\ DOMAIN contexts \subseteq Contexts
    /\ contexts \in [DOMAIN contexts -> Rows]
    /\ holder \in [Contexts -> Writers \union {None}]
    /\ writer \in [Writers -> Writer]

\* The call of w acts on the row it loaded.
Relies(w) ==
    \/ writer[w].pc \in {"summary", "state"}
    \/ writer[w].pc = "commit" /\ "state" \in DOMAIN writer[w].out

\* A call has its row locked from its first UPDATE on; if that is the one of the
\* status, nobody has changed the state since it was read.
Sound(w) ==
    LET job == writer[w].job  out == writer[w].out IN
    writer[w].pc # "idle" =>
       /\ job \in Jobs /\ job.ctx \in DOMAIN contexts
       /\ DOMAIN out # {} => holder[job.ctx] = w
       /\ job.status # None /\ writer[w].pc # "status" => holder[job.ctx] = w
       /\ writer[w].pc = "status" => DOMAIN out = {} /\ job.status # None
       /\ writer[w].pc # "commit" => "state" \notin DOMAIN out
       /\ "state" \in DOMAIN out => out.state = Merged(writer[w].loaded.state, job.patch)
       /\ Relies(w) =>
             /\ writer[w].loaded \in Rows
             /\ job.status # None => writer[w].loaded.state = contexts[job.ctx].state

WInv == RowTypes /\ \A w \in Writers : Sound(w)

LEMMA WritersBegin == Init => WInv
<1> SUFFICES ASSUME Init
             PROVE  WInv
  OBVIOUS
<1>1. << >> \in Outs
  BY EmptyOut
<1>2. Idle \in Writer
  BY <1>1 DEF Idle, Writer, Places
<1>3. contexts \in [DOMAIN contexts -> Rows] /\ DOMAIN contexts = {}
  BY DEF Init
<1>4. RowTypes
  BY <1>2, <1>3 DEF Init, RowTypes
<1>5. \A w \in Writers : writer[w].pc = "idle"
  BY DEF Init, Idle
<1> QED BY <1>4, <1>5 DEF WInv, Sound

\* What w does leaves the calls of the others sound, if it takes no lock of theirs
\* and changes the state of no row without its lock.
LEMMA Others ==
    ASSUME WInv, NEW w, NEW v \in Writers \ {w},
           writer'[v] = writer[v],
           \A c \in Contexts : holder[c] \notin {None, w} => holder'[c] = holder[c],
           DOMAIN contexts \subseteq DOMAIN contexts',
           \A c \in DOMAIN contexts : holder[c] # w => contexts'[c].state = contexts[c].state
    PROVE  Sound(v)'
<1>1. Sound(v) /\ DOMAIN contexts \subseteq Contexts /\ v # None /\ v # w
  BY ContextsAssumption DEF WInv, RowTypes
<1>2. Relies(v)' <=> Relies(v)
  BY DEF Relies
<1>3. CASE writer[v].pc = "idle"
  BY <1>3 DEF Sound
<1>4. CASE writer[v].pc # "idle"
  <2> DEFINE c == writer[v].job.ctx
  <2>1. c \in DOMAIN contexts /\ c \in Contexts /\ c \in DOMAIN contexts'
    BY <1>1, <1>4 DEF Sound
  <2>2. holder[c] = v => holder'[c] = v /\ contexts'[c].state = contexts[c].state
    BY <1>1, <2>1
  <2>3. writer'[v].job.ctx = c
    OBVIOUS
  <2>4. /\ writer[v].job \in Jobs
        /\ DOMAIN writer[v].out # {} => holder[c] = v
        /\ writer[v].job.status # None /\ writer[v].pc # "status" => holder[c] = v
        /\ writer[v].pc = "status" => DOMAIN writer[v].out = {} /\ writer[v].job.status # None
        /\ writer[v].pc # "commit" => "state" \notin DOMAIN writer[v].out
        /\ "state" \in DOMAIN writer[v].out =>
              writer[v].out.state = Merged(writer[v].loaded.state, writer[v].job.patch)
        /\ Relies(v) => /\ writer[v].loaded \in Rows
                        /\ writer[v].job.status # None => writer[v].loaded.state = contexts[c].state
    BY <1>1, <1>4 DEF Sound
  <2>5. Relies(v) => writer[v].pc # "status"
    BY DEF Relies
  <2> HIDE DEF c
  <2> QED BY <1>2, <1>4, <2>1, <2>2, <2>3, <2>4, <2>5 DEF Sound
<1> QED BY <1>3, <1>4

\* A statement of the call of w.
LEMMA Statement ==
    ASSUME WInv, NEW w \in Writers, NEW new \in Writer,
           writer' = [writer EXCEPT ![w] = new],
           UNCHANGED contexts,
           \/ UNCHANGED holder
           \/ new.pc # "idle" /\ new.job = writer[w].job /\ Locks(w, new.job.ctx),
           Sound(w)'
    PROVE  WInv'
<1>1. writer' \in [Writers -> Writer]
  BY DEF WInv, RowTypes
<1>2. /\ holder' \in [Contexts -> Writers \union {None}]
      /\ \A c \in Contexts : holder[c] \notin {None, w} => holder'[c] = holder[c]
  BY DEF WInv, RowTypes, Locks
<1>3. \A v \in Writers \ {w} : Sound(v)'
  BY <1>2, Others DEF WInv, RowTypes
<1> QED BY <1>1, <1>2, <1>3 DEF WInv, RowTypes

LEMMA AfterFacts ==
    ASSUME NEW job
    PROVE  /\ After(job, "status") \in {"status", "load", "commit"}
           /\ After(job, "status") = "status" <=> job.status # None
           /\ After(job, "load") \in {"load", "commit"}
           /\ After(job, "summary") \in {"summary", "state", "commit"}
           /\ After(job, "state") \in {"state", "commit"}
  BY DEF After

LEMMA MergedType ==
    ASSUME NEW state \in Patches, NEW patch \in Patches
    PROVE  Merged(state, patch) \in Patches
  BY DEF Merged, Patches

\* The steps of w, as they change the record of its call.
LEMMA CallStep ==
    ASSUME WInv, NEW w \in Writers,
           Calls(w) \/ SetsStatus(w) \/ Loads(w) \/ UpdatesSummary(w) \/ UpdatesState(w)
    PROVE  WInv'
<1> DEFINE old == writer[w]
           job == old.job
<1>1. /\ writer \in [Writers -> Writer] /\ Sound(w) /\ RowTypes
      /\ old \in Writer /\ w # None
  BY ContextsAssumption DEF WInv, RowTypes
<1>2. /\ old.pc \in Places /\ old.loaded \in Rows \union {None} /\ old.out \in Outs
      /\ old = [pc |-> old.pc, job |-> old.job, loaded |-> old.loaded, out |-> old.out]
  BY <1>1 DEF Writer
<1>3. ASSUME NEW p \in Places, NEW j \in Jobs, NEW l \in Rows \union {None}, NEW o \in Outs
      PROVE  [pc |-> p, job |-> j, loaded |-> l, out |-> o] \in Writer
  BY <1>3 DEF Writer
<1>4. CASE Calls(w)
  <2>1. PICK j \in Jobs : /\ j.ctx \in DOMAIN contexts
                          /\ writer' = [writer EXCEPT ![w] = [pc |-> After(j, "status"), job |-> j,
                                                              loaded |-> None, out |-> << >>]]
    BY <1>4 DEF Calls
  <2> DEFINE new == [pc |-> After(j, "status"), job |-> j, loaded |-> None, out |-> << >>]
  <2>2. writer' = [writer EXCEPT ![w] = new]
    BY <2>1
  <2>3. new \in Writer
    BY <1>3, AfterFacts, EmptyOut DEF Places
  <2>4. writer'[w] = new
    BY <1>1, <2>2
  <2>5. Sound(w)'
    BY <1>4, <2>1, <2>4, AfterFacts DEF Sound, Relies, Calls
  <2>6. UNCHANGED <<contexts, holder>>
    BY <1>4 DEF Calls
  <2> HIDE DEF new
  <2> QED BY <2>2, <2>3, <2>5, <2>6, Statement
<1>5. CASE SetsStatus(w)
  <2>1. /\ old.pc = "status" /\ Locks(w, job.ctx) /\ UNCHANGED contexts
        /\ job \in Jobs /\ job.ctx \in DOMAIN contexts
    BY <1>1, <1>5 DEF SetsStatus, Sound
  <2> DEFINE new == [pc |-> After(job, "load"), job |-> job, loaded |-> old.loaded,
                     out |-> [status |-> job.status]]
  <2>2. writer' = [writer EXCEPT ![w] = new]
    BY <1>5 DEF SetsStatus, GoesOn
  <2>3. IsOut([status |-> job.status])
    BY <1>1, <2>1 DEF IsOut, Columns, Jobs, Sound
  <2>4. [status |-> job.status] \in Outs
    <3>1. [status |-> job.status] \in [{"status"} -> Statuses \union Optional \union Patches]
      BY <2>3 DEF IsOut
    <3>2. {"status"} \in SUBSET Columns
      BY DEF Columns
    <3> QED BY <2>3, <3>1, <3>2 DEF Outs
  <2>5. new \in Writer
    BY <1>2, <1>3, <2>1, <2>4, AfterFacts DEF Places
  <2>6. writer'[w] = new
    BY <1>1, <2>2
  <2>7. holder'[job.ctx] = w
    BY <1>1, <2>1 DEF Locks, RowTypes
  <2>8. new.pc \in {"load", "commit"}
    BY AfterFacts
  <2>9. Sound(w)'
    BY <2>1, <2>6, <2>7, <2>8 DEF Sound, Relies
  <2>10. new.pc # "idle" /\ new.job = job
    BY <2>8
  <2> HIDE DEF new
  <2> QED BY <2>1, <2>2, <2>5, <2>9, <2>10, Statement
<1>6. CASE Loads(w)
  <2>1. /\ old.pc = "load" /\ UNCHANGED <<contexts, holder>>
        /\ job \in Jobs /\ job.ctx \in DOMAIN contexts
        /\ DOMAIN old.out # {} => holder[job.ctx] = w
        /\ job.status # None => holder[job.ctx] = w
        /\ "state" \notin DOMAIN old.out
    BY <1>1, <1>6 DEF Loads, Sound
  <2> DEFINE row == Over(old.out, contexts[job.ctx])
             new == [pc |-> After(job, "summary"), job |-> job, loaded |-> row, out |-> old.out]
  <2>2. writer' = [writer EXCEPT ![w] = new]
    BY <1>6 DEF Loads, GoesOn
  <2>3. row \in Rows /\ row.state = contexts[job.ctx].state
    BY <1>1, <1>2, <2>1, OverRow DEF Outs, RowTypes
  <2>4. new \in Writer
    BY <1>2, <1>3, <2>1, <2>3, AfterFacts DEF Places
  <2>5. writer'[w] = new
    BY <1>1, <2>2
  <2>6. new.pc \in {"summary", "state", "commit"}
    BY AfterFacts
  <2> HIDE DEF row
  <2>7. Sound(w)'
    BY <2>1, <2>3, <2>5, <2>6 DEF Sound, Relies
  <2> HIDE DEF new
  <2> QED BY <2>1, <2>2, <2>4, <2>7, Statement
<1>7. CASE UpdatesSummary(w)
  <2>1. /\ old.pc = "summary" /\ Locks(w, job.ctx) /\ UNCHANGED contexts
        /\ job \in Jobs /\ job.ctx \in DOMAIN contexts
        /\ "state" \notin DOMAIN old.out
        /\ old.loaded \in Rows
        /\ job.status # None => old.loaded.state = contexts[job.ctx].state
    BY <1>1, <1>7 DEF UpdatesSummary, Sound, Relies
  <2> DEFINE net == Net(old.loaded, "summary", job.summary)
             out == Over(net, old.out)
             new == [pc |-> After(job, "state"), job |-> job, loaded |-> old.loaded, out |-> out]
  <2>2. writer' = [writer EXCEPT ![w] = new]
    BY <1>7 DEF UpdatesSummary, GoesOn
  <2>3. net \in Outs /\ DOMAIN net \subseteq {"summary"}
    BY <2>1, NetOut DEF Jobs, Columns
  <2>4. out \in Outs
    BY <1>2, <2>3, OutOver
  <2>5. "state" \notin DOMAIN out
    BY <2>1, <2>3 DEF Over
  <2>6. new \in Writer
    BY <1>2, <1>3, <2>1, <2>4, AfterFacts DEF Places
  <2>7. writer'[w] = new
    BY <1>1, <2>2
  <2>8. holder'[job.ctx] = w
    BY <1>1, <2>1 DEF Locks, RowTypes
  <2>9. new.pc \in {"state", "commit"}
    BY AfterFacts
  <2> HIDE DEF net, out
  <2>10. Sound(w)'
    BY <2>1, <2>5, <2>7, <2>8, <2>9 DEF Sound, Relies
  <2>11. new.pc # "idle" /\ new.job = job
    BY <2>9
  <2> HIDE DEF new
  <2> QED BY <2>1, <2>2, <2>6, <2>10, <2>11, Statement
<1>8. CASE UpdatesState(w)
  <2>1. /\ old.pc = "state" /\ Locks(w, job.ctx) /\ UNCHANGED contexts
        /\ job \in Jobs /\ job.ctx \in DOMAIN contexts
        /\ "state" \notin DOMAIN old.out
        /\ old.loaded \in Rows
        /\ job.status # None => old.loaded.state = contexts[job.ctx].state
    BY <1>1, <1>8 DEF UpdatesState, Sound, Relies
  <2> DEFINE merged == Merged(old.loaded.state, job.patch)
             net == Net(old.loaded, "state", merged)
             out == Over(net, old.out)
             new == [pc |-> "commit", job |-> job, loaded |-> old.loaded, out |-> out]
  <2>2. writer' = [writer EXCEPT ![w] = new]
    BY <1>8 DEF UpdatesState, GoesOn
  <2>3. merged \in Patches
    BY <2>1, MergedType DEF Jobs, Rows
  <2> HIDE DEF merged
  <2>4. /\ net \in Outs /\ DOMAIN net \subseteq {"state"}
        /\ "state" \in DOMAIN net => net["state"] = merged
    BY <2>3, NetOut DEF Columns
  <2>5. out \in Outs
    BY <1>2, <2>4, OutOver
  <2>6. "state" \in DOMAIN out => out.state = merged
    BY <2>1, <2>4 DEF Over
  <2>7. new \in Writer
    BY <1>2, <1>3, <2>1, <2>5 DEF Places
  <2>8. writer'[w] = new
    BY <1>1, <2>2
  <2>9. holder'[job.ctx] = w
    BY <1>1, <2>1 DEF Locks, RowTypes
  <2> HIDE DEF net, out
  <2>10. Sound(w)'
    BY <2>1, <2>6, <2>8, <2>9 DEF Sound, Relies, merged
  <2>11. new.pc # "idle" /\ new.job = job
    OBVIOUS
  <2> HIDE DEF new
  <2> QED BY <2>1, <2>2, <2>7, <2>10, <2>11, Statement
<1> QED BY <1>4, <1>5, <1>6, <1>7, <1>8

\* The end of a call.
LEMMA CallEnds ==
    ASSUME WInv, NEW w \in Writers, Commits(w) \/ Dies(w)
    PROVE  WInv'
<1>1. /\ writer \in [Writers -> Writer] /\ Sound(w) /\ RowTypes /\ w # None
      /\ writer[w].pc # "idle" /\ writer[w].out \in Outs
      /\ holder' = Unlocked(w)
      /\ writer' = [writer EXCEPT ![w] = Idle]
  BY ContextsAssumption DEF WInv, RowTypes, Commits, Dies, Writer
<1>2. Idle \in Writer /\ Idle.pc = "idle"
  <2>1. Idle = [pc |-> "idle", job |-> None, loaded |-> None, out |-> << >>]
    BY DEF Idle
  <2> QED BY <2>1, EmptyOut DEF Writer, Places
<1>3. writer' \in [Writers -> Writer] /\ Sound(w)'
  BY <1>1, <1>2 DEF Sound
<1>4. /\ holder' \in [Contexts -> Writers \union {None}]
      /\ \A c \in Contexts : holder[c] \notin {None, w} => holder'[c] = holder[c]
  BY <1>1 DEF RowTypes, Unlocked
<1>5. /\ DOMAIN contexts' = DOMAIN contexts /\ contexts' \in [DOMAIN contexts' -> Rows]
      /\ \A c \in DOMAIN contexts : holder[c] # w => contexts'[c].state = contexts[c].state
  <2>1. CASE Dies(w)
    BY <1>1, <2>1 DEF Dies, RowTypes
  <2>2. CASE Commits(w)
    <3> DEFINE c == writer[w].job.ctx
               row == Over(writer[w].out, contexts[c])
    <3>1. contexts' = [contexts EXCEPT ![c] = row] /\ c \in DOMAIN contexts
      BY <1>1, <2>2 DEF Commits, Publish, Sound
    <3>2. row \in Rows /\ ("state" \notin DOMAIN writer[w].out => row.state = contexts[c].state)
      BY <1>1, <3>1, OverRow DEF Outs, RowTypes
    <3>3. DOMAIN writer[w].out # {} => holder[c] = w
      BY <1>1 DEF Sound
    <3> HIDE DEF row
    <3> QED BY <1>1, <3>1, <3>2, <3>3 DEF RowTypes
  <2> QED BY <2>1, <2>2, <1>1
<1>6. \A v \in Writers \ {w} : Sound(v)'
  BY <1>1, <1>4, <1>5, Others
<1> QED BY <1>1, <1>3, <1>4, <1>5, <1>6 DEF WInv, RowTypes

LEMMA Creates ==
    ASSUME WInv, NEW c \in Contexts, Create(c)
    PROVE  WInv'
<1>1. PICK summary \in Optional :
        contexts' = [x \in DOMAIN contexts \union {c} |->
                       IF x = c
                       THEN [status |-> "active", summary |-> summary, state |-> NoPatch]
                       ELSE contexts[x]]
  BY DEF Create, Publish
<1>2. c \notin DOMAIN contexts /\ UNCHANGED <<holder, writer>> /\ RowTypes
  BY DEF Create, WInv
<1>3. [status |-> "active", summary |-> summary, state |-> NoPatch] \in Rows
  BY DEF Rows, Statuses, NoPatch, Patches
<1>4. /\ DOMAIN contexts' = DOMAIN contexts \union {c}
      /\ contexts' \in [DOMAIN contexts' -> Rows]
      /\ \A x \in DOMAIN contexts : contexts'[x] = contexts[x]
  BY <1>1, <1>2, <1>3 DEF RowTypes
<1>5. \A v \in Writers : Sound(v)'
  <2> SUFFICES ASSUME NEW v \in Writers PROVE Sound(v)'
    OBVIOUS
  <2>1. v \in Writers \ {None}
    BY ContextsAssumption
  <2> QED BY <2>1, <1>2, <1>4, Others
<1> QED BY <1>2, <1>4, <1>5 DEF WInv, RowTypes

LEMMA WriterSteps == WInv /\ [Next]_vars => WInv'
<1> SUFFICES ASSUME WInv, [Next]_vars
             PROVE  WInv'
  OBVIOUS
<1>1. ASSUME UNCHANGED <<contexts, holder, writer>>
      PROVE  WInv'
  BY <1>1 DEF WInv, RowTypes, Sound, Relies
<1>2. ASSUME NEW t \in Turns, Begins(t) \/ ListsCandidates(t) \/ ListsActive(t) \/ Resolves(t)
      PROVE  UNCHANGED <<contexts, holder, writer>>
  BY <1>2 DEF Begins, ListsCandidates, ListsActive, Resolves
<1> QED BY <1>1, <1>2, CallStep, CallEnds, Creates DEF Next, vars

\* A call puts a key it does not name back only if it loaded the row before the
\* change was committed and had not locked it by setting a status
\* (wax_runtime update_context, context_repository.py).
THEOREM WipesAreStale == Spec => WipedOnlyByStaleRead
<1> DEFINE Clean == \A w \in Writers : writer[w].pc = "commit" /\ writer'[w].pc = "idle" =>
              LET c == writer[w].job.ctx IN
              \A k \in Wiped(w, c) :
                 /\ writer[w].job.status = None
                 /\ writer[w].loaded.state[k] # contexts[c].state[k]
<1>1. ASSUME WInv, Next, NEW w \in Writers, writer[w].pc = "commit", writer'[w].pc = "idle",
             NEW k \in Wiped(w, writer[w].job.ctx)
      PROVE  /\ writer[w].job.status = None
             /\ writer[w].loaded.state[k] # contexts[writer[w].job.ctx].state[k]
  <2> DEFINE c == writer[w].job.ctx
             out == writer[w].out
  <2>1. /\ Sound(w) /\ RowTypes /\ out \in Outs
        /\ c \in DOMAIN contexts /\ writer[w].job \in Jobs
    BY <1>1 DEF WInv, RowTypes, Writer, Sound
  <2>2. k \in Keys /\ contexts'[c].state[k] # contexts[c].state[k] /\ writer[w].job.patch[k] = None
    BY <1>1 DEF Wiped
  <2>3. contexts' # contexts
    BY <2>2
  <2>4. Commits(w)
    <3>1. ASSUME NEW v \in Writers, v # w, Commits(v)
          PROVE  writer'[w] = writer[w]
      BY <2>1, <3>1 DEF Commits, RowTypes
    <3>2. ASSUME NEW d \in Contexts, Create(d)
          PROVE  writer'[w] = writer[w]
      BY <3>2 DEF Create
    <3> QED BY <1>1, <2>3, <3>1, <3>2 DEF Next, Calls, SetsStatus, Loads, UpdatesSummary,
             UpdatesState, Dies, Begins, ListsCandidates, ListsActive, Resolves
  <2>5. contexts'[c] = Over(out, contexts[c])
    BY <2>1, <2>4 DEF Commits, Publish, RowTypes
  <2>6. "state" \in DOMAIN out /\ contexts'[c].state = out.state
    BY <2>1, <2>2, <2>5, OverRow DEF Outs, RowTypes
  <2>7. out.state = Merged(writer[w].loaded.state, writer[w].job.patch) /\ Relies(w)
    BY <1>1, <2>1, <2>6 DEF Sound, Relies
  <2>8. contexts'[c].state[k] = writer[w].loaded.state[k]
    BY <2>2, <2>6, <2>7 DEF Merged
  <2>9. writer[w].job.status # None => writer[w].loaded.state = contexts[c].state
    BY <1>1, <2>1, <2>7 DEF Sound
  <2> QED BY <2>2, <2>8, <2>9
<1>2. WInv /\ [Next]_vars => [Clean]_vars
  BY <1>1
<1> QED BY <1>2, WritersBegin, WriterSteps, PTL DEF Spec, WipedOnlyByStaleRead

-----------------------------------------------------------------------------
(* Turns.                                                                  *)

Packets == [kind : {"none", "general", "specific", "ambiguous", "new", "broken"},
            ctx : Contexts \union {None}, row : Rows \union {None},
            how : {None, "keyword", "model"}]
Known == UNION {[D -> Rows] : D \in SUBSET Contexts}
Turn == [pc : {"idle"} \union Reading, cands : SUBSET Contexts, known : Known, packet : Packets]

\* A turn in progress has lived through the rows that are committed and those it
\* holds; its candidates are among the latter, and were active.
Attentive(t) ==
    /\ turn[t].pc \in Reading =>
          /\ Committed(contexts) \subseteq past[t]
          /\ Committed(turn[t].known) \subseteq past[t]
    /\ turn[t].pc = "lists" => DOMAIN turn[t].known = {}
    /\ turn[t].pc = "lists_again" =>
          \A c \in turn[t].cands : c \in DOMAIN turn[t].known /\ turn[t].known[c].status = "active"

TInv ==
    /\ turn \in [Turns -> Turn]
    /\ past \in [Turns -> SUBSET (Contexts \X Rows)]
    /\ \A t \in Turns : Attentive(t)
    /\ PacketIsOfThisTurn

LEMMA QuietTurn ==
    ASSUME NEW packet \in Packets
    PROVE  [Quiet EXCEPT !.packet = packet]
             = [pc |-> "idle", cands |-> {}, known |-> << >>, packet |-> packet]
  BY DEF Quiet

\* What was committed stays part of the turns that lived through it.
LEMMA Lived ==
    ASSUME TInv, WInv, WInv', UNCHANGED turn,
           past' = [t \in Turns |->
                      IF turn[t].pc \in Reading THEN past[t] \union Committed(contexts)' ELSE past[t]]
    PROVE  TInv'
<1>1. Committed(contexts)' \subseteq Contexts \X Rows
  BY DEF Committed, WInv, RowTypes
<1>2. past' \in [Turns -> SUBSET (Contexts \X Rows)]
  BY <1>1 DEF TInv
<1>3. \A t \in Turns : Attentive(t)'
  <2> SUFFICES ASSUME NEW t \in Turns PROVE Attentive(t)'
    OBVIOUS
  <2>1. Attentive(t)
    BY DEF TInv
  <2>2. turn[t].pc \in Reading => past'[t] = past[t] \union Committed(contexts)'
    OBVIOUS
  <2>3. Committed(turn[t].known)' = Committed(turn[t].known)
    BY DEF Committed
  <2> QED BY <2>1, <2>2, <2>3 DEF Attentive
<1>4. PacketIsOfThisTurn'
  BY DEF TInv, PacketIsOfThisTurn
<1> QED BY <1>2, <1>3, <1>4 DEF TInv

\* A turn that reads on, or ends, leaves the other turns as they are.
LEMMA Alone ==
    ASSUME TInv, NEW t \in Turns, NEW new \in Turn, turn' = [turn EXCEPT ![t] = new],
           past' \in [Turns -> SUBSET (Contexts \X Rows)],
           \A u \in Turns \ {t} : past'[u] = past[u],
           UNCHANGED contexts,
           Attentive(t)',
           new.packet.kind = "specific" =>
              /\ <<new.packet.ctx, new.packet.row>> \in past'[t]
              /\ new.packet.how = "keyword" => new.packet.row.status = "active"
    PROVE  TInv'
<1>1. turn' \in [Turns -> Turn] /\ turn'[t] = new /\ \A u \in Turns \ {t} : turn'[u] = turn[u]
  BY DEF TInv
<1>2. \A u \in Turns \ {t} : Attentive(u)'
  BY <1>1 DEF TInv, Attentive, Committed
<1>3. PacketIsOfThisTurn'
  BY <1>1 DEF TInv, PacketIsOfThisTurn
<1> QED BY <1>1, <1>2, <1>3 DEF TInv

\* A session that loads rows of the table in addition to those it holds.
LEMMA Loading ==
    ASSUME NEW known \in Known, NEW rows, NEW D \in SUBSET Contexts, rows \in [D -> Rows],
           NEW lived, Committed(known) \subseteq lived, Committed(rows) \subseteq lived
    PROVE  /\ Over(known, rows) \in Known
           /\ Committed(Over(known, rows)) \subseteq lived
<1> DEFINE all == Over(known, rows)
<1>1. PICK E \in SUBSET Contexts : known \in [E -> Rows]
  BY DEF Known
<1>2. all \in [E \union D -> Rows]
  BY <1>1 DEF Over
<1>3. ASSUME NEW c \in DOMAIN all
      PROVE  <<c, all[c]>> \in lived
  <2>1. CASE c \in DOMAIN known
    BY <1>3, <2>1 DEF Over, Committed
  <2>2. CASE c \notin DOMAIN known
    BY <1>3, <2>2 DEF Over, Committed
  <2> QED BY <2>1, <2>2
<1> HIDE DEF all
<1>4. Committed(all) \subseteq lived
  BY <1>3 DEF Committed
<1>5. all \in Known
  BY <1>2 DEF Known
<1> QED BY <1>4, <1>5 DEF all

\* The steps of a turn.
LEMMA TurnStep ==
    ASSUME TInv, WInv, NEW t \in Turns,
           Begins(t) \/ ListsCandidates(t) \/ ListsActive(t) \/ Resolves(t)
    PROVE  TInv'
<1> DEFINE old == turn[t]
<1>1. /\ old \in Turn /\ old.cands \in SUBSET Contexts /\ old.known \in Known
      /\ Attentive(t) /\ turn \in [Turns -> Turn] /\ past \in [Turns -> SUBSET (Contexts \X Rows)]
      /\ DOMAIN contexts \subseteq Contexts /\ contexts \in [DOMAIN contexts -> Rows]
      /\ UNCHANGED contexts
  BY DEF TInv, Turn, WInv, RowTypes, Begins, ListsCandidates, ListsActive, Resolves
<1>2. ASSUME NEW k \in {"general", "ambiguous", "new", "broken"}, Ends(t, Packet(k)), 
             past' \in [Turns -> SUBSET (Contexts \X Rows)],
             \A u \in Turns \ {t} : past'[u] = past[u]
      PROVE  TInv'
  <2>1. Packet(k) = [kind |-> k, ctx |-> None, row |-> None, how |-> None]
    BY DEF Packet, NoPacket
  <2>2. Packet(k) \in Packets /\ Packet(k).kind # "specific"
    BY <2>1 DEF Packets
  <2> DEFINE new == [pc |-> "idle", cands |-> {}, known |-> << >>, packet |-> Packet(k)]
  <2>3. turn' = [turn EXCEPT ![t] = new]
    BY <1>2, <2>2, QuietTurn DEF Ends
  <2>4. << >> \in Known
    <3>1. << >> \in [{} -> Rows]
      OBVIOUS
    <3> QED BY <3>1 DEF Known
  <2>5. new \in Turn
    BY <2>2, <2>4 DEF Turn
  <2>6. Attentive(t)'
    BY <1>1, <2>3 DEF Attentive, Reading
  <2>7. new.packet.kind # "specific"
    BY <2>2
  <2> HIDE DEF new
  <2> QED BY <1>1, <1>2, <2>3, <2>5, <2>6, <2>7, Alone
<1>3. ASSUME NEW c \in Contexts, NEW row \in Rows, NEW how \in {"keyword", "model"},
             Ends(t, Specific(c, row, how)), UNCHANGED past,
             <<c, row>> \in past[t], how = "keyword" => row.status = "active"
      PROVE  TInv'
  <2> DEFINE packet == Specific(c, row, how)
             new == [pc |-> "idle", cands |-> {}, known |-> << >>, packet |-> packet]
  <2>1. packet \in Packets
    BY DEF Packets, Specific
  <2>2. turn' = [turn EXCEPT ![t] = new]
    BY <1>3, <2>1, QuietTurn DEF Ends
  <2>3. << >> \in Known
    <3>1. << >> \in [{} -> Rows]
      OBVIOUS
    <3> QED BY <3>1 DEF Known
  <2>4. new \in Turn
    BY <2>1, <2>3 DEF Turn
  <2>5. Attentive(t)'
    BY <1>1, <2>2 DEF Attentive, Reading
  <2>6. new.packet.ctx = c /\ new.packet.row = row /\ new.packet.how = how
    BY DEF Specific
  <2> HIDE DEF new
  <2> QED BY <1>1, <1>3, <2>2, <2>4, <2>5, <2>6, Alone
<1>4. ASSUME NEW p \in Reading, NEW cands \in SUBSET Contexts, NEW known \in Known,
             Reads(t, p, cands, known),
             past' \in [Turns -> SUBSET (Contexts \X Rows)],
             \A u \in Turns \ {t} : past'[u] = past[u],
             Committed(contexts) \subseteq past'[t], Committed(known) \subseteq past'[t],
             p = "lists" => DOMAIN known = {},
             p = "lists_again" => \A c \in cands : c \in DOMAIN known /\ known[c].status = "active"
      PROVE  TInv'
  <2> DEFINE new == [pc |-> p, cands |-> cands, known |-> known, packet |-> NoPacket]
  <2>1. new \in Turn /\ new.packet.kind # "specific"
    BY <1>4 DEF Turn, Packets, NoPacket
  <2>2. turn' = [turn EXCEPT ![t] = new]
    BY <1>4 DEF Reads
  <2>3. Attentive(t)'
    BY <1>1, <1>4, <2>2 DEF Attentive, Committed
  <2> HIDE DEF new
  <2> QED BY <1>1, <1>4, <2>1, <2>2, <2>3, Alone
<1>5. CASE Begins(t)
  <2>1. past' = [past EXCEPT ![t] = Committed(contexts)]
    BY <1>5 DEF Begins
  <2>2. Committed(contexts) \subseteq Contexts \X Rows
    BY <1>1 DEF Committed
  <2>3. /\ past' \in [Turns -> SUBSET (Contexts \X Rows)]
        /\ \A u \in Turns \ {t} : past'[u] = past[u]
        /\ past'[t] = Committed(contexts)
    BY <1>1, <2>1, <2>2
  <2>4. << >> \in Known /\ Committed(<< >>) = {} /\ DOMAIN << >> = {}
    <3>1. << >> \in [{} -> Rows]
      OBVIOUS
    <3> QED BY <3>1 DEF Known, Committed
  <2>5. CASE Reads(t, "lists", {}, << >>)
    BY <1>4, <2>3, <2>4, <2>5 DEF Reading
  <2>6. CASE Ends(t, Packet("general"))
    BY <1>2, <2>3, <2>6
  <2> QED BY <1>5, <2>5, <2>6 DEF Begins, Opened
<1>6. CASE ListsCandidates(t)
  <2>1. PICK cands \in SUBSET Active :
          Reads(t, "lists_again", cands, Over(old.known, [c \in cands |-> contexts[c]]))
    BY <1>6 DEF ListsCandidates
  <2> DEFINE rows == [c \in cands |-> contexts[c]]
             known == Over(old.known, rows)
  <2>2. UNCHANGED past /\ old.pc = "lists" /\ old.pc \in Reading
    BY <1>6 DEF ListsCandidates, Reading
  <2>3. /\ cands \in SUBSET Contexts /\ cands \subseteq DOMAIN contexts
        /\ \A c \in cands : contexts[c].status = "active"
    BY <1>1, <2>1 DEF Active
  <2>4. rows \in [cands -> Rows] /\ Committed(rows) \subseteq past[t]
    BY <1>1, <2>2, <2>3 DEF Attentive, Committed
  <2>5. Committed(old.known) \subseteq past[t] /\ Committed(contexts) \subseteq past[t]
    BY <1>1, <2>2 DEF Attentive
  <2>6. known \in Known /\ Committed(known) \subseteq past[t]
    BY <1>1, <2>3, <2>4, <2>5, Loading
  <2>7. DOMAIN old.known = {}
    BY <1>1, <1>6 DEF Attentive, ListsCandidates
  <2>8. \A c \in cands : c \in DOMAIN known /\ known[c].status = "active"
    BY <2>3, <2>7 DEF Over
  <2> HIDE DEF known
  <2> QED BY <1>1, <1>4, <2>1, <2>2, <2>3, <2>5, <2>6, <2>8 DEF Reading, known
<1>7. CASE ListsActive(t)
  <2> DEFINE rows == [c \in Active |-> contexts[c]]
             known == Over(old.known, rows)
  <2>1. UNCHANGED past /\ old.pc = "lists_again" /\ old.pc \in Reading
    BY <1>7 DEF ListsActive, Reading
  <2>2. Active \in SUBSET Contexts /\ Active \subseteq DOMAIN contexts
    BY <1>1 DEF Active
  <2>3. rows \in [Active -> Rows] /\ Committed(rows) \subseteq past[t]
    BY <1>1, <2>1, <2>2 DEF Attentive, Committed
  <2>4. Committed(old.known) \subseteq past[t] /\ Committed(contexts) \subseteq past[t]
    BY <1>1, <2>1 DEF Attentive
  <2>5. known \in Known /\ Committed(known) \subseteq past[t]
    BY <1>1, <2>2, <2>3, <2>4, Loading
  <2>6. \A c \in old.cands : c \in DOMAIN known /\ known[c].status = "active"
    BY <1>1, <2>1 DEF Over, Attentive
  <2>7. CASE Ends(t, Packet("general"))
    BY <1>1, <1>2, <2>1, <2>7
  <2>8. ASSUME NEW c \in old.cands, Ends(t, Specific(c, known[c], "keyword"))
        PROVE  TInv'
    <3>1. /\ c \in Contexts /\ known[c] \in Rows /\ <<c, known[c]>> \in past[t]
          /\ known[c].status = "active"
      BY <1>1, <2>5, <2>6, <2>8 DEF Known, Committed
    <3> HIDE DEF known
    <3> QED BY <1>3, <2>1, <2>8, <3>1
  <2>9. CASE Reads(t, "asks", old.cands, known)
    BY <1>1, <1>4, <2>1, <2>4, <2>5, <2>9 DEF Reading
  <2> QED BY <1>7, <2>7, <2>8, <2>9 DEF ListsActive
<1>8. CASE Resolves(t)
  <2> DEFINE known == Over(old.known, contexts)
  <2>1. UNCHANGED past /\ old.pc = "asks" /\ old.pc \in Reading
    BY <1>8 DEF Resolves, Reading
  <2>2. Committed(old.known) \subseteq past[t] /\ Committed(contexts) \subseteq past[t]
    BY <1>1, <2>1 DEF Attentive
  <2>3. known \in Known /\ Committed(known) \subseteq past[t]
    BY <1>1, <2>2, Loading
  <2>4. ASSUME NEW c \in DOMAIN contexts, Ends(t, Specific(c, known[c], "model"))
        PROVE  TInv'
    <3>1. c \in Contexts /\ c \in DOMAIN known
      BY <1>1, <2>4 DEF Over
    <3>2. known[c] \in Rows /\ <<c, known[c]>> \in past[t]
      BY <2>3, <3>1 DEF Known, Committed
    <3> HIDE DEF known
    <3> QED BY <1>3, <2>1, <2>4, <3>1, <3>2
  <2>5. ASSUME NEW k \in {"ambiguous", "new", "general", "broken"}, Ends(t, Packet(k))
        PROVE  TInv'
    BY <1>1, <1>2, <2>1, <2>5
  <2> QED BY <1>8, <2>4, <2>5 DEF Resolves
<1> QED BY <1>5, <1>6, <1>7, <1>8

LEMMA TurnsBegin == Init => TInv
<1> SUFFICES ASSUME Init
             PROVE  TInv
  OBVIOUS
<1>1. Quiet = [pc |-> "idle", cands |-> {}, known |-> << >>, packet |-> NoPacket]
  BY DEF Quiet
<1>2. NoPacket = [kind |-> "none", ctx |-> None, row |-> None, how |-> None]
  BY DEF NoPacket
<1>3. << >> \in Known
  <2>1. << >> \in [{} -> Rows]
    OBVIOUS
  <2> QED BY <2>1 DEF Known
<1>4. Quiet \in Turn /\ Quiet.pc = "idle" /\ Quiet.packet.kind = "none"
  BY <1>1, <1>2, <1>3 DEF Turn, Packets
<1>5. turn = [t \in Turns |-> Quiet] /\ past = [t \in Turns |-> {}]
  BY DEF Init
<1> QED BY <1>4, <1>5 DEF TInv, Attentive, Reading, PacketIsOfThisTurn

LEMMA TurnSteps == TInv /\ WInv /\ WInv' /\ [Next]_vars => TInv'
<1> SUFFICES ASSUME TInv, WInv, WInv', [Next]_vars
             PROVE  TInv'
  OBVIOUS
<1>1. ASSUME UNCHANGED <<contexts, turn, past>>
      PROVE  TInv'
  BY <1>1 DEF TInv, Attentive, Committed, PacketIsOfThisTurn
<1>2. ASSUME NEW rows, Publish(rows), UNCHANGED turn
      PROVE  TInv'
  <2>1. contexts' = rows /\ Committed(rows) = Committed(contexts)'
    BY <1>2 DEF Publish, Committed
  <2> QED BY <1>2, <2>1, Lived DEF Publish
<1>3. ASSUME NEW c \in Contexts, Create(c)
      PROVE  TInv'
  BY <1>2, <1>3 DEF Create
<1>4. ASSUME NEW w \in Writers, Commits(w)
      PROVE  TInv'
  BY <1>2, <1>4 DEF Commits
<1>5. ASSUME NEW w \in Writers,
             Calls(w) \/ SetsStatus(w) \/ Loads(w) \/ UpdatesSummary(w) \/ UpdatesState(w) \/ Dies(w)
      PROVE  UNCHANGED <<contexts, turn, past>>
  BY <1>5 DEF Calls, SetsStatus, Loads, UpdatesSummary, UpdatesState, Dies
<1> QED BY <1>1, <1>3, <1>4, <1>5, TurnStep DEF Next, vars

\* The main model is shown one row, as it was committed while the turn was
\* resolved, however long the other model was awaited in between
\* (context_intelligence.py, _build_initial_messages of the bridge).
THEOREM PacketsAreTrue == Spec => []PacketIsOfThisTurn
<1>1. TInv => PacketIsOfThisTurn
  BY DEF TInv
<1> QED BY <1>1, TurnsBegin, TurnSteps, WritersBegin, WriterSteps, PTL DEF Spec
=============================================================================
