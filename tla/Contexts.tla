------------------------------ MODULE Contexts ------------------------------
(***************************************************************************)
(* The rows of contexts: the calls of create_context and update_context    *)
(* (wax_runtime, run by commands in processes and transactions of their    *)
(* own) and the turns that resolve which context a message is about        *)
(* (continuity/context_repository.py and context_intelligence.py, called   *)
(* by _build_initial_messages of the bridge).                              *)
(*                                                                         *)
(* A call rewrites a whole column from the row its session loaded, and     *)
(* locks the row with its first UPDATE.  A session never refreshes a row   *)
(* it holds, so a turn shows what it loaded before it awaited the model.   *)
(* All the contexts are of one principal; a row is never deleted.          *)
(***************************************************************************)
EXTENDS Integers, FiniteSets

CONSTANTS
    Contexts,   \* ids of contexts
    Keys,       \* keys of the living state
    Values,     \* values of a key, and summaries
    Writers,    \* processes that call update_context
    Turns,      \* turns of the principal
    MaxCalls,   \* bound: calls of update_context
    MaxTurns,   \* bound: resolutions
    None        \* an argument not given, a key not set, no context

ASSUME ContextsAssumption == None \notin Contexts \union Keys \union Values \union Writers

VARIABLES
    contexts,   \* the committed rows: a function from the ids created so far
    holder,     \* per context: the writer whose UPDATE locks the row
    writer,     \* the calls of update_context in progress
    turn,       \* the resolutions in progress, and the packet of the last one
    past,       \* ghost: per turn, the rows committed at some instant of it
    calls, turns

vars == <<contexts, holder, writer, turn, past, calls, turns>>

Statuses == {"active", "paused"}     \* any other status is like "paused"
Patches == [Keys -> Values \union {None}]
NoPatch == [k \in Keys |-> None]
Optional == Values \union {None}
Rows == [status : Statuses, summary : Optional, state : Patches]
Jobs == [ctx : Contexts, status : Statuses \union {None}, summary : Optional, patch : Patches]

Idle == [pc |-> "idle", job |-> None, loaded |-> None, out |-> << >>]
Reading == {"lists", "lists_again", "asks"}
NoPacket == [kind |-> "none", ctx |-> None, row |-> None, how |-> None]
Quiet == [pc |-> "idle", cands |-> {}, known |-> << >>, packet |-> NoPacket]

Init ==
    /\ contexts = << >>
    /\ holder = [c \in Contexts |-> None]
    /\ writer = [w \in Writers |-> Idle]
    /\ turn = [t \in Turns |-> Quiet]
    /\ past = [t \in Turns |-> {}]
    /\ calls = 0 /\ turns = 0

-----------------------------------------------------------------------------
(* Calls of wax_runtime. *)

\* f, and g where f has nothing to say.
Over(f, g) == [x \in DOMAIN f \union DOMAIN g |-> IF x \in DOMAIN f THEN f[x] ELSE g[x]]

Committed(rows) == {<<c, rows[c]>> : c \in DOMAIN rows}

\* The rows are now these: every turn in progress lives through it.
Publish(rows) ==
    /\ contexts' = rows
    /\ past' = [t \in Turns |->
                  IF turn[t].pc \in Reading THEN past[t] \union Committed(rows) ELSE past[t]]

Create(c) ==
    /\ c \notin DOMAIN contexts
    /\ \E summary \in Optional :
          Publish([x \in DOMAIN contexts \union {c} |->
                     IF x = c
                     THEN [status |-> "active", summary |-> summary, state |-> NoPatch]
                     ELSE contexts[x]])
    /\ UNCHANGED <<holder, writer, turn, calls, turns>>

\* update_context asks for the status, then the summary, then the state: the
\* first of its steps, from pc on, that the job needs.
After(job, pc) ==
    IF pc = "status" /\ job.status # None THEN "status"
    ELSE IF pc \in {"status", "load"} /\ (job.summary # None \/ job.patch # NoPatch) THEN "load"
    ELSE IF pc = "summary" /\ job.summary # None THEN "summary"
    ELSE IF pc \in {"summary", "state"} /\ job.patch # NoPatch THEN "state"
    ELSE "commit"

Calls(w) ==
    /\ writer[w].pc = "idle" /\ calls < MaxCalls
    /\ \E job \in Jobs :
          /\ job.ctx \in DOMAIN contexts
          /\ writer' = [writer EXCEPT ![w] = [pc |-> After(job, "status"), job |-> job,
                                              loaded |-> None, out |-> << >>]]
    /\ calls' = calls + 1
    /\ UNCHANGED <<contexts, holder, turn, past, turns>>

\* The call of w goes on at pc, with this row in its session and this to write.
GoesOn(w, pc, loaded, out) ==
    writer' = [writer EXCEPT ![w] = [pc |-> pc, job |-> @.job, loaded |-> loaded, out |-> out]]

Locks(w, c) ==
    /\ holder[c] \in {None, w}
    /\ holder' = [holder EXCEPT ![c] = w]

\* The columns an UPDATE of the unit of work carries: those whose value is new.
Net(loaded, column, value) ==
    IF loaded[column] = value THEN << >> ELSE [x \in {column} |-> value]

\* set_status: an UPDATE that loads nothing.
SetsStatus(w) ==
    LET job == writer[w].job IN
    /\ writer[w].pc = "status"
    /\ Locks(w, job.ctx)
    /\ GoesOn(w, After(job, "load"), writer[w].loaded, [status |-> job.status])
    /\ UNCHANGED <<contexts, turn, past, calls, turns>>

\* get: the committed row under this transaction's own updates; the session
\* holds it from now on.
Loads(w) ==
    LET job == writer[w].job IN
    /\ writer[w].pc = "load"
    /\ GoesOn(w, After(job, "summary"), Over(writer[w].out, contexts[job.ctx]), writer[w].out)
    /\ UNCHANGED <<contexts, holder, turn, past, calls, turns>>

UpdatesSummary(w) ==
    LET job == writer[w].job
        loaded == writer[w].loaded
    IN
    /\ writer[w].pc = "summary"
    /\ Locks(w, job.ctx)
    /\ GoesOn(w, After(job, "state"), loaded,
              Over(Net(loaded, "summary", job.summary), writer[w].out))
    /\ UNCHANGED <<contexts, turn, past, calls, turns>>

\* Mutant: update_state replaces the state.
MutantMerged(state, patch) == patch

Merged(state, patch) == [k \in Keys |-> IF patch[k] # None THEN patch[k] ELSE state[k]]

UpdatesState(w) ==
    LET job == writer[w].job
        loaded == writer[w].loaded
    IN
    /\ writer[w].pc = "state"
    /\ Locks(w, job.ctx)
    /\ GoesOn(w, "commit", loaded,
              Over(Net(loaded, "state", Merged(loaded.state, job.patch)), writer[w].out))
    /\ UNCHANGED <<contexts, turn, past, calls, turns>>

Unlocked(w) == [c \in Contexts |-> IF holder[c] = w THEN None ELSE holder[c]]

Commits(w) ==
    LET c == writer[w].job.ctx IN
    /\ writer[w].pc = "commit"
    /\ Publish([contexts EXCEPT ![c] = Over(writer[w].out, @)])
    /\ holder' = Unlocked(w)
    /\ writer' = [writer EXCEPT ![w] = Idle]
    /\ UNCHANGED <<turn, calls, turns>>

\* The command is killed, or its connection is lost: the call is rolled back.
Dies(w) ==
    /\ writer[w].pc # "idle"
    /\ holder' = Unlocked(w)
    /\ writer' = [writer EXCEPT ![w] = Idle]
    /\ UNCHANGED <<contexts, turn, past, calls, turns>>

-----------------------------------------------------------------------------
(* resolve_context. *)

Packet(kind) == [NoPacket EXCEPT !.kind = kind]

Specific(c, row, how) == [kind |-> "specific", ctx |-> c, row |-> row, how |-> how]

\* The resolution of t goes on at pc, with these candidates and rows.
Reads(t, pc, cands, known) ==
    turn' = [turn EXCEPT ![t] = [pc |-> pc, cands |-> cands, known |-> known,
                                 packet |-> NoPacket]]

Ends(t, packet) == turn' = [turn EXCEPT ![t] = [Quiet EXCEPT !.packet = packet]]

\* Mutant: the row shown for the last message is still in the session.
MutantOpened(t) ==
    LET p == turn[t].packet IN IF p.ctx = None THEN << >> ELSE [c \in {p.ctx} |-> p.row]

\* A message gets a session of its own, which holds no row yet.
Opened(t) == << >>

\* A message arrives; a short one is not resolved.
Begins(t) ==
    /\ turn[t].pc = "idle" /\ turns < MaxTurns
    /\ turns' = turns + 1
    /\ past' = [past EXCEPT ![t] = Committed(contexts)]
    /\ \/ Reads(t, "lists", {}, Opened(t))
       \/ Ends(t, Packet("general"))
    /\ UNCHANGED <<contexts, holder, writer, calls>>

Active == {c \in DOMAIN contexts : contexts[c].status = "active"}

\* resolve_by_keyword: the candidates are the active contexts whose label,
\* alias or summary shares a word with the message.
ListsCandidates(t) ==
    /\ turn[t].pc = "lists"
    /\ \E cands \in SUBSET Active :
          Reads(t, "lists_again", cands, Over(turn[t].known, [c \in cands |-> contexts[c]]))
    /\ UNCHANGED <<contexts, holder, writer, past, calls, turns>>

\* list_active again, by a later statement: rows already held keep the values
\* they were loaded with.  With no active context there is nothing to ask; a
\* single candidate that scores three is taken without asking.
ListsActive(t) ==
    LET cands == turn[t].cands
        known == Over(turn[t].known, [c \in Active |-> contexts[c]])
    IN
    /\ turn[t].pc = "lists_again"
    /\ \/ Active = {} /\ Ends(t, Packet("general"))
       \/ /\ Active # {} /\ Cardinality(cands) = 1
          /\ \E c \in cands : Ends(t, Specific(c, known[c], "keyword"))
       \/ /\ Active # {}
          /\ Reads(t, "asks", cands, known)
    /\ UNCHANGED <<contexts, holder, writer, past, calls, turns>>

\* The model answers, in whatever way, or the call fails.  A context it names
\* is looked up by its id alone: in the session first, then in the table.  An
\* answer that is JSON but no object is not parsed, and the turn fails.
Resolves(t) ==
    LET known == Over(turn[t].known, contexts) IN
    /\ turn[t].pc = "asks"
    /\ \/ \E c \in DOMAIN contexts : Ends(t, Specific(c, known[c], "model"))
       \/ \E kind \in {"ambiguous", "new", "general", "broken"} : Ends(t, Packet(kind))
    /\ UNCHANGED <<contexts, holder, writer, past, calls, turns>>

-----------------------------------------------------------------------------
Next ==
    \/ \E c \in Contexts : Create(c)
    \/ \E w \in Writers :
          Calls(w) \/ SetsStatus(w) \/ Loads(w) \/ UpdatesSummary(w)
             \/ UpdatesState(w) \/ Commits(w) \/ Dies(w)
    \/ \E t \in Turns : Begins(t) \/ ListsCandidates(t) \/ ListsActive(t) \/ Resolves(t)

Spec == Init /\ [][Next]_vars

-----------------------------------------------------------------------------
(* Properties. *)

\* Committed rows are whole, and a row is locked by the writer of a call to it.
TypeOK ==
    /\ \A c \in DOMAIN contexts : contexts[c] \in Rows
    /\ \A c \in Contexts : holder[c] # None => writer[holder[c]].job.ctx = c

\* The keys of the row of c whose value a step changes though the call of w,
\* which the step commits, does not name them.
Wiped(w, c) ==
    {k \in Keys : /\ contexts'[c].state[k] # contexts[c].state[k]
                  /\ writer[w].job.patch[k] = None}

\* update_context is advertised as a merge.  A key it does not name is put back
\* to an older value only by a call that set no status first (set_status locks
\* the row before it is read), and only when another call committed that key
\* after this one loaded the row.
WipedOnlyByStaleRead ==
    [][\A w \in Writers : writer[w].pc = "commit" /\ writer'[w].pc = "idle" =>
          LET c == writer[w].job.ctx IN
          \A k \in Wiped(w, c) :
             /\ writer[w].job.status = None
             /\ writer[w].loaded.state[k] # contexts[c].state[k]]_vars

\* The packet of a turn shows the main model one row as it was committed at
\* some instant of that turn - status, summary and state together, though the
\* model was awaited in between - and one that was active then, unless the
\* resolution named a context that was no longer, or never, listed.
PacketIsOfThisTurn ==
    \A t \in Turns :
       LET p == turn[t].packet IN
       p.kind = "specific" =>
          /\ <<p.ctx, p.row>> \in past[t]
          /\ p.how = "keyword" => p.row.status = "active"

=============================================================================
