----------------------------- MODULE RateLimits ------------------------------
(***************************************************************************)
(* The flood control of the bridge (runtime/rate_limit.py): per principal, *)
(* the times of the calls let through, pruned when the principal calls     *)
(* again.  They are held in memory, and a restart forgets them.            *)
(*                                                                         *)
(* A list of times is a set here, in which a number tells apart what       *)
(* happened at the same instant of the monotonic clock.                    *)
(***************************************************************************)
EXTENDS Integers, FiniteSets

CONSTANTS
    Principals,
    Window,         \* window_seconds
    MaxMessages     \* max_messages_per_hour

VARIABLES
    now,        \* the monotonic clock
    hits,       \* _hits: per principal, the calls still remembered
    let,        \* ghost: per principal, all calls let through since the start
    calls       \* ghost: number of calls, the name of the next

vars == <<now, hits, let, calls>>

Init ==
    /\ now = 0 /\ calls = 0
    /\ hits = [p \in Principals |-> {}]
    /\ let = [p \in Principals |-> {}]

\* What the pruning leaves of hits; a call exactly one window ago is gone.
Recent(p) == {h \in hits[p] : h.at > now - Window}

\* check returns True.
Passes(p) ==
    /\ Cardinality(Recent(p)) < MaxMessages
    /\ LET call == [n |-> calls, at |-> now] IN
       /\ hits' = [hits EXCEPT ![p] = Recent(p) \union {call}]
       /\ let' = [let EXCEPT ![p] = @ \union {call}]
    /\ calls' = calls + 1
    /\ UNCHANGED now

\* check returns False.
Refuses(p) ==
    /\ ~(Cardinality(Recent(p)) < MaxMessages)
    /\ hits' = [hits EXCEPT ![p] = Recent(p)]
    /\ UNCHANGED <<now, let, calls>>

Ticks ==
    /\ now' \in Nat /\ now' > now
    /\ UNCHANGED <<hits, let, calls>>

Restarts ==
    /\ hits' = [p \in Principals |-> {}]
    /\ let' = [p \in Principals |-> {}]
    /\ UNCHANGED <<now, calls>>

Next == (\E p \in Principals : Passes(p) \/ Refuses(p)) \/ Ticks \/ Restarts

Spec == Init /\ [][Next]_vars

\* The calls of p let through in the window that ends at t.
During(p, t) == {h \in let[p] : t - Window < h.at /\ h.at <= t}

\* Between restarts, no window - wherever it begins, not only the hours that
\* end with a call - lets through more than the limit, though calls that were
\* pruned are forgotten (rate_limit.py:18-40).
FloodIsBounded ==
    \A p \in Principals : \A t \in Int : Cardinality(During(p, t)) <= MaxMessages

\* A refusal, and what remaining() says, rest on calls that were really let
\* through in the last window, and on all of them.
RecentIsExact ==
    \A p \in Principals : Recent(p) = During(p, now)

=============================================================================
