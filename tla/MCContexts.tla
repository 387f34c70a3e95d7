----------------------------- MODULE MCContexts -----------------------------
(* A context that two calls rewrite while a turn resolves, and a second one   *)
(* that the turn may be about instead; ids, keys and processes are alike.     *)
EXTENDS Contexts, TLC

CONSTANTS c1, c2, k1, k2, w1, w2
MCContexts == {c1, c2}
MCKeys == {k1, k2}
MCWriters == {w1, w2}
Alike == Permutations(MCContexts) \union Permutations(MCKeys) \union Permutations(MCWriters)

=============================================================================
