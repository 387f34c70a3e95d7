----------------------------- MODULE MCMemories -----------------------------
(* Two episodes that may expire while reflection distils them, room for two  *)
(* more memories, and an edge between the first two.  3 is like 1 but not    *)
(* like 2, so that what counts as used decides between clusters.             *)
EXTENDS Memories

MCIds == 1..4
MCEarly == {1, 2}
MCSimilar == {<<2, 1>>, <<3, 1>>, <<4, 3>>}
MCLinkable == {<<1, 2>>}
MCRelevance == [m \in MCIds |-> IF m = 2 THEN 2 ELSE IF m = 3 THEN 1 ELSE 0]

=============================================================================
