------------------------------ MODULE MCPages -------------------------------
(* A form and a grant, and enough requests for two to race on either while a *)
(* third comes late.                                                         *)
EXTENDS Pages

CONSTANTS r1, r2, r3
MCRequests == {r1, r2, r3}

=============================================================================
