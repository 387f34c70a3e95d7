------------------------------- MODULE MCHost -------------------------------
(* Two commands over two process numbers and one restart: a number can be  *)
(* given to another command while the registry still names the first, and a *)
(* batch of two items has to be worked off when the server is told to stop.  *)
EXTENDS Host

CONSTANTS c1, c2
MCCommands == {c1, c2}

=============================================================================
