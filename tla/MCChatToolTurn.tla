--------------------------- MODULE MCChatToolTurn ---------------------------
(***************************************************************************)
(* The requests and waiting calls of the runs of ChatToolTurn.             *)
(***************************************************************************)
EXTENDS ChatToolTurnProofs

CONSTANTS send, p1, p2, p3, g1, g2

=============================================================================
