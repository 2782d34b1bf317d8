---------------------------- MODULE MCUserErasure ----------------------------
(***************************************************************************)
(* The users, the file and the export of the runs of UserErasure.          *)
(***************************************************************************)
EXTENDS ErasureRefinement, TLC

CONSTANTS u1, u2, f1, x1

Owners == (f1 :> u1) @@ (x1 :> u2)

=============================================================================
