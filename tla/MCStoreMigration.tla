-------------------------- MODULE MCStoreMigration --------------------------
(***************************************************************************)
(* Constants for the runs of StoreMigration.                               *)
(***************************************************************************)
EXTENDS StoreMigrationProofs

CONSTANTS d1, d2, d3

=============================================================================
