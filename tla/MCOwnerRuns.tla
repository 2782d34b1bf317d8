---------------------------- MODULE MCOwnerRuns ----------------------------
(***************************************************************************)
(* Constants for the runs of OwnerRuns.                                    *)
(***************************************************************************)
EXTENDS OwnerRuns

CONSTANTS a, b, c, root, child

=============================================================================
