------------------------ MODULE MCAutonomousSessions ------------------------
(***************************************************************************)
(* The session of the runs of AutonomousSessions: sessions share nothing   *)
(* but the watchdog's transaction.                                         *)
(***************************************************************************)
EXTENDS AutonomousSessions

CONSTANT s1

=============================================================================
