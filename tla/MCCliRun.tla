------------------------------ MODULE MCCliRun ------------------------------
(* The instance of CliRun that TLC checks.                                 *)
EXTENDS CliRun
=============================================================================
