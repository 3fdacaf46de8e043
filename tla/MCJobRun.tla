------------------------------ MODULE MCJobRun ------------------------------
(* TLC instance of JobRun. *)
EXTENDS JobRun
=============================================================================
