----------------------------- MODULE MCJobStore -----------------------------
(* TLC instance of JobStore: one job, two streams bound to it. *)
EXTENDS JobStore
=============================================================================
