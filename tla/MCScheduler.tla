----------------------------- MODULE MCScheduler -----------------------------
(* TLC instance of Scheduler. *)
EXTENDS Scheduler

\* The steps that the faults of sched_batch allow: users create and delete
\* rows, the scheduler dies.
BatchNext ==
  \/ \E t \in Tasks : Create(t) \/ Delete(t)
  \/ LoopStep
  \/ \E r \in RunIds : RunStep(r)
  \/ Crash \/ Startup \/ RecoverRows \/ RecoverReports
  \/ Tick

BatchSpec == Init /\ [][BatchNext]_vars /\ Fairness
=============================================================================
