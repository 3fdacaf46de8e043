--------------------------- MODULE MCSchedulerRows ---------------------------
(* TLC instance of Scheduler: rows with a history. *)
EXTENDS Scheduler

\* Bound: what the users of one behaviour work on: the activity of rows, their
\* trigger times, or reports.
VARIABLE users

\* Up to two failures; active, or switched off by the user.
OldInit ==
  /\ users \in {"activity", "times", "reports"}
  /\ rows \in [Tasks -> [life : {"present"}, active : BOOLEAN, trigger : {Morning}, date : {0},
                         status : {"none"}, report : {0}, failures : 1 .. 2]]
  /\ txns = {} /\ crossed = {} /\ readers = {}
  /\ day = 1 /\ part = Morning
  /\ loop = At("idle", {})
  /\ permits = Limit
  /\ runs = [r \in RunIds |-> [state |-> "none", task |-> CHOOSE t \in Tasks : TRUE, manual |-> FALSE,
                               day |-> 0, opened |-> 0, result |-> "none"]]
  /\ reports = [r \in RunIds |-> "none"]

Edited(t) ==
  IF users = "times" THEN rows'[t] = [rows[t] EXCEPT !.trigger = rows'[t].trigger]
                     ELSE rows'[t].trigger = rows[t].trigger

Same == UNCHANGED users

OldNext ==
  \/ \E t \in Tasks : Trigger(t) /\ Same
  \/ \E w \in Requests, t \in Tasks : users # "reports" /\ EditLoad(w, t) /\ Same
  \/ \E w \in Requests : EditCommit(w) /\ (\A t \in Tasks : Edited(t)) /\ Same
  \/ \E r \in RunIds : users = "reports" /\ Discard(r) /\ Same
  \/ \E r \in RunIds : users = "reports" /\ ReadReport(r) /\ Same
  \/ \E r \in RunIds : Finalize(r) /\ Same
  \/ \E r \in RunIds : Acquire(r) /\ Same
  \/ \E r \in RunIds : End(r) /\ Same
  \/ \E r \in RunIds : RecordLoad(r) /\ Same
  \/ \E r \in RunIds : RecordCommit(r) /\ Same
  \/ Poll /\ Same
  \/ Mark /\ Same
  \/ Snapshot /\ Same
  \/ \E t \in Tasks : Launch(t) /\ Same
  \/ Crash /\ Same
  \/ ApiCrash /\ Same
  \/ Startup /\ Same
  \/ RecoverRows /\ Same
  \/ RecoverReports /\ Same
  \/ Tick /\ Same

OldSpec == OldInit /\ [][OldNext]_<<vars, users>>
=============================================================================
