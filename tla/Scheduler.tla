------------------------------ MODULE Scheduler ------------------------------
(***************************************************************************)
(* The scheduler process (scheduler/main.py) and the rows of scheduled     *)
(* analyses it shares with the API process (api/services/                  *)
(* scheduled_service.py, api/routers/scheduled.py): the loop that marks    *)
(* due rows and launches their runs, the concurrency slots, the recording  *)
(* of outcomes, manual test runs in the API process, edits and deletions   *)
(* by users, the death of either process and the recovery at the           *)
(* scheduler's start.  What a run does is module JobRun's subject; here it *)
(* ends in one of the ways _run_job can return.                            *)
(*                                                                         *)
(* A change of a row is a SELECT and later an UPDATE of the columns that   *)
(* differ from the ones read (SQLAlchemy's unit of work).  The scheduler   *)
(* process, the loop of the API process and the API's request threads do   *)
(* this side by side, and nothing locks the row in between.                *)
(***************************************************************************)
EXTENDS Integers, FiniteSets

CONSTANTS
  Tasks,   \* ids of scheduled analyses
  Requests,\* threads of the API process that serve PATCH requests
  Limit,   \* SCHEDULER_CONCURRENCY; 0 is no limit
  MaxRuns, \* bound: runs ever started
  MaxDay,  \* bound: days
  Faults   \* what may happen: a subset of FaultKinds

FaultKinds == {"fail",     \* the analysis raises or times out
               "config",   \* the run's configuration raises: no status is stored
               "unsaved",  \* the write of the finished report fails
               "crash",    \* the scheduler process dies and is started again
               "apicrash", \* the API process dies
               "manual",   \* users start manual test runs
               "edit",     \* users change trigger times and activity
               "delete",   \* users delete rows
               "discard",  \* users delete reports
               "read"}     \* users open reports

ASSUME SchedulerAssumption ==
  /\ Tasks # {}
  /\ Requests \cap {"scheduler", "api"} = {}
  /\ Limit \in Nat
  /\ MaxRuns \in Nat
  /\ MaxDay \in Nat \ {0}
  /\ Faults \subseteq FaultKinds

(* A day has three parts: the loop works in the morning (00:00-08:00) and   *)
(* in the evening (20:00-23:59), trigger times lie in these two.            *)
Morning == 0
Daytime == 1
Evening == 2
Parts    == {Morning, Daytime, Evening}
Windows  == {Morning, Evening}

RunIds == 1 .. MaxRuns

(* Who writes rows: a process has one thread for its event loop, so it has  *)
(* one transaction at a time there.                                         *)
Writers == {"scheduler", "api"} \cup Requests

VARIABLES
  rows,     \* [Tasks -> the columns of the row]
  txns,     \* open transactions: writer, the task, the run it records (0 for
            \* an edit) and the row as it was read
  crossed,  \* history: rows with a commit that found the activity or the
            \* failures changed since they were read
  day, part,\* the time in Asia/Shanghai
  loop,     \* the scheduler: its pc, the tasks it holds, those of them it has
            \* noted, the reports it is going to fail, and (history) lost, the
            \* rows of batches it has forgotten
  permits,  \* the semaphore's value
  runs,     \* [RunIds -> the runs, scheduled and manual, in starting order]
  reports,  \* [RunIds -> the status of the run's report row]
  readers   \* runs whose report a GET has found active and without a job

vars == <<rows, txns, crossed, day, part, loop, permits, runs, reports, readers>>

(* down: not running.  rows, reports: recovering the rows, the reports read *)
(* (noted: the rows with a finished report).  idle.  read: the due rows     *)
(* read, not marked yet (noted: those that already read running).  marked:  *)
(* the rows committed and not yet read back.  launching: the snapshots not  *)
(* launched yet.                                                            *)
Starting  == {"rows", "reports"}
LoopPcs   == {"down", "idle", "read", "marked", "launching"} \cup Starting

(* queued: waiting for a slot; working: in _run_job; ended: _run_job has    *)
(* returned, the row has not been updated; over: it has; killed: died with  *)
(* its process.                                                             *)
RunStates == {"none", "queued", "working", "ended", "over", "killed"}
Results   == {"none", "completed", "failed", "unset"}   \* _get_job(id)["status"]
Live      == {"queued", "working", "ended"}

(* orphaned: failed by a reader or by the recovery, not by its run.         *)
ReportStates == {"none", "running", "completed", "failed", "orphaned", "deleted"}

RowType == [life : {"new", "present", "deleted"}, active : BOOLEAN, trigger : Windows,
            date : 0 .. MaxDay, status : {"none", "running", "success", "failed", "stale"},
            report : 0 .. MaxRuns, failures : 0 .. MaxRuns]

TypeOK ==
  /\ rows \in [Tasks -> RowType]
  /\ day \in 1 .. MaxDay /\ part \in Parts
  /\ txns \subseteq [writer : Writers, task : Tasks, run : 0 .. MaxRuns, was : RowType]
  /\ crossed \subseteq Tasks
  /\ loop \in [pc : LoopPcs, tasks : SUBSET Tasks, noted : SUBSET Tasks,
               reports : SUBSET RunIds, lost : SUBSET Tasks]
  /\ permits \in 0 .. Limit
  /\ runs \in [RunIds -> [state : RunStates, task : Tasks, manual : BOOLEAN, day : 0 .. MaxDay,
                          opened : 0 .. MaxDay, result : Results]]
  /\ reports \in [RunIds -> ReportStates]
  /\ readers \subseteq RunIds

\* The scheduler holding nothing.
At(pc, lost) == [pc |-> pc, tasks |-> {}, noted |-> {}, reports |-> {}, lost |-> lost]

Init ==
  /\ rows \in [Tasks -> [life : {"new"}, active : {TRUE}, trigger : Windows, date : {0},
                         status : {"none"}, report : {0}, failures : {0}]]
  /\ txns = {} /\ crossed = {} /\ readers = {}
  /\ day = 1 /\ part = Morning
  /\ loop = At("idle", {})
  /\ permits = Limit
  /\ runs = [r \in RunIds |-> [state |-> "none", task |-> CHOOSE t \in Tasks : TRUE, manual |-> FALSE,
                               day |-> 0, opened |-> 0, result |-> "none"]]
  /\ reports = [r \in RunIds |-> "none"]

Up           == loop.pc \notin {"down"} \cup Starting
Present(t)   == rows[t].life = "present"
Unstarted    == {r \in RunIds : runs[r].state = "none"}
NextRun(r)   == r \in Unstarted /\ \A q \in Unstarted : r <= q
UtcDay       == IF part = Morning THEN day - 1 ELSE day   \* created_at is in UTC

-----------------------------------------------------------------------------
(* Transactions on a row.                                                  *)

Open(w) == \E x \in txns : x.writer = w

Load(w, t, r) == txns' = txns \cup {[writer |-> w, task |-> t, run |-> r, was |-> rows[t]]}

\* A column the transaction did not change keeps what is there now.
Kept(now, was, new) == IF new = was THEN now ELSE new

Merged(now, was, new) ==
  [life     |-> now.life,
   active   |-> Kept(now.active, was.active, new.active),
   trigger  |-> Kept(now.trigger, was.trigger, new.trigger),
   date     |-> Kept(now.date, was.date, new.date),
   status   |-> Kept(now.status, was.status, new.status),
   report   |-> Kept(now.report, was.report, new.report),
   failures |-> Kept(now.failures, was.failures, new.failures)]

\* The UPDATE of a row deleted meanwhile raises, and nothing is written.
Commit(x, new) ==
  LET t == x.task
  IN  /\ txns' = txns \ {x}
      /\ IF Present(t)
           THEN /\ rows' = [rows EXCEPT ![t] = Merged(rows[t], x.was, new)]
                /\ crossed' = IF rows[t].active = x.was.active /\ rows[t].failures = x.was.failures
                                THEN crossed ELSE crossed \cup {t}
           ELSE UNCHANGED <<rows, crossed>>

-----------------------------------------------------------------------------
(* Users, through the API.                                                 *)

Create(t) ==
  /\ rows[t].life = "new"
  /\ rows' = [rows EXCEPT ![t].life = "present"]
  /\ UNCHANGED <<txns, crossed, day, part, loop, permits, runs, reports, readers>>

Delete(t) ==
  /\ "delete" \in Faults
  /\ Present(t)
  /\ rows' = [rows EXCEPT ![t].life = "deleted"]
  /\ UNCHANGED <<txns, crossed, day, part, loop, permits, runs, reports, readers>>

\* update_scheduled reads the row.
EditLoad(w, t) ==
  /\ "edit" \in Faults
  /\ Present(t) /\ ~Open(w)
  /\ Load(w, t, 0)
  /\ UNCHANGED <<rows, crossed, day, part, loop, permits, runs, reports, readers>>

\* Variant: activation forgets to clear the failures.
Edits_KeepFailures(row) ==
  {[row EXCEPT !.active = b] : b \in BOOLEAN} \cup {[row EXCEPT !.trigger = w] : w \in Windows}

\* _apply_scheduled_updates: activation also clears the failures.
Edits(row) ==
  {[row EXCEPT !.active = FALSE], [row EXCEPT !.active = TRUE, !.failures = 0]}
    \cup {[row EXCEPT !.trigger = w] : w \in Windows}

\* update_scheduled commits.
EditCommit(w) ==
  /\ \E x \in txns : x.writer = w /\ \E new \in Edits(x.was) : Commit(x, new)
  /\ UNCHANGED <<day, part, loop, permits, runs, reports, readers>>

\* POST /v1/scheduled/{id}/trigger: a run in the API process, without a slot.
Trigger(t) ==
  /\ "manual" \in Faults
  /\ Present(t)
  /\ \E r \in RunIds :
       /\ NextRun(r)
       /\ runs' = [runs EXCEPT ![r] = [state |-> "working", task |-> t, manual |-> TRUE, day |-> day,
                                       opened |-> UtcDay, result |-> "none"]]
       /\ reports' = [reports EXCEPT ![r] = "running"]
  /\ UNCHANGED <<rows, txns, crossed, day, part, loop, permits, readers>>

\* delete_report, while its run lives or later.
Discard(r) ==
  /\ "discard" \in Faults
  /\ reports[r] \notin {"none", "deleted"}
  /\ reports' = [reports EXCEPT ![r] = "deleted"]
  /\ UNCHANGED <<rows, txns, crossed, day, part, loop, permits, runs, readers>>

\* GET /v1/reports/{id} finds the report active and no job in the API's own
\* store: the scheduler's runs have theirs in the other process, and jobs of
\* ended manual runs go with a restart of the API process.
ReadReport(r) ==
  /\ "read" \in Faults
  /\ reports[r] = "running"
  /\ ~(runs[r].manual /\ runs[r].state \in Live)
  /\ readers' = readers \cup {r}
  /\ UNCHANGED <<rows, txns, crossed, day, part, loop, permits, runs, reports>>

\* finalize_orphan_report writes, whatever the status has become.
Finalize(r) ==
  /\ r \in readers
  /\ readers' = readers \ {r}
  /\ reports' = IF reports[r] = "deleted" THEN reports ELSE [reports EXCEPT ![r] = "orphaned"]
  /\ UNCHANGED <<rows, txns, crossed, day, part, loop, permits, runs>>

-----------------------------------------------------------------------------
(* The scheduler's loop.                                                   *)

\* get_pending_tasks.
Pending ==
  {t \in Tasks : /\ Present(t) /\ rows[t].active
                 /\ rows[t].date # day
                 /\ rows[t].trigger <= part}

\* The poll of the loop reads what is due.
Poll ==
  /\ loop.pc = "idle" /\ ~Open("scheduler")
  /\ part \in Windows
  /\ Pending # {}
  /\ Cardinality(Pending) <= Cardinality(Unstarted)   \* bound
  /\ loop' = [loop EXCEPT !.pc = "read", !.tasks = Pending,
                          !.noted = {t \in Pending : rows[t].status = "running"}]
  /\ UNCHANGED <<rows, txns, crossed, day, part, permits, runs, reports, readers>>

\* It marks the rows and commits; one row deleted meanwhile undoes all.
Mark ==
  /\ loop.pc = "read"
  /\ IF \A t \in loop.tasks : Present(t)
       THEN /\ rows' = [t \in Tasks |->
                 IF t \in loop.tasks
                   THEN [rows[t] EXCEPT !.date = day,
                                        !.status = IF t \in loop.noted THEN @ ELSE "running"]
                   ELSE rows[t]]
            /\ loop' = [loop EXCEPT !.pc = "marked", !.noted = {}, !.lost = @ \ loop.tasks]
       ELSE loop' = At("idle", loop.lost) /\ UNCHANGED rows
  /\ UNCHANGED <<txns, crossed, day, part, permits, runs, reports, readers>>

\* Reading the committed rows back for the snapshots; one row deleted since
\* the commit raises, and the loop forgets the whole batch.
Snapshot ==
  /\ loop.pc = "marked"
  /\ loop' = IF \A t \in loop.tasks : Present(t)
               THEN [loop EXCEPT !.pc = "launching"]
               ELSE At("idle", loop.lost \cup loop.tasks)
  /\ UNCHANGED <<rows, txns, crossed, day, part, permits, runs, reports, readers>>

\* One task a second; the run first waits for its slot.
Launch(t) ==
  /\ loop.pc = "launching" /\ t \in loop.tasks /\ ~Open("scheduler")
  /\ \E r \in RunIds :
       /\ NextRun(r)
       /\ runs' = [runs EXCEPT ![r] = [state |-> "queued", task |-> t, manual |-> FALSE, day |-> day,
                                       opened |-> 0, result |-> "none"]]
  /\ loop' = [loop EXCEPT !.tasks = @ \ {t},
                          !.pc = IF loop.tasks = {t} THEN "idle" ELSE "launching"]
  /\ UNCHANGED <<rows, txns, crossed, day, part, permits, reports, readers>>

-----------------------------------------------------------------------------
(* Runs.                                                                   *)

\* _concurrency_slot, first come first served; _run_job_inner opens the report.
Acquire(r) ==
  /\ runs[r].state = "queued"
  /\ \A q \in RunIds : q < r => runs[q].state # "queued"
  /\ Limit > 0 => permits > 0
  /\ permits' = IF Limit > 0 THEN permits - 1 ELSE permits
  /\ runs' = [runs EXCEPT ![r].state = "working", ![r].opened = UtcDay]
  /\ reports' = [reports EXCEPT ![r] = "running"]
  /\ UNCHANGED <<rows, txns, crossed, day, part, loop, readers>>

\* The ways _run_job returns: the stored status, and what becomes of the
\* report row that now reads s.  A finished report overwrites the verdict of a
\* reader and brings a deleted row back, unless it was deleted while being
\* written; a failure is written only to a row that is there.
Endings(s) ==
  {[result |-> "completed", report |-> "completed"]}
    \cup (IF s = "deleted" THEN {[result |-> "completed", report |-> s]} ELSE {})
    \cup (IF "fail" \in Faults
             THEN {[result |-> "failed", report |-> IF s = "deleted" THEN s ELSE "failed"]} ELSE {})
    \cup (IF "unsaved" \in Faults THEN {[result |-> "completed", report |-> s]} ELSE {})
    \cup (IF "config" \in Faults THEN {[result |-> "unset", report |-> s]} ELSE {})

\* Variant: a run whose row was deleted meanwhile keeps its slot.
End_Leaks(r) ==
  /\ runs[r].state = "working"
  /\ \E e \in Endings(reports[r]) :
       /\ runs' = [runs EXCEPT ![r].state = "ended", ![r].result = e.result]
       /\ reports' = [reports EXCEPT ![r] = e.report]
  /\ permits' = IF Limit > 0 /\ ~runs[r].manual /\ Present(runs[r].task) THEN permits + 1 ELSE permits
  /\ UNCHANGED <<rows, txns, crossed, day, part, loop, readers>>

\* _run_job returns (its timeout sees to that) and the slot is released.
End(r) ==
  /\ runs[r].state = "working"
  /\ \E e \in Endings(reports[r]) :
       /\ runs' = [runs EXCEPT ![r].state = "ended", ![r].result = e.result]
       /\ reports' = [reports EXCEPT ![r] = e.report]
  /\ permits' = IF Limit > 0 /\ ~runs[r].manual THEN permits + 1 ELSE permits
  /\ UNCHANGED <<rows, txns, crossed, day, part, loop, readers>>

Recorder(r) == IF runs[r].manual THEN "api" ELSE "scheduler"

\* The end of _run_scheduled_analysis_once and of _run_manual_trigger reads
\* the row; a row deleted meanwhile is skipped.  The scheduler's loop does not
\* give way between reading the due rows and their snapshots.
RecordLoad(r) ==
  /\ runs[r].state = "ended" /\ ~Open(Recorder(r))
  /\ runs[r].manual \/ loop.pc \notin {"read", "marked"}
  /\ IF Present(runs[r].task)
       THEN Load(Recorder(r), runs[r].task, r) /\ UNCHANGED runs
       ELSE runs' = [runs EXCEPT ![r].state = "over"] /\ UNCHANGED txns
  /\ UNCHANGED <<rows, crossed, day, part, loop, permits, reports, readers>>

\* mark_run_success
Succeeded(row, r) ==
  [row EXCEPT !.date = runs[r].day, !.status = "success", !.report = r, !.failures = 0]

\* mark_run_failed: the third failure in a row deactivates the row.
Failed(row, r) ==
  [row EXCEPT !.date = runs[r].day, !.status = "failed", !.failures = @ + 1,
              !.active = @ /\ row.failures + 1 < 3]

\* record_manual_test_result
Tested(row, r) ==
  IF runs[r].result = "failed"
    THEN [row EXCEPT !.status = "failed"]
    ELSE [row EXCEPT !.status = "success", !.report = r, !.failures = 0]

\* Variant: a run that returned has succeeded.
Outcome_NoStatusCheck(row, r) ==
  IF runs[r].manual THEN Tested(row, r) ELSE Succeeded(row, r)

\* Only the status "failed" is a failure.
Outcome(row, r) ==
  IF runs[r].manual THEN Tested(row, r)
  ELSE IF runs[r].result = "failed" THEN Failed(row, r)
  ELSE Succeeded(row, r)

RecordCommit(r) ==
  /\ \E x \in txns : x.run = r /\ Commit(x, Outcome(x.was, r))
  /\ runs' = [runs EXCEPT ![r].state = "over"]
  /\ UNCHANGED <<day, part, loop, permits, reports, readers>>

-----------------------------------------------------------------------------
(* Processes and time.                                                     *)

KillRuns(manual) ==
  runs' = [r \in RunIds |-> IF runs[r].state \in Live /\ runs[r].manual = manual
                              THEN [runs[r] EXCEPT !.state = "killed"] ELSE runs[r]]

Crash ==
  /\ "crash" \in Faults
  /\ loop.pc # "down"
  /\ loop' = At("down", {})
  /\ txns' = {x \in txns : x.writer # "scheduler"}
  /\ KillRuns(FALSE)
  /\ UNCHANGED <<rows, crossed, day, part, permits, reports, readers>>

ApiCrash ==
  /\ "apicrash" \in Faults
  /\ \E r \in RunIds : runs[r].state \in Live /\ runs[r].manual
  /\ txns' = {x \in txns : x.writer = "scheduler"}
  /\ readers' = {}
  /\ KillRuns(TRUE)
  /\ UNCHANGED <<rows, crossed, day, part, loop, permits, reports>>

\* A row marked running owns a finished report: completed, and created on
\* the row's last_run_date or later.
HasReport(t) ==
  LET r == rows[t].report
  IN  /\ r # 0 /\ rows[t].date # 0
      /\ reports[r] = "completed"
      /\ runs[r].opened >= rows[t].date

\* _startup makes a new semaphore, and _recover_stale_tasks reads the rows
\* that are running and looks for their reports.
Startup ==
  /\ loop.pc = "down"
  /\ permits' = Limit
  /\ LET stale == {t \in Tasks : Present(t) /\ rows[t].status = "running"}
     IN  loop' = [At("rows", {}) EXCEPT !.tasks = stale, !.noted = {t \in stale : HasReport(t)}]
  /\ UNCHANGED <<rows, txns, crossed, day, part, runs, reports, readers>>

\* Variant: the verdicts on the rows are not committed.
RecoverRows_Forgets ==
  /\ loop.pc = "rows"
  /\ loop' = [At("reports", {}) EXCEPT !.reports = {r \in RunIds : reports[r] = "running"}]
  /\ UNCHANGED <<rows, txns, crossed, day, part, permits, runs, reports, readers>>

\* The verdicts are committed (a row deleted meanwhile raises, and the process
\* dies) and recover_stale_active_reports reads the reports still active,
\* those of the API process included.  A row read as running has a date.
RecoverRows ==
  /\ loop.pc = "rows"
  /\ IF \A t \in loop.tasks : Present(t)
       THEN /\ rows' = [t \in Tasks |->
                 IF t \notin loop.tasks THEN rows[t]
                 ELSE IF t \in loop.noted THEN [rows[t] EXCEPT !.status = "success"]
                 ELSE [rows[t] EXCEPT !.status = "stale", !.date = 0]]
            /\ loop' = [At("reports", {}) EXCEPT !.reports = {r \in RunIds : reports[r] = "running"}]
       ELSE loop' = At("down", {}) /\ UNCHANGED rows
  /\ UNCHANGED <<txns, crossed, day, part, permits, runs, reports, readers>>

\* They are failed, whatever they have become; a deleted one raises.
RecoverReports ==
  /\ loop.pc = "reports"
  /\ IF \E r \in loop.reports : reports[r] = "deleted"
       THEN loop' = At("down", {}) /\ UNCHANGED reports
       ELSE /\ loop' = At("idle", {})
            /\ reports' = [r \in RunIds |-> IF r \in loop.reports THEN "orphaned" ELSE reports[r]]
  /\ UNCHANGED <<rows, txns, crossed, day, part, permits, runs, readers>>

\* The loop polls every minute, so whatever is due has been polled before a
\* window closes; a run is returned by _run_job after _JOB_TIMEOUT at the
\* latest (main.py:295), so the queue of a window drains before the next one.
Tick ==
  /\ Up => (loop.pc = "idle" /\ (part \in Windows => Pending = {}))
  /\ part = Daytime => \A r \in RunIds : runs[r].state \notin Live
  /\ IF part = Evening THEN day < MaxDay /\ day' = day + 1 ELSE day' = day
  /\ part' = (part + 1) % 3
  /\ UNCHANGED <<rows, txns, crossed, loop, permits, runs, reports, readers>>

RunStep(r) == Acquire(r) \/ End(r) \/ RecordLoad(r) \/ RecordCommit(r)

UserStep ==
  \/ \E t \in Tasks : Create(t) \/ Delete(t) \/ Trigger(t)
  \/ \E w \in Requests : EditCommit(w) \/ \E t \in Tasks : EditLoad(w, t)
  \/ \E r \in RunIds : Discard(r) \/ ReadReport(r) \/ Finalize(r)

LoopStep == Poll \/ Mark \/ Snapshot \/ \E t \in Tasks : Launch(t)

Next ==
  \/ UserStep
  \/ LoopStep
  \/ \E r \in RunIds : RunStep(r)
  \/ Crash \/ ApiCrash
  \/ Startup \/ RecoverRows \/ RecoverReports
  \/ Tick

Spec == Init /\ [][Next]_vars

(* Fairness: the loop and the runs make progress (a run is bounded by       *)
(* _JOB_TIMEOUT), whoever runs the scheduler restarts it, and not every     *)
(* start is cut short before its rows are committed.                        *)
Fairness ==
  /\ WF_vars(Mark) /\ WF_vars(Snapshot) /\ WF_vars(Startup) /\ SF_vars(RecoverRows)
  /\ \A t \in Tasks : WF_vars(Launch(t))
  /\ \A r \in RunIds : WF_vars(RunStep(r))

-----------------------------------------------------------------------------
(* Properties.                                                             *)

(* No slot is lost or released twice, however runs end and whoever else     *)
(* runs in the API process (scheduler/main.py:97-122).                      *)
Slots ==
  Up /\ Limit > 0 =>
    permits + Cardinality({r \in RunIds : ~runs[r].manual /\ runs[r].state = "working"}) = Limit

(* A row marked running that nobody will end before it is due again: a row  *)
(* of its batch was deleted between the commit and the snapshots, and the   *)
(* loop forgot them all (scheduler/main.py:288-299).                        *)
Stranded(t) == t \in loop.lost /\ \E u \in Tasks : rows[u].life = "deleted"

(* A row reads "running" only while somebody is going to change it: the     *)
(* loop holds it, a run of it is alive, or the scheduler is down and will   *)
(* recover it (scheduler/main.py:288-307, 315-345), also when a manual test *)
(* or an edit commits over what the scheduler has read.  Only a deletion in the *)
(* middle of its batch strands a row.                                       *)
RunningIsOwned ==
  \A t \in Tasks : Present(t) /\ rows[t].status = "running" /\ Up =>
    \/ t \in loop.tasks /\ loop.pc # "read"
    \/ \E r \in RunIds : runs[r].task = t /\ ~runs[r].manual /\ runs[r].state \in Live
    \/ Stranded(t)

(* "Auto-deactivate after 3 consecutive failures" (scheduled_service.py:341) *)
(* holds against users who toggle the row, manual tests and crashes.  The   *)
(* exception is a commit over what its transaction has not seen: an inactive *)
(* row with two failures is read by mark_run_failed, activated by a request, *)
(* and written back with three failures and nothing else                    *)
(* (scheduled_service.py:219-224, 342-349).                                 *)
ThreeStrikes ==
  \A t \in Tasks : rows[t].failures >= 3 => ~rows[t].active \/ t \in crossed

(* A row that reads success links a run of its own that did not fail,       *)
(* whoever wrote the row and in whatever order the halves of the writes     *)
(* came: a scheduled run, a manual test or the recovery.  The report of     *)
(* that run is completed, unless a user deleted it, a reader or the         *)
(* recovery failed it, the run's configuration raised (no status is stored, *)
(* and the caller asks for "failed" only) or the write of the report failed *)
(* (main.py:1521-1526, 2215-2227, scheduler/main.py:212-228,                *)
(* routers/reports.py:104-134).                                             *)
SuccessHasReport ==
  \A t \in Tasks : rows[t].status = "success" =>
    LET r == rows[t].report
    IN  /\ r # 0 /\ runs[r].task = t /\ runs[r].result # "failed"
        /\ \/ runs[r].result = "unset" \/ "unsaved" \in Faults
           \/ reports[r] \in {"completed", "orphaned", "deleted"}

(* A row marked running is brought to a verdict, and is not left to the     *)
(* next restart, unless it was stranded (scheduler/main.py:283-310).        *)
MarkedRowsGetAVerdict ==
  \A t \in Tasks :
    rows[t].status = "running" ~> rows[t].status # "running" \/ ~Present(t) \/ Stranded(t)

(* "Record the latest manual test result without consuming the day's        *)
(* schedule" (scheduled_service.py:358): a row done for today, as success,  *)
(* is about to be launched or has a scheduled run for today that was not    *)
(* interrupted.                                                             *)
ManualTestsConsumeNothing ==
  \A t \in Tasks : Up /\ rows[t].date = day /\ rows[t].status = "success" =>
    \/ t \in loop.tasks
    \/ \E r \in RunIds : /\ runs[r].task = t /\ ~runs[r].manual /\ runs[r].day = day
                         /\ runs[r].state # "killed"

(* "Tasks are triggered when [...] the task hasn't run today yet"           *)
(* (scheduler/main.py:263-264): of the runs of one task for one day, all    *)
(* but one died with the process.                                           *)
OncePerDay ==
  \A q, r \in RunIds :
    (/\ q # r /\ runs[q].task = runs[r].task /\ runs[q].day = runs[r].day
     /\ {runs[q].state, runs[r].state} \cap {"none", "killed"} = {})
      => runs[q].manual \/ runs[r].manual

(* The invariant of the slots: none is lost, and a running row has          *)
(* somebody who will end it (scheduler/main.py).                            *)
SlotsInv == TypeOK /\ Slots /\ RunningIsOwned
=============================================================================
