------------------------------- MODULE JobRun -------------------------------
(***************************************************************************)
(* The life of an analysis job in the API process: the routes that create  *)
(* it (api/routers/analyze.py), _run_job racing its inner coroutine        *)
(* against a timeout and _run_job_inner itself (api/main.py), the report   *)
(* row it keeps in the database (api/services/report_service.py), the GET  *)
(* that finalizes orphaned reports (api/routers/reports.py) and the        *)
(* recovery the scheduler process performs at its start.  Jobs drive the   *)
(* store of module JobStore; clients stream its events.  A run that the    *)
(* scheduler process launches goes through the same coroutines over the    *)
(* store of that process (scheduler/main.py): its entry and its events are *)
(* kept here under the job as well, but the API sees none of them.         *)
(***************************************************************************)
EXTENDS JobStore

CONSTANTS
  Faults,      \* what may go wrong: a subset of FaultKinds
  MaxProgress  \* bound: no more progress events once a job has emitted so many

FaultKinds == {"timeout",  \* _JOB_TIMEOUT passes before the inner coroutine ends
               "raise",    \* the analysis or its post-processing raises
               "config",   \* _init_and_configure raises
               "db",       \* a write of the report row fails
               "crash",    \* the API process restarts
               "recover"}  \* the scheduler process starts beside a live API

ASSUME JobRunAssumption ==
  /\ Faults \subseteq FaultKinds
  /\ MaxProgress \in Nat

VARIABLES
  run,     \* [Jobs -> the local state of the job's coroutines]
  report,  \* [Jobs -> the status of the report row, "none" when there is none]
  reading  \* [Jobs -> BOOLEAN]: a GET of the report has read an active row and
           \* has not looked the job up yet

runVars == <<run, report, reading>>
allVars == <<status, created, queueOf, buffers, streams, emitted, seen, ending,
             run, report, reading>>

(* pc names the step the inner coroutine takes next: "extract" is the chat  *)
(* route's symbol extraction, "start" the thread that opens the report row, *)
(* "begin" the coroutine resuming after it, "work" the agent graph, "post"  *)
(* the structured extraction, "save" the thread that writes the report,     *)
(* "finish" the coroutine resuming after it, "failing" and "failed" the two *)
(* halves of the except branch, "done" the end, "new" before the request.   *)
RunPc == {"new", "extract", "start", "begin", "work", "post", "save", "finish",
          "failing", "failed", "done"}
Racing == {"start", "begin", "work", "post", "save", "finish", "failing", "failed"}

Active == {"pending", "running"}    \* ACTIVE_REPORT_STATUSES
Reports == {"none", "completed", "failed"} \cup Active

RunTypeOK ==
  /\ TypeOK
  /\ run \in [Jobs -> [pc : RunPc, chat : BOOLEAN, dry : BOOLEAN, scheduled : BOOLEAN,
                       timedOut : BOOLEAN, dropped : BOOLEAN]]
  /\ report \in [Jobs -> Reports]
  /\ reading \in [Jobs -> BOOLEAN]

\* What will be asked for: a chat request or not, a dry run or not, or a
\* run of the scheduler, which is neither.  dropped: the scheduler has
\* deleted the job from its store.
RunInit ==
  /\ Init
  /\ run \in [Jobs -> [pc : {"new"}, chat : BOOLEAN, dry : BOOLEAN, scheduled : BOOLEAN,
                       timedOut : {FALSE}, dropped : {FALSE}]]
  /\ \A j \in Jobs : run[j].scheduled => ~run[j].chat /\ ~run[j].dry
  /\ report = [j \in Jobs |-> "none"]
  /\ reading = [j \in Jobs |-> FALSE]

Goto(j, from, to) ==
  /\ run[j].pc = from
  /\ run' = [run EXCEPT ![j].pc = to]

\* mark_report_failed: only an existing row is updated, whatever its status;
\* an error of the write is swallowed by both of its callers.
MarkReportFailed(j) ==
  \/ report' = IF report[j] = "none" THEN report ELSE [report EXCEPT ![j] = "failed"]
  \/ "db" \in Faults /\ UNCHANGED report

-----------------------------------------------------------------------------
(* The routes.                                                             *)

\* POST /v1/analyze: the entry is stored, then the run is started as a task.
Analyze(j) ==
  /\ ~run[j].chat /\ ~run[j].scheduled
  /\ Goto(j, "new", "start")
  /\ CreateJob(j)
  /\ Emit(j, <<"progress">>)
  /\ UNCHANGED <<streamVars, report, reading>>

\* POST /v1/chat/completions with stream: the response opens at once, the
\* symbol is extracted in a task and no entry exists yet.
Chat(j) ==
  /\ run[j].chat
  /\ Goto(j, "new", "extract")
  /\ UNCHANGED <<vars, report, reading>>

ChatAccepted(j) ==
  /\ Goto(j, "extract", "start")
  /\ CreateJob(j)
  /\ Emit(j, <<"progress">>)
  /\ UNCHANGED <<streamVars, report, reading>>

\* No symbol was recognised, or the extraction raised: only an event is left.
ChatRejected(j) ==
  /\ Goto(j, "extract", "done")
  /\ Emit(j, <<"job.failed">>)
  /\ UNCHANGED <<storeVars, streamVars, report, reading>>

\* The scheduler process runs the coroutine without a request: its store has
\* no entry until _run_job_inner stores the status.
Launch(j) ==
  /\ run[j].scheduled
  /\ Goto(j, "new", "start")
  /\ UNCHANGED <<vars, report, reading>>

\* Its finally clause deletes the job once _run_job has returned, be it by
\* the timeout with the inner coroutine still at work.
Drop(j) ==
  /\ run[j].scheduled /\ ~run[j].dropped
  /\ run[j].pc = "done" \/ run[j].timedOut
  /\ run' = [run EXCEPT ![j].dropped = TRUE]
  /\ DeleteJob(j)
  /\ UNCHANGED <<streamVars, report, reading>>

-----------------------------------------------------------------------------
(* _run_job_inner.                                                         *)

\* _init_and_configure in a worker thread: init_report and the update to
\* "running"; their errors are logged and swallowed.
OpenReport(j) ==
  /\ Goto(j, "start", "begin")
  /\ \/ report' = [report EXCEPT ![j] = "running"]
     \/ "db" \in Faults /\ report' = [report EXCEPT ![j] = "pending"]
     \/ "db" \in Faults /\ UNCHANGED report
  /\ UNCHANGED <<vars, reading>>

\* _build_runtime_config raises in the same thread, before the try block:
\* _run_job logs the exception of the task and returns.
ConfigRaises(j) ==
  /\ "config" \in Faults
  /\ Goto(j, "start", "done")
  /\ \E r \in {report[j], "running"} : report' = [report EXCEPT ![j] = r]
  /\ UNCHANGED <<vars, reading>>

\* The coroutine resumes; a dry run completes without another await.  One
\* progress event stands for job.running and agent.snapshot.
Begin(j) ==
  /\ IF run[j].dry
       THEN /\ Goto(j, "begin", "done")
            /\ SetJob(j, "completed")
            /\ Emit(j, <<"progress", "job.completed">>)
       ELSE /\ Goto(j, "begin", "work")
            /\ SetJob(j, "running")
            /\ Emit(j, <<"progress">>)
  /\ UNCHANGED <<streamVars, report, reading>>

\* The symbol extraction or an agent reports; partial report columns are
\* flushed without touching the status.
Progress(j) ==
  /\ run[j].pc \in {"extract", "work"}
  /\ emitted[j] < MaxProgress
  /\ Emit(j, <<"progress">>)
  /\ UNCHANGED <<storeVars, streamVars, runVars>>

AnalysisEnds(j) ==
  /\ Goto(j, "work", "post")
  /\ UNCHANGED <<vars, report, reading>>

\* Variant: the status is stored before the post-processing is over.
PostProcess_StatusFirst(j) ==
  /\ Goto(j, "post", "save")
  /\ SetJob(j, "completed")
  /\ UNCHANGED <<queueVars, streamVars, report, reading>>

\* extract_structured_data and resolve_report_fields, both in threads.
PostProcess(j) ==
  /\ Goto(j, "post", "save")
  /\ UNCHANGED <<vars, report, reading>>

\* create_report in a thread: an existing row becomes completed, a missing
\* one is inserted completed; an error is logged and swallowed.
SaveReport(j) ==
  /\ Goto(j, "save", "finish")
  /\ \/ report' = [report EXCEPT ![j] = "completed"]
     \/ "db" \in Faults /\ UNCHANGED report
  /\ UNCHANGED <<vars, reading>>

\* The status and the terminal event, in one step of the loop.
Finish(j) ==
  /\ Goto(j, "finish", "done")
  /\ SetJob(j, "completed")
  /\ Emit(j, <<"job.completed">>)
  /\ UNCHANGED <<streamVars, report, reading>>

\* Variant: the except branch leaves the status to the event.
Raise_KeepsStatus(j) ==
  /\ "raise" \in Faults
  /\ \E from \in {"work", "post"} : Goto(j, from, "failing")
  /\ UNCHANGED <<vars, report, reading>>

\* The except branch: the status is stored before the thread that writes the
\* report row, the event is emitted after it.
Raise(j) ==
  /\ "raise" \in Faults
  /\ \E from \in {"work", "post"} : Goto(j, from, "failing")
  /\ SetJob(j, "failed")
  /\ UNCHANGED <<queueVars, streamVars, report, reading>>

RecordFailure(j) ==
  /\ Goto(j, "failing", "failed")
  /\ MarkReportFailed(j)
  /\ UNCHANGED <<vars, reading>>

FinishFailed(j) ==
  /\ Goto(j, "failed", "done")
  /\ Emit(j, <<"job.failed">>)
  /\ UNCHANGED <<storeVars, streamVars, report, reading>>

InnerStep(j) ==
  \/ OpenReport(j) \/ ConfigRaises(j) \/ Begin(j) \/ Progress(j)
  \/ AnalysisEnds(j) \/ PostProcess(j) \/ SaveReport(j) \/ Finish(j)
  \/ Raise(j) \/ RecordFailure(j) \/ FinishFailed(j)

\* Variant: the timeout does not ask whether the inner task is done.
Timeout_IgnoresDone(j) ==
  /\ "timeout" \in Faults
  /\ run[j].pc \in Racing \cup {"done"}
  /\ ~run[j].timedOut
  /\ run' = [run EXCEPT ![j].timedOut = TRUE]
  /\ SetJob(j, "failed")
  /\ MarkReportFailed(j)
  /\ Emit(j, <<"job.failed">>)
  /\ UNCHANGED <<streamVars, reading>>

\* Variant: the timeout tells the streams and the database, not the store.
Timeout_KeepsStatus(j) ==
  /\ "timeout" \in Faults
  /\ run[j].pc \in Racing
  /\ ~run[j].timedOut
  /\ run' = [run EXCEPT ![j].timedOut = TRUE]
  /\ MarkReportFailed(j)
  /\ Emit(j, <<"job.failed">>)
  /\ UNCHANGED <<storeVars, streamVars, reading>>

\* _run_job: asyncio.wait returned with the inner task not done.  All writes
\* are synchronous, the inner coroutine is not cancelled.
Timeout(j) ==
  /\ "timeout" \in Faults
  /\ run[j].pc \in Racing
  /\ ~run[j].timedOut
  /\ run' = [run EXCEPT ![j].timedOut = TRUE]
  /\ SetJob(j, "failed")
  /\ MarkReportFailed(j)
  /\ Emit(j, <<"job.failed">>)
  /\ UNCHANGED <<streamVars, reading>>

-----------------------------------------------------------------------------
(* The rest of the API, and the other process.                             *)

\* Variant: only rows still pending count as active.
ReadReport_PendingOnly(j) ==
  /\ report[j] = "pending"
  /\ ~reading[j]
  /\ reading' = [reading EXCEPT ![j] = TRUE]
  /\ UNCHANGED <<vars, run, report>>

\* GET /v1/reports/{id}: a worker thread reads the row ...
ReadReport(j) ==
  /\ report[j] \in Active
  /\ ~reading[j]
  /\ reading' = [reading EXCEPT ![j] = TRUE]
  /\ UNCHANGED <<vars, run, report>>

\* Variant: the job store is not consulted.
FinalizeOrphan_Unchecked(j) ==
  /\ reading[j]
  /\ reading' = [reading EXCEPT ![j] = FALSE]
  /\ report' = [report EXCEPT ![j] = "failed"]
  /\ UNCHANGED <<vars, run>>

\* _get_job asks the store of the API process, which never knows a job of
\* the scheduler's.
KnownToApi(j) == ~run[j].scheduled /\ status[j] # "absent"

\* ... and, when the store has no such job, writes "failed" to the row it
\* read as active (finalize_orphan_report checks the copy it read).
FinalizeOrphan(j) ==
  /\ reading[j]
  /\ reading' = [reading EXCEPT ![j] = FALSE]
  /\ report' = IF KnownToApi(j) THEN report ELSE [report EXCEPT ![j] = "failed"]
  /\ UNCHANGED <<vars, run>>

\* A process dies: its coroutines are over and its store is gone.
Dead(j) == IF run[j].pc = "new" THEN run[j] ELSE [run[j] EXCEPT !.pc = "done"]

\* The scheduler process starts (again): the runs of its predecessor are
\* dead, and recover_stale_active_reports, called with no active job ids,
\* fails every active row, those of the API's running jobs included.
SchedulerStarts ==
  /\ "recover" \in Faults
  /\ \E j \in Jobs : \/ report[j] \in Active
                     \/ run[j].scheduled /\ run[j].pc \notin {"new", "done"}
  /\ report' = [j \in Jobs |-> IF report[j] \in Active THEN "failed" ELSE report[j]]
  /\ run' = [j \in Jobs |-> IF run[j].scheduled THEN [Dead(j) EXCEPT !.dropped = run[j].pc # "new"]
                                                 ELSE run[j]]
  /\ status' = [j \in Jobs |-> IF run[j].scheduled THEN "absent" ELSE status[j]]
  /\ queueOf' = [j \in Jobs |-> IF run[j].scheduled THEN 0 ELSE queueOf[j]]
  /\ UNCHANGED <<created, buffers, emitted, streamVars, reading>>

\* The API process dies and starts again (lifespan: store.clear()): only the
\* database survives, and the scheduler process with its runs.
Restart ==
  /\ "crash" \in Faults
  /\ \E j \in Jobs : run[j].pc \notin {"new", "done"}
  /\ status' = [j \in Jobs |-> IF run[j].scheduled THEN status[j] ELSE "absent"]
  /\ created' = {}
  /\ queueOf' = [j \in Jobs |-> IF run[j].scheduled THEN queueOf[j] ELSE 0]
  /\ streams' = [s \in Streams |->
       IF run[streams[s].job].pc = "new" THEN streams[s] ELSE [streams[s] EXCEPT !.pc = "gone"]]
  /\ ending' = [s \in Streams |->
       IF streams[s].pc \in Looping THEN "cut" ELSE ending[s]]
  /\ run' = [j \in Jobs |-> IF run[j].scheduled THEN run[j] ELSE Dead(j)]
  /\ reading' = [j \in Jobs |-> FALSE]
  /\ UNCHANGED <<buffers, emitted, seen, report>>

\* A client may stream a job the store knows (_require_job_owner); the first
\* stream of a chat job is the response of the request itself.
ClientSubscribes(s) ==
  LET j == streams[s].job
  IN  /\ \/ KnownToApi(j)
         \/ /\ run[j].chat /\ run[j].pc # "new"
            /\ \A t \in Streams : streams[t].job = j => streams[t].pc = "idle"
      /\ Subscribe(s)

ClientStep(s) ==
  /\ \/ ClientSubscribes(s) \/ Yield(s) \/ PollTimeout(s) \/ Disconnect(s) \/ Cleanup(s)
  /\ UNCHANGED runVars

\* A GET is answered within a poll interval.
RunTick ==
  /\ \A j \in Jobs : ~reading[j]
  /\ Tick
  /\ UNCHANGED runVars

RunNext ==
  \/ \E j \in Jobs :
       \/ Analyze(j) \/ Chat(j) \/ ChatAccepted(j) \/ ChatRejected(j)
       \/ Launch(j) \/ Drop(j)
       \/ InnerStep(j) \/ Timeout(j)
       \/ ReadReport(j) \/ FinalizeOrphan(j)
  \/ \E s \in Streams : ClientStep(s)
  \/ SchedulerStarts
  \/ Restart
  \/ RunTick

RunSpec == RunInit /\ [][RunNext]_allVars

(* Fairness.  The event loop runs its ready callbacks and time passes, so   *)
(* generators, timers and the job timeout are served; the symbol            *)
(* extraction is bounded by its own 60 s wait_for.  Nothing is assumed of   *)
(* the agent graph: it may hang, and only the timeout ends the job.         *)
LoopFairness ==
  /\ \A s \in Streams : WF_allVars((Yield(s) \/ PollTimeout(s) \/ Cleanup(s)) /\ UNCHANGED runVars)
  /\ \A j \in Jobs : /\ WF_allVars(ChatAccepted(j) \/ ChatRejected(j))
                     /\ WF_allVars(Timeout(j))
                     /\ WF_allVars(FinalizeOrphan(j))
  /\ SF_allVars(RunTick)

\* Somebody opens a report that is still active.
ReaderFairness == \A j \in Jobs : WF_allVars(ReadReport(j))

FairSpec == RunSpec /\ LoopFairness
ReadSpec == RunSpec /\ LoopFairness /\ ReaderFairness

-----------------------------------------------------------------------------
(* Properties.                                                             *)

\* A client that goes away before the end takes the job with it, one grace
\* period later; a job past its timeout has been given up.
Left(j)    == \E s \in Streams : streams[s].job = j /\ ending[s] = "disconnect"
Excused(j) == run[j].timedOut \/ Left(j)

(* A stream that a poll ends because the job reads "completed" finds that   *)
(* job.completed was delivered to another stream, or, when the event came   *)
(* between its timer and its turn, leaves it in the queue, where another    *)
(* stream may still take it: it is never lost before.  This is why          *)
(* _run_job_inner stores the status only after all post-processing, in the  *)
(* same step as the event (main.py:1897-1899, 1954-1967, 2219-2241).  A run  *)
(* that completes after its timeout may address a queue nobody holds.       *)
CompletedNeverMissed ==
  \A s \in Streams : LET j == streams[s].job IN
    ~Excused(j) =>
      /\ ending[s] = "completed" =>
           \E e \in Yielded(j) : e.kind = "job.completed"
      /\ ending[s] = "overtaken" =>
           \E e \in Yielded(j) \cup Waiting(j) : e.kind = "job.completed"

(* A job that reads completed reads completed until it is deleted: neither  *)
(* the timeout of _run_job (main.py:1514-1531) nor the except branch        *)
(* (main.py:2244-2267) overwrites a success.                                *)
CompletedIsFinal ==
  [][\A j \in Jobs : status[j] = "completed" => status'[j] \in {"completed", "absent"}]_allVars

(* _schedule_cleanup "removes completed/failed job" (job_store.py:154-159): *)
(* a job deleted from the store has finished, or has timed out and only its *)
(* abandoned coroutine is left.                                             *)
OnlyFinishedJobsAreDeleted ==
  [][\A j \in Jobs : status[j] # "absent" /\ status'[j] = "absent" =>
       status[j] \in Terminal \/ run[j].timedOut]_allVars

(* No other job is deleted: an entry goes when its job is over, when its    *)
(* timeout is past or one of its own clients has left, or with its process, *)
(* whatever happens to other jobs and their streams (job_store.py:80-84,    *)
(* 145-167; scheduler/main.py:245-253).                                     *)
DeletionsHaveAReason ==
  [][\A j \in Jobs : status[j] # "absent" /\ status'[j] = "absent" =>
       status[j] \in Terminal \/ Excused(j) \/ Restart \/ SchedulerStarts]_allVars

(* The coroutine of a job does not end without a verdict in the store,      *)
(* unless its configuration raised, which _run_job only logs                *)
(* (main.py:1521-1533, 1562): a job that is over never reads "running", and *)
(* none but such a one reads "pending".                                     *)
EndedJobsAreDecided ==
  \A j \in Jobs : run[j].pc = "done" =>
    status[j] \in Terminal \cup {"absent"} \/ (status[j] = "pending" /\ "config" \in Faults)

(* The GET of a report declares the row of one of the API's own jobs an     *)
(* orphan (reports.py:104-105) only when no coroutine is still working      *)
(* towards completing it.                                                   *)
OnlyDeadRunsAreOrphans ==
  [][\A j \in Jobs : reading[j] /\ ~reading'[j] /\ report'[j] # report[j] =>
       run[j].pc \in {"failing", "failed", "done"} \/ Excused(j) \/ run[j].scheduled]_allVars

(* finalize_orphan_report marks "an orphaned pending/running report"        *)
(* (report_service.py:314): whichever process runs a job, no GET fails its  *)
(* report while the job is on time and its coroutine at work.               *)
LiveReportsAreNoOrphans ==
  [][\A j \in Jobs : reading[j] /\ ~reading'[j] /\ report'[j] # report[j] =>
       run[j].pc \in {"failing", "failed", "done"} \/ Excused(j)]_allVars

(* A client that receives job.completed finds the completed report in the   *)
(* database (main.py:2187-2227): the report is written before the event and *)
(* nothing downgrades it afterwards.  Dry runs write no report and a run    *)
(* past its timeout has been declared failed.                               *)
CompletedReportIsThere ==
  \A s \in Streams : \A e \in seen[s] :
    e.kind = "job.completed" /\ ~run[e.job].dry /\ ~Excused(e.job)
      => report[e.job] = "completed"

(* Whatever the agent graph does, hanging included, the timeout brings a    *)
(* started job to completed or failed (main.py:1501-1531).                  *)
EveryRunGetsAVerdict ==
  \A j \in Jobs : (run[j].pc = "start" /\ ~run[j].timedOut) ~> status[j] \in Terminal

(* A client that was streaming before the job finished is told that it has: *)
(* its stream ends, although another stream may have taken the terminal     *)
(* event from the queue they share and the job is deleted one grace period  *)
(* later (job_store.py:122-167).  A job past its timeout is excepted: its   *)
(* abandoned coroutine may set the status back to running after the streams *)
(* have been told (main.py:1519-1531, 1566).                                *)
EarlyStreamsEnd ==
  \A s \in Streams :
    (/\ streams[s].pc \in Looping
     /\ run[streams[s].job].pc \notin {"failing", "failed", "done"}
     /\ status[streams[s].job] \notin Terminal)
      ~> streams[s].pc \notin Looping \/ Excused(streams[s].job)

(* After a restart of the API nobody works on the rows that were active; a  *)
(* reader turns each into a failed report (reports.py:104-105).             *)
OrphansAreFinalized ==
  \A j \in Jobs : (report[j] \in Active /\ run[j].pc = "done" /\ status[j] = "absent")
                   ~> report[j] \notin Active

(* Who is told of a completion finds it true, and nobody is told too        *)
(* early: both statements about job.completed (api/main.py,                 *)
(* _run_job_inner).                                                         *)
CompletionIsSeen == RunTypeOK /\ CompletedNeverMissed /\ CompletedReportIsThere
=============================================================================
