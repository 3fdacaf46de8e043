----------------------------- MODULE ReportRows ------------------------------
(***************************************************************************)
(* The rows of the reports table of one user (api/services/                *)
(* report_service.py:260-575): a job writes its own row while the user     *)
(* deletes rows, single or in a batch, and reads them: one report, the     *)
(* latest of each symbol, and the one the tracking board shows beside a    *)
(* position (api/services/tracking_board_service.py).  Each job has the id *)
(* of its report.  _run_job marks the row of a job that takes too long     *)
(* while the job's coroutine goes on.  A row read by a session may be gone *)
(* when the session commits, and a commit may fail.                        *)
(***************************************************************************)
EXTENDS Integers, FiniteSetsExt

CONSTANTS
  Reports,   \* ids
  Tickers,   \* symbols
  Dates,     \* trade dates, numbers
  Troubled   \* bound: the ids whose run meets timeouts, errors, failing sessions and readers

ASSUME RowsAssumption == Dates \subseteq Nat

VARIABLES
  reportRows,      \* id -> row; created orders the rows by created_at
  writers,   \* id -> the run of that id: place, whether create_report saw the row, its request,
             \*       and history: who has given the run up
  readers,   \* ids a request found active and without a job, to be finalized
  batch,     \* a batch deletion: place, ids asked, rows found, its answer
  erased     \* history: ids whose row was deleted

rowVars == <<reportRows, writers, readers, batch, erased>>

NoRow == [status |-> "absent", symbol |-> "none", date |-> 0, created |-> 0]
Rows  == {r \in Reports : reportRows[r].status # "absent"}
Ended == {"completed", "failed"}

RowsInit ==
  /\ reportRows = [r \in Reports |-> NoRow]
  /\ writers = [r \in Reports |-> [pc |-> "none", saw |-> FALSE, symbol |-> "none", date |-> 0, givenUp |-> {}]]
  /\ readers = {}
  /\ batch = [pc |-> "idle", asked |-> {}, found |-> {}, deleted |-> {}, missing |-> {}]
  /\ erased = {}

\* A new row is younger than the rows there are.
NewRow(r, status, symbol, date) ==
  [status |-> status, symbol |-> symbol, date |-> date,
   created |-> 1 + Max({0} \cup {reportRows[o].created : o \in Rows})]

-----------------------------------------------------------------------------
(* A run: none, init, run, save, saved, ended; raised after an exception.    *)

MovesOn(r, from, to) == writers[r].pc = from /\ writers' = [writers EXCEPT ![r].pc = to]

\* update_report_partial with a status leaves a missing row missing; a session
\* that fails changes nothing, and its error is logged.
SetStatus(r, status) ==
  \/ (r \in Troubled \/ r \notin Rows) /\ UNCHANGED reportRows
  \/ r \in Rows /\ reportRows' = [reportRows EXCEPT ![r].status = status]

\* The run starts with a pending row, or without one when the insert fails.
InitReport(r, symbol, date) ==
  /\ writers[r].pc = "none"
  /\ \E inserted \in BOOLEAN :
       /\ inserted \/ r \in Troubled
       /\ reportRows' = IF inserted THEN [reportRows EXCEPT ![r] = NewRow(r, "pending", symbol, date)] ELSE reportRows
       /\ writers' = [writers EXCEPT ![r] = [@ EXCEPT !.pc = IF inserted THEN "init" ELSE "run",
                                                    !.symbol = symbol, !.date = date]]
  /\ UNCHANGED <<readers, batch, erased>>

\* Variant: a missing row is made again.
UpdatePartial_Inserts(r) ==
  /\ MovesOn(r, "init", "run")
  /\ reportRows' = [reportRows EXCEPT ![r] = IF @.status = "absent" THEN NewRow(r, "running", "none", 0)
                                 ELSE [@ EXCEPT !.status = "running"]]
  /\ UNCHANGED <<readers, batch, erased>>

\* The row is set running.  The later partial updates give texts, no status.
UpdatePartial(r) ==
  /\ MovesOn(r, "init", "run") /\ SetStatus(r, "running")
  /\ UNCHANGED <<readers, batch, erased>>

\* create_report looks whether the row is there.
LookForRow(r) ==
  /\ writers[r].pc = "run"
  /\ writers' = [writers EXCEPT ![r].pc = "save", ![r].saw = (r \in Rows)]
  /\ UNCHANGED <<reportRows, readers, batch, erased>>

\* Its commit: an update of the row it saw, or an insert of a completed one.
\* The update of a row that has gone in between fails, as any commit may; the
\* error is logged and the job goes on to its completion.
CommitReport(r) ==
  /\ MovesOn(r, "save", "saved")
  /\ \/ (r \in Troubled \/ (writers[r].saw /\ r \notin Rows)) /\ UNCHANGED reportRows
     \/ /\ writers[r].saw <=> r \in Rows
        /\ reportRows' = [reportRows EXCEPT ![r] = IF writers[r].saw THEN [@ EXCEPT !.status = "completed"]
                                        ELSE NewRow(r, "completed", writers[r].symbol, writers[r].date)]
  /\ UNCHANGED <<readers, batch, erased>>

\* The coroutine ends: after the save, or as a dry run.
EndRun(r) ==
  /\ MovesOn(r, "run", "ended") \/ MovesOn(r, "saved", "ended")
  /\ UNCHANGED <<reportRows, readers, batch, erased>>

\* Anything but the save raises, before it or after it.
RaiseRun(r) ==
  /\ r \in Troubled /\ writers[r].pc \in {"run", "saved"}
  /\ writers' = [writers EXCEPT ![r].pc = "raised", ![r].givenUp = @ \cup {"error"}]
  /\ UNCHANGED <<reportRows, readers, batch, erased>>

\* The coroutine records the exception: mark_report_failed.
FailReport(r) ==
  /\ MovesOn(r, "raised", "ended") /\ SetStatus(r, "failed")
  /\ UNCHANGED <<readers, batch, erased>>

\* _run_job has waited long enough: mark_report_failed, wherever the
\* coroutine is, which is not cancelled.
TimeOutRun(r) ==
  /\ r \in Troubled /\ writers[r].pc # "ended" /\ "timeout" \notin writers[r].givenUp
  /\ writers' = [writers EXCEPT ![r].givenUp = @ \cup {"timeout"}]
  /\ SetStatus(r, "failed")
  /\ UNCHANGED <<readers, batch, erased>>

-----------------------------------------------------------------------------
(* Requests. *)

\* A GET reads an active row whose job its store does not know: one that runs
\* in the scheduler's process.
ReadActive(r) ==
  /\ r \in Troubled \cap Rows /\ reportRows[r].status \notin Ended /\ r \notin readers
  /\ readers' = readers \cup {r}
  /\ writers' = [writers EXCEPT ![r].givenUp = @ \cup {"reader"}]
  /\ UNCHANGED <<reportRows, batch, erased>>

\* finalize_orphan_report: its update finds the row of that id, or none.
FinalizeRead(r) ==
  /\ r \in readers /\ readers' = readers \ {r}
  /\ SetStatus(r, "failed")
  /\ UNCHANGED <<writers, batch, erased>>

\* delete_report does not ask for the status.
DeleteReport(r) ==
  /\ r \in Rows
  /\ reportRows' = [reportRows EXCEPT ![r] = NoRow]
  /\ erased' = erased \cup {r}
  /\ UNCHANGED <<writers, readers, batch>>

\* batch_delete_reports: the rows of the distinct ids are read; an empty list
\* is refused.
BatchReads(asked) ==
  /\ batch.pc = "idle" /\ asked # {}
  /\ batch' = [pc |-> "commit", asked |-> asked, found |-> asked \cap Rows, deleted |-> {}, missing |-> {}]
  /\ UNCHANGED <<reportRows, writers, readers, erased>>

\* What was found is deleted, or had been deleted by somebody else, and is
\* reported as deleted in both cases.
BatchCommits ==
  /\ batch.pc = "commit"
  /\ reportRows' = [r \in Reports |-> IF r \in batch.found THEN NoRow ELSE reportRows[r]]
  /\ erased' = erased \cup (batch.found \cap Rows)
  /\ batch' = [batch EXCEPT !.pc = "done", !.deleted = batch.found, !.missing = batch.asked \ batch.found]
  /\ UNCHANGED <<writers, readers>>

RowsNext ==
  \/ \E r \in Reports :
       \/ \E symbol \in Tickers, date \in Dates : InitReport(r, symbol, date)
       \/ UpdatePartial(r) \/ LookForRow(r) \/ CommitReport(r) \/ EndRun(r)
       \/ RaiseRun(r) \/ FailReport(r) \/ TimeOutRun(r)
       \/ ReadActive(r) \/ FinalizeRead(r) \/ DeleteReport(r)
  \/ \E asked \in SUBSET Reports : BatchReads(asked)
  \/ BatchCommits

RowsSpec == RowsInit /\ [][RowsNext]_rowVars

-----------------------------------------------------------------------------
(* Reading. *)

\* The first of a set of rows in the order of the newest.
Latest(found) == CHOOSE r \in found : \A other \in found : reportRows[other].created <= reportRows[r].created

\* get_latest_reports_by_symbols, whatever the status.
LatestOf(symbol) ==
  LET found == {r \in Rows : reportRows[r].symbol = symbol}
  IN  IF found = {} THEN {} ELSE {Latest(found)}

\* The first in the order of the board: the latest trade date, then the newest.
OfLatestDate(found) ==
  Latest({r \in found : \A other \in found : reportRows[other].date <= reportRows[r].date})

\* _select_reports_for_symbols: of the previous trading day, or else before
\* it, or else any.
Selected(symbol, previous) ==
  LET found  == {r \in Rows : reportRows[r].symbol = symbol /\ reportRows[r].status = "completed"}
      exact  == {r \in found : reportRows[r].date = previous}
      before == {r \in found : reportRows[r].date <= previous}
  IN  IF found = {} THEN {}
      ELSE {OfLatestDate(IF exact # {} THEN exact ELSE IF before # {} THEN before ELSE found)}

-----------------------------------------------------------------------------
(* A report that is there again after its deletion was put back whole by the *)
(* save of its own run, which the deletion did not stop: it has the run's    *)
(* request and is completed; it is failed only when the run's timeout, its   *)
(* exception or a reader of the deleted row has given the run up             *)
(* (report_service.py:527-536, 396-461, main.py:1523-1530, 2215-2262).       *)
OnlyRunsReturn ==
  \A r \in erased \cap Rows :
    /\ writers[r].pc \in {"saved", "raised", "ended"}
    /\ reportRows[r].symbol = writers[r].symbol /\ reportRows[r].date = writers[r].date
    /\ reportRows[r].status \in Ended
    /\ reportRows[r].status = "failed" => writers[r].givenUp # {}

(* After a batch deletion each id is reported once: a missing one had no row *)
(* when the batch looked, and a deleted one is gone unless its run brought   *)
(* it back (report_service.py:539-575).                                      *)
BatchIsHonest ==
  batch.pc = "done" =>
    /\ batch.deleted \cap batch.missing = {} /\ batch.deleted \cup batch.missing = batch.asked
    /\ batch.deleted \subseteq erased

\* The days a board may look back to: those of reports, and days without any.
BoardDays == UNION {{d - 1, d, d + 1} : d \in Dates}

(* Beside a position the board shows a completed report of its symbol, and   *)
(* one of a later day than the previous trading day only if there is no      *)
(* other; no completed report is closer to that day from before              *)
(* (tracking_board_service.py:97-134).                                       *)
BoardShowsClosest ==
  \A symbol \in Tickers, previous \in BoardDays : \A r \in Selected(symbol, previous) :
    LET found == {o \in Rows : reportRows[o].symbol = symbol /\ reportRows[o].status = "completed"}
    IN  /\ r \in found
        /\ \A o \in found : reportRows[o].date <= previous =>
             reportRows[r].date <= previous /\ reportRows[o].date <= reportRows[r].date
        /\ \A o \in found : reportRows[o].date = reportRows[r].date => reportRows[o].created <= reportRows[r].created

(* The promises about report rows, whoever writes, deletes and selects      *)
(* them meanwhile (report_service.py).                                      *)
ReportRowsInv == OnlyRunsReturn /\ BatchIsHonest /\ BoardShowsClosest
=============================================================================
