------------------------------ MODULE Backtests ------------------------------
(***************************************************************************)
(* Backtests (api/services/backtest_service.py): a table of jobs in memory *)
(* that request handlers and one background thread per job share, what a   *)
(* thread does for each sampled day, and the statistics it ends with.      *)
(* A record keeps the action and the return stored for it; a price rises   *)
(* (1), falls (-1) or does not move (0) until the exit.                    *)
(***************************************************************************)
EXTENDS Integers, Sequences, FiniteSets

CONSTANTS
  Backtesters,  \* ids of backtests, each used once
  Days,         \* calendar days 0 .. Days - 1, of which 5 and 6 modulo 7 are a weekend
  Intervals,    \* values of sample_interval
  Holds,        \* values of hold_days
  MaxPrices     \* bound: rows of prices a vendor returns

ASSUME BacktestAssumption == Days \in Nat

Missing == 99   \* return_pct = None

VARIABLES
  table,    \* _backtest_jobs: id -> fields
  threads,  \* the background thread of each id
  removed   \* history: ids deleted

backtestVars == <<table, threads, removed>>

\* _set merges fields, so a job may lack those of its submission.
NoJob   == [present |-> FALSE, whole |-> FALSE, status |-> "none", total |-> 0, done |-> 0, wins |-> Missing]

-----------------------------------------------------------------------------
(* Pure parts. *)

Weekday(day) == day % 7 < 5

\* _get_trading_dates: every interval-th day from the first, weekends left out.
SampledDays(start, end, interval) ==
  {day \in start .. end : (day - start) % interval = 0 /\ Weekday(day)}

\* _get_price_after: the row of the exit price, 0 for none.
ExitRow(rows, hold) ==
  LET days == IF rows < hold THEN rows - 1 ELSE hold
  IN  IF days < 1 THEN 0 ELSE days

\* return_pct is what the trade gains: a sale turns the sign.
Returned(action, move) == IF action = "BUY" THEN move ELSE -move

\* _compute_stats: a purchase wins with a positive return, a sale with a
\* negative one.
Won(record) == \/ record.action = "BUY" /\ record.return > 0
               \/ record.action = "SELL" /\ record.return < 0

Signalled(records) == {i \in DOMAIN records : records[i].action # "HOLD" /\ records[i].return # Missing}

-----------------------------------------------------------------------------
BacktestInit ==
  /\ table = [b \in Backtesters |-> NoJob]
  /\ threads = [b \in Backtesters |-> [pc |-> "none", due |-> 0, records |-> <<>>]]
  /\ removed = {}

\* Variant: the thread starts before the job is stored.
SubmitBacktest_ThreadFirst(b) ==
  /\ threads[b].pc = "none"
  /\ threads' = [threads EXCEPT ![b].pc = "start"]
  /\ UNCHANGED <<table, removed>>

\* submit stores the job and starts its thread.
SubmitBacktest(b) ==
  /\ threads[b].pc = "none"
  /\ table' = [table EXCEPT ![b] = [NoJob EXCEPT !.present = TRUE, !.whole = TRUE, !.status = "pending"]]
  /\ threads' = [threads EXCEPT ![b].pc = "start"]
  /\ UNCHANGED removed

\* The thread's first _set; every _set merges its fields into the job, or into
\* a new one when there is none.
StartBacktest(b) ==
  /\ threads[b].pc = "start"
  /\ table' = [table EXCEPT ![b].present = TRUE, ![b].status = "running"]
  /\ threads' = [threads EXCEPT ![b].pc = "dates"]
  /\ UNCHANGED removed

\* The days are computed; dates that cannot be read end the thread, with the
\* job left as it is.
SampleDays(b, start, end, interval) ==
  /\ threads[b].pc = "dates"
  /\ \/ LET total == Cardinality(SampledDays(start, end, interval))
        IN  /\ table' = [table EXCEPT ![b].present = TRUE, ![b].total = total, ![b].done = 0]
            /\ threads' = [threads EXCEPT ![b].pc = "days", ![b].due = total]
     \/ /\ threads' = [threads EXCEPT ![b].pc = "dead"]
        /\ UNCHANGED table
  /\ UNCHANGED removed

\* One day: an analysis, and for a purchase or a sale the prices of entry and
\* exit; whatever raises gives a record without a return.
AnalyseDay(b, action, move, rows, hold) ==
  /\ threads[b].pc = "days" /\ threads[b].due > 0
  /\ LET record == [action |-> action,
                    return |-> IF action = "HOLD" \/ ExitRow(rows, hold) = 0 THEN Missing
                               ELSE Returned(action, move)]
     IN  threads' = [threads EXCEPT ![b].due = @ - 1, ![b].records = Append(@, record)]
  /\ table' = [table EXCEPT ![b].present = TRUE, ![b].done = Len(threads'[b].records)]
  /\ UNCHANGED removed

\* The statistics end the job.
FinishBacktest(b) ==
  /\ threads[b].pc = "days" /\ threads[b].due = 0
  /\ LET records == threads[b].records
     IN  table' = [table EXCEPT ![b].present = TRUE, ![b].status = "completed",
                     ![b].wins = IF Signalled(records) = {} THEN Missing
                                 ELSE Cardinality({i \in Signalled(records) : Won(records[i])})]
  /\ threads' = [threads EXCEPT ![b].pc = "finished"]
  /\ UNCHANGED removed

\* DELETE /v1/backtest/{job_id} does not stop the thread.
DeleteBacktest(b) ==
  /\ table[b].present
  /\ table' = [table EXCEPT ![b] = NoJob]
  /\ removed' = removed \cup {b}
  /\ UNCHANGED threads

BacktestNext ==
  \E b \in Backtesters :
    \/ SubmitBacktest(b) \/ StartBacktest(b) \/ FinishBacktest(b) \/ DeleteBacktest(b)
    \/ \E start, end \in 0 .. Days - 1, interval \in Intervals : SampleDays(b, start, end, interval)
    \/ \E action \in {"BUY", "SELL", "HOLD"}, move \in {-1, 0, 1}, rows \in 0 .. MaxPrices,
         hold \in Holds : AnalyseDay(b, action, move, rows, hold)

BacktestSpec == BacktestInit /\ [][BacktestNext]_backtestVars

-----------------------------------------------------------------------------
(* A job that the list shows without its symbol and dates was deleted while *)
(* its thread ran, and the thread's next _set brought the rest of it back   *)
(* (backtest_service.py:43-48, 184-223).                                    *)
GhostsWereDeleted == \A b \in Backtesters : table[b].present /\ ~table[b].whole => b \in removed

(* A whole job never shows progress beyond its days or behind its thread,   *)
(* and is completed only with a record for every sampled day, also for the  *)
(* days whose analysis raised (backtest_service.py:194-220).                *)
EveryDayIsRecorded ==
  \A b \in Backtesters : table[b].whole =>
    /\ table[b].done <= table[b].total
    /\ table[b].status = "completed" => table[b].done = table[b].total

(* What is stored of a backtest belongs to one that exists or was deleted   *)
(* by its user, and covers every day it was to sample                       *)
(* (backtest_service.py).                                                   *)
BacktestInv == GhostsWereDeleted /\ EveryDayIsRecorded
=============================================================================
