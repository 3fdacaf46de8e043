# TLA+ models of trading_agents

This directory holds a formal model of trading_agents: the job stores and the
life of an analysis job in the API process, the scheduler process and its rows,
the data collector that jobs share, the agent graph with its debates and the
progress that is shown of it, the services around the analyses (accounts,
tokens, lists with limits, settings, messages, reports, backtests, caches), and
the algorithms the analyses rest on (vendor routing, the permits for akshare,
the trading calendar, signals, the user's context, chip scores).  TLC checks
the models on small instances.  TLAPS proves, for all values of the constants,
every safety property the passing runs check, and that both job stores implement
one abstract event log.  All but two of the theorems hold unconditionally: one
needs the database to take reports, one bounds the rounds of a debate (section 4).

- `*.tla` component modules, `MC*.tla` + `*.cfg` instances for TLC,
  `*Proofs.tla` theorems and proofs.
- `PROJECT.json` lists components, runs, mutants, the map from definitions to
  source lines, findings, hazards and theorems.

Check a run with `tlc -config MCJobRun.cfg MCJobRun` and a proof with
`tlapm JobStoreProofs.tla`.

## 1. The system and its components

One API process (FastAPI, one asyncio loop plus worker threads), one scheduler
process, a SQL database between them, optionally Redis, and a web frontend that
follows jobs by server-sent events.

| component | state it keeps | operations | hard behaviour | what makes it correct |
|---|---|---|---|---|
| In-memory job store (`api/job_store.py`) | `_jobs`, `_job_events` (a queue per job), the local state of each `subscribe()` generator | `set_job`, `delete_job`, `emit_event`, `subscribe`, deferred cleanup | generators share a queue; a queue is replaced while generators hold the old one; poll timeouts race events and the final status | each stream sees events in order, no event twice, none vanishes |
| Redis job store (`api/job_store_redis.py`) | a hash per job, channels, a listener thread and a queue per stream | `set_job`, `emit_event`, `delete_job`, `subscribe`, `clear` | messages before the subscription are lost; a listener dies; a start clears the keys of everybody | broadcast in order, nothing is missed while attached, every stream ends |
| Job lifecycle (`api/main.py` `_run_job`, `_run_job_inner`; routers `analyze`, `jobs`, `reports`) | the coroutine of each job, its status, its report row | start by `/v1/analyze`, chat or the scheduler, timeout race, success and error paths, orphan check, restart | the timed-out coroutine goes on; writes in threads between two statuses; database writes may fail | completion is final, what clients hear agrees with report and status, every run ends |
| Progress tracker (`main.py:1098-1145, 1695-1850`) | status per agent, sections waiting to be written | follow the chunks of the graph, flush, close out | a chunk repeats the whole state; a revision runs agents again; writes in batches | nobody steps back, what is shown is the latest text, the row catches up |
| Report rows (`report_service.py`, `tracking_board_service.py`) | one row per job | init, partial update, complete, fail, delete, batch delete, select | two processes, the timeout and GET handlers write one row; deletion during a run | rows of dead runs are failed, only the save of a run brings a deleted row back, the board shows the closest report |
| Signals (`signal_processing.py`, `report_service.py`) | none | read decision, direction, confidence, prices out of a text | two readers of one text | they agree where they should |
| Scheduler process (`scheduler/main.py`) | semaphore, background tasks | poll loop, launch, slots, recovery at start | death between marking and running; runs over midnight | slots conserved, marked rows get a verdict, one run per day |
| Scheduled analyses (`scheduled_service.py`, router `scheduled`), portfolio import (`portfolio_import_service.py`) | rows: active, trigger time, last day, status, report, failures; imported positions | create, update, delete, trigger, record; import, clear | API and scheduler write the same columns, each reading before it writes; reports are deleted or failed under the rows that name them; the limit is a count before an insert | a success names its run, three failures deactivate, manual tests do not consume the day, held positions are scheduled |
| Notifications (`email_report_service.py`, `wecom_notification_service.py`) | tasks | send with one retry | lost answers, changed settings, the end of the process | one message unless the answer was lost |
| Shared data collector (`data_collector.py`) | cache, locks per key, reference counts | `ref`, `collect` (thread), `get`, `evict` | threads outlive the jobs that wait for them; read-back outside the lock | exact counts, one fetch per key, a pool stays while it is used |
| Akshare lock (`cn_akshare_provider.py:38-116`) | two semaphores, holders | enter, reclaim, exit | threads hang, lose their permit and come back | permits add up, only reclaimed calls exceed them |
| Vendor routing and providers (`interface.py`, `providers/`) | none | ask vendors in order | failing vendors, error texts, foreign symbols | a request fails only when all failed |
| Trading calendar (`trade_calendar.py`, `context_utils.py`) | cached table of days | binary search, sessions, modes | the table is cached for ever, days pass | the previous trading day as defined, contexts fit their day |
| User context (`context_utils.py`, `intent_parser.py`, `main.py`) | none | merge four sources on five paths | the order of merges, zero is a value | explicit values win, nothing said is lost |
| Agent graph (`graph/`, `agents/`), debate claims (`debate_utils.py`) | debate states, counters, risk feedback, claims | nodes and conditional edges, one update per turn | loops driven by model output; a revision restarts a debate | every plan is debated, lists agree, the run ends below the recursion limit |
| Login codes (`auth_service.py`), API tokens (`token_service.py`), watchlist (`watchlist_service.py`) | rows | issue and verify, create, use and delete, add one by one or in batches | overlapping requests between a count and an insert, deletion between look-up and use | old codes stay dead, limits hold up to overlaps, answers fit what was done |
| Runtime configuration (`config.py` router and `dataflows/config.py`, `database.py`) | a row per user, one dict per process | read, probe, save, build a graph, restart | the row changes while a probe is out; jobs, backtests and charts overwrite the dict, also when they then fail; keys are re-encrypted | what was tried is what is saved, keys survive a change of secret |
| Backtests (`backtest_service.py`) | a dict of jobs, a thread each | submit, run, delete | deletion under a running thread | every sampled day is recorded, a deleted job comes back only while it runs |
| Stock names (`main.py:326-415`) | table, time of load, file | load with expiry | expiry outside the lock | nobody gets None but by another's expiry, failures are retried |
| Chip analysis (`chip_deep/`) | two file caches | scores, rating, levels, bins; fetching | thresholds that must fit; caches that hide newer data, kept apart by lookback | vetoes cap, the newest distribution that could be had is used |
| LLM clients, frontend, debug scripts | external | I/O | failures | choices of the models above |

How they interact: a route stores a job in the store and starts `_run_job`; the
inner coroutine refers to and collects data, runs the graph, writes the report
row through worker threads, sets the status and emits events; SSE responses
iterate `subscribe()`. The scheduler process runs the same `_run_job` with a
store of its own; with in-memory stores the two processes meet in report rows and
scheduled rows only, so the API takes a run of the scheduler for an orphan
(section 6).

## 2. Modules

```
EventLog  <-- implements --  JobStore  <-- EXTENDS --  JobRun
    ^                           |                        |
    |                     JobStoreProofs  <-- EXTENDS -- JobRunProofs
    +------ implements --  RedisJobStore
Scheduler        (uses the ways a JobRun can end as its Endings)
DebateClaims  <-- EXTENDS --  AgentGraph  <-- EXTENDS --  StreamProgress

MCAnalysis:  RedisJobStore, DataCollector, StreamProgress (over AgentGraph),
             AkshareLock, VendorRouting, TradeCalendar, Signals, UserContext, ChipScores
MCServices:  AgentGraph, LoginCodes, ApiTokens, Watchlist, ScheduledList, RuntimeConfig, Notifications,
             Backtests, ReportRows, StockMapCache, ChipFetch

RedisJobStoreProofs  RedisJobStore
SchedulerProofs      Scheduler
AgentGraphProofs     AgentGraph, StreamProgress, Signals, UserContext
DataflowsProofs      DataCollector, AkshareLock, TradeCalendar, VendorRouting
AccountsProofs       LoginCodes, ApiTokens, Watchlist, ScheduledList, RuntimeConfig, ReportRows
ServicesProofs       Notifications, Backtests, ChipFetch, StockMapCache, ChipScores
```

**EventLog** is the abstract contract of the event half of any job store: events
are numbered by emission and a stream sees them in increasing order. `Exclusive`
says whether an event reaches one stream only, as from the shared queue of the
in-memory store, or each gets a copy, as from Redis. Gaps are allowed: a queue
is dropped with its job, a message nobody listens to is lost.

**JobStore** models `InMemoryJobStore`. A step is what the code does between two
awaits. `status`/`created` are `_jobs`, `queueOf` is `_job_events`, `buffers`
holds the contents of all queue objects ever made, because a generator keeps its
queue object after the table has forgotten it; `streams` is the local state of
each generator. `wait_for(q.get(), 8)` returns by `Yield`, or its timer fires:
then the getter is cancelled (`pc = "expired"`, set by `Tick`) and the generator
resumes in a later iteration of the loop (`PollTimeout`), where it looks at the
status and not at the queue. Between the two a producer may put the last event and
store the final status; the stream then ends with the event still queued, which
`ending` tells apart as `"overtaken"`. `Disconnect` closes the generator, `End` is its `finally` clause, which
schedules the cleanup whatever the reason, and `Cleanup` the `call_later`
callback. Time advances by `Tick`, one poll interval, in which the timers of all
waits fire; what is due is served before the next tick (the loop is responsive within 8 s). The producers
in this module call the store in any order; the theorems hold for them all.

**JobRun** drives the store as the API does. `run[j].pc` is the next step of the
job's inner coroutine; each thread hop (`to_thread`) ends a step, so timeouts,
orphan checks, recoveries and restarts fall between them. `Timeout` is the
branch of `_run_job` after `asyncio.wait`; the inner coroutine is not cancelled
and its later writes remain possible. `ReadReport`/`FinalizeOrphan` are the two
halves of the GET handler that reads the row, then the store, then writes.
A job may also be `scheduled`: the scheduler process runs the same coroutine
(`Launch`), its entry and events are in the store of that process, and `Drop` is the
finally clause that deletes them. `KnownToApi` is what `_get_job` in the API
answers, and is false of such a job. `SchedulerStarts` is the start of the
scheduler process (its predecessor's runs are dead, every active row is failed),
`Restart` that of the API. What may go
wrong is chosen by `Faults`; a run that names no fault has none. Progress and
agent events are one kind of event: nothing distinguishes them but their text.
`ending` is a history variable: how each stream came to its end. `Excused(j)`
reads from it, and from the timeout, the two things after which little is
promised of job j: its own timeout has passed, or a client of its own has left
(and the cleanup that leaving schedules may delete it). What happens to other
jobs excuses nothing.

**Scheduler** models loop, slots, rows and recovery. A day has three parts
because the loop works before 08:00 and after 20:00 only. A write of a row by an
edit or a recording function is two steps, as SQLAlchemy makes it: `Load` (the
SELECT) and `Commit` (the UPDATE of the columns that differ from those read,
`Merged`). `txns` holds the open ones; the scheduler's event loop, that of the API
and each thread that serves a PATCH has one at a time. `crossed` is a history
variable: the rows on which a commit found the activity or the failures changed
since they were read. In the loop, `Poll` reads the due rows, `Mark` commits them,
`Snapshot` reads them back (and loses the batch if one is gone), `Launch` starts one
run a second; `Acquire` and `End` bracket the semaphore, `RecordLoad` and
`RecordCommit` write the outcome. The start of the process is `Startup` (rows and their
reports are read), `RecoverRows` (they are committed; a row deleted meanwhile ends
the process) and `RecoverReports` (the reports still active are failed; a deleted
one ends the process). Users delete reports (`Discard`) and open them
(`ReadReport`, `Finalize`), the second of which fails the report of a run that the
API does not know. `Endings` lists the ways `_run_job` returns, as JobRun and
ReportRows have them. `loop.lost` is a history variable with the rows of batches
the loop has forgotten; `Stranded` reads it. Manual tests run in the API process
without a slot. `opened` is the UTC day on which a run's report row is created,
since the recovery compares `created_at` with the row's local day. MCSchedulerRows
starts with rows that already have a failure or two.

**DataCollector** separates a job's coroutine from its collect thread: the
thread goes on when `wait_for` gives up, and a fetch may never return. `EnterLock` tests the cache while it
holds the key's lock; `ReadBack` reads the cache after the lock is released.
A job refers to its `key` and collects under its `ticker`; it is `Astray` when
the two differ.

**DebateClaims** is a function of one turn; **AgentGraph** runs it on the edges
of `conditional_logic.py`. The language model is nondeterministic: payloads name
any ids, known or not, and the judge's verdict is any of pass, revise, reject.

**RedisJobStore** has three hand-overs of an event: publish to the connection of
each subscribed stream, `ListenerReads` from the connection to the queue of the
generator on the loop, `Yield`. The listener subscribes after the generator has
begun and may fail; `ScanKeys`/`DeleteKeys` are the start of another API process
that clears the database in batches while jobs go on, and `DeleteJob` is the scheduler
deleting the key of a run that is over. As in JobStore the timer (`WaitExpires`)
and the generator's turn after it (`PollTimeout`) are two steps.

**StreamProgress** extends AgentGraph: each of its steps is one node of the graph
followed by what `_process_horizon` does with the chunk. `text` counts the
versions of each section, so that a repeated text is told from a new one;
`shown` is what the stream has announced, `pending` and `row` what waits for and
what has reached the database.

**AkshareLock** gives each thread a place: in one of the two `acquire`s, first
or second wait, calling, releasing. A call that lasts becomes stale and any
waiter may reclaim it; it may end all the same. `holders` is `_holders`.

**VendorRouting** takes the answers of a vendor's sources (rows, nothing, an
exception) as inputs; one operator per provider says what each method makes of
them, `AskVendor` what the router makes of that.

**TradeCalendar** runs the binary search step by step beside days that pass and
a table that is loaded once; `IsPrevious` is the definition it is compared with.

**Signals**, **UserContext**, **ChipScores** are functions of one input each:
every initial state is an input, there are no steps. A text is reduced to what
its readers look at, a user's value to the sources it comes from, a distribution
to what the scores ask of it.  The inputs of ChipScores are constants, any sets of
numbers of the right form; MCAnalysis gives the samples.

**LoginCodes**, **ApiTokens**, **Watchlist**, **ScheduledList** model requests
whose reads and writes are apart: a check, then an insert. Each keeps a history
variable with the most requests that ever overlapped, in which the overshoot of
a limit is measured. SQLite runs a transaction from its first write on as one
step, which is why an import (its first statement deletes) is one step and a
create is two.

**RuntimeConfig** has a row per user, edits in three steps (read, probe, save),
jobs, and restarts with another secret. `Default` is `DEFAULT_CONFIG` with its
provider, two models, key and language, as the environment sets them. A job merges
its configuration (`ConfigureJob`), builds a graph and, with a query, a second one
(`BuildGraph`); the constructor sets the process-wide copy first and makes the
clients, which may raise, afterwards. Backtests and charts set the copy too
(`SetElsewhere`); `passed` is a history variable: others have set it since the
job did.

**ReportRows** follows one run per report. The timeout writes wherever the
coroutine is (`TimeOutRun`), an exception after the save raises over the saved row
(`RaiseRun`, `FailReport`), a commit of create_report that fails is logged and the
run goes on, and a reader may have found the row active before it was deleted
(`ReadActive`, `FinalizeRead`). `givenUp` is a history variable: which of them gave
the run up.

**ChipFetch** has requests of several lookbacks. A table of indicators is cached
under its first and last day; `Reach` is how far back the first lies, the same for
all lookbacks up to `MinReach` (`max(80, 2.5 * lookback)` calendar days).

**Notifications**, **Backtests** and **StockMapCache** follow the code step by step;
in StockMapCache each access to a shared variable is a step, since its callers are
threads.

MCAnalysis and MCServices put together parts that share no state. A variable
(`part`, `which`) chooses one part in the initial state; the others are held in
one initial state each. The run explores the sum of the parts, not their
product, and shows of each part what a run of its own would.

Operators named `X_Y` with a comment "Variant" are the mutated forms of `X` that
PROJECT.json lists; the specifications do not use them.

## 3. Runs

| run | properties | instance | states |
|---|---|---|---|
| `job_store` | `StoreInv`, `NothingVanishes`, `EventLogImplemented` | 1 job, 2 streams, 3 events, disconnects | 592 k |
| `job_run` | `CompletionIsSeen`, `DeletionsHaveAReason`, `EveryRunGetsAVerdict`, `EarlyStreamsEnd` | 1 job of any kind, 2 streams, disconnects, errors and timeout | 605 k |
| `job_faults` | `EndedJobsAreDecided`, `CompletedIsFinal`, `OnlyDeadRunsAreOrphans`, `OrphansAreFinalized` | 1 job, 1 stream, every fault | 50 k |
| `sched_batch` | `SlotsInv`, `MarkedRowsGetAVerdict` | 2 rows, 1 slot, 2 runs, 2 days, crashes, deletions | 376 k |
| `sched_rows` | `SuccessHasReport`, `ThreeStrikes` | 1 row with one or two failures, 2 runs, 1 request thread, manual tests, edits, report deletions, readers, both crashes | 3.3 M |
| `analysis` | one property or two for each part of MCAnalysis, below | the parts of MCAnalysis, one at a time | 427 k |
| `services` | one property or more for each part of MCServices, below | the parts of MCServices, one at a time | 1.5 M |

Five more runs end in a counterexample; section 6. Properties that end in `Inv`
or `Hold(s)` are conjunctions of named parts; the parts carry the comments.

| part | property | what it says |
|---|---|---|
| `analysis`: redis | `RedisInv`, `BroadcastImplemented`, `StreamsEnd` | an attached stream misses nothing; a result is stored before it is announced; order, no repetition; each stream of a finished job ends |
| collector | `CollectorInv`, `EveryCollectEnds` | counts are exact, one fetch per key, no pool is taken from a job that collects what it refers to (`PoolStays`), nothing is kept that nobody needs but what a late or astray job stored, jobs go on past a fetch that hangs and no worker thread is lost but behind one |
| progress | `ProgressHolds` | no agent steps back, a section shown is the latest, the row holds all but the last few texts, when the research team is announced, who is shown as completed |
| lock | `PermitsInv` | a permit is free or with one thread; only reclaimed calls exceed the limits |
| vendors | `RoutingInv` | failure only after all failed; which vendors end the search with an error text; foreign symbols pass on |
| calendar | `CalendarInv` | the search finds the previous trading day; resolved dates stay trading days; contexts claim no future data |
| signals | `SignalsInv` | decision and direction agree; nothing is invented; event and row carry the same fields |
| context | `UserContextInv` | the request's values win, nothing said is lost, numbers are those in the text |
| chips | `ChipScoresInv` | stars need buyers, risks cap the rating, levels lie around the price, each price has a bin |
| `services`: graph | `DebatesInv`, `PlansAreDebated`, `WithinRecursionLimit` | claims and id lists agree, each plan is judged after a full debate, the run ends below the recursion limit |
| logins | `LoginCodesHold` | replaced codes stay dead, a code is used twice only by overlapping requests, and in time |
| tokens | `ApiTokensHold` | the limit is exceeded by overlaps only, a grant needs a token and an account that were valid during the request |
| watch | `WatchlistHolds` | each answer fits the rows it stands for, a symbol is added once, the limit up to overlaps |
| list | `ScheduledListHolds` | the limit up to overlaps; an import schedules what is held or fills the table, and deletes nothing |
| config | `ConfigHolds` | keys stay readable under the first secret, what is saved was tried, models are complete and defaults not hidden, foreign prompts need somebody who set the copy meanwhile |
| notices | `OnceUnlessExcused` | two messages only after a lost answer, none only for a named reason |
| backtests | `BacktestInv` | entries of deleted backtests are partial and belong to threads that run; every sampled day has a record |
| rows | `ReportRowsInv` | a deleted row comes back only by the save of its run, and is failed only if the run was given up; a batch counts what it deleted; the board shows the closest report |
| names | `StockNamesInv` | None is returned only when another caller expired or failed, tables age by two TTLs at most, failures are retried |
| chips | `ChipFetchInv` | caches hold published data only, the newest distribution is used, answers to requests of one reach go forward |

What they show beyond the table:

- *One queue, several streams.* Two SSE connections of one job split its events
  between them. That is the code's behaviour and the contract allows it; what
  the runs show is that the split never repeats, reorders or drops an event, and
  that the stream which does not get the terminal event still ends, by its poll
  (`EarlyStreamsEnd`), having missed nothing that nobody got (`CompletionIsSeen`).
- *The last poll.* A stream whose timer fires just before the job completes ends by
  the status and leaves `job.completed` in the queue: nobody may have been told
  when the stream ends, and only another stream can still be. The models have the
  race; the properties say that the event is not lost before the cleanup.
- *Order of the last writes.* Report row, then status and event in one step:
  the mutant that stores the status first breaks `CompletionIsSeen`, which
  relates the event, the status and the report.
- *Timeout against completion.* The check of `inner.done()` and the writes after
  it are one step of the loop, so no completed job is failed (`CompletedIsFinal`,
  proved). The opposite direction is not excluded: an abandoned coroutine may set
  a failed job running and complete it. Properties that compare status, streams
  and report therefore except jobs past their own timeout, by `Excused`.
- *Clients that leave.* The cleanup after a disconnect may delete a job that
  runs; that excuses this job from the same properties, not the other jobs. A
  stream that is cut by a restart excuses nothing.
- *Verdicts.* No coroutine ends on a job that still reads running
  (`EndedJobsAreDecided`), the abandoned one of a timed out job included; one
  whose configuration raised is the only one to leave its job pending.
- *Recovery.* A crash at any point leaves rows that the next start of the
  scheduler brings to a verdict (`MarkedRowsGetAVerdict`); a crashed API leaves
  report rows that the next reader fails (`OrphansAreFinalized`). A deletion in
  the middle of a batch strands its rows until they are due again or the process
  starts anew; the properties name that case and nothing else strands a row.
- *Rows under two processes.* A commit writes the columns its transaction has
  changed, so two processes may each write half of a row. With an inactive row of
  two failures, `mark_run_failed` reads it, a request activates it, and the commit
  leaves it active with three failures. `ThreeStrikes` holds except on rows where
  commits crossed in this way; `SuccessHasReport` holds whatever the order of the
  halves.
- *Reports under rows.* A row keeps reading success after its report was deleted,
  and a reader or the recovery may have failed the report; what holds is that
  the row links a run of its own that did not fail.
- *Locks are never deleted.* `OneFetch` (in `CollectorInv`) rests on it: evict
  keeps the lock objects.
- *Redis loses and yet ends.* Events before the subscription are gone, and a
  listener may die; a stream ends all the same because the stored status is read
  when its queue was silent (`StreamsEnd`), and whoever reads a verdict finds
  its result (`ResultIsThere`).
- *Limits.* Each count-then-insert limit can be overshot by overlapping requests
  and by nothing else; the properties say by how many.
- *Revision.* The trader resets the risk debate when a plan comes back; without
  the reset the second plan is judged after one turn (`PlansAreDebated`).

### Bounds and why they are enough

`Jobs = {j1}` in the job runs: no step of a job reads another job's entry, and
the store's tables are keyed by job; the proofs cover any number. Two streams
are the least that share a queue and let one clean up after the other; Grace = 1
(store) or 2 (jobs) poll intervals instead of 7.5 keeps the order "poll, poll,
cleanup" that matters. `MaxEvents = 3` lets a queue hold two events while a third
has been yielded. `MaxProgress = 2` gives an event before and during the work.
`sched_batch`: two rows on one slot queue, two days and two runs give a run, its
death and its rerun. `sched_rows`: rows start with one or two failures, so two
runs reach the third, and a manual test runs beside a scheduled one; one request
thread is enough to cross a write of a process; users of one behaviour change the
activity of a row, its trigger time, or work on reports (`users`), not all three.
A configuration that raises and a report that cannot be written stay out of
`sched_rows`, which would be too large; the theorem covers them. Three collectors
on one key give one that fetches, one that waits and one that evicts; one of them
may hold the other key, so that two hold one and a third puts a pool there, or
evicts one, that is not its own. Five rounds are the most of the default
configuration and its settings page (default_config.py:23-24),
and two claims suffice for one to be resolved while another is unresolved;
`MaxRetries = 1` is the program's constant, `RecursionLimit = 100` its default.

In `analysis`: two streams and two events tell an event before the subscription
from one after it, and the first stream only loses its connection (`OneFails`); three threads on two permits, one of them for scheduled
tasks, let one hang, one reclaim and one wait; six answers are the most sources
a method asks; the calendar has holidays beside a weekend, days before and after
the table and the turn of a year with a new table; the agent graph below the
progress has one round of each debate and one revision, which is where sections
are written twice, and an analyst the tracker does not list. In `services`:
limits of two with two or three contenders; codes of lifetime one over two units
of time; two secrets over the model's own,
and two edits, two jobs or one of each at once (`TwoAtOnce`), which is what an overlap
needs; a backtest of nine days at intervals 3 and 7 with windows of up to two
prices; two dates and two reports of one symbol, one of which meets timeouts,
errors and readers while the other is of the last date (`OthersAreLate`): every order
of the two by date and by creation is there; two callers of the stock names over
three units of a time to live of one; three trading days with lookbacks of one to
three, two of which share their tables; an import that empties one stock
(`FewEmpty`); debate turns that give one claim a status, perhaps in several lists
(`SmallPayloads`), which the theorem `DebatesCorrect` does not assume.

`CHECK_DEADLOCK FALSE` is given where the system may really stop: all jobs done
and all streams gone, or the last modelled day over.

### Fairness

- `LoopFairness` (JobRun): the event loop runs ready generators, expired timers
  and callbacks; the symbol extraction has its own 60 s timeout; time passes
  (strong fairness of the tick, because a tick may be disabled again and again
  by work that is due). Nothing is assumed of the agent graph, which may hang:
  only the fairness of `Timeout` makes a job end, and that is a timer.
- `ReaderFairness`, in `job_faults` only: somebody opens a report that reads as
  active. Nothing else in the API finalizes orphans, so without a reader they stay.
- Scheduler `Fairness`: marks, snapshots, launches and runs go on (a run is bounded by
  `_JOB_TIMEOUT`) and the operator's supervisor restarts a dead scheduler. The
  commit of the recovered rows is strongly fair: not every start is cut short by
  another crash or by a row deleted in its middle. Polls and the passing of days
  are not fair; no property needs them.
- `CollectorFairSpec`: the timer of `wait_for` fires, and threads that can run take
  the locks that are free and read back. Nothing is assumed of fetches, which
  wait for their sources without a timeout and are known to hang
  (cn_akshare_provider.py:18-21, main.py:1524-1526), nor of analyses. A thread that
  has not started, or waits for the lock, is promised nothing while a fetch is in
  its way (`Blocked`).
- `RedisFairSpec`: the loop serves queued events, timers and expired waits, and a
  listener thread that has not failed is scheduled. Jobs, clients and the connection may
  do nothing at all.

`AnalysisSpec` states the last two for the part that runs. The other parts of
`analysis` and `services` have safety properties only and assume nothing.

## 4. What is proved

Constants are arbitrary: any jobs, streams, threads, rows, tokens and tables, any
bounds on counters, and any combination of faults that the table does not
exclude. The assumptions are named in the modules that declare the constants and
TLC evaluates each of them in a run. They give constants their types
(`JobStoreAssumption`, `JobRunAssumption`, `RedisAssumption`,
`SchedulerAssumption`, `AgentGraphAssumption`, `ClaimsAssumption`,
`SignalsAssumption`, `LoginCodesAssumption`, `ApiTokensAssumption`,
`RowsAssumption`, `NoticesAssumption`, `BacktestAssumption`, `FetchAssumption`,
`ChipScoresAssumption`), and beyond types say only:

- what is counted is finite: jobs (`DataCollectorAssumption`), threads
  (`LockAssumption`), the market an import draws on (`ScheduledListAssumption`);
- the names of different things differ: agents and sections (`StreamAssumption`),
  "unset" and a key, a custom secret and the default one (`ConfigAssumption`),
  "unknown" and a symbol (`WatchlistAssumption`), None and a table or a caller
  (`StockMapAssumption`);
- tables of trading days are sorted (`CalendarAssumption`), which is how akshare
  publishes them; a configured order of vendors is a sequence of names, known or
  unknown (`RoutingAssumption`).

| module | theorem | statement | needs |
|---|---|---|---|
| `JobStoreProofs` | `TypeCorrect`, `Delivery`, `StoreCorrect` | `Spec => []TypeOK`, `[]DeliveryInv`, `[]StoreInv` | |
| | `Refinement` | `Spec => EventLogImplemented` | |
| | `NoEventIsLost` | `Spec => []NothingVanishes` | |
| | `StreamsArePrivate` | `Spec => []OwnEvents` | |
| `JobRunProofs` | `RunTypeCorrect` | `RunSpec => []RunTypeOK` | |
| | `RunRefinement`, `ClientsSeeTheirJob` | `RunSpec => EventLogImplemented`, `[]OwnEvents` | |
| | `CompletionIsFinal` | `RunSpec => CompletedIsFinal` | |
| | `NothingMissed` | `RunSpec => []CompletedNeverMissed` | |
| | `CompletionSeen` | `RunSpec => []CompletionIsSeen` | reports are written |
| | `DeletionWaits` | `RunSpec => DeletionsHaveAReason` | |
| | `OrphansAreDead` | `RunSpec => OnlyDeadRunsAreOrphans` | |
| | `JobsAreDecided` | `RunSpec => []EndedJobsAreDecided` | |
| `RedisJobStoreProofs` | `RedisCorrect` | `RedisSpec => []RedisInv` | |
| | `RedisRefinement` | `RedisSpec => BroadcastImplemented` | |
| `SchedulerProofs` | `SlotsAddUp` | `Spec => [](TypeOK /\ Slots)` | |
| | `SlotsCorrect` | `Spec => []SlotsInv` | |
| | `StrikesCorrect` | `Spec => []ThreeStrikes` | |
| | `ReportsCorrect` | `Spec => []SuccessHasReport` | |
| `DataflowsProofs` | `FetchedOnce` | exact counts, one fetch per key | |
| | `CollectorCorrect` | `CollectorSpec => []CollectorInv` | |
| | `LockCorrect` | `LockSpec => []PermitsInv` | |
| | `CalendarCorrect` | `CalendarSpec => []CalendarInv` | |
| | `RoutingCorrect` | `RouteSpec => []RoutingInv` | |
| `AgentGraphProofs` | `DebatesCorrect` | `Spec => []DebatesInv` | |
| | `PlansGetTheirDebate` | `Spec => []PlansAreDebated` | |
| | `RunsAreBounded` | `Spec => [](steps <= LongestRun)` | |
| | `LimitSuffices` | `Spec => []WithinRecursionLimit` | rounds <= 5, retries <= 1, limit >= 100 |
| | `ProgressCorrect` | `StreamSpec => ProgressHolds` | |
| | `SignalsCorrect` | `SignalInit => SignalsInv` | |
| | `UserContextCorrect` | `ContextInit => UserContextInv` | |
| `AccountsProofs` | `LoginsCorrect` | `LoginSpec => LoginCodesHold` | |
| | `TokensCorrect` | `TokenSpec => ApiTokensHold` | |
| | `WatchlistCorrect` | `WatchSpec => WatchlistHolds` | |
| | `ScheduledListCorrect` | `ListSpec => ScheduledListHolds` | |
| | `ConfigCorrect` | `ConfigSpec => ConfigHolds` | |
| | `ReportRowsCorrect` | `RowsSpec => []ReportRowsInv` | |
| `ServicesProofs` | `MessagesArriveOnce` | `NoticeSpec => []OnceUnlessExcused` | |
| | `BacktestsCorrect` | `BacktestSpec => []BacktestInv` | |
| | `ChipDataCorrect` | `FetchSpec => []ChipFetchInv` | |
| | `StockNamesCorrect` | `MapSpec => []StockNamesInv` | |
| | `ChipScoresCorrect` | `ChipInit => ChipScoresInv` | |

Two theorems have a hypothesis. A report whose write failed is announced as
completed all the same, so `CompletionSeen` supposes that no write of a report
fails (`"db" \notin Faults`); `NothingMissed`, its half about streams, does not
need that. With more rounds than the default configuration a run may exceed the
recursion limit (section 5), so `LimitSuffices` bounds the rounds.

Everything else holds for every combination of faults. What the code does not
withstand is in the properties themselves, as narrow as it could be made: a job
past its own timeout or left by a client of its own (`Excused`), a row whose batch
the loop forgot because a row was deleted (`Stranded`), a row on which two commits
crossed (`crossed`, in `ThreeStrikes`), a success whose run had a configuration that
raised, or whose report was not written, deleted or failed by others
(`SuccessHasReport`), the orphan check on a run of the scheduler
(`OnlyDeadRunsAreOrphans`), a returned report whose run was given up (`OnlyRunsReturn`), a job that collects under a key it does not hold (`Astray`),
and a key on which a dry run evicts without a reference (`Referenced`). Each of
these can happen in the model, and the strict forms of three of them are what the
runs `job_disconnect`, `job_scheduled` and `collector_alias` refute.

### The job stores

*Delivery.* Order and uniqueness of what streams see cannot be
shown from what they have seen alone: the next event comes from a queue. The
invariant `DeliveryInv` says of the queues what is needed: numbers do not exceed
the count emitted (`Numbered`), a queue is in emission order (`Ordered`), an
event is in one queue at most (`OneQueue`) and in none once yielded
(`YieldedOnce`), and what a stream has seen is older than all that waits in the
queue it holds (`InTime`). The last conjunct is the one that survives the
replacement of a queue by `delete_job` and `emit_event`: a generator holds its
old queue for life and a new generator starts with nothing seen. The invariant
is inductive together with `TypeOK`; `job_store` checks it, too.

*Nothing vanishes.* `NumbersHeld`: every number given out is on an event that was
yielded or is in some queue. Deletion takes the queue from the table, not the
events from the queue.

*Private streams.* `Private` follows ownership of queues: a queue in the table has
one job, a waiting stream holds a queue made for its job, and what a queue
contains is of one job.

*Refinement.* `Emit` and `Yield` map to the actions of EventLog, every other step
leaves `emitted` and `seen` alone. The lemmas are stated for the operations
(`Emit`, `DeleteJob`, `Subscribe`, ...), not for the producers, so JobRunProofs
reuses them for every step of a job, the restart included.

*Redis.* What a stream has yielded, the queue of its generator and the connection of
its listener are three pieces of one line (`InLine`): rising within each piece,
each piece before the next, so both hand-overs move the end of one piece to the
beginning of another. `Genuine` ties the line to what was published,
`Attachment` says that a stream not yet attached has none of it, and with
`AttachedMissNothing` the line has no gaps from the subscription on. `Stored`
gives that a verdict can be read as soon as it is heard.

### The life of a job

*Completion is final* needs one more invariant, `CompletedIsDone`: a job that
reads completed has a coroutine that is done. `Timeout` and `Raise` require one
that is not.

*Jobs on time.* The properties about clients and readers follow from one
invariant, `OnTimeInv`, of every job that is not excused: a terminal event
exists only when the run is over (`VerdictIsLast`); a terminal status, a missing
entry or an ended stream tells that the coroutine is closing (`ClosedInTime`);
until the job is deleted, its streams wait at the queue where its events are put
(`SharedQueue`), so what a stream has overtaken is still in a queue; and the status never runs ahead of the event
(`CompletionHeld`). `EarlyInv` says of a job that has not been stored that
nothing is known of it. Jobs past their timeout are excepted because the
abandoned coroutine still moves while the cleanup runs, jobs left by a client
because the cleanup comes too early. An excuse stays for good (`ExcuseStays`):
a timeout is not taken back and a stream that has ended keeps its ending, for
which `OpenInv` says that a stream still open has none. Runs of the scheduler are
outside: the API's store has no entry and no stream of them (`ScheduledInv`). So a step has to keep
`OnTime` of those jobs only that are not excused after it, and the one step that
breaks it, the disconnect, excuses the job it breaks (`LeavingExcuses`). The
report is in `ReportOnTime`, whose part `ReaderInTime` is about the GET handler:
it holds up the clock, so the job it found active outlives it.

*Decided.* `DecidedInv` is about all jobs, excused or not: after the timeout the
abandoned coroutine may set a failed job running again, but whichever way it then
takes, it stores a verdict before it is over. The invariant therefore follows the
places of the coroutine from which it can end without another write.

### The scheduler process

`CoreInv` has the types, the sum of slots, that only scheduled runs queue, that
nothing of the scheduler outlives its process (`DownIsDead`) and a process that
starts has all its slots (`StartIsFull`), and that every failure counted is a run
that has been recorded (`FailuresAreRuns`), which bounds the counter. A transaction
may still write what it read, so the same is said of it: a writer has one at a
time (`OneEach`), the run it records has ended and is not recorded yet (`TxnRuns`),
and the failures it read are recorded runs (`TxnCounts`).

`OwnInv` adds whom a running row belongs to: the batch, a live run, the
recovery, or a batch the loop has forgotten. The rows
of a batch have been created (`HeldRows`), so that a creation never makes a row
running that the loop holds, and the step that forgets a batch has found a row
deleted, which stays deleted; that is what makes its other rows `Stranded`. An edit
commits no status, and the scheduler opens no transaction while it marks (`Alone`,
`Unmarked`), so no commit takes the mark of a later batch from a row. `Recovery`
says that a start knows the rows that run and leaves none.

`StrikesInv` says the same of rows and of what open transactions have read: inactive
after three failures, or crossed. A commit onto a row that nobody changed meanwhile
writes the pair of activity and failures it computed; any other makes the row
crossed. `LinksInv` says of the run a row links that it is over, is the row's own
and did not fail, and of each run that ended so that its report was delivered unless
others took it away (`Delivered`). A run that is being recorded was not linked
when its row was read (`Unlinked`), so the comparison of columns at the commit never
leaves the new link out.

### Data collector, akshare lock, calendar, vendors

*Pools.* `SafeInv`: the lock of a key is one object for ever (`KeyLocks`), who
fetches holds it and found no pool (`Fetchers`), counts are those of the jobs that
refer to a key (`Counts`). `PoolInv` adds that a working thread is awaited or its
job is late (`Awaited`), that every pool has a job that will evict it, or one that
gave up waiting or went astray to its key (`Owned`), and that a thread that
returned got the pool that is still there (`Returned`). A job astray may store a
pool under a key it does not hold; it cannot take one away there, since evict
works on the key the job holds, and the count of that key is exact. So `Returned`
needs nothing about aliases but that the job it speaks of holds what it collects.

*The lock.* `PermitsInv` is inductive with the types: a permit is counted where
it is, free or with the thread whose place says so, and each action moves it.
The proof has a lemma for every way the two sets of owners change (a thread
joins, leaves, or nothing moves) on top of the library's facts about cardinality.

*The calendar.* The loop invariant of the binary search is what CalendarInv lacks:
all days below `lo` are before the date and all from `hi` on are not; with a
sorted table it yields that the element before `lo` is the latest. That a date
stays open needs that a table, once loaded, is never replaced.

*Vendors.* `RouteBooks`: every registered vendor is in the chain, and while the
search goes on each result so far left it open. What a vendor makes of its
sources does not depend on the chain, so the rules on errors and foreign symbols
compare each provider with its operator once (`RaisesMoveOn`, `ForeignRaise`).

### The agent graph, its progress and its signals

*Debates.* The id lists and the statuses inside the claims are kept apart; one lemma
shows that `Turn` moves the same ids in both, whatever the payload names, an id as
resolved and unresolved at once included. A revision starts again from the empty
debate.

*The path.* `PathInv` says where a run can be: plans and retries count together
(`PlansCount`), a risk debate is at turn 3k, 3k+1 or 3k+2 according to its speaker
(`TurnsInOrder`), and the supersteps taken, those the current plan still needs and
those the judge may still ask for (`Spare`) stay within `LongestRun`, which is
`3 + DebateTurns + (MaxRetries + 1) * (RiskTurns + 2)`. With the program's limits
that is 47 supersteps of 100.

*Progress.* The loop's books do not contain the node of the graph. `SeenBooks`
says what they tell of it: before the research manager no decision was seen,
after the analysts exactly their reports were. `StatusBooks` ties the statuses to
what was seen, so that none goes back when a node runs a second time.

*User context.* The paths differ in the order of two or three merges. A merge takes
from the upper side what is there, so a value in the result is one of the sources
(`OverReads`), and each conjunct compares two reads of the same chain; the lemmas
give the value read on each path. No step is involved: every initial state is an
input.

*Signals.* Both readers take the first place of the text in which they find a word,
and differ in the comment only. The lemmas on `FirstWord` say that the word stands
in such a place, and that none is found only when every place is empty.

### Accounts, lists, settings, rows

*Logins.* Only the newest code of an address is unconsumed (`CodeBooks`), and a
login that was over when another one read its code had used a different one
(`UseBooks`).

*Limits.* In tokens, watchlist and scheduled rows, the rows and the requests between
count and insert are bounded together; a request that counts below the limit
leaves room for itself, and the history variable grows with each that joins. The
watchlist also keeps one answer per word of a request (`AnswerBooks`).

*Settings.* What an edit tried is what it is going to save until another save
makes it stale (`TriedBooks`), and the dict that jobs share is as the last
graph of a job set it until somebody else sets it, also by a build that then
fails (`PromptBooks`).

*Rows.* `WriterBooks` speaks of a row, the place of its run, its reader and its
deletion together: a row that was deleted is absent until the save of its run
brings it back, and one that reads failed afterwards has a run that was given up.
What a batch found was there or was deleted by another (`BatchBooks`). A bound of all dates and
creation times, which each step may raise, makes the newest and the latest row
of the board exist.

### Services

*Messages.* `TaskBooks` bounds, for each state of a task, what may have arrived.
*Backtests.* While a job has its symbol and dates it follows its thread
(`JobFollowsThread`); it loses them only when it is deleted.
*Chip data.* The search never passes a day that was not refused (`SearchBooks`), and
what is cached for a day was published by then (`PerfCacheBooks`, `VendorBooks`).
The tables are kept for each reach, and so is what was used last (`UsedBooks`).
*Stock names.* Each caller's place in the code says what it may find in the shared
variable (`FindsBooks`) and the time that belongs to it (`LoadedBooks`).
*Chip scores.* Beside the margin of buyers over sellers all parts of the rating sum
to at most 14 quarter-points, so four stars need a margin; the bins are a
division by an arbitrary width, and least and greatest prices exist because
naturals are well-founded.

### Only model-checked

The six liveness properties (`EveryRunGetsAVerdict`, `EarlyStreamsEnd`,
`OrphansAreFinalized`, `MarkedRowsGetAVerdict`, `StreamsEnd`, `EveryCollectEnds`),
since the prover does not treat fairness.

## 5. What is abstracted and what is left out

- The content of events, reports and prices; HTTP status codes, signing of
  access tokens, logging. In JobRun a report row is its status.
- The two halves of recording an outcome raise only when the row is gone. A write
  that fails for another reason leaves the row as a crash before it would, and the
  next start recovers it.
- Scheduler has no second request thread beside its process and the API's loop in
  its runs; the theorems are for any number.
- In Scheduler the calendar is reduced to days on which the loop works.
- A scheduled run's queue drains before the next window: `_JOB_TIMEOUT` bounds a
  run, and `Tick` of the daytime relies on it.
- `_purge_stale_jobs`, `apply_chunk` of the progress tracker and `_locked` of the
  akshare provider have no caller.
- Jobs over the Redis store are short: a job has no timeout there. The store itself
  is modelled whole.
- The analysts' tool edges: no analyst node binds tools, so they are never taken.
- Redis keys expire after 24 hours; no job lives that long in the models.
- Providers: the requests, and the tables they are normalised into. Chip analysis:
  price stages, the wash-day detection and the wording of its insights. Regular
  expressions are reduced to whether they find a value.

Cases the models admit and no property forbids, named in the notes of the hazards
of PROJECT.json: a job whose configuration raises stays pending, and the
scheduler counts it as a success (`EndedJobsAreDecided` and `SuccessHasReport`
say so); a dry run evicts a pool that another job holds with a count of one; a
stream opened on a finished job just before its cleanup pings for ever; the start
of the scheduler fails the report rows of jobs that the API is running; a timeout
fails the row that an abandoned coroutine has just saved, also where a user had
deleted it before; an abandoned run may complete a row that was failed. Outside
the models: a malformed date kills the thread of a backtest, whose status stays
running (backtest_service.py:190).

Behaviour of the code that the properties had to be worded around, and that a
maintainer may want to know of:

- *Rounds.* Rounds in stored settings or in a request's overrides are not
  clamped (api/main.py:278-282, 803-830; auth_service.py:273-276); with twenty of
  each a run needs more than the 100 supersteps it has and fails.
- *Configuration.* A probe fills a model the request leaves out with the stored
  one, the saved row does not (main.py:2874-2896), so the tried pair may differ from the
  one in use. API tokens are hashed with the secret and, unlike keys, do not
  survive its change.
- *Progress.* `social` and `volume_price` are not in `ANALYST_ORDER`
  (main.py:494): they are never marked skipped, are shown as completed at the
  end, and a run with one of them never announces the research team. When a node
  raises, texts that wait for the next batch are not written.
- *Signals.* `process_signal` promises BUY, SELL or HOLD (signal_processing.py:26) and
  returns UNKNOWN for a text without key words; the model is never asked.
- *Backtests.* `return_pct` is already turned for a sale (backtest_service.py:211), and
  `_compute_stats` then counts a negative one as won; an interval of seven days
  from a weekend samples nothing; a short window leaves out its last price (:93).
- *Messages.* `send_report_email` promises never to raise, but reads the port and
  renders the report outside its `try`.
- *Akshare.* The chip analysis and the table of stock names call the library
  without the lock.
- *Vendors.* Error texts of Tushare, Yahoo, Alpha Vantage's indicators and Akshare's
  market lists end the search as if they were answers.
- *Calendar.* A failed download is cached for the life of the process, and so is
  a table that ends with last year.
- *Chips.* The bins leave out a highest price that lies on an edge, in spite of
  the comment at analyzer.py:725; the stop-loss may lie above the price; the
  reason of a veto is given even where the rating is not limited (:1158-1164).
  Indicators cached in the morning hide those of the evening.
- *Stock names.* A caller may be handed None when another one expires the table
  between its look and its return (main.py:341-345, 415); a table whose funds could
  not be fetched is kept for seven days.
- *User context.* On `/v1/analyze` the imported position goes over what the user
  wrote; the chat's fast path does not read it.
- *Windows.* The docstring of the scheduler's loop says it works before 9:15 and
  after 15:00 (scheduler/main.py:261-262), the code before 08:00 and after 20:00 (:280).

## 6. Disagreements between the code and its documentation

| run | what happens |
|---|---|
| `job_disconnect` | `subscribe` schedules the cleanup "of completed/failed job" in its `finally` clause, which also runs when a client disconnects: 60 s later the running job is deleted from the store. |
| `job_scheduled` | A report is failed as an orphan when the process of its job is gone. With in-memory stores a GET looks at the API's own jobs only and fails the report of a run that the scheduler process is still working on. |
| `sched_consumed` | A manual test is to be recorded "without consuming the day's schedule". If it ends while the scheduled run is under way and the scheduler then dies, the recovery finds a success or a fresh report and does not repeat the day's run. |
| `sched_twice` | A task runs when it "hasn't run today yet". A run that began in the evening and is recorded after the new day's mark writes its own day over it, and the task is due again. |
| `collector_alias` | References are to be taken "before using cached data". A job refers to the symbol of the request but collects under the ticker its parsed intent names; when they differ, another job's evict takes its pool. |

## 7. Plan

What the models do not have yet, in order of weight:

1. JobRun over RedisJobStore: the same life cycle with the other store, its
   properties with the same excuses.
2. Scheduler: writes of outcomes that fail for other reasons than a deleted row,
   and its rows over the Redis store, which makes the scheduler's runs known to the API.
3. The price stages and the wash-day detection of the chip analysis.
