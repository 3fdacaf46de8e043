---------------------------- MODULE DataCollector ----------------------------
(***************************************************************************)
(* The data pools the jobs of the API share (class DataCollector,          *)
(* tradingagents/graph/data_collector.py) and the way _run_job_inner       *)
(* (api/main.py) uses them: a job takes a reference, collects in a worker  *)
(* thread it waits 60 s for, lets the analysts read the pool, and evicts.  *)
(* Every collect thread is a process of its own: it outlives a job that    *)
(* has stopped waiting for it.  A job is here the part of _run_job_inner   *)
(* between the reference and the eviction.                                 *)
(***************************************************************************)
EXTENDS Integers, FiniteSets

CONSTANTS
  Jobs,    \* analysis jobs
  Keys,    \* cache keys: ticker and trade date
  Faults   \* what may happen: a subset of FaultKinds

FaultKinds == {"raise",  \* a fetch or an analysis raises
               "slow",   \* a collect takes longer than the 60 s of wait_for
               "dry",    \* dry runs
               "alias"}  \* the intent parser names another ticker than the request

ASSUME DataCollectorAssumption ==
  /\ Faults \subseteq FaultKinds
  /\ IsFiniteSet(Jobs)

VARIABLES
  cache,    \* _cache: [Keys -> the number of the fetch that filled it, 0 if none]
  locks,    \* _locks: [Keys -> the key's lock object, 0 if none]
  made,     \* the number of lock objects made
  held,     \* the lock objects somebody has acquired
  refs,     \* _refcounts: [Keys -> Nat], 0 when there is no entry
  jobs,     \* [Jobs -> the local state of the job's coroutine]
  threads,  \* [Jobs -> the local state of the job's collect thread]
  fetches   \* history: the number of fetches completed

collectorVars == <<cache, locks, made, held, refs, jobs, threads, fetches>>

(* ref: before the reference; collect: before the thread is started; wait:  *)
(* in wait_for; use: the analysts run; evict: in the finally clause.        *)
JobPc == {"new", "ref", "collect", "wait", "use", "evict", "over"}

(* lock: has the lock object, not the lock; fetch: holds the lock, fetching;*)
(* read: has released it and is to read the cache once more.                *)
ThreadPc == {"none", "start", "lock", "fetch", "read", "returned", "raised"}

CollectorTypeOK ==
  /\ cache \in [Keys -> Nat]
  /\ made \in Nat
  /\ locks \in [Keys -> 0 .. made]
  /\ held \subseteq 1 .. made
  /\ refs \in [Keys -> Nat]
  /\ jobs \in [Jobs -> [pc : JobPc, key : Keys, ticker : Keys, dry : BOOLEAN, late : BOOLEAN]]
  /\ threads \in [Jobs -> [pc : ThreadPc, lock : 0 .. made, got : Nat]]
  /\ fetches \in Nat

CollectorInit ==
  /\ cache = [k \in Keys |-> 0]
  /\ locks = [k \in Keys |-> 0]
  /\ made = 0
  /\ held = {}
  /\ refs = [k \in Keys |-> 0]
  /\ jobs \in [Jobs -> {r \in [pc : {"new"}, key : Keys, ticker : Keys, dry : BOOLEAN, late : {FALSE}] :
                          /\ r.dry => "dry" \in Faults
                          /\ r.ticker # r.key => "alias" \in Faults /\ ~r.dry}]
  /\ threads = [j \in Jobs |-> [pc |-> "none", lock |-> 0, got |-> 0]]
  /\ fetches = 0

Advance(j, from, to) ==
  /\ jobs[j].pc = from
  /\ jobs' = [jobs EXCEPT ![j].pc = to]

Move(j, from, to) ==
  /\ threads[j].pc = from
  /\ threads' = [threads EXCEPT ![j].pc = to]

poolVars == <<cache, locks, made, held, refs, fetches>>

-----------------------------------------------------------------------------
(* The job's coroutine.                                                    *)

\* The try statement is entered; a dry run returns at once.
Enter(j) ==
  /\ Advance(j, "new", IF jobs[j].dry THEN "evict" ELSE "ref")
  /\ UNCHANGED <<poolVars, threads>>

\* ref, for the symbol of the request.
Ref(j) ==
  /\ Advance(j, "ref", "collect")
  /\ refs' = [refs EXCEPT ![jobs[j].key] = @ + 1]
  /\ UNCHANGED <<cache, locks, made, held, fetches, threads>>

\* A request without a query collects nothing: its analysts look the pool up
\* and fall back on the tools.
SkipCollect(j) ==
  /\ Advance(j, "collect", "use")
  /\ UNCHANGED <<poolVars, threads>>

\* asyncio.to_thread(collect, ticker).
StartCollect(j) ==
  /\ Advance(j, "collect", "wait")
  /\ Move(j, "none", "start")
  /\ UNCHANGED poolVars

\* The thread has ended in time: an exception is the job's.
Collected(j) ==
  /\ threads[j].pc \in {"returned", "raised"}
  /\ Advance(j, "wait", IF threads[j].pc = "returned" THEN "use" ELSE "evict")
  /\ UNCHANGED <<poolVars, threads>>

\* wait_for gives up: a call the executor has not started is cancelled, a
\* running thread goes on.
WaitTimesOut(j) ==
  /\ "slow" \in Faults
  /\ threads[j].pc \notin {"returned", "raised"}
  /\ jobs[j].pc = "wait"
  /\ jobs' = [jobs EXCEPT ![j].pc = "use", ![j].late = TRUE]
  /\ UNCHANGED threads \/ Move(j, "start", "none")
  /\ UNCHANGED poolVars

\* The analysis ends.
Used(j) ==
  /\ Advance(j, "use", "evict")
  /\ UNCHANGED <<poolVars, threads>>

\* Preparing the analysis raises after the reference was taken.
Raise(j) ==
  /\ "raise" \in Faults
  /\ Advance(j, "collect", "evict")
  /\ UNCHANGED <<poolVars, threads>>

\* Variant: the count is ignored.
Evict_AlwaysPops(j) ==
  LET k == jobs[j].key
  IN  /\ Advance(j, "evict", "over")
      /\ cache' = [cache EXCEPT ![k] = 0]
      /\ refs' = [refs EXCEPT ![k] = IF @ = 0 THEN 0 ELSE @ - 1]
      /\ UNCHANGED <<locks, made, held, fetches, threads>>

\* Variant: the data goes, the count stays.
Evict_KeepsCount(j) ==
  LET k == jobs[j].key
  IN  /\ Advance(j, "evict", "over")
      /\ IF refs[k] <= 1
           THEN cache' = [cache EXCEPT ![k] = 0] /\ UNCHANGED refs
           ELSE refs' = [refs EXCEPT ![k] = @ - 1] /\ UNCHANGED cache
      /\ UNCHANGED <<locks, made, held, fetches, threads>>

\* evict, in the finally clause: a missing count reads 1, and at zero the
\* pool goes; the lock object stays.
Evict(j) ==
  LET k == jobs[j].key
  IN  /\ Advance(j, "evict", "over")
      /\ IF refs[k] <= 1
           THEN /\ cache' = [cache EXCEPT ![k] = 0]
                /\ refs' = [refs EXCEPT ![k] = 0]
           ELSE /\ refs' = [refs EXCEPT ![k] = @ - 1]
                /\ UNCHANGED cache
      /\ UNCHANGED <<locks, made, held, fetches, threads>>

-----------------------------------------------------------------------------
(* The collect thread of a job.                                            *)

\* _get_key_lock, under _meta_lock.
GetKeyLock(j) ==
  LET k == jobs[j].ticker
  IN  /\ threads[j].pc = "start"
      /\ made' = IF locks[k] = 0 THEN made + 1 ELSE made
      /\ locks' = IF locks[k] = 0 THEN [locks EXCEPT ![k] = made + 1] ELSE locks
      /\ threads' = [threads EXCEPT ![j].pc = "lock", ![j].lock = locks'[k]]
      /\ UNCHANGED <<cache, held, refs, fetches, jobs>>

\* with key_lock: a pool that is there is not fetched again.
EnterLock(j) ==
  LET l == threads[j].lock
  IN  /\ l \notin held
      /\ IF cache[jobs[j].ticker] = 0
           THEN Move(j, "lock", "fetch") /\ held' = held \cup {l}
           ELSE Move(j, "lock", "read") /\ UNCHANGED held
      /\ UNCHANGED <<cache, locks, made, refs, fetches, jobs>>

\* _fetch_all returns, the pool is stored and the lock released.
Fetched(j) ==
  /\ Move(j, "fetch", "read")
  /\ fetches' = fetches + 1
  /\ cache' = [cache EXCEPT ![jobs[j].ticker] = fetches + 1]
  /\ held' = held \ {threads[j].lock}
  /\ UNCHANGED <<locks, made, refs, jobs>>

\* Variant: only a fetch that succeeds releases the lock.
FetchRaises_KeepsLock(j) ==
  /\ "raise" \in Faults
  /\ Move(j, "fetch", "raised")
  /\ UNCHANGED <<poolVars, jobs>>

\* _fetch_all raises; the with statement releases the lock.
FetchRaises(j) ==
  /\ "raise" \in Faults
  /\ Move(j, "fetch", "raised")
  /\ held' = held \ {threads[j].lock}
  /\ UNCHANGED <<cache, locks, made, refs, fetches, jobs>>

\* return self._cache[key], outside the lock: KeyError when the pool is gone.
ReadBack(j) ==
  LET c == cache[jobs[j].ticker]
  IN  /\ threads[j].pc = "read"
      /\ threads' = [threads EXCEPT ![j].pc = IF c = 0 THEN "raised" ELSE "returned", ![j].got = c]
      /\ UNCHANGED <<poolVars, jobs>>

JobStep(j) ==
  \/ Enter(j) \/ Ref(j) \/ SkipCollect(j) \/ StartCollect(j) \/ Collected(j)
  \/ WaitTimesOut(j) \/ Used(j) \/ Raise(j) \/ Evict(j)

ThreadStep(j) ==
  GetKeyLock(j) \/ EnterLock(j) \/ Fetched(j) \/ FetchRaises(j) \/ ReadBack(j)

\* Everything is over; the API process lives on.
Idle ==
  /\ \A j \in Jobs : jobs[j].pc = "over" /\ threads[j].pc \in {"none", "returned", "raised"}
  /\ UNCHANGED collectorVars

CollectorNext == (\E j \in Jobs : JobStep(j) \/ ThreadStep(j)) \/ Idle

CollectorSpec == CollectorInit /\ [][CollectorNext]_collectorVars

\* What a collect thread does besides waiting for its sources.  The pool has a
\* worker for it at least when no fetch occupies one.
OwnStep(j) ==
  \/ GetKeyLock(j) /\ \A i \in Jobs : threads[i].pc # "fetch"
  \/ EnterLock(j) \/ ReadBack(j)

\* The end of wait_for: the answer or the timer.
WaitEnds(j) == Collected(j) \/ WaitTimesOut(j)

(* Fairness: the timer of wait_for fires, and threads that can run do.  A   *)
(* fetch need not return: _fetch_all waits for its sources without a        *)
(* timeout, and calls that hang are known (cn_akshare_provider.py:18-21,    *)
(* main.py:1524-1526); nor need an analysis or its preparation, which       *)
(* nothing cancels (main.py:1507-1519).                                     *)
CollectorFairSpec ==
  /\ CollectorSpec
  /\ \A j \in Jobs : WF_collectorVars(WaitEnds(j)) /\ WF_collectorVars(OwnStep(j))

-----------------------------------------------------------------------------
(* Properties.                                                             *)

Holds(k)     == {j \in Jobs : jobs[j].key = k /\ ~jobs[j].dry
                              /\ jobs[j].pc \in {"collect", "wait", "use", "evict"}}
Fetching(k)  == {j \in Jobs : jobs[j].ticker = k /\ threads[j].pc = "fetch"}

\* A dry run evicts without a reference, which takes one of somebody else.
Referenced(k) == \A j \in Jobs : jobs[j].dry => jobs[j].key # k

(* The count of a key is the number of jobs between their ref and their     *)
(* evict, however they end, as long as no dry run of the key evicts without *)
(* a ref (data_collector.py:401-419, main.py:1584-1607, 1610, 2269).        *)
RefcountExact == \A k \in Keys : Referenced(k) => refs[k] = Cardinality(Holds(k))

(* "data is fetched only once" (data_collector.py:374-375): no two threads  *)
(* fetch one key at a time, evictions and abandoned threads included; this  *)
(* is why evict keeps the lock objects (data_collector.py:415-417).         *)
OneFetch == \A k \in Keys : \A i, j \in Fetching(k) : i = j

\* The job holds one key and collects under another (main.py:1610, 1658).
Astray(j) == jobs[j].ticker # jobs[j].key

\* The pool the job's collect has returned is there.
PoolThere(j) ==
  /\ jobs[j].pc \in {"wait", "use"} /\ threads[j].pc = "returned"
  /\ Referenced(jobs[j].ticker)
  => cache[jobs[j].ticker] = threads[j].got

(* "remove cached data when no one needs it" (data_collector.py:408): from  *)
(* the return of its collect to its evict a job's key holds the pool that   *)
(* collect returned, so all its analysts read the same data; a dry run of   *)
(* the key may take it away, another job may not, one that has gone astray  *)
(* to this key included.                                                    *)
PoolStays == \A j \in Jobs : ~Astray(j) => PoolThere(j)

(* "Increment reference count (call before using cached data)"              *)
(* (data_collector.py:402): so it is for every job.                         *)
EveryPoolStays == \A j \in Jobs : PoolThere(j)

(* "remove cached data when no one needs it" (data_collector.py:408): when  *)
(* no job has business with the collector, nothing is cached, except what   *)
(* the thread of a job that had given up waiting or that collects under a   *)
(* key it does not hold has stored, which nothing removes (main.py:         *)
(* 1669-1676).                                                              *)
NothingLeft ==
  (\A j \in Jobs : jobs[j].pc \in {"new", "over"}) =>
    \A k \in Keys : cache[k] = 0 \/ \E j \in Jobs : jobs[j].ticker = k /\ (jobs[j].late \/ Astray(j))

\* The thread is in a fetch, or waits behind one: for its lock or its worker.
Blocked(j) ==
  \/ threads[j].pc = "fetch"
  \/ threads[j].pc = "start" /\ \E i \in Jobs : threads[i].pc = "fetch"
  \/ threads[j].pc = "lock" /\ \E i \in Jobs : threads[i].pc = "fetch" /\ threads[i].lock = threads[j].lock

(* A fetch that hangs does not keep its job, which goes on after wait_for.  *)
(* And no worker thread is lost to a lock: in the end every collect has     *)
(* ended or was cancelled, but for fetches that never return and what waits *)
(* behind them; so all end when all fetches do, also those whose job does   *)
(* not wait for them any more, and whatever the fetch before them did       *)
(* (data_collector.py:378-382, main.py:1669-1679).                          *)
EveryCollectEnds ==
  <>[](\A j \in Jobs : /\ jobs[j].pc # "wait"
                       /\ threads[j].pc \in {"none", "returned", "raised"} \/ Blocked(j))

(* The invariant of the collector: exact counts, one fetch at a time, pools *)
(* that stay while they are referred to, and nothing kept that nobody needs *)
(* (data_collector.py:374-419).                                             *)
CollectorInv == CollectorTypeOK /\ RefcountExact /\ OneFetch /\ PoolStays /\ NothingLeft
=============================================================================
