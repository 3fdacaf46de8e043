------------------------------ MODULE ChipFetch ------------------------------
(***************************************************************************)
(* Where the chip analysis gets its data (ChipDeepAnalyzer.analyze and its *)
(* getters, chip_deep/cache.py): the table of daily indicators is cached   *)
(* under its first and last date, the first chosen by the request, the     *)
(* distribution of one date under that date.  The vendor publishes both for*)
(* a trading day at a time of its own and may fail; a cache file may fail  *)
(* to be written.  One stock, days are trading days.                       *)
(***************************************************************************)
EXTENDS Integers

CONSTANTS
  LastDay,      \* bound: the last day of the model
  Lookbacks,    \* trading days an analysis may be asked to look at
  MinReach      \* the lookback up to which all tables begin on the same date

ASSUME FetchAssumption == LastDay \in Nat \ {0, 1} /\ Lookbacks \subseteq Nat \ {0} /\ MinReach \in Nat

VARIABLES
  today,      \* the day
  published,  \* day -> the last day of the vendor's indicators when it began
  perfOut,    \* the last day of the vendor's indicators now
  chipsOut,   \* the days whose distribution the vendor has
  perfCache,  \* reach -> day asked on -> the last day of the cached indicators, 0: none
  chipCache,  \* the days whose distribution is cached
  fetch,      \* the analysis that runs
  lastUsed    \* history, reach -> the distribution of the analysis before it, 0: none

fetchVars == <<today, published, perfOut, chipsOut, perfCache, chipCache, fetch, lastUsed>>

\* How far before its end a table begins: buffer_days of a lookback.
Reach(lookback) == IF lookback > MinReach THEN lookback ELSE MinReach
Reaches == {Reach(lookback) : lookback \in Lookbacks}

Idle == [pc |-> "idle", lookback |-> 0, end |-> 0, perf |-> 0, at |-> 0, used |-> 0, first |-> FALSE, refused |-> {}]

FetchInit ==
  /\ today = 2 /\ published = [d \in 1 .. LastDay |-> IF d <= 2 THEN 1 ELSE 0]
  /\ perfOut = 1 /\ chipsOut = {1}
  /\ perfCache = [reach \in Reaches |-> [d \in 1 .. LastDay |-> 0]] /\ chipCache = {}
  /\ fetch = Idle /\ lastUsed = [reach \in Reaches |-> 0]

-----------------------------------------------------------------------------
(* The vendor. *)

PublishPerf == /\ perfOut < today /\ perfOut' = perfOut + 1
               /\ UNCHANGED <<today, published, chipsOut, perfCache, chipCache, fetch, lastUsed>>

PublishChips(d) == /\ d <= today /\ d \notin chipsOut /\ chipsOut' = chipsOut \cup {d}
                   /\ UNCHANGED <<today, published, perfOut, perfCache, chipCache, fetch, lastUsed>>

NextDay == /\ today < LastDay /\ today' = today + 1
           /\ published' = [published EXCEPT ![today'] = perfOut]
           /\ UNCHANGED <<perfOut, chipsOut, perfCache, chipCache, fetch, lastUsed>>

-----------------------------------------------------------------------------
(* An analysis. *)

\* The constructor fixes the dates of the analysis.
StartFetch(lookback) ==
  /\ fetch.pc = "idle" /\ fetch' = [Idle EXCEPT !.pc = "perf", !.lookback = lookback, !.end = today]
  /\ UNCHANGED <<today, published, perfOut, chipsOut, perfCache, chipCache, lastUsed>>

CachedPerf == perfCache[Reach(fetch.lookback)][fetch.end]

\* With indicators the search for a distribution starts at their last day.
UsePerf(n) == fetch' = [fetch EXCEPT !.pc = "chips", !.perf = n, !.at = n]

GivesUp == fetch' = [fetch EXCEPT !.pc = "failed"]

\* A published table is cached, unless the file cannot be written.
GetPerf ==
  /\ fetch.pc = "perf"
  /\ UNCHANGED <<today, published, perfOut, chipsOut, chipCache, lastUsed>>
  /\ \/ CachedPerf > 0 /\ UsePerf(CachedPerf) /\ UNCHANGED perfCache
     \/ /\ CachedPerf = 0
        /\ LET n == IF perfOut < fetch.end THEN perfOut ELSE fetch.end
           IN  /\ UsePerf(n)
               /\ \E written \in BOOLEAN :
                    perfCache' = IF written THEN [perfCache EXCEPT ![Reach(fetch.lookback)][fetch.end] = n]
                                 ELSE perfCache
     \/ CachedPerf = 0 /\ GivesUp /\ UNCHANGED perfCache

\* The window of the analysis is cut out of the table.
FirstDay == IF fetch.perf > fetch.lookback THEN fetch.perf - fetch.lookback + 1 ELSE 1

\* Variant: the file is written whatever the vendor answered.
Remembered_Failures(d, answered) == chipCache \cup {d}

\* What the cache may hold after the vendor was asked for day d: answers only.
Remembered(d, answered) == IF answered THEN chipCache \cup {d} ELSE chipCache

\* A distribution is there if it is cached or the vendor works and has it.
Available(d, works) == d \in chipCache \/ (works /\ d \in chipsOut)

NextTry(d) == d - 1

\* The day before is tried until one has a distribution; without one the
\* analysis ends with an error.
TryDate ==
  /\ fetch.pc = "chips"
  /\ UNCHANGED <<today, published, perfOut, chipsOut, perfCache, lastUsed>>
  /\ \E works, written \in BOOLEAN :
       LET d == fetch.at
       IN  /\ chipCache' = IF written THEN Remembered(d, Available(d, works)) ELSE chipCache
           /\ CASE Available(d, works)                   -> fetch' = [fetch EXCEPT !.pc = "first", !.used = d]
                [] ~Available(d, works) /\ d = FirstDay  -> GivesUp
                [] ~Available(d, works) /\ d # FirstDay  ->
                     fetch' = [fetch EXCEPT !.at = NextTry(d), !.refused = @ \cup {d}]

\* The distribution of the window's first day, for the margin; it may miss.
FetchFirst ==
  /\ fetch.pc = "first"
  /\ \E works, written \in BOOLEAN :
       /\ fetch' = [fetch EXCEPT !.pc = "done", !.first = Available(FirstDay, works)]
       /\ chipCache' = IF written THEN Remembered(FirstDay, Available(FirstDay, works)) ELSE chipCache
  /\ UNCHANGED <<today, published, perfOut, chipsOut, perfCache, lastUsed>>

Answered ==
  /\ fetch.pc \in {"done", "failed"} /\ fetch' = Idle
  /\ lastUsed' = IF fetch.pc = "done" THEN [lastUsed EXCEPT ![Reach(fetch.lookback)] = fetch.used] ELSE lastUsed
  /\ UNCHANGED <<today, published, perfOut, chipsOut, perfCache, chipCache>>

FetchNext ==
  \/ PublishPerf \/ NextDay \/ \E d \in 1 .. LastDay : PublishChips(d)
  \/ \E lookback \in Lookbacks : StartFetch(lookback)
  \/ GetPerf \/ TryDate \/ FetchFirst \/ Answered

FetchSpec == FetchInit /\ [][FetchNext]_fetchVars

-----------------------------------------------------------------------------
(* No failure and no empty answer is remembered: a cached distribution is   *)
(* one the vendor published, so a day that was asked for too early is asked *)
(* for again (analyzer.py:201-228, cn_tushare_provider.py:306-325).         *)
CacheIsTrue == chipCache \subseteq chipsOut

(* An answer rests on the newest distribution that could be had: every      *)
(* later day of the window was asked for in this analysis and refused       *)
(* (analyzer.py:63-89).                                                     *)
NewestAvailableWins == fetch.pc = "done" => (fetch.used + 1) .. fetch.perf \subseteq fetch.refused

(* The answers of one stock to requests whose tables begin alike do not go  *)
(* back in time, whatever the vendor does and is asked for in between,      *)
(* unless the file of the newer distribution could not be written           *)
(* (analyzer.py:33-36, 142, 203-206, cache.py:17-37).  Requests of another  *)
(* reach have tables of another age, so from one to the other they may.     *)
AnswersGoForward ==
  LET last == lastUsed[Reach(fetch.lookback)]
  IN  fetch.pc = "done" /\ fetch.used < last => last \notin chipCache

(* Indicators may be as old as the first analysis of the day with that      *)
(* reach, which hides what is published later, but never older than the day *)
(* (analyzer.py:33-36, 139-144).                                            *)
IndicatorsAreOfToday == fetch.pc \in {"chips", "done"} => fetch.perf >= published[fetch.end]

(* A chip analysis works with the newest data the vendor has for its date,  *)
(* through two caches (chip_deep/analyzer.py).                              *)
ChipFetchInv == CacheIsTrue /\ NewestAvailableWins /\ AnswersGoForward /\ IndicatorsAreOfToday
=============================================================================
