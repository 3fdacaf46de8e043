----------------------------- MODULE MCAnalysis -----------------------------
(***************************************************************************)
(* TLC instance of the parts of an analysis that share no state: the Redis *)
(* job store, the data collector, the loop that follows the agent graph,   *)
(* the lock and the vendors below the tools, the trading calendar, and the *)
(* readers of texts and tables.  "part" names the one that runs; the       *)
(* others stay in an initial state.                                        *)
(***************************************************************************)
EXTENDS RedisJobStore, DataCollector, StreamProgress, AkshareLock, VendorRouting, TradeCalendar,
        Signals, UserContext, ChipScores

VARIABLE part

Parts == {"redis", "collector", "progress", "lock", "vendors", "calendar", "signals", "context", "chips"}

DefaultVendors == {<<"cn_akshare", "cn_tushare", "cn_baostock", "yfinance">>, <<"yfinance">>,
                   <<"unknown", "alpha_vantage">>}

\* Fridays are 4, 11 and 18; of the weekdays 9, 10 and 14 are holidays.  The
\* table of a year is published with its first day, here day 14.
ExchangeDays(from, to) ==
  SelectSeq([i \in 1 .. to - from + 1 |-> from + i - 1], LAMBDA day : day % 7 < 5 /\ day \notin {9, 10, 14})
Tables == [day \in 11 .. 15 |-> ExchangeDays(5, IF day < 14 THEN 13 ELSE 20)]

\* Both sides of every threshold of the scores; what does not matter where
\* distributions are unknown, in a panic or for few winners is left fixed.
SampleStocks ==
  {s \in [known : BOOLEAN, change : {-16, -4, 2, 3, 11}, shift : {5, 6}, below : BOOLEAN,
          density : {20, 21, 41}, winners : {19, 29, 60, 80, 85, 91}, hot : BOOLEAN,
          cost : {1, 2, 5, 9, 16, 31}, period : {30, 60, 250}, over : {-6, 0, 16}, under : {4, 12, 16}] :
     /\ ~s.known => s.change = 2 /\ s.shift = 5
     /\ s.below => s.change = -16
     /\ s.hot => s.winners = 19}
SampleRankings == {r \in UNION {[1 .. n -> 17 .. 24] : n \in 1 .. 4} :
                     \A i, j \in DOMAIN r : r[i] = r[j] => i = j}
SampleLevels   == [ranked : SampleRankings, close : 17 .. 24]
SampleChips    == [prices : SUBSET (10 .. 19) \ {{}}, step : {1, 2, 5}]

\* All collect under one key, which one of them may not hold; which one does
\* not matter, nor which are dry runs.
Collectors ==
  /\ CollectorInit
  /\ \A j \in Jobs : jobs[j].ticker = CHOOSE k \in Keys : TRUE
  /\ \A i, j \in Jobs : i < j => ~Astray(j) /\ (jobs[i].dry => jobs[j].dry)

\* One initial state of each component that has several.
OneStore     == RedisInit /\ streams = [s \in Streams |-> [pc |-> "idle", job |-> CHOOSE j \in JobIds : TRUE,
                                                           listener |-> "off"]]
OneCollector == CollectorInit /\ \A j \in Jobs : ~jobs[j].dry /\ ~Astray(j) /\ jobs[j].key = CHOOSE k \in Keys : TRUE
OneStream    == StreamInit /\ \A m \in Members : status[m] # "in_progress"
OneRequest   == /\ request = [method |-> "news", market |-> "cn", token |-> FALSE]
                /\ chain = Registered /\ results = <<>> /\ errors = FALSE /\ answer = "pending"
OneDay       == CalendarInit /\ today = CHOOSE day \in Days : TRUE
OneText      == /\ signal = [filled |-> FALSE, comment |-> [kind |-> "absent", word |-> None],
                             explicit |-> [i \in 1 .. Lines |-> {None}], headline |-> {}, body |-> {}]
                /\ numbers = <<Nothing, NoLabels>>
OneContext   == key = "number" /\ path = "scheduled" /\ raw = [s \in Sources |-> "absent"]
OneStock     == stock = NoStock /\ levels = Nowhere /\ binned = NoBins

AnalysisInit ==
  /\ part \in Parts
  /\ LockInit
  /\ IF part = "redis" THEN RedisInit ELSE OneStore
  /\ IF part = "collector" THEN Collectors ELSE OneCollector
  /\ IF part = "progress" THEN StreamInit ELSE OneStream
  /\ IF part = "vendors" THEN RouteInit ELSE OneRequest
  /\ IF part = "calendar" THEN CalendarInit ELSE OneDay
  /\ IF part = "signals" THEN SignalInit ELSE OneText
  /\ IF part = "context" THEN ContextInit ELSE OneContext
  /\ IF part = "chips" THEN ChipInit ELSE OneStock

\* Bound: only the first stream loses its connection.
OneFails == \A s \in Streams : streams'[s].listener = "dead" => s = 1

\* Signals, UserContext and ChipScores are about single states.
AnalysisNext ==
  /\ UNCHANGED <<part, signalVars, contextVars, chipVars>>
  /\ IF part = "redis" THEN RedisNext /\ OneFails ELSE UNCHANGED redisVars
  /\ IF part = "collector" THEN CollectorNext ELSE UNCHANGED collectorVars
  /\ IF part = "progress" THEN StreamNext ELSE UNCHANGED <<vars, streamVars>>
  /\ IF part = "lock" THEN LockNext ELSE UNCHANGED lockVars
  /\ IF part = "vendors" THEN RouteNext ELSE UNCHANGED routeVars
  /\ IF part = "calendar" THEN CalendarNext ELSE UNCHANGED calVars

analysisVars == <<part, signalVars, contextVars, chipVars, redisVars, collectorVars, vars, streamVars,
                  lockVars, routeVars, calVars>>

\* The fairness of RedisFairSpec and CollectorFairSpec.
AnalysisSpec ==
  /\ AnalysisInit /\ [][AnalysisNext]_analysisVars
  /\ \A s \in Streams : /\ WF_redisVars(part = "redis" /\ Yield(s))
                        /\ WF_redisVars(part = "redis" /\ Timer(s))
                        /\ WF_redisVars(part = "redis" /\ Listener(s))
  /\ \A j \in Jobs : /\ WF_collectorVars(part = "collector" /\ WaitEnds(j))
                     /\ WF_collectorVars(part = "collector" /\ OwnStep(j))
=============================================================================
