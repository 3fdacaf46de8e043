SPECIFICATION ServicesSpec
CONSTANTS
  Analysts = {market, news}
  MaxDebateRounds = 5
  MaxRiskDiscussRounds = 5
  MaxRetries = 1
  RecursionLimit = 100
  MaxClaims = 2
  MaxNew = 2
  Emails = {e1, e2}
  Logins = {l1, l2}
  Lifetime = 1
  MaxCodes = 2
  MaxTime = 2
  Tokens = {t1, t2, t3}
  Uses = {u1}
  MaxTokens = 2
  Symbols = {w1, w2, w3}
  Unknown = unknown
  Adders = {a1, a2}
  MaxWatch = 2
  MaxBatch = 2
  Stocks = {k1, k2, k3}
  Sources = {import}
  Creates = {c1, c2}
  MaxRows = 2
  Edits = {d1, d2}
  Analyses = {n1, n2}
  Custom = {"s1", "s2"}
  ApiKeys = {"key1"}
  Models = {"m1"}
  Vendors = {"deepseek"}
  Languages = {"en"}
  Default <- ServerConfig
  Notices = {x1}
  MaxChanges = 1
  Backtesters = {b1}
  Days = 9
  Intervals = {3, 7}
  Holds = {2}
  MaxPrices = 2
  Reports = {r1, r2}
  Tickers = {s1}
  Dates = {1, 3}
  Troubled = {r1}
  Callers = {o1, o2}
  TTL = 1
  MaxClock = 3
  None = None
  LastDay = 3
  Lookbacks = {1, 2, 3}
  MinReach = 2
INVARIANTS DebatesInv PlansAreDebated WithinRecursionLimit OnceUnlessExcused BacktestInv ReportRowsInv StockNamesInv ChipFetchInv
PROPERTIES LoginCodesHold ApiTokensHold WatchlistHolds ScheduledListHolds ConfigHolds
CHECK_DEADLOCK FALSE
