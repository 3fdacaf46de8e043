SPECIFICATION AnalysisSpec
CONSTANTS
  JobIds = {i1}
  Streams = {1, 2}
  MaxEvents = 2
  Clears = TRUE
  Jobs = {1, 2, 3}
  Keys = {k1, k2}
  Faults = {"raise", "slow", "dry", "alias"}
  Analysts = {market, news, social}
  Roster = {market, news, macro, social, volume_price}
  Listed = {market, news, macro}
  MaxDebateRounds = 1
  MaxRiskDiscussRounds = 1
  MaxRetries = 1
  RecursionLimit = 100
  MaxClaims = 0
  MaxNew = 0
  Threads = {t1, t2, t3}
  Total = 2
  ScheduledMax = 1
  Stocks <- SampleStocks
  Levels <- SampleLevels
  Distributions <- SampleChips
  MaxPrice = 19
  Configured <- DefaultVendors
  Unregistered = {"unknown"}
  Days = {11, 12, 13, 14, 15}
  Asked = {3, 8, 10, 14, 21}
  Published <- Tables
  Lines = 2
INVARIANTS RedisInv CollectorInv PermitsInv RoutingInv CalendarInv SignalsInv UserContextInv ChipScoresInv
PROPERTIES BroadcastImplemented StreamsEnd EveryCollectEnds ProgressHolds
CHECK_DEADLOCK FALSE
