----------------------------- MODULE MCServices -----------------------------
(***************************************************************************)
(* TLC instance of the agent graph and of services that share no state:    *)
(* accounts, limits, configuration, notifications, backtests, report rows, *)
(* the table of stock names and the data of the chip analysis.  "which"    *)
(* names the one that runs; the others stay in an initial state.           *)
(***************************************************************************)
EXTENDS AgentGraph, LoginCodes, ApiTokens, Watchlist, ScheduledList, RuntimeConfig, Notifications,
        Backtests, ReportRows, StockMapCache, ChipFetch

VARIABLE which

Services == {"graph", "logins", "tokens", "watch", "list", "config", "notices", "backtests", "rows", "names", "chips"}

\* A server with a key and a deep model of its own, TA_LLM_QUICK set empty.
ServerConfig == [provider |-> "openai", quick |-> Unset, deep |-> "gpt-4o", api |-> "server_key", lang |-> "zh"]

\* One initial state of each component that has several.
OneToken  == /\ tokens = {} /\ creating = [t \in Tokens |-> "idle"] /\ active = TRUE /\ peak = 0
             /\ uses = [u \in Uses |-> [pc |-> "idle", token |-> CHOOSE t \in Tokens : TRUE]]
OneList   == /\ rows = {} /\ positions = [s \in Sources |-> Nothing] /\ rush = 0
             /\ creates = [c \in Creates |-> [pc |-> "idle", symbol |-> CHOOSE s \in Stocks : TRUE]]
OneNotice == /\ settings = [c \in Channels |-> TRUE] /\ changes = 0 /\ restarted = FALSE
             /\ messages = [n \in Notices |-> [c \in Channels |-> [pc |-> "none", unclear |-> FALSE]]]
             /\ delivered = [n \in Notices |-> [c \in Channels |-> 0]]
OneMap    == /\ clock = 0 /\ stockMap = None /\ loadedAt = -1 - TTL /\ file = None /\ holder = None
             /\ call = [c \in Callers |-> NewCall] /\ disturbed = [c \in Callers |-> {}] /\ tossed = FALSE

\* Bound: one stock only is ever imported with no shares left.
FewEmpty == \A s \in Sources : positions[s].empty \subseteq {CHOOSE k \in Stocks : TRUE}

\* Bound: the report without trouble is of the last date, the other of any.
OthersAreLate == \A r \in Reports \ Troubled : writers[r].date \in {0, Max(Dates)}

\* Bound: two edits, two jobs, or one of each.
TwoAtOnce == LET begun == {e \in Edits : edits[e].pc # "idle"} \cup {a \in Analyses : analyses[a].pc # "idle"}
             IN  Cardinality(begun) <= 2

\* Bound: a turn gives one claim a new status, perhaps in several lists.  One
\* that it resolves or not need not be responded to: that changes nothing.
SmallPayloads == {p \in Payloads : /\ p.responded \cap (p.resolved \cup p.unresolved) = {}
                                   /\ Cardinality(p.responded \cup p.resolved \cup p.unresolved) <= 1}

GraphNext ==
  \/ \E a \in Analysts : Analyst(a)
  \/ \E p \in SmallPayloads :
       \/ BullResearcher(p) \/ BearResearcher(p)
       \/ AggressiveAnalyst(p) \/ ConservativeAnalyst(p) \/ NeutralAnalyst(p)
  \/ ResearchManager \/ Trader \/ RiskJudge

ServicesInit ==
  /\ which \in Services
  /\ Init /\ LoginInit /\ WatchInit /\ ConfigInit /\ BacktestInit /\ RowsInit /\ FetchInit
  /\ IF which = "tokens" THEN TokenInit ELSE OneToken
  /\ IF which = "list" THEN ListInit ELSE OneList
  /\ IF which = "notices" THEN NoticeInit ELSE OneNotice
  /\ IF which = "names" THEN MapInit ELSE OneMap

ServicesNext ==
  /\ UNCHANGED which
  /\ IF which = "graph" THEN GraphNext ELSE UNCHANGED vars
  /\ IF which = "logins" THEN LoginNext ELSE UNCHANGED loginVars
  /\ IF which = "tokens" THEN TokenNext ELSE UNCHANGED tokenVars
  /\ IF which = "watch" THEN WatchNext ELSE UNCHANGED watchVars
  /\ IF which = "list" THEN ListNext /\ FewEmpty' ELSE UNCHANGED listVars
  /\ IF which = "config" THEN ConfigNext /\ TwoAtOnce' ELSE UNCHANGED configVars
  /\ IF which = "notices" THEN NoticeNext ELSE UNCHANGED noticeVars
  /\ IF which = "backtests" THEN BacktestNext ELSE UNCHANGED backtestVars
  /\ IF which = "rows" THEN RowsNext /\ OthersAreLate' ELSE UNCHANGED rowVars
  /\ IF which = "names" THEN MapNext ELSE UNCHANGED mapVars
  /\ IF which = "chips" THEN FetchNext ELSE UNCHANGED fetchVars

ServicesSpec ==
  ServicesInit /\ [][ServicesNext]_<<which, vars, loginVars, tokenVars, watchVars, listVars, configVars,
                                     noticeVars, backtestVars, rowVars, mapVars, fetchVars>>
=============================================================================
