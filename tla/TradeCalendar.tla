---------------------------- MODULE TradeCalendar ----------------------------
(***************************************************************************)
(* The trading calendar of a process (tradingagents/dataflows/             *)
(* trade_calendar.py) and the market context of an analysis                *)
(* (agents/utils/context_utils.py:67-88, 236-369).  The table of trading   *)
(* days is fetched by the first call and kept by lru_cache as long as the  *)
(* process lives; when it cannot be had, weekends are the only days off.   *)
(* A day is a number, 5 and 6 modulo 7 are a weekend.                      *)
(***************************************************************************)
EXTENDS Integers, Sequences

CONSTANTS
  Days,       \* days at which the process is observed
  Asked,      \* trade dates of requests
  Published   \* day -> the table the vendor publishes on it

Sorted(table) == \A i, j \in 1 .. Len(table) : i <= j => table[i] <= table[j]

ASSUME CalendarAssumption ==
  /\ Days \subseteq Nat /\ Asked \subseteq Int
  /\ \A day \in Days : Published[day] \in Seq(Int) /\ Sorted(Published[day])

VARIABLES
  today,    \* the day in Shanghai
  loaded,   \* _load_cn_trade_dates was called
  dates,    \* what it returned, and returns from then on
  search,   \* previous_cn_trading_day: place, argument, bounds, result
  job       \* a request: its date, resolved when it came in; its context

calVars == <<today, loaded, dates, search, job>>

Weekday(day) == day % 7 < 5

\* is_cn_trading_day, of any date
TradingDay(day) ==
  IF dates # <<>> THEN \E i \in 1 .. Len(dates) : dates[i] = day ELSE Weekday(day)

NoSearch  == [pc |-> "idle", day |-> 0, lo |-> 0, hi |-> 0, result |-> 0]
NoContext == [session |-> "", mode |-> "", asOf |-> 0]

CalendarInit ==
  /\ today \in Days
  /\ loaded = FALSE /\ dates = <<>>
  /\ search = NoSearch
  /\ job = [pc |-> "none", asked |-> 0, date |-> 0, context |-> NoContext]

-----------------------------------------------------------------------------
\* Variant: the table is fetched by every call.
LoadDates_Always ==
  /\ search.pc = "idle"
  /\ loaded' = TRUE
  /\ dates' \in {<<>>, Published[today]}
  /\ UNCHANGED <<today, search, job>>

\* The first call; whatever goes wrong gives an empty table.
LoadDates ==
  /\ ~loaded
  /\ loaded' = TRUE
  /\ dates' \in {<<>>, Published[today]}
  /\ UNCHANGED <<today, search, job>>

NextDay ==
  /\ today + 1 \in Days
  /\ today' = today + 1
  /\ UNCHANGED <<loaded, dates, search, job>>

StartSearch(day) ==
  search' = [pc |-> IF dates = <<>> THEN "back" ELSE "halve", day |-> day,
             lo |-> 0, hi |-> Len(dates), result |-> day]

\* A request comes in; a date that is no trading day is replaced by the
\* trading day before it.
ResolveDate(day) ==
  /\ loaded /\ job.pc = "none" /\ search.pc = "idle"
  /\ IF TradingDay(day)
       THEN /\ job' = [job EXCEPT !.pc = "resolved", !.asked = day, !.date = day]
            /\ UNCHANGED search
       ELSE /\ job' = [job EXCEPT !.pc = "searching", !.asked = day]
            /\ StartSearch(day)
  /\ UNCHANGED <<today, loaded, dates>>

\* The tracking board wants the trading day before today.
AskPrevious ==
  /\ loaded /\ search.pc = "idle"
  /\ StartSearch(today)
  /\ UNCHANGED <<today, loaded, dates, job>>

\* One turn of the binary search; positions count from 0 as in the code.
Halve ==
  /\ search.pc = "halve" /\ search.lo < search.hi
  /\ LET mid == (search.lo + search.hi) \div 2
     IN  search' = IF dates[mid + 1] < search.day THEN [search EXCEPT !.lo = mid + 1]
                   ELSE [search EXCEPT !.hi = mid]
  /\ UNCHANGED <<today, loaded, dates, job>>

\* The position before the one found, if there is one.
Found ==
  /\ search.pc = "halve" /\ search.lo >= search.hi
  /\ search' = IF search.lo >= 1 THEN [search EXCEPT !.pc = "done", !.result = dates[search.lo]]
               ELSE [search EXCEPT !.pc = "back"]
  /\ UNCHANGED <<today, loaded, dates, job>>

\* Otherwise back to the last day that is no weekend.
StepBack ==
  /\ search.pc = "back"
  /\ search' = [search EXCEPT !.result = @ - 1, !.pc = IF Weekday(search.result - 1) THEN "done" ELSE "back"]
  /\ UNCHANGED <<today, loaded, dates, job>>

Resolved ==
  /\ search.pc = "done"
  /\ job' = IF job.pc = "searching" THEN [job EXCEPT !.pc = "resolved", !.date = search.result] ELSE job
  /\ search' = NoSearch
  /\ UNCHANGED <<today, loaded, dates>>

\* The result of previous_cn_trading_day(day) for the table at hand.
IsPrevious(day, result) ==
  IF \E i \in 1 .. Len(dates) : dates[i] < day
    THEN /\ \E i \in 1 .. Len(dates) : dates[i] = result
         /\ result < day
         /\ \A i \in 1 .. Len(dates) : dates[i] < day => dates[i] <= result
    ELSE /\ result < day /\ Weekday(result)
         /\ \A between \in result + 1 .. day - 1 : ~Weekday(between)

\* cn_market_phase, and what the context calls the phase of other days.
Sessions(date) ==
  IF ~TradingDay(date) THEN {"closed"}
  ELSE IF date = today THEN {"pre_open", "in_session", "lunch_break", "post_close"}
  ELSE IF date < today THEN {"post_close"} ELSE {"pre_open"}

\* _determine_cn_analysis_mode
Mode(date, session, previous) ==
  IF date = today
    THEN CASE session = "pre_open"                       -> "pre_market"
           [] session \in {"in_session", "lunch_break"} -> "intraday"
           [] session = "post_close"                     -> "post_market"
           [] OTHER                                      -> "closed"
    ELSE IF date = previous THEN "t_plus_1"
    ELSE IF date > today THEN "forward_look" ELSE "historical"

\* build_market_context, when the graph starts: perhaps on a later day.
BuildContext ==
  /\ job.pc = "resolved"
  /\ \E session \in Sessions(job.date), previous \in today - 14 .. today :
       /\ IsPrevious(today, previous)
       /\ job' = [job EXCEPT !.pc = "built", !.context =
            [session |-> session, mode |-> Mode(job.date, session, previous),
             asOf |-> IF job.date > today THEN today ELSE job.date]]
  /\ UNCHANGED <<today, loaded, dates, search>>

CalendarNext ==
  \/ LoadDates \/ NextDay \/ AskPrevious \/ Halve \/ Found \/ StepBack \/ Resolved \/ BuildContext
  \/ \E day \in Asked : ResolveDate(day)

CalendarSpec == CalendarInit /\ [][CalendarNext]_calVars

-----------------------------------------------------------------------------
(* The search ends at the last trading day of the table before its          *)
(* argument, or, when the table is empty or begins later, at the last day   *)
(* before it that is no weekend (trade_calendar.py:57-78).                  *)
SearchFindsPrevious == search.pc = "done" => IsPrevious(search.day, search.result)

(* A date that was found good when the request came in is still a trading   *)
(* day when its context is built, days later; a session without trading is  *)
(* seen only for a date before the first one of the table (main.py:101-105, *)
(* context_utils.py:236-259).                                               *)
ResolvedDatesStayOpen ==
  job.pc \in {"resolved", "built"} =>
    /\ TradingDay(job.date) \/ \A i \in 1 .. Len(dates) : job.date < dates[i]
    /\ job.context.session = "closed" => ~TradingDay(job.date)

(* No context claims data of a day that has not come, and only a date of    *)
(* today is traded intraday (context_utils.py:249-259, 304-334).            *)
ContextIsConsistent ==
  job.pc = "built" =>
    /\ job.context.asOf <= today
    /\ job.context.mode = "intraday" => job.context.session \in {"in_session", "lunch_break"}
    /\ job.context.mode = "forward_look" => job.context.asOf < job.date

(* The promises of the calendar to a process that lives through several     *)
(* days (trade_calendar.py, context_utils.py).                              *)
CalendarInv == SearchFindsPrevious /\ ResolvedDatesStayOpen /\ ContextIsConsistent
=============================================================================
