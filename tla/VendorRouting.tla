---------------------------- MODULE VendorRouting ----------------------------
(***************************************************************************)
(* A request for market data (tradingagents/dataflows/interface.py): the   *)
(* configured vendors are asked in their order, then the other registered  *)
(* ones, until one returns something other than None.  A vendor asks its   *)
(* own sources (dataflows/providers, y_finance.py, alpha_vantage*.py); how *)
(* each method turns what the sources answer into a result is an operator. *)
(* A source answers with rows, with nothing, or raises.  A result is data, *)
(* a text without data, None, or an exception.                             *)
(***************************************************************************)
EXTENDS Naturals, Sequences, SequencesExt

CONSTANTS
  Configured,    \* values of data_vendors, as sequences of vendors
  Unregistered   \* names in them that no provider has

VARIABLES
  request,   \* method, market of the symbol, TUSHARE_TOKEN
  chain,     \* vendors in the order they are asked
  results,   \* what those asked so far returned
  errors,    \* history: whether every source of the last one raised
  answer     \* "pending", or what route_to_vendor returned

routeVars == <<request, chain, results, errors, answer>>

\* build_default_registry
Registered == <<"cn_akshare", "cn_tushare", "cn_baostock", "yfinance", "alpha_vantage", "cn_stub">>
Vendors    == ToSet(Registered) \cup Unregistered

ASSUME RoutingAssumption == Configured \subseteq Seq(Vendors)

History    == {"stock_data", "indicators"}
Company    == {"fundamentals", "statement", "insider"}
News       == {"news", "global_news"}
MarketWide == {"board", "zt_pool", "hot"}
CnOnly     == MarketWide \cup {"fund_flow", "lhb", "chips"}
Methods    == History \cup Company \cup News \cup CnOnly \cup {"quotes"}
Unbound    == MarketWide \cup {"global_news"}   \* methods without a symbol

Answers == {"rows", "empty", "raises"}

-----------------------------------------------------------------------------
(* What a method makes of the answers of its sources, a sequence in the    *)
(* order in which they are asked.                                          *)

\* The answer at which asking ends when those equal to passed go on to the
\* next source.
Stopping(answers, passed) ==
  IF \A i \in DOMAIN answers : answers[i] = passed THEN passed
  ELSE answers[CHOOSE i \in DOMAIN answers :
                 answers[i] # passed /\ \A j \in 1 .. i - 1 : answers[j] = passed]

\* Only rows will do.
AnyRows(answers, otherwise) == IF "rows" \in ToSet(answers) THEN "data" ELSE otherwise

\* One source.
Single(a, onRaise) == CASE a = "rows" -> "data" [] a = "empty" -> "words" [] OTHER -> onRaise

\* The first answer that is no exception decides.
First(answers) == Single(Stopping(answers, "raises"), "raises")

\* _fetch_hist_df: funds ask Sina and Eastmoney for funds first; then come
\* Eastmoney twice, Sina and Tencent.  The row of the current day may make
\* data of an empty table.
PriceTable(fund, live, answers) ==
  LET common == First(SubSeq(answers, 3, 6))
  IN  IF fund /\ "rows" \in ToSet(SubSeq(answers, 1, 2)) THEN "data"
      ELSE IF common = "words" /\ live THEN "data" ELSE common

\* get_global_news: the day, then three days back while there is nothing.
RecentDays(answers) == Single(Stopping(answers, "empty"), "raises")

\* Eastmoney's quotes, then Sina's.
Quotes(market, answers) ==
  IF market # "cn" THEN "words"
  ELSE IF answers[1] = "rows" THEN "data" ELSE Single(answers[2], "raises")

\* Variant: fundamentals that no source had are answered with a text.
Akshare_Words(method, market, fund, live, answers) ==
  IF method \in Company THEN AnyRows(answers, "words") ELSE First(answers)

\* What Akshare knows of one share, whose symbol has six digits.
AkshareOfShare(method, fund, live, answers) ==
  CASE method \in History      -> PriceTable(fund, live, answers)
    [] method = "insider"      -> IF answers[1] = "rows" THEN "data" ELSE Single(answers[2], "raises")
    [] method = "statement"    -> AnyRows(SubSeq(answers, 1, 2), "raises")
    [] method = "fundamentals" -> AnyRows(SubSeq(answers, 1, 3), "raises")
    [] method = "news"         -> Single(answers[1], "raises")
    [] OTHER                   -> Single(answers[1], "none")

\* CnAkshareProvider.
Akshare(method, market, fund, live, answers) ==
  CASE method = "chips"       -> "absent"
    [] method = "quotes"      -> Quotes(market, answers)
    [] method \in MarketWide  -> Single(answers[1], "words")
    [] method = "global_news" -> RecentDays(SubSeq(answers, 1, 4))
    [] OTHER -> IF market = "cn" THEN AkshareOfShare(method, fund, live, answers)
                ELSE IF method \in CnOnly THEN "none" ELSE "raises"

\* What only the mainland has, asked of Tushare: an error is no answer.
TushareCnOnly(method, a) ==
  IF method = "chips" THEN (IF a = "rows" THEN "data" ELSE "none") ELSE Single(a, "none")

\* CnTushareProvider: without a token everything but the list of hot stocks
\* raises; with one, an error is a text.
Tushare(method, market, token, a) ==
  IF method = "hot" THEN "words"
  ELSE IF ~token THEN "raises"
  ELSE CASE method \in News                     -> "words"
         [] method \in Company /\ market = "hk" -> "words"
         [] method \in CnOnly                   -> TushareCnOnly(method, a)
         [] OTHER                               -> Single(a, "words")

\* CnBaoStockProvider has prices only.
BaoStock(method, market, a) ==
  CASE method \in CnOnly                       -> "absent"
    [] method \in History /\ market = "cn"     -> Single(a, "raises")
    [] OTHER                                   -> "raises"

\* Figures and news of Yahoo: an exception becomes a text.
YahooText(a) == Single(a, "words")

\* Indicators of Yahoo: when the table of all days fails each day is asked for
\* by itself, and one that fails is left blank.
YahooIndicators(a) == Single(a, "words")

\* YFinanceProvider: only prices let an exception through.
YFinance(method, a) ==
  CASE method \in CnOnly     -> "absent"
    [] method = "quotes"     -> "raises"
    [] method = "stock_data" -> Single(a, "raises")
    [] method = "indicators" -> YahooIndicators(a)
    [] OTHER                 -> YahooText(a)

\* get_indicator of Alpha Vantage catches everything, the rate limit included.
AlphaIndicators(a) == Single(a, "words")

\* AlphaVantageProvider: no key, a limit and a failing request raise.
AlphaVantage(method, a) ==
  CASE method \in CnOnly     -> "absent"
    [] method = "quotes"     -> "raises"
    [] method = "indicators" -> AlphaIndicators(a)
    [] OTHER                 -> Single(a, "raises")

Result(vendor, fund, live, answers) ==
  CASE vendor = "cn_akshare"    -> Akshare(request.method, request.market, fund, live, answers)
    [] vendor = "cn_tushare"    -> Tushare(request.method, request.market, request.token, answers[1])
    [] vendor = "cn_baostock"   -> BaoStock(request.method, request.market, answers[1])
    [] vendor = "yfinance"      -> YFinance(request.method, answers[1])
    [] vendor = "alpha_vantage" -> AlphaVantage(request.method, answers[1])
    [] vendor = "cn_stub"       -> IF request.method \in CnOnly THEN "absent" ELSE "raises"
    [] OTHER                    -> "absent"

-----------------------------------------------------------------------------
\* _resolve_vendor_chain: the registered vendors that are not configured
\* follow in the order of the registry.
AlsoAsk(fallback, vendor) ==
  IF vendor \in ToSet(fallback) THEN fallback ELSE Append(fallback, vendor)

VendorChain(configured) ==
  LET china == AlsoAsk(AlsoAsk(AlsoAsk(configured, Registered[1]), Registered[2]), Registered[3])
  IN  AlsoAsk(AlsoAsk(AlsoAsk(china, Registered[4]), Registered[5]), Registered[6])

RouteInit ==
  /\ request \in [method : Methods, market : {"cn", "hk", "us"}, token : BOOLEAN]
  /\ chain \in {VendorChain(c) : c \in Configured}
  /\ results = <<>> /\ errors = FALSE
  /\ answer = "pending"

\* Hong Kong symbols are not asked about what only the mainland has.
SkipHongKong ==
  /\ answer = "pending" /\ results = <<>>
  /\ request.market = "hk" /\ request.method \in CnOnly \ Unbound
  /\ answer' = IF request.method = "chips" THEN "none" ELSE "words"
  /\ UNCHANGED <<request, chain, results, errors>>

\* The next vendor of the chain; only it knows the answers of its sources.
AskVendor(fund, live, answers) ==
  /\ answer = "pending" /\ Len(results) < Len(chain)
  /\ ~(request.market = "hk" /\ request.method \in CnOnly \ Unbound)
  /\ LET vendor == chain[Len(results) + 1]
         result == Result(vendor, fund, live, answers)
     IN  /\ request.market = "us" /\ vendor = "cn_tushare" => answers[1] # "rows"
         /\ results' = Append(results, result)
         /\ answer' = IF result \in {"absent", "none", "raises"} THEN "pending" ELSE result
         /\ errors' = (ToSet(answers) = {"raises"})
  /\ UNCHANGED <<request, chain>>

\* Nobody is left: RuntimeError.
NoVendorLeft ==
  /\ answer = "pending" /\ Len(results) = Len(chain)
  /\ answer' = "raises"
  /\ UNCHANGED <<request, chain, results, errors>>

\* Only Akshare has more than one source; the answers of the others repeat.
RouteNext ==
  \/ SkipHongKong \/ NoVendorLeft
  \/ \E fund, live \in BOOLEAN, answers \in [1 .. 6 -> Answers] :
       /\ \/ chain[IF Len(results) < Len(chain) THEN Len(results) + 1 ELSE 1] = "cn_akshare"
          \/ ~fund /\ ~live /\ \A i \in 2 .. 6 : answers[i] = answers[1]
       /\ AskVendor(fund, live, answers)

RouteSpec == RouteInit /\ [][RouteNext]_routeVars

-----------------------------------------------------------------------------
Answering == chain[Len(results)]

(* A request fails only after every registered vendor was asked and none    *)
(* gave an answer, also those nobody configured (interface.py:89-97, 130).  *)
FailsOnlyWhenAllFail ==
  answer = "raises" => /\ ToSet(Registered) \subseteq ToSet(chain) /\ Len(results) = Len(chain)
                       /\ \A i \in DOMAIN results : results[i] \in {"absent", "none", "raises"}

(* A vendor all of whose sources failed makes way for the next one.  Those   *)
(* that answer with an error text instead and so end the search: Tushare,    *)
(* Yahoo, the indicators of Alpha Vantage, whose rate limit the router would *)
(* have caught, and Akshare's lists of the whole market (interface.py:       *)
(* 161-183).                                                                 *)
ErrorsMoveOn ==
  answer = "words" /\ results # <<>> /\ errors =>
    \/ Answering \in {"cn_tushare", "yfinance"}
    \/ Answering = "alpha_vantage" /\ request.method = "indicators"
    \/ Answering = "cn_akshare" /\ request.method \in MarketWide
    \/ request.method = "quotes" /\ request.market # "cn"

(* The Chinese vendors leave a symbol of another country to the others,      *)
(* unless quotes are wanted, which Akshare answers with an empty object, or  *)
(* a Tushare token is set, whose error texts end the search                  *)
(* (cn_akshare_provider.py:721-722, cn_tushare_provider.py:82-116).          *)
ForeignSymbolsPassOn ==
  /\ request.market = "us" /\ request.method \notin Unbound /\ request.method \notin CnOnly
  /\ answer = "words" /\ Answering \in {"cn_akshare", "cn_tushare", "cn_baostock"}
  => request.method = "quotes" \/ request.token

(* The promises of route_to_vendor, for every chain of vendors              *)
(* (interface.py).                                                          *)
RoutingInv == FailsOnlyWhenAllFail /\ ErrorsMoveOn /\ ForeignSymbolsPassOn
=============================================================================
