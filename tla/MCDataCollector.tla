--------------------------- MODULE MCDataCollector ---------------------------
(* TLC instance of DataCollector in which requests and queries may name    *)
(* different tickers.                                                      *)
EXTENDS DataCollector
=============================================================================
