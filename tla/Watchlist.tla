------------------------------ MODULE Watchlist ------------------------------
(***************************************************************************)
(* The watchlist of one user (api/services/watchlist_service.py,           *)
(* api/routers/watchlist.py): a request names several stocks, which are    *)
(* added one after the other, each by a check and an insert.  Requests run *)
(* in worker threads; rows are unique per symbol in the database.          *)
(***************************************************************************)
EXTENDS Integers, Sequences, FiniteSets

CONSTANTS
  Symbols,   \* stocks the name table knows
  Unknown,   \* a token it does not know
  Adders,    \* requests to POST /v1/watchlist, each used once
  MaxWatch,  \* MAX_WATCHLIST_ITEMS
  MaxBatch   \* bound: tokens in one request

ASSUME WatchlistAssumption ==
  MaxWatch \in Nat \ {0} /\ MaxBatch \in Nat /\ Unknown \notin Symbols

VARIABLES
  watch, \* symbols that have a row in watchlist_items
  adds,  \* the local state of each request
  crowd  \* history: the most requests ever between check and insert

watchVars == <<watch, adds, crowd>>

ItemStatuses == {"invalid", "added", "duplicate", "failed"}
TokenLists == UNION {[1 .. n -> Symbols \cup {Unknown}] : n \in 1 .. MaxBatch}
Checked == {r \in Adders : adds[r].pc = "checked"}

WatchTypeOK ==
  /\ watch \subseteq Symbols
  /\ crowd \in Nat
  /\ adds \in [Adders -> [pc : {"idle", "next", "checked", "done", "crashed"},
                          tokens : Seq(Symbols \cup {Unknown}), results : Seq(ItemStatuses)]]

WatchInit ==
  /\ watch = {}
  /\ crowd = 0
  /\ adds = [r \in Adders |-> [pc |-> "idle", tokens |-> <<>>, results |-> <<>>]]

\* How many of the first i tokens the router resolves to a symbol, and the
\* n-th of those symbols (two tokens may name the same stock).
Resolved(tokens, i) == Cardinality({j \in 1 .. i : tokens[j] # Unknown})
NthSymbol(tokens, n) ==
  tokens[CHOOSE i \in DOMAIN tokens : tokens[i] # Unknown /\ Resolved(tokens, i) = n]

\* The answer: the results of the resolved tokens are zipped with them, the
\* others are invalid, and all are sorted by the place of their token.
Answer(tokens, results) ==
  [i \in DOMAIN tokens |->
     IF tokens[i] = Unknown THEN "invalid" ELSE results[Resolved(tokens, i)]]

AddRequest(r, tokens) ==
  /\ adds[r].pc = "idle"
  /\ adds' = [adds EXCEPT ![r].pc = "next", ![r].tokens = tokens]
  /\ UNCHANGED <<watch, crowd>>

Wanted(r) == Resolved(adds[r].tokens, Len(adds[r].tokens))
Item(r)   == NthSymbol(adds[r].tokens, Len(adds[r].results) + 1)
Replied(r, pc, status) ==
  adds' = [adds EXCEPT ![r].pc = pc, ![r].results = Append(@, status)]

\* add_watchlist_item: the count and the look-up of the symbol.
CheckItem(r) ==
  /\ adds[r].pc = "next"
  /\ Len(adds[r].results) < Wanted(r)
  /\ IF Cardinality(watch) >= MaxWatch THEN Replied(r, "next", "failed") /\ UNCHANGED crowd
     ELSE IF Item(r) \in watch THEN Replied(r, "next", "duplicate") /\ UNCHANGED crowd
     ELSE /\ adds' = [adds EXCEPT ![r].pc = "checked"]
          /\ crowd' = IF Cardinality(Checked') > crowd THEN Cardinality(Checked') ELSE crowd
  /\ UNCHANGED watch

\* Variant: a refused insert is taken for a success.
InsertItem_Ignores(r) ==
  /\ adds[r].pc = "checked"
  /\ watch' = watch \cup {Item(r)}
  /\ Replied(r, "next", "added")
  /\ UNCHANGED crowd

\* The insert.  A row that appeared since the check makes the database refuse
\* it; only ValueError is caught, so the request dies with what it had added.
InsertItem(r) ==
  /\ adds[r].pc = "checked"
  /\ IF Item(r) \in watch
       THEN adds' = [adds EXCEPT ![r].pc = "crashed"] /\ UNCHANGED watch
       ELSE watch' = watch \cup {Item(r)} /\ Replied(r, "next", "added")
  /\ UNCHANGED crowd

AnswerAdd(r) ==
  /\ adds[r].pc = "next"
  /\ Len(adds[r].results) = Wanted(r)
  /\ adds' = [adds EXCEPT ![r].pc = "done",
                          ![r].results = Answer(adds[r].tokens, adds[r].results)]
  /\ UNCHANGED <<watch, crowd>>

DeleteItem(s) ==
  /\ s \in watch
  /\ watch' = watch \ {s}
  /\ UNCHANGED <<adds, crowd>>

WatchNext ==
  \/ \E r \in Adders : \/ \E tokens \in TokenLists : AddRequest(r, tokens)
                       \/ CheckItem(r) \/ InsertItem(r) \/ AnswerAdd(r)
  \/ \E s \in Symbols : DeleteItem(s)

WatchSpec == WatchInit /\ [][WatchNext]_watchVars

-----------------------------------------------------------------------------
(* The answer has one status per token, in the order of the request, and    *)
(* says invalid exactly where the token is unknown, although known and      *)
(* unknown ones are worked off apart (watchlist.py:51-92).                  *)
AnswersFit ==
  \A r \in Adders : adds[r].pc = "done" =>
    /\ DOMAIN adds[r].results = DOMAIN adds[r].tokens
    /\ \A i \in DOMAIN adds[r].tokens :
         adds[r].results[i] = "invalid" <=> adds[r].tokens[i] = Unknown

(* A row is reported as added by the request that made it and by no other:  *)
(* of requests that race for a symbol, the database lets one add it         *)
(* (watchlist_service.py:53-56, database.py:397).                           *)
AddedOnce ==
  [][\A r \in Adders :
       adds[r].pc = "checked" /\ adds'[r].pc = "next" => Item(r) \notin watch /\ Item(r) \in watch']_watchVars

(* The limit of rows per user can be overshot by requests that overlap, by  *)
(* as many as were between check and insert at once, less one               *)
(* (watchlist_service.py:41-55).                                            *)
WatchOvershootBounded ==
  Cardinality(watch) + Cardinality(Checked) + 1 <= MaxWatch + (IF crowd = 0 THEN 1 ELSE crowd)

(* What an add to the watchlist promises: an answer for each word, a row    *)
(* reported once, a limit exceeded only by overlapping requests             *)
(* (watchlist_service.py).                                                  *)
WatchlistHolds == [](WatchTypeOK /\ AnswersFit /\ WatchOvershootBounded) /\ AddedOnce
=============================================================================
