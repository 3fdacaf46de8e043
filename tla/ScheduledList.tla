---------------------------- MODULE ScheduledList ----------------------------
(***************************************************************************)
(* The rows of scheduled analyses of one user and the imported positions   *)
(* that make some of them (api/services/scheduled_service.py,              *)
(* api/services/portfolio_import_service.py).  What becomes of a row once  *)
(* it exists is in module Scheduler.                                       *)
(*                                                                         *)
(* A transaction is one step from its first write on (SQLite): the import  *)
(* starts with a delete, so all of it is one step; create_scheduled reads  *)
(* first.                                                                  *)
(***************************************************************************)
EXTENDS Naturals, FiniteSets, FiniteSetsExt

CONSTANTS
  Stocks,   \* symbols
  Sources,  \* tags of position snapshots
  Creates,  \* requests to POST /v1/scheduled, each used once
  MaxRows   \* MAX_SCHEDULED_ITEMS

ASSUME ScheduledListAssumption == MaxRows \in Nat \ {0} /\ IsFiniteSet(Stocks)

VARIABLES
  rows,      \* symbols that have a scheduled analysis
  positions, \* [Sources -> [held, watched]]: the imported positions per source
  creates,   \* the local state of each create request
  rush       \* history: the most create requests ever between check and insert

listVars == <<rows, positions, creates, rush>>

\* A cleaned snapshot: held positions and those with no shares left.
Snapshot == {p \in [held : SUBSET Stocks, empty : SUBSET Stocks] : p.held \cap p.empty = {}}
Nothing  == [held |-> {}, empty |-> {}]
InGap    == {r \in Creates : creates[r].pc = "checked"}

ListTypeOK ==
  /\ rows \subseteq Stocks
  /\ positions \in [Sources -> Snapshot]
  /\ creates \in [Creates -> [pc : {"idle", "checked", "made", "refused", "error"}, symbol : Stocks]]
  /\ rush \in Nat

ListInit ==
  /\ rows = {}
  /\ positions = [s \in Sources |-> Nothing]
  /\ creates \in [Creates -> [pc : {"idle"}, symbol : Stocks]]
  /\ rush = 0

\* create_scheduled counts the rows and looks for the symbol ...
CheckCreate(r) ==
  /\ creates[r].pc = "idle"
  /\ creates' = [creates EXCEPT ![r].pc =
       IF Cardinality(rows) >= MaxRows \/ creates[r].symbol \in rows THEN "refused" ELSE "checked"]
  /\ rush' = IF Cardinality(InGap') > rush THEN Cardinality(InGap') ELSE rush
  /\ UNCHANGED <<rows, positions>>

\* ... and inserts; the unique constraint refuses a second row of a symbol.
InsertCreate(r) ==
  /\ creates[r].pc = "checked"
  /\ rows' = rows \cup {creates[r].symbol}
  /\ creates' = [creates EXCEPT ![r].pc = IF creates[r].symbol \in rows THEN "error" ELSE "made"]
  /\ UNCHANGED <<positions, rush>>

\* Variant: the free slots are not counted down.
SyncPositions_NoCount(s, new, auto) ==
  /\ new # Nothing
  /\ positions' = [positions EXCEPT ![s] = new]
  /\ rows' = IF auto /\ Cardinality(rows) < MaxRows THEN rows \cup new.held ELSE rows
  /\ UNCHANGED <<creates, rush>>

\* sync_positions replaces the snapshot of its source and, unless told not to,
\* has ensure_scheduled_for_symbols make a row for each held symbol that has
\* none, in the order of the request, until the limit: any choice of that many.
SyncPositions(s, new, auto) ==
  /\ new # Nothing
  /\ positions' = [positions EXCEPT ![s] = new]
  /\ LET free    == IF Cardinality(rows) >= MaxRows THEN 0 ELSE MaxRows - Cardinality(rows)
         missing == new.held \ rows
         fit     == IF Cardinality(missing) < free THEN Cardinality(missing) ELSE free
     IN  IF auto THEN \E made \in kSubset(fit, missing) : rows' = rows \cup made
                 ELSE UNCHANGED rows
  /\ UNCHANGED <<creates, rush>>

\* clear_imported_portfolio, every source; scheduled rows stay.
ClearPositions ==
  /\ positions' = [s \in Sources |-> Nothing]
  /\ UNCHANGED <<rows, creates, rush>>

\* delete_scheduled and batch_delete_scheduled: what is found is deleted.
DeleteRows(ids) ==
  /\ ids \cap rows # {}
  /\ rows' = rows \ ids
  /\ UNCHANGED <<positions, creates, rush>>

ListNext ==
  \/ \E r \in Creates : CheckCreate(r) \/ InsertCreate(r)
  \/ \E s \in Sources : \E new \in Snapshot : \E auto \in BOOLEAN : SyncPositions(s, new, auto)
  \/ ClearPositions
  \/ \E ids \in SUBSET Stocks : DeleteRows(ids)

ListSpec == ListInit /\ [][ListNext]_listVars

-----------------------------------------------------------------------------
(* Ten analyses per user (scheduled_service.py:117-143, 161-200): an import *)
(* never goes beyond the limit by itself; creates that passed their check   *)
(* before it can, by as many as were between check and insert at once.      *)
RowsOvershootBounded == Cardinality(rows) + Cardinality(InGap) <= MaxRows + rush

(* After an import that schedules, a held position without a scheduled      *)
(* analysis means that the table is full, and the import deletes no row     *)
(* (scheduled_service.py:175-200).                                          *)
HeldAreScheduled ==
  [][\A s \in Sources :
       LET new == positions'[s]
       IN  SyncPositions(s, new, TRUE) =>
             /\ rows \subseteq rows' /\ rows' \subseteq rows \cup new.held
             /\ new.held \subseteq rows' \/ Cardinality(rows') >= MaxRows]_listVars

(* What the table of scheduled analyses promises: its size exceeds the      *)
(* limit only by overlapping requests, and an import that schedules covers  *)
(* what is held (scheduled_service.py).                                     *)
ScheduledListHolds == [](ListTypeOK /\ RowsOvershootBounded) /\ HeldAreScheduled
=============================================================================
