---------------------------- MODULE StockMapCache ----------------------------
(***************************************************************************)
(* The table of stock names (_load_cn_stock_map, api/main.py): kept in a   *)
(* global variable and in a file, both for TTL units of time.  Requests    *)
(* run on threads; only the loading is under a lock, the expiry and the    *)
(* reads around it are not.  A table stands for the time at which it was   *)
(* fetched; that the funds may be missing from it is left out.             *)
(***************************************************************************)
EXTENDS Integers

CONSTANTS
  Callers,   \* requests, one call each
  TTL,       \* how long a table is valid
  MaxClock,  \* bound of the clock
  None       \* the global variable before the first load and when expired

ASSUME StockMapAssumption ==
  TTL \in Nat \ {0} /\ MaxClock \in Nat /\ None \notin Int /\ None \notin Callers

VARIABLES
  clock,     \* the time
  stockMap,  \* _cn_stock_map: None, Empty, or a table
  loadedAt,  \* _cn_stock_map_loaded_at
  file,      \* stock_map_cache.json: None or a table and when it was written
  holder,    \* the caller that holds _cn_stock_map_lock, or None
  call,      \* caller -> where it is, its time, its result
  disturbed, \* caller -> what others did during its call: expired, failed
  tossed     \* a table was thrown away that is valid or being loaded

mapVars == <<clock, stockMap, loadedAt, file, holder, call, disturbed, tossed>>

Table == 0 .. MaxClock
Empty == -1

NewCall == [pc |-> "new", now |-> 0, result |-> None, tried |-> FALSE]

MapInit ==
  /\ clock = 0 /\ stockMap = None /\ loadedAt = -1 - TTL /\ holder = None
  /\ file \in {None} \cup [table : {0}, written : {0}]
  /\ call = [c \in Callers |-> NewCall] /\ disturbed = [c \in Callers |-> {}] /\ tossed = FALSE

\* A call ends within two units of time, as TTL is seven days.
Tick ==
  /\ clock < MaxClock /\ \A c \in Callers : call[c].pc \in {"new", "done"} \/ call[c].now = clock
  /\ clock' = clock + 1 /\ UNCHANGED <<stockMap, loadedAt, file, holder, call, disturbed, tossed>>

At(c, pc) == call[c].pc = pc
Goes(c, pc) == call' = [call EXCEPT ![c].pc = pc]

-----------------------------------------------------------------------------
(* Before the lock. *)

Old(now) == now - loadedAt > TTL

Disturb(c, what) ==
  disturbed' = [o \in Callers |-> IF o # c /\ call[o].pc \notin {"new", "done"} THEN disturbed[o] \cup {what}
                                  ELSE disturbed[o]]

\* The call takes the time and looks whether the table is old ...
Test(c) ==
  /\ At(c, "new")
  /\ call' = [call EXCEPT ![c].pc = IF stockMap # None /\ Old(clock) THEN "expire" ELSE "look", ![c].now = clock]
  /\ UNCHANGED <<clock, stockMap, loadedAt, file, holder, disturbed, tossed>>

\* ... and throws it away, whoever uses it or has replaced it.
Expire(c) == /\ At(c, "expire") /\ Goes(c, "look") /\ stockMap' = None /\ Disturb(c, "expired")
             /\ tossed' = (tossed \/ (stockMap # None /\ (~Old(call[c].now) \/ \E o \in Callers : At(o, "stamp"))))
             /\ UNCHANGED <<clock, loadedAt, file, holder>>

\* The table is looked at here and read once more when it is returned.
Look(c) == /\ At(c, "look") /\ Goes(c, IF stockMap # None THEN "return" ELSE "lock")
           /\ UNCHANGED <<clock, stockMap, loadedAt, file, holder, disturbed, tossed>>

-----------------------------------------------------------------------------
(* Under the lock. *)

Lock(c) == /\ At(c, "lock") /\ holder = None /\ holder' = c /\ Goes(c, "check")
           /\ UNCHANGED <<clock, stockMap, loadedAt, file, disturbed, tossed>>

\* Another caller may have loaded the table meanwhile; else a file is asked.
CheckAgain(c) ==
  /\ At(c, "check") /\ UNCHANGED <<clock, stockMap, loadedAt, file, disturbed, tossed>>
  /\ IF stockMap # None /\ ~Old(call[c].now)
     THEN Goes(c, "return") /\ holder' = None
     ELSE Goes(c, "file") /\ UNCHANGED holder

FileIsValid(now) == file # None /\ now - file.written <= TTL

\* An unreadable file is as good as none.
LoadFile(c) ==
  /\ At(c, "file") /\ UNCHANGED <<clock, loadedAt, file, holder, disturbed, tossed>>
  /\ \/ /\ FileIsValid(call[c].now) /\ stockMap' = file.table
        /\ call' = [call EXCEPT ![c].pc = "stamp", ![c].result = file.table]
     \/ Goes(c, "fetch") /\ UNCHANGED stockMap

\* The vendor is asked; the file may not be written.
Fetch(c) ==
  /\ At(c, "fetch") /\ stockMap' = clock /\ Goes(c, "stamp")
  /\ file' \in {file, [table |-> clock, written |-> clock]}
  /\ UNCHANGED <<clock, loadedAt, holder, disturbed, tossed>>

\* A failed load leaves no time behind, so the next call tries again.
Stamp(c) == UNCHANGED loadedAt

\* Variant: an expired table stays expired when the load fails.
Leftover_None(m) == m

Leftover(m) == IF m = None THEN Empty ELSE m

FetchFails(c) ==
  /\ At(c, "fetch") /\ stockMap' = Leftover(stockMap) /\ Stamp(c) /\ holder' = None
  /\ call' = [call EXCEPT ![c].pc = "return", ![c].tried = TRUE]
  /\ Disturb(c, "failed") /\ UNCHANGED <<clock, file, tossed>>

\* The time of the load is set after the table.  A table from the file is
\* returned as it is; the other way the variable is read once more.
SetLoadedAt(c) ==
  /\ At(c, "stamp") /\ loadedAt' = call[c].now /\ holder' = None
  /\ Goes(c, IF call[c].result # None THEN "done" ELSE "return")
  /\ UNCHANGED <<clock, stockMap, file, disturbed, tossed>>

Return(c) ==
  /\ At(c, "return") /\ call' = [call EXCEPT ![c].pc = "done", ![c].result = stockMap]
  /\ UNCHANGED <<clock, stockMap, loadedAt, file, holder, disturbed, tossed>>

\* A request after the last one finds what the process has kept.
Again(c) ==
  /\ At(c, "done") /\ call' = [call EXCEPT ![c] = NewCall] /\ disturbed' = [disturbed EXCEPT ![c] = {}]
  /\ UNCHANGED <<clock, stockMap, loadedAt, file, holder, tossed>>

MapNext ==
  \/ Tick
  \/ \E c \in Callers :
       \/ Test(c) \/ Expire(c) \/ Look(c) \/ Lock(c) \/ CheckAgain(c) \/ LoadFile(c) \/ Fetch(c)
       \/ FetchFails(c) \/ SetLoadedAt(c) \/ Return(c) \/ Again(c)

MapSpec == MapInit /\ [][MapNext]_mapVars

-----------------------------------------------------------------------------
HasReturned(c) == At(c, "done")

(* Only a caller whose table is thrown away by another one between its last *)
(* look and its return may get None, on which the routes fail               *)
(* (main.py:341-345, 415).                                                  *)
NoneNeedsAnotherCaller == \A c \in Callers : HasReturned(c) /\ call[c].result = None => "expired" \in disturbed[c]

(* A table is never older than twice its time of validity, which it reaches *)
(* when the file was loaded just before it became invalid, and the time a   *)
(* call takes (main.py:358-364).                                            *)
TablesAgeTwice ==
  \A c \in Callers : HasReturned(c) /\ call[c].result \in Table =>
    call[c].now - call[c].result <= 2 * TTL + 1

(* A failed load is not remembered: whoever gets an empty table has tried   *)
(* itself, or another caller failed during its call -- unless a caller that *)
(* read the times before a load threw the new table away after it, and the  *)
(* load that followed failed (main.py:341-343, 410-414).                    *)
FailuresAreRetried ==
  \A c \in Callers :
    HasReturned(c) /\ call[c].result = Empty => call[c].tried \/ "failed" \in disturbed[c] \/ tossed

(* The table of stock names answers every caller, ages at most twice its    *)
(* time and is tried again after a failure (api/main.py).                   *)
StockNamesInv == NoneNeedsAnotherCaller /\ TablesAgeTwice /\ FailuresAreRetried
=============================================================================
