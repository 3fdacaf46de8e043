--------------------------- MODULE StreamProgress ---------------------------
(***************************************************************************)
(* The loop that follows a run of the agent graph (api/main.py:1729-1850   *)
(* and, with the same steps, 1999-2071): every superstep of AgentGraph     *)
(* yields a chunk with the whole graph state; the loop advances the        *)
(* statuses of the progress tracker (1098-1262), streams each report that  *)
(* is new or changed and collects it for the next write to the report row. *)
(* Writes happen with five collected reports, after two seconds or at the  *)
(* end, and may fail.                                                      *)
(***************************************************************************)
EXTENDS AgentGraph

CONSTANTS
  Roster,   \* the analysts of FIXED_TEAMS
  Listed    \* the analysts of ANALYST_ORDER

VARIABLES
  phase,    \* the loop: "running", "ended", "closed" or "failed"
  text,     \* the reports in the graph state: 0 empty, n the n-th version
  seen,     \* fields seen in a chunk, and "research" when it was started
  status,   \* AgentProgressTracker.status
  shown,    \* the version of each report last streamed
  buffer,   \* _pending_db_updates
  stored,   \* the versions in the report row
  lost      \* history: reports whose last write failed

streamVars == <<phase, text, seen, status, shown, buffer, stored, lost>>

Research   == {"Bull_Researcher", "Bear_Researcher", "Research_Manager"}
RiskTeam   == {"Aggressive_Analyst", "Neutral_Analyst", "Conservative_Analyst", "Portfolio_Manager"}
Members    == Roster \cup Research \cup {"Trader"} \cup RiskTeam
Decisions  == {"investment_plan", "trader_investment_plan", "final_trade_decision"}
Sections   == Roster \cup Decisions
Rank       == [pending |-> 0, in_progress |-> 1, completed |-> 2, skipped |-> 3]
FlushSize  == 5

ASSUME StreamAssumption ==
  /\ Analysts \subseteq Roster /\ Listed \subseteq Roster
  /\ Roster \cap (Decisions \cup Research \cup RiskTeam \cup {"Trader", "research"}) = {}

StreamTypeOK ==
  /\ phase \in {"running", "ended", "closed", "failed"}
  /\ text \in [Sections -> Nat] /\ shown \in [Sections -> Nat] /\ stored \in [Sections -> Nat]
  /\ seen \subseteq Sections \cup {"research"}
  /\ status \in [Members -> DOMAIN Rank]
  /\ buffer \subseteq Sections /\ lost \subseteq Sections

\* The tracker's first snapshot.  With a query, the analysts are announced as
\* working before the first chunk; without one they stay pending.
StreamInit ==
  /\ Init
  /\ phase = "running"
  /\ text = [s \in Sections |-> 0]
  /\ seen = {}
  /\ \E working \in {"pending", "in_progress"} :
       status = [m \in Members |-> CASE m \in Listed \ Analysts -> "skipped"
                                     [] m \in Listed \cap Analysts -> working
                                     [] OTHER -> "pending"]
  /\ shown = text /\ stored = text
  /\ buffer = {} /\ lost = {}

-----------------------------------------------------------------------------
\* What the superstep wrote: any text, an empty one included.
NodeWrites ==
  LET fields == CASE node = "Analysts"         -> Analysts
                  [] node = "Research_Manager" -> {"investment_plan"}
                  [] node = "Trader"           -> {"trader_investment_plan"}
                  [] node = "Risk_Judge"       -> {"final_trade_decision"}
                  [] OTHER                     -> {}
      version == IF node \in {"Trader", "Risk_Judge"} THEN plans' ELSE 1
  IN  \E filled \in SUBSET fields :
        text' = [s \in Sections |-> IF s \in filled THEN version
                                    ELSE IF s \in fields THEN 0 ELSE text[s]]

\* The fields the loop has not seen before.
Fresh ==
  LET reports == {a \in Listed \cap Analysts : text'[a] # 0}
      marks   == reports \cup {s \in Decisions : text'[s] # 0}
                   \cup (IF Analysts \subseteq seen \cup reports THEN {"research"} ELSE {})
  IN  marks \ seen

\* Variant: statuses follow the fields present, seen before or not.
StatusesAfter_Unseen(fresh) ==
  LET present == {s \in Sections : text'[s] # 0}
  IN  [m \in Members |->
         CASE m \in RiskTeam /\ "final_trade_decision" \in present -> "completed"
           [] m = "Aggressive_Analyst" /\ "trader_investment_plan" \in present -> "in_progress"
           [] m = "Trader" /\ "trader_investment_plan" \in present -> "completed"
           [] m = "Trader" /\ "investment_plan" \in present -> "in_progress"
           [] m \in Research /\ "investment_plan" \in present -> "completed"
           [] m \in Research /\ "research" \in fresh -> "in_progress"
           [] m \in present -> "completed"
           [] OTHER -> status[m]]

\* Each field moves statuses once, in the order of the loop's five steps.
StatusesAfter(fresh) ==
  [m \in Members |->
     CASE m \in RiskTeam /\ "final_trade_decision" \in fresh -> "completed"
       [] m = "Aggressive_Analyst" /\ "trader_investment_plan" \in fresh -> "in_progress"
       [] m = "Trader" /\ "trader_investment_plan" \in fresh -> "completed"
       [] m = "Trader" /\ "investment_plan" \in fresh -> "in_progress"
       [] m \in Research /\ "investment_plan" \in fresh -> "completed"
       [] m \in Research /\ "research" \in fresh -> "in_progress"
       [] m \in fresh -> "completed"
       [] OTHER -> status[m]]

\* Reports that are there and differ from what was streamed last.
Changed == {s \in Sections : text'[s] # 0 /\ text'[s] # shown[s]}

\* A write of the collected reports, which are given up when it fails.
Flush(pending) ==
  /\ buffer' = {}
  /\ \/ /\ stored' = [s \in Sections |-> IF s \in pending THEN shown'[s] ELSE stored[s]]
        /\ lost' = lost \ pending
     \/ /\ lost' = lost \cup pending
        /\ UNCHANGED stored

\* Below five reports, the two seconds decide.
Collect(pending) ==
  \/ Changed # {} /\ Flush(pending)
  \/ /\ Changed = {} \/ Cardinality(pending) < FlushSize
     /\ buffer' = pending
     /\ UNCHANGED <<stored, lost>>

\* One chunk; a part of a superstep yields none.
Chunk ==
  /\ phase = "running" /\ node # "END"
  /\ Next
  /\ IF steps' = steps
       THEN UNCHANGED streamVars
       ELSE /\ NodeWrites
            /\ seen' = seen \cup Fresh
            /\ status' = StatusesAfter(Fresh)
            /\ shown' = [s \in Sections |-> IF s \in Changed THEN text'[s] ELSE shown[s]]
            /\ Collect(buffer \cup Changed)
            /\ UNCHANGED phase

\* The stream has ended: what is left is written.
EndOfStream ==
  /\ phase = "running" /\ node = "END"
  /\ phase' = "ended"
  /\ IF buffer = {} THEN UNCHANGED <<buffer, stored, lost>>
     ELSE UNCHANGED shown /\ Flush(buffer)
  /\ UNCHANGED <<vars, text, seen, status, shown>>

\* A node raises: the job fails, and what was collected is not written.
StreamFails ==
  /\ phase = "running" /\ node # "END"
  /\ phase' = "failed"
  /\ UNCHANGED <<vars, text, seen, status, shown, buffer, stored, lost>>

\* Every member that is neither completed nor skipped is completed.
CloseOut ==
  /\ phase = "ended"
  /\ phase' = "closed"
  /\ status' = [m \in Members |-> IF status[m] = "skipped" THEN "skipped" ELSE "completed"]
  /\ UNCHANGED <<vars, text, seen, shown, buffer, stored, lost>>

StreamNext == Chunk \/ EndOfStream \/ StreamFails \/ CloseOut

StreamSpec == StreamInit /\ [][StreamNext]_<<vars, streamVars>>

-----------------------------------------------------------------------------
(* Progress never goes back: no member that was completed works or waits   *)
(* again, not even when the judge returns the plan and every chunk carries *)
(* the old texts again (main.py:1773-1813).  One exception: the first plan *)
(* was an empty text and was judged all the same.                          *)
NoStepBack ==
  [][\A m \in Members :
       \/ Rank[status'[m]] >= Rank[status[m]]
       \/ m = "Aggressive_Analyst" /\ "trader_investment_plan" \in seen' \ seen
            /\ "final_trade_decision" \in seen]_<<seen, status>>

(* What the page shows is the graph's text, after a revision too           *)
(* (main.py:1816-1823).                                                    *)
ShownIsLatest == \A s \in Sections : text[s] # 0 => shown[s] = text[s]

(* The row lags behind the stream only by reports still collected, fewer   *)
(* than five, or by those whose write failed (main.py:1825-1832).          *)
RowCatchesUp ==
  /\ Cardinality(buffer) < FlushSize
  /\ phase \in {"ended", "closed"} => buffer = {}
  /\ \A s \in Sections : stored[s] # shown[s] => s \in buffer \cup lost

(* The research team is shown at work while it debates, unless an analyst   *)
(* wrote nothing or is not in ANALYST_ORDER: then it waits for ever in the  *)
(* tracker, and jumps to completed (main.py:1784-1792).                     *)
DebateIsAnnounced ==
  phase = "running" /\ node \in {"Bull_Researcher", "Bear_Researcher"} =>
    (status["Bull_Researcher"] = "pending"
       <=> \E a \in Analysts : a \notin Listed \/ text[a] = 0)

(* An analyst that was not selected is shown as completed at the end only   *)
(* if it is missing from ANALYST_ORDER, from which the tracker marks the    *)
(* unselected ones as skipped (main.py:1140-1144, 1847-1850).               *)
OnlySelectedComplete ==
  \A a \in Roster \ Analysts : status[a] = "completed" => a \notin Listed

(* What a client is told of a run, and what the row keeps of it, agree      *)
(* with the run at every chunk and at its end, and progress is never taken  *)
(* back (api/main.py).                                                      *)
ProgressHolds == [](StreamTypeOK /\ ShownIsLatest /\ RowCatchesUp /\ DebateIsAnnounced /\ OnlySelectedComplete) /\ NoStepBack
=============================================================================
