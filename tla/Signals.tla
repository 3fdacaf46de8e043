------------------------------- MODULE Signals -------------------------------
(***************************************************************************)
(* What the system reads out of the final decision an agent wrote: the     *)
(* decision word (tradingagents/graph/signal_processing.py), the direction,*)
(* confidence and prices of the report row (api/services/report_service.py)*)
(* and the class a backtest trades on.  A text is reduced to what these    *)
(* readers look at: its VERDICT comment, the key words in the explicit     *)
(* lines, the first twenty lines and the whole, and the numbers after the  *)
(* price and confidence labels.  Each state is one text.                   *)
(***************************************************************************)
EXTENDS Integers, Sequences

CONSTANTS Lines   \* how many of the explicit patterns may match

ASSUME SignalsAssumption == Lines \in Nat

VARIABLES
  signal,   \* a decision text
  numbers   \* an extraction and the labels in the texts

signalVars == <<signal, numbers>>

None  == "none"
Words == {"BUY", "SELL", "HOLD"}

\* The comment of the text: none, unreadable JSON, JSON broken over lines
\* within a string, a direction that direction_map knows (shown as the word
\* it is mapped to), another one, or an empty one.
Comments == [kind : {"absent", "unreadable", "other", "empty"}, word : {None}]
            \cup [kind : {"known", "wrapped"}, word : Words]

\* A number after a label of the text.
Missing  == -1
Percents == {Missing, 70, 170}
Prices   == {Missing, 10, 20}
NoLabels == [confidence |-> Missing, target |-> Missing, plan |-> Missing]
Nothing  == [confidence |-> Missing, target |-> Missing]

Texts == [filled : BOOLEAN, comment : Comments, explicit : [1 .. Lines -> {{None}} \cup SUBSET Words],
          headline : SUBSET Words, body : SUBSET Words]

\* What extract_structured_data may return: nothing on any error, and no
\* confidence out of range; and the numbers in decision and plan.
Structured == [confidence : {Missing, 0, 70}, target : Prices]
Labels     == [confidence : Percents, target : Prices, plan : Prices]

\* Every text, and every set of numbers.
SignalInit ==
  /\ signal \in Texts
  /\ numbers \in Structured \X Labels
  /\ signal.body # {} => numbers = <<Nothing, NoLabels>>
  /\ signal.headline \subseteq signal.body
  /\ \A i \in 1 .. Lines : signal.explicit[i] \subseteq signal.body \cup {None}
  /\ ~signal.filled => /\ signal.comment.kind = "absent" /\ signal.body = {}
                       /\ \A i \in 1 .. Lines : signal.explicit[i] = {None}

-----------------------------------------------------------------------------
\* classify: words of a purchase before those of a sale before those of waiting.
Classify(words) ==
  IF "BUY" \in words THEN "BUY" ELSE IF "SELL" \in words THEN "SELL"
  ELSE IF "HOLD" \in words THEN "HOLD" ELSE None

\* The first classification of a sequence of word sets that is not None.
FirstWord(places) ==
  LET hits == {i \in 1 .. Len(places) : Classify(places[i]) # None}
  IN  IF hits = {} THEN None
      ELSE Classify(places[CHOOSE i \in hits : \A j \in hits : i <= j])

\* Variant: the key words are read before the comment.
Decision_WordsFirst(t) ==
  LET word == FirstWord(t.explicit \o <<t.headline, t.body>>)
  IN  IF ~t.filled THEN "HOLD"
      ELSE IF word # None THEN word
      ELSE IF t.comment.kind = "known" THEN t.comment.word ELSE "UNKNOWN"

\* process_signal: the comment as strict JSON, the explicit lines, the first
\* lines, the whole text; the model is never asked, for the last resort of
\* _extract_decision_keyword is "UNKNOWN" and not None.
Decision(t) ==
  LET word == FirstWord(t.explicit \o <<t.headline, t.body>>)
  IN  IF ~t.filled THEN "HOLD"
      ELSE IF t.comment.kind = "known" THEN t.comment.word
      ELSE IF word # None THEN word ELSE "UNKNOWN"

\* _extract_verdict of the report service, which first joins broken lines;
\* the row keeps the direction as it is written.
Direction(t) ==
  CASE t.comment.kind \in {"known", "wrapped"} -> t.comment.word
    [] t.comment.kind = "other"                -> "other"
    [] OTHER                                   -> None

\* _classify_decision of the backtests, applied to Decision.
Traded(decision) == IF decision \in {"BUY", "SELL"} THEN decision ELSE "HOLD"

-----------------------------------------------------------------------------
(* The fields of a report: a structured extraction overrides, the labels in *)
(* the decision text follow, for prices those in the trader's plan.         *)

\* _extract_confidence_regex: a number out of range is no number.
Percent(n) == IF n > 100 THEN Missing ELSE n

OrElse(a, b) == IF a = Missing THEN b ELSE a

\* resolve_report_fields
Fields(structured, labels) ==
  [confidence |-> OrElse(structured.confidence, Percent(labels.confidence)),
   target     |-> OrElse(OrElse(structured.target, labels.target), labels.plan)]

\* create_report resolves again, with what was resolved before as overrides.
RowFields(structured, labels) == Fields(Fields(structured, labels), labels)

-----------------------------------------------------------------------------
(* The row's decision and direction are read by two functions from one      *)
(* text.  They contradict each other only when the comment is JSON with a   *)
(* broken line, which only the second repairs, or names a direction the     *)
(* first does not know (signal_processing.py:53-77, report_service.py:      *)
(* 188-205).                                                                *)
DecisionFollowsDirection ==
  Direction(signal) \in Words /\ Decision(signal) # Direction(signal) => signal.comment.kind = "wrapped"

(* A text without any word of a purchase is never read as one, nor traded   *)
(* as one; a text is UNKNOWN only if it has neither a readable comment nor  *)
(* any key word (signal_processing.py:79-145, backtest_service.py:148-155). *)
NothingIsInvented ==
  /\ \A word \in {"BUY", "SELL"} :
       Traded(Decision(signal)) = word => word \in signal.body \cup {signal.comment.word}
  /\ signal.body # {} => Decision(signal) # "UNKNOWN"

(* What the stream announces and what the row keeps are the same fields,    *)
(* though they are resolved twice (main.py:2180-2199, report_service.py:    *)
(* 398-421).                                                                *)
EventAndRowAgree ==
  RowFields(numbers[1], numbers[2]) = Fields(numbers[1], numbers[2])

(* The readers of one text agree as far as they look at the same part of    *)
(* it, and invent nothing (signal_processing.py, report_service.py,         *)
(* backtest_service.py).                                                    *)
SignalsInv == DecisionFollowsDirection /\ NothingIsInvented /\ EventAndRowAgree
=============================================================================
