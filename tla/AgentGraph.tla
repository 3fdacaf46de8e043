----------------------------- MODULE AgentGraph -----------------------------
(***************************************************************************)
(* One run of the agent graph (tradingagents/graph/setup.py): the analysts *)
(* in parallel, the bull/bear debate, the research manager, the trader,    *)
(* the debate of the three risk analysts and the risk judge, who may send  *)
(* the plan back to the trader.  The edges are those of                    *)
(* graph/conditional_logic.py, the nodes those of agents/.  What the       *)
(* language model writes is nondeterministic: the payload of a turn and    *)
(* the verdict of the judge.                                               *)
(***************************************************************************)
EXTENDS DebateClaims

CONSTANTS
  Analysts,             \* selected_analysts
  MaxDebateRounds,      \* max_debate_rounds
  MaxRiskDiscussRounds, \* max_risk_discuss_rounds
  MaxRetries,           \* risk_feedback_state.max_retries, 1 in create_initial_state
  RecursionLimit        \* supersteps after which the graph library gives up

ASSUME AgentGraphAssumption ==
  /\ Analysts # {} /\ IsFiniteSet(Analysts)
  /\ MaxDebateRounds \in Nat /\ MaxRiskDiscussRounds \in Nat
  /\ MaxRetries \in Nat
  /\ RecursionLimit \in Nat

\* The names are those of the code with _ for a space; "none" is its empty string.
Debators  == {"Aggressive", "Conservative", "Neutral"}
Nodes     == {"Analysts", "Bull_Researcher", "Bear_Researcher", "Research_Manager", "Trader",
              "Aggressive_Analyst", "Conservative_Analyst", "Neutral_Analyst", "Risk_Judge", "END"}
Verdicts  == {"none", "pass", "revise", "reject"}

VARIABLES
  node,     \* the node to run next; "Analysts" stands for the parallel ones
  waiting,  \* the analysts that have not written their report
  invest,   \* investment_debate_state
  risk,     \* risk_debate_state
  feedback, \* risk_feedback_state: retry_count, revision_required, latest_risk_verdict
  plans,    \* history: how many plans the trader has written
  turns,    \* history: turns of each risk analyst since the last plan
  steps     \* supersteps taken

vars == <<node, waiting, invest, risk, feedback, plans, turns, steps>>

TypeOK ==
  /\ node \in Nodes
  /\ waiting \subseteq Analysts
  /\ invest \in DebateType({"none", "Bull", "Bear"})
  /\ risk \in DebateType({"none", "Judge"} \cup Debators)
  /\ IdsExist(invest) /\ IdsExist(risk)
  /\ feedback \in [retries : 0 .. MaxRetries + 1, required : BOOLEAN, verdict : Verdicts]
  /\ plans \in Nat
  /\ turns \in [Debators -> Nat]
  /\ steps \in Nat

\* create_initial_state
Init ==
  /\ node = "Analysts"
  /\ waiting = Analysts
  /\ invest = EmptyDebate
  /\ risk = EmptyDebate
  /\ feedback = [retries |-> 0, required |-> FALSE, verdict |-> "none"]
  /\ plans = 0
  /\ turns = [a \in Debators |-> 0]
  /\ steps = 0

\* A node of one superstep has run and next is due.
Goto(next) ==
  /\ node' = next
  /\ steps' = steps + 1

-----------------------------------------------------------------------------
(* The analysts: one superstep for all, one for their "Done" nodes, joined *)
(* before the debate.                                                      *)

Analyst(a) ==
  /\ node = "Analysts"
  /\ a \in waiting
  /\ waiting' = waiting \ {a}
  /\ node' = IF waiting = {a} THEN "Bull_Researcher" ELSE "Analysts"
  /\ steps' = IF waiting = {a} THEN steps + 2 ELSE steps
  /\ UNCHANGED <<invest, risk, feedback, plans, turns>>

-----------------------------------------------------------------------------
(* The research debate.                                                    *)

\* should_continue_debate
NextInDebate(d) ==
  CASE d.count >= 2 * MaxDebateRounds -> "Research_Manager"
    [] d.count < 2 * MaxDebateRounds /\ d.speaker = "Bull" -> "Bear_Researcher"
    [] OTHER -> "Bull_Researcher"

Argue(speaker, p) ==
  /\ Len(invest.claims) + p.new <= MaxClaims   \* bound
  /\ invest' \in Turn(invest, speaker, p)
  /\ UNCHANGED <<waiting, risk, feedback, plans, turns>>

BullResearcher(p) ==
  node = "Bull_Researcher" /\ Argue("Bull", p) /\ Goto(NextInDebate(invest'))

BearResearcher(p) ==
  node = "Bear_Researcher" /\ Argue("Bear", p) /\ Goto(NextInDebate(invest'))

ResearchManager ==
  /\ node = "Research_Manager" /\ Goto("Trader")
  /\ UNCHANGED <<waiting, invest, risk, feedback, plans, turns>>

-----------------------------------------------------------------------------
(* The trader and the risk debate.                                         *)

\* Variant: a revised plan is debated in the state of the old debate.
Trader_KeepsDebate ==
  /\ node = "Trader" /\ Goto("Aggressive_Analyst")
  /\ plans' = plans + 1
  /\ turns' = [a \in Debators |-> 0]
  /\ IF feedback.verdict = "revise"
       THEN feedback' = [feedback EXCEPT !.required = FALSE] /\ UNCHANGED risk
       ELSE UNCHANGED <<risk, feedback>>
  /\ UNCHANGED <<waiting, invest>>

\* A plan that was sent back starts a new risk debate.
Trader ==
  /\ node = "Trader" /\ Goto("Aggressive_Analyst")
  /\ plans' = plans + 1
  /\ turns' = [a \in Debators |-> 0]
  /\ IF feedback.verdict = "revise"
       THEN /\ risk' = EmptyDebate
            /\ feedback' = [feedback EXCEPT !.required = FALSE]
       ELSE UNCHANGED <<risk, feedback>>
  /\ UNCHANGED <<waiting, invest>>

\* should_continue_risk_analysis
NextInRisk(d) ==
  CASE d.count >= 3 * MaxRiskDiscussRounds -> "Risk_Judge"
    [] d.count < 3 * MaxRiskDiscussRounds /\ d.speaker = "Aggressive" -> "Conservative_Analyst"
    [] d.count < 3 * MaxRiskDiscussRounds /\ d.speaker = "Conservative" -> "Neutral_Analyst"
    [] OTHER -> "Aggressive_Analyst"

Discuss(speaker, p) ==
  /\ Len(risk.claims) + p.new <= MaxClaims   \* bound
  /\ risk' \in Turn(risk, speaker, p)
  /\ turns' = [turns EXCEPT ![speaker] = @ + 1]
  /\ UNCHANGED <<waiting, invest, feedback, plans>>

AggressiveAnalyst(p) ==
  node = "Aggressive_Analyst" /\ Discuss("Aggressive", p) /\ Goto(NextInRisk(risk'))

ConservativeAnalyst(p) ==
  node = "Conservative_Analyst" /\ Discuss("Conservative", p) /\ Goto(NextInRisk(risk'))

NeutralAnalyst(p) ==
  node = "Neutral_Analyst" /\ Discuss("Neutral", p) /\ Goto(NextInRisk(risk'))

\* should_revise_after_risk_judge
NextAfterJudge(f) == IF f.required /\ f.retries <= MaxRetries THEN "Trader" ELSE "END"

\* extract_risk_judge_result: a missing or unknown verdict is a rejection.
RiskJudge ==
  \E verdict \in Verdicts \ {"none"} :
    /\ node = "Risk_Judge"
    /\ risk' = [risk EXCEPT !.speaker = "Judge"]
    /\ feedback' = [retries |-> feedback.retries + (IF verdict = "revise" THEN 1 ELSE 0),
                    required |-> verdict = "revise", verdict |-> verdict]
    /\ Goto(NextAfterJudge(feedback'))
    /\ UNCHANGED <<waiting, invest, plans, turns>>

Done == node = "END" /\ UNCHANGED vars

Next ==
  \/ \E a \in Analysts : Analyst(a)
  \/ \E p \in Payloads :
       \/ BullResearcher(p) \/ BearResearcher(p)
       \/ AggressiveAnalyst(p) \/ ConservativeAnalyst(p) \/ NeutralAnalyst(p)
  \/ ResearchManager \/ Trader \/ RiskJudge
  \/ Done

Spec == Init /\ [][Next]_vars

-----------------------------------------------------------------------------
(* Properties.                                                             *)

(* Both debates keep their books: the id lists and the claims agree, over   *)
(* turns, judgements and the restart of the risk debate by a revision.      *)
ClaimsConsistent == Consistent(invest) /\ Consistent(risk)

(* Whoever speaks next has claims to answer while any is open.              *)
SpeakersHaveFocus == Focused(invest) /\ Focused(risk)

(* Every plan, the revised one too, is judged after a full debate: each     *)
(* risk analyst has had its rounds on this plan (conditional_logic.py:      *)
(* 82-92, trader.py:76-83).                                                 *)
PlansAreDebated ==
  node = "Risk_Judge" /\ MaxRiskDiscussRounds > 0 =>
    \A a \in Debators : turns[a] = MaxRiskDiscussRounds

(* The run ends, however often the judge asks for a revision, and the       *)
(* longest run stays below the recursion limit at which the graph library   *)
(* would fail the job (conditional_logic.py:94-102, propagation.py:120).    *)
WithinRecursionLimit == steps <= RecursionLimit

(* The invariant of the debates: their books agree and the next speaker     *)
(* has claims to answer (debate_utils.py, conditional_logic.py).            *)
DebatesInv == TypeOK /\ ClaimsConsistent /\ SpeakersHaveFocus
=============================================================================
