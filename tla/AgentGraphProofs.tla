-------------------------- MODULE AgentGraphProofs --------------------------
(***************************************************************************)
(* Proofs about AgentGraph and StreamProgress, for any analysts, limits,   *)
(* payloads and texts: the books of both debates, the full debate of every *)
(* plan, the length of the longest run, and what clients and the report    *)
(* row are told of it; about UserContext, what the agents are told of the  *)
(* user; and about Signals, the readers of their decision.                 *)
(***************************************************************************)
EXTENDS StreamProgress, Signals, UserContext, SequenceTheorems, FiniteSetTheorems,
        WellFoundedInduction, TLAPS

-----------------------------------------------------------------------------
(* The books of one debate.                                                *)

(* The statuses after a turn: those of the claims made before, and an open  *)
(* one for each new claim (debate_utils.py, update_debate_state_with_       *)
(* payload).                                                                *)
LEMMA StatusesAre ==
  ASSUME NEW claims \in Seq(ClaimStatuses), NEW p \in Payloads
  PROVE  /\ Statuses(claims, p) \in Seq(ClaimStatuses)
         /\ Len(Statuses(claims, p)) = Len(claims) + p.new
         /\ \A i \in 1 .. Len(claims) :
              /\ Statuses(claims, p)[i] = "resolved"
                   <=> i \notin p.unresolved /\ (i \in p.resolved \/ claims[i] = "resolved")
              /\ Statuses(claims, p)[i] = "unresolved"
                   <=> i \in p.unresolved \/ (i \notin p.resolved /\ claims[i] = "unresolved")
         /\ \A i \in Len(claims) + 1 .. Len(claims) + p.new : Statuses(claims, p)[i] = "open"
<1> DEFINE Answered(i) == CASE i \in p.unresolved -> "unresolved"
                            [] i \in p.resolved \ p.unresolved -> "resolved"
                            [] i \in p.responded \ (p.resolved \cup p.unresolved) /\ claims[i] = "open" -> "addressed"
                            [] OTHER -> claims[i]
           known == [i \in DOMAIN claims |-> Answered(i)]
           fresh == [i \in 1 .. p.new |-> "open"]
<1>1. p.new \in Nat  BY ClaimsAssumption DEF Payloads
<1>2. DOMAIN claims = 1 .. Len(claims) /\ Len(claims) \in Nat /\ \A i \in 1 .. Len(claims) : claims[i] \in ClaimStatuses
  OBVIOUS
<1>3. \A i \in 1 .. Len(claims) :
        /\ Answered(i) \in ClaimStatuses
        /\ Answered(i) = "resolved" <=> i \notin p.unresolved /\ (i \in p.resolved \/ claims[i] = "resolved")
        /\ Answered(i) = "unresolved" <=> i \in p.unresolved \/ (i \notin p.resolved /\ claims[i] = "unresolved")
  <2> TAKE i \in 1 .. Len(claims)
  <2>1. CASE i \in p.unresolved  BY <2>1 DEF ClaimStatuses
  <2>2. CASE i \in p.resolved \ p.unresolved  BY <2>2 DEF ClaimStatuses
  <2>3. CASE i \notin p.resolved \cup p.unresolved /\ i \in p.responded /\ claims[i] = "open"  BY <2>3 DEF ClaimStatuses
  <2>4. CASE i \notin p.resolved \cup p.unresolved /\ ~(i \in p.responded /\ claims[i] = "open")  BY <1>2, <2>4
  <2> QED  BY <2>1, <2>2, <2>3, <2>4
<1> HIDE DEF Answered
<1>4. known \in Seq(ClaimStatuses) /\ Len(known) = Len(claims) /\ \A i \in 1 .. Len(claims) : known[i] = Answered(i)
  BY <1>2, <1>3
<1>5. fresh \in Seq(ClaimStatuses) /\ Len(fresh) = p.new /\ \A i \in 1 .. p.new : fresh[i] = "open"
  BY <1>1 DEF ClaimStatuses
<1>6. Statuses(claims, p) = known \o fresh  BY DEF Statuses, Answered
<1> HIDE DEF known, fresh
<1>7. /\ known \o fresh \in Seq(ClaimStatuses)
      /\ Len(known \o fresh) = Len(claims) + p.new
      /\ \A i \in 1 .. Len(claims) : (known \o fresh)[i] = Answered(i)
      /\ \A i \in Len(claims) + 1 .. Len(claims) + p.new : (known \o fresh)[i] = "open"
  <2>1. /\ Len(known \o fresh) = Len(known) + Len(fresh)
        /\ \A i \in 1 .. Len(known) + Len(fresh) :
             (known \o fresh)[i] = IF i <= Len(known) THEN known[i] ELSE fresh[i - Len(known)]
    BY <1>4, <1>5, ConcatProperties
  <2>2. known \o fresh \in Seq(ClaimStatuses)  BY <1>4, <1>5, ConcatProperties
  <2>3. ASSUME NEW i \in 1 .. Len(claims)  PROVE (known \o fresh)[i] = Answered(i)
    BY <2>1, <1>1, <1>2, <1>4, <1>5
  <2>4. ASSUME NEW i \in Len(claims) + 1 .. Len(claims) + p.new  PROVE (known \o fresh)[i] = "open"
    <3>1. i \in Int /\ ~(i <= Len(claims)) /\ i \in 1 .. Len(claims) + p.new /\ i - Len(claims) \in 1 .. p.new
      BY <1>1, <1>2
    <3> QED  BY <3>1, <2>1, <1>4, <1>5
  <2> QED  BY <2>1, <2>2, <2>3, <2>4, <1>4, <1>5
<1> QED  BY <1>3, <1>6, <1>7

(* The focus of the next turn: ids of claims, and none only if none is      *)
(* open.                                                                    *)
LEMMA FocusIs ==
  ASSUME NEW n \in Nat, NEW open, NEW unresolved, open \subseteq 1 .. n, NEW F \in DefaultFocus(open, unresolved)
  PROVE  F \subseteq open /\ (open # {} => F # {})
<1>1. F \subseteq open /\ Cardinality(F) = (IF Cardinality(open) < 2 THEN Cardinality(open) ELSE 2)
  BY DEF DefaultFocus
<1>2. IsFiniteSet(open)
  <2>1. IsFiniteSet(1 .. n)  BY FS_Interval
  <2> QED  BY <2>1, FS_Subset
<1>3. Cardinality(open) \in Nat /\ (Cardinality(open) = 0 <=> open = {})
  BY <1>2, FS_CardinalityType, FS_EmptySet
<1>4. Cardinality({}) = 0  BY FS_EmptySet
<1>5. ASSUME F = {}  PROVE open = {}
  <2>1. Cardinality(F) = 0  BY <1>4, <1>5
  <2> QED  BY <2>1, <1>1, <1>3
<1> QED  BY <1>1, <1>5

(* A turn keeps the books of its debate, leaves the next speaker something  *)
(* to answer, and counts itself.                                            *)
LEMMA TurnKeepsBooks ==
  ASSUME NEW d, NEW speaker, NEW p \in Payloads,
         d.count \in Nat, d.claims \in Seq(ClaimStatuses), Consistent(d), Len(d.claims) + p.new <= MaxClaims,
         NEW e \in Turn(d, speaker, p)
  PROVE  /\ IdsExist(e) /\ Consistent(e) /\ Focused(e)
         /\ e.count = d.count + 1 /\ e.speaker = speaker
         /\ \A S : speaker \in S => e \in DebateType(S)
<1> DEFINE claims == Statuses(d.claims, p)
           res    == Known(p.resolved, d.claims)
           unres  == Known(p.unresolved, d.claims)
           open   == ((d.open \ res) \cup unres) \cup (DOMAIN claims \ DOMAIN d.claims)
           resd   == (d.resolved \cup res) \ unres
           unr    == (d.unresolved \ res) \cup unres
           focus  == Known(p.focus, claims)
           old    == Len(d.claims)
           n      == Len(d.claims) + p.new
<1>1. d.claims \in Seq(ClaimStatuses) /\ d.count \in Nat  OBVIOUS
<1>2. p.new \in Nat /\ old \in Nat /\ n \in Nat  BY <1>1, ClaimsAssumption DEF Payloads
<1>3. /\ claims \in Seq(ClaimStatuses) /\ Len(claims) = n
      /\ \A i \in 1 .. old :
           /\ claims[i] = "resolved" <=> i \notin p.unresolved /\ (i \in p.resolved \/ d.claims[i] = "resolved")
           /\ claims[i] = "unresolved" <=> i \in p.unresolved \/ (i \notin p.resolved /\ d.claims[i] = "unresolved")
      /\ \A i \in old + 1 .. n : claims[i] = "open"
  BY <1>1, StatusesAre
<1>4. PICK F \in (IF focus # {} THEN {focus} ELSE DefaultFocus(open, unr)) :
        e = [count |-> d.count + 1, speaker |-> speaker, claims |-> claims, open |-> open,
             resolved |-> resd, unresolved |-> unr, focus |-> F]
  BY DEF Turn
<1>5. /\ DOMAIN d.claims = 1 .. old /\ DOMAIN claims = 1 .. n
      /\ \A i \in 1 .. n : claims[i] \in ClaimStatuses
      /\ \A i \in 1 .. old : d.claims[i] \in ClaimStatuses
  BY <1>1, <1>3
<1>6. /\ res = p.resolved \cap 1 .. old /\ unres = p.unresolved \cap 1 .. old
      /\ focus = p.focus \cap 1 .. n
  BY <1>5 DEF Known
<1>7. /\ d.resolved = {i \in 1 .. old : d.claims[i] = "resolved"}
      /\ d.unresolved = {i \in 1 .. old : d.claims[i] = "unresolved"}
      /\ d.open = {i \in 1 .. old : d.claims[i] # "resolved"}
  BY <1>5 DEF Consistent, With, ClaimStatuses
<1> HIDE DEF claims, res, unres, focus
<1>8. \A i \in 1 .. n : i \in 1 .. old \/ i \in old + 1 .. n  BY <1>2
<1>9. 1 .. old \subseteq 1 .. n /\ \A i \in old + 1 .. n : i \notin 1 .. old /\ i \in 1 .. n  BY <1>2
<1> HIDE DEF old, n
<1>10. resd = {i \in 1 .. n : claims[i] = "resolved"}
  <2>1. \A i \in 1 .. old : i \in resd <=> claims[i] = "resolved"  BY <1>3, <1>6, <1>7
  <2>2. \A i \in old + 1 .. n : i \notin resd /\ claims[i] # "resolved"  BY <1>3, <1>6, <1>7, <1>9
  <2>3. resd \subseteq 1 .. old  BY <1>6, <1>7
  <2> QED  BY <2>1, <2>2, <2>3, <1>8, <1>9
<1>11. unr = {i \in 1 .. n : claims[i] = "unresolved"}
  <2>1. \A i \in 1 .. old : i \in unr <=> claims[i] = "unresolved"  BY <1>3, <1>6, <1>7
  <2>2. \A i \in old + 1 .. n : i \notin unr /\ claims[i] # "unresolved"  BY <1>3, <1>6, <1>7, <1>9
  <2>3. unr \subseteq 1 .. old  BY <1>6, <1>7
  <2> QED  BY <2>1, <2>2, <2>3, <1>8, <1>9
<1>12. open = {i \in 1 .. n : claims[i] # "resolved"}
  <2>1. \A i \in 1 .. old : i \in open <=> claims[i] # "resolved"  BY <1>3, <1>5, <1>6, <1>7
  <2>2. \A i \in old + 1 .. n : i \in open /\ claims[i] # "resolved"  BY <1>3, <1>5, <1>9
  <2>3. open \subseteq 1 .. n  BY <1>5, <1>6, <1>7, <1>9
  <2> QED  BY <2>1, <2>2, <2>3, <1>8, <1>9
<1> HIDE DEF resd, unr, open
<1>13. F \subseteq 1 .. n /\ (open # {} => F # {})
  <2>1. CASE focus # {}  BY <2>1, <1>4, <1>6
  <2>2. CASE focus = {}
    <3>1. open \subseteq 1 .. n /\ F \in DefaultFocus(open, unr)  BY <2>2, <1>4, <1>12
    <3> QED  BY <3>1, <1>2, FocusIs
  <2> QED  BY <2>1, <2>2
<1>14. 1 .. n \subseteq Ids  BY <1>2, ClaimsAssumption DEF Ids, n
<1>15. resd \subseteq 1 .. n /\ unr \subseteq 1 .. n /\ open \subseteq 1 .. n  BY <1>10, <1>11, <1>12
<1>16. ASSUME NEW S, speaker \in S  PROVE e \in DebateType(S)
  <2>1. resd \subseteq Ids /\ unr \subseteq Ids /\ open \subseteq Ids /\ F \subseteq Ids  BY <1>13, <1>14, <1>15
  <2>2. d.count + 1 \in Nat  BY <1>1
  <2> QED  BY <2>1, <2>2, <1>3, <1>4, <1>16 DEF DebateType
<1>17. IdsExist(e)  BY <1>4, <1>5, <1>13, <1>15 DEF IdsExist
<1>18. Consistent(e)
  BY <1>4, <1>5, <1>10, <1>11, <1>12 DEF Consistent, With, ClaimStatuses
<1>19. Focused(e)  BY <1>4, <1>13 DEF Focused
<1> QED  BY <1>4, <1>16, <1>17, <1>18, <1>19

-----------------------------------------------------------------------------
(* The path through the graph.                                             *)

\* The turns of a debate: one is taken even where no round is allowed.
DebateTurns == IF MaxDebateRounds = 0 THEN 1 ELSE 2 * MaxDebateRounds
RiskTurns   == IF MaxRiskDiscussRounds = 0 THEN 1 ELSE 3 * MaxRiskDiscussRounds

\* The supersteps of a plan: the trader, the risk debate and the judge.
PlanSteps == RiskTurns + 2

\* Supersteps left for plans after the one that is worked on.
Spare == (MaxRetries + 1 - plans) * PlanSteps

\* The analysts, their Done nodes, the debate, the manager, and every plan.
LongestRun == 3 + DebateTurns + (MaxRetries + 1) * PlanSteps

\* The judge has sent back every plan but the last.
PlansCount ==
  /\ node \in {"Analysts", "Bull_Researcher", "Bear_Researcher", "Research_Manager"} =>
       plans = 0 /\ feedback.retries = 0 /\ feedback.verdict = "none" /\ risk = EmptyDebate
  /\ node = "Trader" =>
       /\ plans = feedback.retries /\ plans <= MaxRetries
       /\ plans = 0 => risk = EmptyDebate
       /\ plans > 0 => feedback.verdict = "revise"
  /\ node \in {"Aggressive_Analyst", "Conservative_Analyst", "Neutral_Analyst", "Risk_Judge"} =>
       plans = feedback.retries + 1 /\ plans <= MaxRetries + 1
  /\ plans <= MaxRetries + 1

\* In a risk debate the speakers follow each other and each has had its turn.
Round(count, a, c, n) ==
  risk.count = count /\ turns["Aggressive"] = a /\ turns["Conservative"] = c /\ turns["Neutral"] = n

TurnsInOrder ==
  /\ node = "Aggressive_Analyst" =>
       \E k \in 0 .. MaxRiskDiscussRounds : /\ Round(3 * k, k, k, k) /\ (k = 0 \/ k < MaxRiskDiscussRounds)
  /\ node = "Conservative_Analyst" =>
       \E k \in 0 .. MaxRiskDiscussRounds : Round(3 * k + 1, k + 1, k, k) /\ k < MaxRiskDiscussRounds
  /\ node = "Neutral_Analyst" =>
       \E k \in 0 .. MaxRiskDiscussRounds : Round(3 * k + 2, k + 1, k + 1, k) /\ k < MaxRiskDiscussRounds
  /\ node = "Risk_Judge" =>
       /\ risk.count <= RiskTurns
       /\ MaxRiskDiscussRounds > 0 =>
            Round(3 * MaxRiskDiscussRounds, MaxRiskDiscussRounds, MaxRiskDiscussRounds, MaxRiskDiscussRounds)

\* The supersteps taken so far, and those that are still possible.
StepsCount ==
  /\ node = "Analysts" => steps = 0 /\ invest = EmptyDebate /\ waiting # {}
  /\ node \in {"Bull_Researcher", "Bear_Researcher"} => steps = 2 + invest.count /\ invest.count < DebateTurns
  /\ node = "Research_Manager" => steps <= 2 + DebateTurns
  /\ node = "Trader" => steps + Spare <= LongestRun
  /\ node \in {"Aggressive_Analyst", "Conservative_Analyst", "Neutral_Analyst", "Risk_Judge"} =>
       steps + 1 + (RiskTurns - risk.count) + Spare <= LongestRun
  /\ steps <= LongestRun

PathInv == PlansCount /\ TurnsInOrder /\ StepsCount

Inductive == DebatesInv /\ PathInv

(* What is left is never negative, and a plan begun costs what it may.      *)
LEMMA Budget ==
  /\ DebateTurns \in Nat \ {0} /\ RiskTurns \in Nat \ {0} /\ PlanSteps = RiskTurns + 2 /\ LongestRun \in Nat
  /\ \A q \in 0 .. MaxRetries + 1 : (MaxRetries + 1 - q) * PlanSteps \in Nat
  /\ \A q \in 0 .. MaxRetries : (MaxRetries + 1 - q) * PlanSteps = (MaxRetries + 1 - (q + 1)) * PlanSteps + PlanSteps
<1>1. DebateTurns \in Nat \ {0} /\ RiskTurns \in Nat \ {0}  BY AgentGraphAssumption DEF DebateTurns, RiskTurns
<1>2. PlanSteps = RiskTurns + 2 /\ PlanSteps \in Nat  BY <1>1 DEF PlanSteps
<1>3. \A m, k \in Nat : m * k \in Nat  OBVIOUS
<1>4. \A m, k \in Nat : (m + 1) * k = m * k + k  OBVIOUS
<1>5. ASSUME NEW q \in 0 .. MaxRetries + 1  PROVE (MaxRetries + 1 - q) * PlanSteps \in Nat
  <2>1. MaxRetries + 1 - q \in Nat  BY AgentGraphAssumption
  <2> QED  BY <2>1, <1>2, <1>3
<1>6. ASSUME NEW q \in 0 .. MaxRetries
      PROVE  (MaxRetries + 1 - q) * PlanSteps = (MaxRetries + 1 - (q + 1)) * PlanSteps + PlanSteps
  <2>1. MaxRetries - q \in Nat /\ MaxRetries + 1 - q = (MaxRetries - q) + 1 /\ MaxRetries + 1 - (q + 1) = MaxRetries - q
    BY AgentGraphAssumption
  <2> QED  BY <2>1, <1>2, <1>4
<1>7. LongestRun \in Nat  BY <1>1, <1>2, <1>3, AgentGraphAssumption DEF LongestRun
<1> QED  BY <1>1, <1>2, <1>5, <1>6, <1>7

LEMMA NothingSaid ==
  ASSUME NEW S, "none" \in S
  PROVE  EmptyDebate \in DebateType(S) /\ IdsExist(EmptyDebate) /\ Consistent(EmptyDebate) /\ Focused(EmptyDebate)
<1>1. <<>> \in Seq(ClaimStatuses) /\ DOMAIN <<>> = {}  OBVIOUS
<1> QED  BY <1>1 DEF EmptyDebate, DebateType, IdsExist, Consistent, Focused, With

LEMMA InitCorrect == Init => Inductive
<1> SUFFICES ASSUME Init PROVE Inductive  OBVIOUS
<1> USE DEF Init
<1>1. TypeOK  BY NothingSaid, AgentGraphAssumption DEF TypeOK, Nodes, Verdicts, Debators
<1>2. ClaimsConsistent /\ SpeakersHaveFocus  BY NothingSaid DEF ClaimsConsistent, SpeakersHaveFocus
<1>3. PlansCount  BY AgentGraphAssumption DEF PlansCount
<1>4. TurnsInOrder  BY DEF TurnsInOrder
<1>5. StepsCount  BY Budget, AgentGraphAssumption DEF StepsCount
<1> QED  BY <1>1, <1>2, <1>3, <1>4, <1>5 DEF Inductive, DebatesInv, PathInv

LEMMA AnalystStep == ASSUME Inductive, NEW a \in Analysts, Analyst(a) PROVE Inductive'
<1> USE DEF Inductive, DebatesInv, PathInv, Analyst
<1>1. TypeOK'  BY DEF TypeOK, Nodes
<1>2. ClaimsConsistent' /\ SpeakersHaveFocus'  BY DEF ClaimsConsistent, SpeakersHaveFocus
<1>3. PlansCount'  BY DEF PlansCount
<1>4. TurnsInOrder'  BY DEF TurnsInOrder
<1>5. invest.count = 0 /\ steps = 0  BY DEF StepsCount, EmptyDebate
<1>6. CASE waiting = {a}
  <2>1. node' = "Bull_Researcher" /\ steps' = 2 /\ invest' = invest  BY <1>5, <1>6
  <2>2. 2 <= LongestRun
    <3>1. (MaxRetries + 1) * PlanSteps \in Nat
      <4>1. MaxRetries + 1 \in Nat /\ PlanSteps \in Nat  BY Budget, AgentGraphAssumption
      <4> QED  BY <4>1
    <3> QED  BY <3>1, Budget DEF LongestRun
  <2> QED  BY <1>1, <1>2, <1>3, <1>4, <1>5, <2>1, <2>2, Budget DEF StepsCount
<1>7. CASE waiting # {a}
  <2>1. node' = "Analysts" /\ steps' = steps /\ invest' = invest /\ waiting' # {}  BY <1>7
  <2> QED  BY <1>1, <1>2, <1>3, <1>4, <2>1 DEF StepsCount
<1> QED  BY <1>6, <1>7

(* A turn of the bull or the bear (conditional_logic.py:                    *)
(* should_continue_debate).                                                 *)
LEMMA ArgueStep ==
  ASSUME Inductive, NEW p \in Payloads, NEW speaker \in {"Bull", "Bear"},
         node \in {"Bull_Researcher", "Bear_Researcher"}, Argue(speaker, p), Goto(NextInDebate(invest'))
  PROVE  Inductive'
<1> USE DEF Inductive, DebatesInv, PathInv, Argue, Goto
<1>1. invest \in DebateType({"none", "Bull", "Bear"}) /\ Consistent(invest)  BY DEF TypeOK, ClaimsConsistent
<1>2. /\ invest' \in DebateType({"none", "Bull", "Bear"})
      /\ IdsExist(invest') /\ Consistent(invest') /\ Focused(invest')
      /\ invest'.count = invest.count + 1
  <2>1. invest' \in Turn(invest, speaker, p) /\ Len(invest.claims) + p.new <= MaxClaims
    BY DEF Argue
  <2>2. speaker \in {"none", "Bull", "Bear"}  OBVIOUS
  <2>3. invest.count \in Nat /\ invest.claims \in Seq(ClaimStatuses)  BY <1>1 DEF DebateType
  <2> QED  BY <1>1, <2>1, <2>2, <2>3, TurnKeepsBooks
<1>3. invest.count \in Nat  BY <1>1 DEF DebateType
<1>4. /\ node' \in {"Bull_Researcher", "Bear_Researcher", "Research_Manager"}
      /\ node' # "Research_Manager" => invest'.count < 2 * MaxDebateRounds
  BY <1>2, <1>3, AgentGraphAssumption DEF NextInDebate
<1>5. TypeOK'  BY <1>2, <1>4 DEF TypeOK, Nodes
<1>6. ClaimsConsistent' /\ SpeakersHaveFocus'  BY <1>2 DEF ClaimsConsistent, SpeakersHaveFocus
<1>7. PlansCount'  BY <1>4 DEF PlansCount
<1>8. TurnsInOrder'  BY <1>4 DEF TurnsInOrder
<1>9. steps' = 2 + invest'.count /\ invest'.count <= DebateTurns /\ steps' \in Nat
  BY <1>2, <1>3, Budget DEF StepsCount, TypeOK
<1>10. node' # "Research_Manager" => invest'.count < DebateTurns
  BY <1>2, <1>3, <1>4, AgentGraphAssumption DEF DebateTurns
<1>11. 2 + DebateTurns <= LongestRun
  <2>1. MaxRetries + 1 \in Nat /\ PlanSteps \in Nat  BY Budget, AgentGraphAssumption
  <2>2. (MaxRetries + 1) * PlanSteps \in Nat  BY <2>1
  <2> QED  BY <2>2, Budget DEF LongestRun
<1>12. StepsCount'
  <2>1. steps' <= 2 + DebateTurns /\ steps' <= LongestRun  BY <1>2, <1>3, <1>9, <1>11, Budget
  <2> QED  BY <2>1, <1>4, <1>9, <1>10 DEF StepsCount
<1> QED  BY <1>5, <1>6, <1>7, <1>8, <1>12

LEMMA ManagerStep == ASSUME Inductive, ResearchManager PROVE Inductive'
<1> USE DEF Inductive, DebatesInv, PathInv, ResearchManager, Goto
<1>1. TypeOK'  BY DEF TypeOK, Nodes
<1>2. ClaimsConsistent' /\ SpeakersHaveFocus'  BY DEF ClaimsConsistent, SpeakersHaveFocus
<1>3. plans = 0 /\ plans' = 0  BY DEF PlansCount
<1>4. PlansCount'  BY <1>3, AgentGraphAssumption DEF PlansCount
<1>5. TurnsInOrder'  BY DEF TurnsInOrder
<1>6. Spare' = (MaxRetries + 1) * PlanSteps /\ Spare' \in Nat
  <2>1. MaxRetries + 1 - plans' = MaxRetries + 1 /\ MaxRetries + 1 \in Nat /\ PlanSteps \in Nat
    BY <1>3, Budget, AgentGraphAssumption
  <2>2. (MaxRetries + 1) * PlanSteps \in Nat  BY <2>1
  <2> QED  BY <2>1, <2>2 DEF Spare
<1>7. steps' <= 3 + DebateTurns /\ steps' \in Nat  BY Budget DEF StepsCount, TypeOK
<1>8. steps' + Spare' <= LongestRun /\ steps' <= LongestRun  BY <1>6, <1>7, Budget DEF LongestRun
<1>9. StepsCount'  BY <1>8 DEF StepsCount
<1> QED  BY <1>1, <1>2, <1>4, <1>5, <1>9

(* The trader writes a plan and the risk debate starts from nothing         *)
(* (trader.py:76-83).                                                       *)
LEMMA TraderStep == ASSUME Inductive, Trader PROVE Inductive'
<1> USE DEF Inductive, DebatesInv, PathInv
<1>1. /\ node = "Trader" /\ node' = "Aggressive_Analyst" /\ steps' = steps + 1 /\ plans' = plans + 1
      /\ turns' = [a \in Debators |-> 0] /\ waiting' = waiting /\ invest' = invest
  BY DEF Trader, Goto
<1>2. /\ plans \in Nat /\ plans = feedback.retries /\ plans <= MaxRetries
      /\ plans = 0 => risk = EmptyDebate
      /\ plans > 0 => feedback.verdict = "revise"
  BY <1>1 DEF PlansCount, TypeOK
<1>3. risk' = EmptyDebate
  <2>1. CASE feedback.verdict = "revise"  BY <2>1 DEF Trader
  <2>2. CASE feedback.verdict # "revise"
    <3>1. plans = 0  BY <2>2, <1>2
    <3>2. risk' = risk  BY <2>2 DEF Trader
    <3> QED  BY <3>1, <3>2, <1>2
  <2> QED  BY <2>1, <2>2
<1>4. /\ feedback' \in [retries : 0 .. MaxRetries + 1, required : BOOLEAN, verdict : Verdicts]
      /\ feedback'.retries = feedback.retries
  <2>1. feedback \in [retries : 0 .. MaxRetries + 1, required : BOOLEAN, verdict : Verdicts]  BY DEF TypeOK
  <2>2. feedback' = feedback \/ feedback' = [feedback EXCEPT !.required = FALSE]  BY DEF Trader
  <2>3. CASE feedback' = feedback  BY <2>1, <2>3
  <2>4. CASE feedback' = [feedback EXCEPT !.required = FALSE]  BY <2>1, <2>4
  <2> QED  BY <2>2, <2>3, <2>4
<1>5. turns' \in [Debators -> Nat] /\ risk'.count = 0
  BY <1>1, <1>3 DEF EmptyDebate
<1>6. TypeOK'  BY <1>1, <1>3, <1>4, <1>5, NothingSaid DEF TypeOK, Nodes
<1>7. ClaimsConsistent' /\ SpeakersHaveFocus'  BY <1>1, <1>3, NothingSaid DEF ClaimsConsistent, SpeakersHaveFocus
<1>8. PlansCount'  BY <1>1, <1>2, <1>4, AgentGraphAssumption DEF PlansCount
<1>9. TurnsInOrder'
  <2>1. Round(3 * 0, 0, 0, 0)'  BY <1>1, <1>5 DEF Round, Debators
  <2>2. 0 \in 0 .. MaxRiskDiscussRounds  BY AgentGraphAssumption
  <2> QED  BY <1>1, <2>1, <2>2 DEF TurnsInOrder
<1>10. StepsCount'
  <2>1. plans \in 0 .. MaxRetries /\ plans + 1 \in 0 .. MaxRetries + 1  BY <1>2, AgentGraphAssumption
  <2>2. Spare = Spare' + PlanSteps /\ Spare' \in Nat  BY <1>1, <2>1, Budget DEF Spare
  <2>3. steps + Spare <= LongestRun /\ steps \in Nat  BY <1>1 DEF StepsCount, TypeOK
  <2>4. steps' + 1 + (RiskTurns - risk'.count) + Spare' <= LongestRun /\ steps' <= LongestRun
    <3>1. RiskTurns \in Nat /\ PlanSteps = RiskTurns + 2 /\ LongestRun \in Nat  BY Budget
    <3>2. risk'.count = 0 /\ steps' = steps + 1  BY <1>1, <1>5
    <3>3. RiskTurns - risk'.count = RiskTurns  BY <3>1, <3>2
    <3>4. ASSUME NEW s \in Nat, NEW r \in Nat, NEW rest \in Nat, NEW limit \in Nat, s + (rest + (r + 2)) <= limit
          PROVE  s + 1 + 1 + r + rest <= limit /\ s + 1 <= limit
      BY <3>4
    <3>5. steps + (Spare' + (RiskTurns + 2)) <= LongestRun  BY <3>1, <2>2, <2>3
    <3>6. steps' + 1 + RiskTurns + Spare' <= LongestRun /\ steps' <= LongestRun
      BY <3>1, <3>2, <3>4, <3>5, <2>2, <2>3
    <3> QED  BY <3>3, <3>6
  <2> QED  BY <1>1, <2>4 DEF StepsCount
<1> QED  BY <1>6, <1>7, <1>8, <1>9, <1>10

(* A turn of a risk analyst: the debate keeps its books, one turn is        *)
(* counted, and the next node is due (conditional_logic.py:                 *)
(* should_continue_risk_analysis).                                          *)
LEMMA DiscussStep ==
  ASSUME Inductive, NEW p \in Payloads, NEW speaker \in Debators,
         node \in {"Aggressive_Analyst", "Conservative_Analyst", "Neutral_Analyst"},
         Discuss(speaker, p), Goto(NextInRisk(risk')), TurnsInOrder',
         risk.count < RiskTurns
  PROVE  Inductive'
<1> USE DEF Inductive, DebatesInv, PathInv
<1>1. risk \in DebateType({"none", "Judge"} \cup Debators) /\ Consistent(risk)  BY DEF TypeOK, ClaimsConsistent
<1>2. /\ risk' \in DebateType({"none", "Judge"} \cup Debators)
      /\ IdsExist(risk') /\ Consistent(risk') /\ Focused(risk')
      /\ risk'.count = risk.count + 1
  <2>1. risk' \in Turn(risk, speaker, p) /\ Len(risk.claims) + p.new <= MaxClaims
    BY DEF Discuss
  <2>2. speaker \in {"none", "Judge"} \cup Debators  OBVIOUS
  <2>3. risk.count \in Nat /\ risk.claims \in Seq(ClaimStatuses)  BY <1>1 DEF DebateType
  <2> QED  BY <1>1, <2>1, <2>2, <2>3, TurnKeepsBooks
<1>3. risk.count \in Nat  BY <1>1 DEF DebateType
<1>4. /\ node' \in {"Aggressive_Analyst", "Conservative_Analyst", "Neutral_Analyst", "Risk_Judge"}
      /\ steps' = steps + 1 /\ plans' = plans /\ feedback' = feedback /\ invest' = invest /\ waiting' = waiting
      /\ turns' = [turns EXCEPT ![speaker] = @ + 1]
  BY <1>2, <1>3, AgentGraphAssumption DEF NextInRisk, Discuss, Goto
<1>5. turns' \in [Debators -> Nat]
  <2>1. turns \in [Debators -> Nat] /\ turns[speaker] + 1 \in Nat  BY DEF TypeOK
  <2> QED  BY <2>1, <1>4
<1>6. TypeOK'  BY <1>2, <1>4, <1>5 DEF TypeOK, Nodes
<1>7. ClaimsConsistent' /\ SpeakersHaveFocus'  BY <1>2, <1>4 DEF ClaimsConsistent, SpeakersHaveFocus
<1>8. PlansCount'  BY <1>4 DEF PlansCount
<1>9. StepsCount'
  <2>1. plans \in 0 .. MaxRetries + 1  BY DEF PlansCount, TypeOK
  <2>2. Spare \in Nat  BY <2>1, Budget DEF Spare
  <2>3. Spare' = Spare  BY <1>4 DEF Spare
  <2>4. RiskTurns \in Nat /\ LongestRun \in Nat  BY Budget
  <2>5. steps + 1 + (RiskTurns - risk.count) + Spare <= LongestRun /\ steps \in Nat  BY DEF StepsCount, TypeOK
  <2>6. steps' + 1 + (RiskTurns - risk'.count) + Spare' <= LongestRun /\ steps' <= LongestRun
    BY <1>2, <1>3, <1>4, <2>2, <2>3, <2>4, <2>5
  <2> QED  BY <1>4, <2>6 DEF StepsCount
<1> QED  BY <1>6, <1>7, <1>8, <1>9

LEMMA AfterTurn ==
  ASSUME Inductive, NEW p \in Payloads, NEW speaker \in Debators, Discuss(speaker, p)
  PROVE  /\ risk.count \in Nat /\ risk'.count = risk.count + 1 /\ risk'.speaker = speaker
         /\ turns \in [Debators -> Nat] /\ turns' = [turns EXCEPT ![speaker] = @ + 1]
<1>1. risk \in DebateType({"none", "Judge"} \cup Debators) /\ Consistent(risk) /\ turns \in [Debators -> Nat]
  BY DEF Inductive, DebatesInv, TypeOK, ClaimsConsistent
<1>2. /\ risk' \in Turn(risk, speaker, p) /\ Len(risk.claims) + p.new <= MaxClaims
      /\ turns' = [turns EXCEPT ![speaker] = @ + 1]
  BY DEF Discuss
<1>3. risk.count \in Nat /\ risk.claims \in Seq(ClaimStatuses)  BY <1>1 DEF DebateType
<1>4. risk'.count = risk.count + 1 /\ risk'.speaker = speaker  BY <1>1, <1>2, <1>3, TurnKeepsBooks
<1> QED  BY <1>1, <1>2, <1>3, <1>4

LEMMA AggressiveStep == ASSUME Inductive, NEW p \in Payloads, AggressiveAnalyst(p) PROVE Inductive'
<1>1. node = "Aggressive_Analyst" /\ Discuss("Aggressive", p) /\ Goto(NextInRisk(risk'))  BY DEF AggressiveAnalyst
<1>2. PICK k \in 0 .. MaxRiskDiscussRounds : Round(3 * k, k, k, k) /\ (k = 0 \/ k < MaxRiskDiscussRounds)
  BY <1>1 DEF Inductive, PathInv, TurnsInOrder
<1>3. /\ risk.count \in Nat /\ risk'.count = risk.count + 1 /\ risk'.speaker = "Aggressive"
      /\ turns \in [Debators -> Nat] /\ turns' = [turns EXCEPT !["Aggressive"] = @ + 1]
  BY <1>1, AfterTurn DEF Debators
<1>4. Round(3 * k + 1, k + 1, k, k)'  BY <1>2, <1>3 DEF Round, Debators
<1>5. CASE MaxRiskDiscussRounds = 0
  <2>1. k = 0 /\ RiskTurns = 1  BY <1>5 DEF RiskTurns
  <2>2. risk'.count = 1 /\ risk.count < RiskTurns  BY <1>2, <1>3, <2>1 DEF Round
  <2>3. node' = "Risk_Judge"  BY <1>1, <1>5, <2>2 DEF Goto, NextInRisk
  <2>4. TurnsInOrder'  BY <1>5, <2>1, <2>2, <2>3 DEF TurnsInOrder
  <2> QED  BY <1>1, <2>2, <2>4, DiscussStep DEF Debators
<1>6. CASE MaxRiskDiscussRounds # 0
  <2>1. k < MaxRiskDiscussRounds /\ MaxRiskDiscussRounds \in Nat  BY <1>2, <1>6, AgentGraphAssumption
  <2>2. risk.count = 3 * k /\ risk'.count = 3 * k + 1 /\ risk.count < RiskTurns
    BY <1>2, <1>3, <1>6, <2>1 DEF Round, RiskTurns
  <2>3. risk'.count < 3 * MaxRiskDiscussRounds /\ ~(risk'.count >= 3 * MaxRiskDiscussRounds)  BY <2>1, <2>2
  <2>4. node' = "Conservative_Analyst"  BY <1>1, <1>3, <2>3 DEF Goto, NextInRisk
  <2>5. TurnsInOrder'  BY <1>4, <2>1, <2>4 DEF TurnsInOrder
  <2> QED  BY <1>1, <2>2, <2>5, DiscussStep DEF Debators
<1> QED  BY <1>5, <1>6

LEMMA ConservativeStep == ASSUME Inductive, NEW p \in Payloads, ConservativeAnalyst(p) PROVE Inductive'
<1>1. node = "Conservative_Analyst" /\ Discuss("Conservative", p) /\ Goto(NextInRisk(risk'))  BY DEF ConservativeAnalyst
<1>2. PICK k \in 0 .. MaxRiskDiscussRounds : Round(3 * k + 1, k + 1, k, k) /\ k < MaxRiskDiscussRounds
  BY <1>1 DEF Inductive, PathInv, TurnsInOrder
<1>3. /\ risk.count \in Nat /\ risk'.count = risk.count + 1 /\ risk'.speaker = "Conservative"
      /\ turns \in [Debators -> Nat] /\ turns' = [turns EXCEPT !["Conservative"] = @ + 1]
  BY <1>1, AfterTurn DEF Debators
<1>4. Round(3 * k + 2, k + 1, k + 1, k)'  BY <1>2, <1>3 DEF Round, Debators
<1>5. risk.count = 3 * k + 1 /\ risk'.count = 3 * k + 2 /\ risk.count < RiskTurns
  BY <1>2, <1>3, AgentGraphAssumption DEF Round, RiskTurns
<1>6. risk'.count < 3 * MaxRiskDiscussRounds /\ ~(risk'.count >= 3 * MaxRiskDiscussRounds)
  BY <1>2, <1>5, AgentGraphAssumption
<1>7. node' = "Neutral_Analyst"  BY <1>1, <1>3, <1>6 DEF Goto, NextInRisk
<1>8. TurnsInOrder'  BY <1>2, <1>4, <1>7 DEF TurnsInOrder
<1> QED  BY <1>1, <1>5, <1>8, DiscussStep DEF Debators

LEMMA NeutralStep == ASSUME Inductive, NEW p \in Payloads, NeutralAnalyst(p) PROVE Inductive'
<1>1. node = "Neutral_Analyst" /\ Discuss("Neutral", p) /\ Goto(NextInRisk(risk'))  BY DEF NeutralAnalyst
<1>2. PICK k \in 0 .. MaxRiskDiscussRounds : Round(3 * k + 2, k + 1, k + 1, k) /\ k < MaxRiskDiscussRounds
  BY <1>1 DEF Inductive, PathInv, TurnsInOrder
<1>3. /\ risk.count \in Nat /\ risk'.count = risk.count + 1 /\ risk'.speaker = "Neutral"
      /\ turns \in [Debators -> Nat] /\ turns' = [turns EXCEPT !["Neutral"] = @ + 1]
  BY <1>1, AfterTurn DEF Debators
<1>4. Round(3 * (k + 1), k + 1, k + 1, k + 1)'  BY <1>2, <1>3 DEF Round, Debators
<1>5. risk.count = 3 * k + 2 /\ risk'.count = 3 * k + 3 /\ risk.count < RiskTurns
  BY <1>2, <1>3, AgentGraphAssumption DEF Round, RiskTurns
<1>6. CASE k + 1 < MaxRiskDiscussRounds
  <2>1. risk'.count < 3 * MaxRiskDiscussRounds /\ ~(risk'.count >= 3 * MaxRiskDiscussRounds)
    BY <1>5, <1>6, AgentGraphAssumption
  <2>2. node' = "Aggressive_Analyst"  BY <1>1, <1>3, <2>1 DEF Goto, NextInRisk
  <2>3. k + 1 \in 0 .. MaxRiskDiscussRounds  BY <1>6, AgentGraphAssumption
  <2>4. TurnsInOrder'  BY <1>4, <1>6, <2>2, <2>3 DEF TurnsInOrder
  <2> QED  BY <1>1, <1>5, <2>4, DiscussStep DEF Debators
<1>7. CASE ~(k + 1 < MaxRiskDiscussRounds)
  <2>1. k + 1 = MaxRiskDiscussRounds /\ MaxRiskDiscussRounds \in Nat  BY <1>2, <1>7, AgentGraphAssumption
  <2>2. /\ risk'.count = 3 * MaxRiskDiscussRounds /\ risk'.count <= RiskTurns
        /\ risk'.count >= 3 * MaxRiskDiscussRounds /\ ~(risk'.count < 3 * MaxRiskDiscussRounds)
    BY <1>5, <2>1 DEF RiskTurns
  <2>3. node' = "Risk_Judge"  BY <1>1, <2>2 DEF Goto, NextInRisk
  <2>4. Round(3 * MaxRiskDiscussRounds, MaxRiskDiscussRounds, MaxRiskDiscussRounds, MaxRiskDiscussRounds)'
    BY <1>4, <2>1
  <2>5. TurnsInOrder'  BY <2>2, <2>3, <2>4 DEF TurnsInOrder
  <2> QED  BY <1>1, <1>5, <2>5, DiscussStep DEF Debators
<1> QED  BY <1>6, <1>7

(* The judge ends the run, or sends the plan back while a retry is left     *)
(* (conditional_logic.py:94-102).                                           *)
LEMMA JudgeStep == ASSUME Inductive, RiskJudge PROVE Inductive'
<1> USE DEF Inductive, DebatesInv, PathInv
<1>1. PICK verdict \in Verdicts \ {"none"} :
        /\ node = "Risk_Judge"
        /\ risk' = [risk EXCEPT !.speaker = "Judge"]
        /\ feedback' = [retries |-> feedback.retries + (IF verdict = "revise" THEN 1 ELSE 0),
                        required |-> verdict = "revise", verdict |-> verdict]
        /\ Goto(NextAfterJudge(feedback'))
        /\ UNCHANGED <<waiting, invest, plans, turns>>
  BY DEF RiskJudge
<1>2. /\ plans = feedback.retries + 1 /\ plans <= MaxRetries + 1 /\ feedback.retries \in Nat /\ plans \in Nat
  BY <1>1 DEF PlansCount, TypeOK
<1>3. risk \in DebateType({"none", "Judge"} \cup Debators)  BY DEF TypeOK
<1>4. /\ risk' \in DebateType({"none", "Judge"} \cup Debators) /\ risk'.claims = risk.claims /\ risk'.open = risk.open
      /\ risk'.resolved = risk.resolved /\ risk'.unresolved = risk.unresolved /\ risk'.focus = risk.focus
      /\ risk'.count = risk.count
  BY <1>1, <1>3 DEF DebateType
<1>5. IdsExist(risk') /\ Consistent(risk') /\ Focused(risk')
  BY <1>4 DEF TypeOK, ClaimsConsistent, SpeakersHaveFocus, IdsExist, Consistent, Focused
<1>6. /\ feedback'.verdict = verdict /\ feedback'.required = (verdict = "revise")
      /\ feedback'.retries = IF verdict = "revise" THEN feedback.retries + 1 ELSE feedback.retries
  BY <1>1, <1>2
<1>7. feedback' \in [retries : 0 .. MaxRetries + 1, required : BOOLEAN, verdict : Verdicts]
  <2>1. feedback'.retries \in 0 .. MaxRetries + 1  BY <1>2, <1>6, AgentGraphAssumption
  <2>2. (verdict = "revise") \in BOOLEAN  OBVIOUS
  <2> QED  BY <1>1, <2>1, <2>2
<1>8. steps' = steps + 1 /\ waiting' = waiting /\ invest' = invest /\ plans' = plans /\ turns' = turns
  BY <1>1 DEF Goto
<1>9. node' = "Trader" \/ node' = "END"  BY <1>1 DEF Goto, NextAfterJudge
<1>10. node' = "Trader" => verdict = "revise" /\ feedback'.retries <= MaxRetries
  BY <1>1, <1>6 DEF Goto, NextAfterJudge
<1>11. TypeOK'  BY <1>4, <1>5, <1>7, <1>8, <1>9 DEF TypeOK, Nodes
<1>12. ClaimsConsistent' /\ SpeakersHaveFocus'  BY <1>5, <1>8 DEF ClaimsConsistent, SpeakersHaveFocus
<1>13. PlansCount'
  <2>1. CASE node' = "Trader"
    <3>1. plans' = feedback'.retries /\ plans' <= MaxRetries /\ plans' > 0 /\ feedback'.verdict = "revise"
      BY <2>1, <1>2, <1>6, <1>8, <1>10
    <3> QED  BY <2>1, <3>1, <1>2, <1>8, AgentGraphAssumption DEF PlansCount
  <2>2. CASE node' = "END"  BY <2>2, <1>2, <1>8 DEF PlansCount
  <2> QED  BY <1>9, <2>1, <2>2
<1>14. TurnsInOrder'  BY <1>9 DEF TurnsInOrder
<1>15. StepsCount'
  <2>1. Spare \in Nat /\ Spare' = Spare
    <3>1. plans \in 0 .. MaxRetries + 1  BY <1>2
    <3> QED  BY <3>1, <1>8, Budget DEF Spare
  <2>2. risk.count <= RiskTurns /\ risk.count \in Nat  BY <1>1, <1>3 DEF TurnsInOrder, DebateType
  <2>3. steps + 1 + (RiskTurns - risk.count) + Spare <= LongestRun /\ steps \in Nat  BY <1>1 DEF StepsCount, TypeOK
  <2>4. RiskTurns \in Nat /\ LongestRun \in Nat  BY Budget
  <2>5. steps' + Spare' <= LongestRun /\ steps' <= LongestRun  BY <1>8, <2>1, <2>2, <2>3, <2>4
  <2> QED  BY <1>9, <2>5 DEF StepsCount
<1> QED  BY <1>11, <1>12, <1>13, <1>14, <1>15

LEMMA StutterStep == ASSUME Inductive, UNCHANGED vars PROVE Inductive'
<1>1. vars' = vars  OBVIOUS
<1> QED  BY <1>1 DEF vars, Inductive, DebatesInv, PathInv, TypeOK, ClaimsConsistent, SpeakersHaveFocus, PlansCount,
                     TurnsInOrder, StepsCount, Round, Spare

LEMMA StepCorrect == Inductive /\ [Next]_vars => Inductive'
<1> SUFFICES ASSUME Inductive, [Next]_vars PROVE Inductive'  OBVIOUS
<1>1. ASSUME NEW a \in Analysts, Analyst(a)  PROVE Inductive'  BY <1>1, AnalystStep
<1>2. ASSUME NEW p \in Payloads, BullResearcher(p) \/ BearResearcher(p)  PROVE Inductive'
  BY <1>2, ArgueStep DEF BullResearcher, BearResearcher
<1>3. ASSUME NEW p \in Payloads, AggressiveAnalyst(p) \/ ConservativeAnalyst(p) \/ NeutralAnalyst(p)
      PROVE  Inductive'
  BY <1>3, AggressiveStep, ConservativeStep, NeutralStep
<1>4. CASE ResearchManager  BY <1>4, ManagerStep
<1>5. CASE Trader  BY <1>5, TraderStep
<1>6. CASE RiskJudge  BY <1>6, JudgeStep
<1>7. CASE UNCHANGED vars  BY <1>7, StutterStep
<1> QED  BY <1>1, <1>2, <1>3, <1>4, <1>5, <1>6, <1>7 DEF Next, Done

LEMMA AlwaysInductive == Spec => []Inductive
BY InitCorrect, StepCorrect, PTL DEF Spec

-----------------------------------------------------------------------------
(* The theorems.                                                           *)

(* Whatever ids the language model writes into its payloads, the id lists   *)
(* of both debates agree with the claims, and who speaks next has claims to *)
(* answer while any is open (debate_utils.py).                              *)
THEOREM DebatesCorrect == Spec => []DebatesInv
<1>1. Inductive => DebatesInv  BY DEF Inductive
<1> QED  BY <1>1, AlwaysInductive, PTL

(* Every plan reaches the judge after every risk analyst has had all of its *)
(* rounds on it, a plan that was sent back too (conditional_logic.py:82-92, *)
(* trader.py:76-83).                                                        *)
THEOREM PlansGetTheirDebate == Spec => []PlansAreDebated
<1>1. Inductive => PlansAreDebated
  <2> SUFFICES ASSUME Inductive, node = "Risk_Judge", MaxRiskDiscussRounds > 0, NEW a \in Debators
               PROVE  turns[a] = MaxRiskDiscussRounds
    BY DEF PlansAreDebated
  <2> QED  BY DEF Inductive, PathInv, TurnsInOrder, Round, Debators
<1> QED  BY <1>1, AlwaysInductive, PTL

(* The length of the longest run, for any limits: 3 supersteps, a debate,   *)
(* and for each of the MaxRetries + 1 plans a risk debate and two more.     *)
THEOREM RunsAreBounded == Spec => [](steps <= LongestRun)
<1>1. Inductive => steps <= LongestRun  BY DEF Inductive, PathInv, StepsCount
<1> QED  BY <1>1, AlwaysInductive, PTL

(* With the most rounds of default_config.py:23-25, five and five, the one  *)
(* retry of the code and 100 supersteps, no verdicts and no payloads make   *)
(* the graph library give up: the longest run has 47 (propagation.py:120).  *)
THEOREM LimitSuffices ==
  ASSUME MaxDebateRounds <= 5, MaxRiskDiscussRounds <= 5, MaxRetries <= 1, RecursionLimit >= 100
  PROVE  Spec => []WithinRecursionLimit
<1>1. DebateTurns \in 0 .. 10 /\ RiskTurns \in 0 .. 15  BY AgentGraphAssumption DEF DebateTurns, RiskTurns
<1>2. PlanSteps \in 0 .. 17  BY <1>1 DEF PlanSteps
<1>3. (MaxRetries + 1) * PlanSteps <= 34 /\ (MaxRetries + 1) * PlanSteps \in Nat
  <2>1. MaxRetries = 0 \/ MaxRetries = 1  BY AgentGraphAssumption
  <2>2. CASE MaxRetries = 0  BY <2>2, <1>2
  <2>3. CASE MaxRetries = 1  BY <2>3, <1>2
  <2> QED  BY <2>1, <2>2, <2>3
<1>4. LongestRun <= 47 /\ LongestRun \in Nat  BY <1>1, <1>3 DEF LongestRun
<1>5. Inductive => WithinRecursionLimit
  BY <1>4, AgentGraphAssumption DEF Inductive, PathInv, StepsCount, DebatesInv, TypeOK, WithinRecursionLimit
<1> QED  BY <1>5, AlwaysInductive, PTL

-----------------------------------------------------------------------------
(* The progress of a run.  What the loop has seen tells where the graph is: *)
(* up to the research manager no decision was seen, after the analysts      *)
(* exactly their reports were, and the statuses follow what was seen.       *)

EarlyNodes == {"Analysts", "Bull_Researcher", "Bear_Researcher", "Research_Manager"}
Reported   == {a \in Listed \cap Analysts : text[a] # 0}

SeenBooks ==
  /\ node = "Analysts" => seen = {} /\ (phase = "running" => \A m \in Research : status[m] = "pending")
  /\ node # "Analysts" => /\ seen \cap Roster = Reported
                          /\ "research" \in seen <=> Analysts \subseteq Reported
  /\ \A s \in Decisions : text[s] # 0 => s \in seen
  /\ node \in EarlyNodes => Decisions \cap seen = {}

StatusBooks ==
  /\ \A m \in Members : status[m] = "skipped" <=> m \in Listed \ Analysts
  /\ phase = "running" =>
       /\ status["Aggressive_Analyst"] = "completed" => "final_trade_decision" \in seen
       /\ status["Trader"] = "completed" => "trader_investment_plan" \in seen
       /\ node \in {"Bull_Researcher", "Bear_Researcher"} =>
            (status["Bull_Researcher"] = "pending" <=> "research" \notin seen)

StreamInv ==
  /\ Inductive /\ StreamTypeOK /\ ShownIsLatest /\ RowCatchesUp
  /\ SeenBooks /\ StatusBooks

ProgressInv == StreamTypeOK /\ ShownIsLatest /\ RowCatchesUp /\ DebateIsAnnounced /\ OnlySelectedComplete

LEMMA RankIs ==
  /\ DOMAIN Rank = {"pending", "in_progress", "completed", "skipped"}
  /\ Rank["pending"] = 0 /\ Rank["in_progress"] = 1 /\ Rank["completed"] = 2 /\ Rank["skipped"] = 3
  BY DEF Rank

LEMMA NamesDiffer ==
  /\ Roster \cap (Decisions \cup Research \cup RiskTeam \cup {"Trader", "research"}) = {}
  /\ Analysts \subseteq Roster /\ Listed \subseteq Roster
  /\ Sections = Roster \cup Decisions /\ Members = Roster \cup Research \cup {"Trader"} \cup RiskTeam
  /\ "research" \notin Sections /\ Members \cap (Decisions \cup {"research"}) = {}
  BY StreamAssumption DEF Sections, Members, Decisions, Research, RiskTeam

LEMMA ProgressFollows == ASSUME StreamInv PROVE ProgressInv
<1>1. DebateIsAnnounced
  <2> SUFFICES ASSUME phase = "running", node \in {"Bull_Researcher", "Bear_Researcher"}
      PROVE  status["Bull_Researcher"] = "pending" <=> \E a \in Analysts : a \notin Listed \/ text[a] = 0
    BY DEF DebateIsAnnounced
  <2>1. status["Bull_Researcher"] = "pending" <=> ~ (Analysts \subseteq Reported)
    BY DEF StreamInv, SeenBooks, StatusBooks
  <2> QED
    BY <2>1 DEF Reported
<1>2. OnlySelectedComplete
  BY NamesDiffer DEF StreamInv, StatusBooks, OnlySelectedComplete
<1> QED
  BY <1>1, <1>2 DEF StreamInv, ProgressInv

LEMMA StreamInitCorrect == ASSUME StreamInit PROVE StreamInv
<1>1. Inductive
  BY InitCorrect DEF StreamInit
<1>2. /\ phase = "running" /\ text = [s \in Sections |-> 0] /\ seen = {} /\ shown = text /\ stored = text
      /\ buffer = {} /\ lost = {} /\ node = "Analysts"
  BY DEF StreamInit, Init
<1>3. PICK working \in {"pending", "in_progress"} :
        status = [m \in Members |-> CASE m \in Listed \ Analysts -> "skipped"
                                      [] m \in Listed \cap Analysts -> working
                                      [] OTHER -> "pending"]
  BY DEF StreamInit
<1>4. ASSUME NEW m \in Members
      PROVE  /\ m \in Listed \ Analysts => status[m] = "skipped"
             /\ m \in Listed \cap Analysts => status[m] = working
             /\ m \notin Listed => status[m] = "pending"
  BY <1>3
<1>5. status \in [Members -> DOMAIN Rank]
  <2>1. ASSUME NEW m \in Members
        PROVE  (CASE m \in Listed \ Analysts -> "skipped"
                  [] m \in Listed \cap Analysts -> working
                  [] OTHER -> "pending") \in {"pending", "in_progress", "completed", "skipped"}
    OBVIOUS
  <2> QED
    BY <2>1, <1>3, RankIs
<1>6. StreamTypeOK
  BY <1>2, <1>5 DEF StreamTypeOK
<1>7. ShownIsLatest /\ RowCatchesUp
  BY <1>2, FS_EmptySet DEF ShownIsLatest, RowCatchesUp, FlushSize
<1>8. SeenBooks
  <2>1. ASSUME NEW m \in Research PROVE m \in Members /\ m \notin Listed
    BY NamesDiffer
  <2>2. \A s \in Decisions : text[s] = 0
    BY <1>2, NamesDiffer
  <2> QED
    BY <1>2, <1>4, <2>1, <2>2 DEF SeenBooks, EarlyNodes
<1>9. StatusBooks
  <2>1. {"Aggressive_Analyst", "Trader"} \subseteq Members \ Listed
    BY NamesDiffer DEF RiskTeam
  <2> QED
    BY <1>2, <1>4, <2>1 DEF StatusBooks
<1> QED
  BY <1>1, <1>6, <1>7, <1>8, <1>9 DEF StreamInv

-----------------------------------------------------------------------------
(* A superstep of the graph, as far as the loop can tell.                   *)

LEMMA GraphMoves ==
  ASSUME Inductive, Next, node # "END"
  PROVE  \/ steps' = steps /\ node = "Analysts" /\ node' = "Analysts"
         \/ steps' # steps /\ node = "Analysts" /\ node' = "Bull_Researcher"
         \/ /\ steps' # steps /\ node \in {"Bull_Researcher", "Bear_Researcher"}
            /\ node' \in {"Bull_Researcher", "Bear_Researcher", "Research_Manager"}
         \/ steps' # steps /\ node = "Research_Manager" /\ node' \notin EarlyNodes
         \/ steps' # steps /\ node \notin EarlyNodes /\ node' \notin EarlyNodes
<1>1. steps \in Nat
  BY DEF Inductive, DebatesInv, TypeOK
<1>2. ASSUME NEW a \in Analysts, Analyst(a)
      PROVE  /\ node = "Analysts"
             /\ \/ steps' = steps /\ node' = "Analysts"
                \/ steps' # steps /\ node' = "Bull_Researcher"
  <2>1. CASE waiting = {a}
    BY <1>1, <1>2, <2>1 DEF Analyst
  <2>2. CASE waiting # {a}
    BY <1>2, <2>2 DEF Analyst
  <2> QED
    BY <2>1, <2>2, <1>2 DEF Analyst
<1>3. ASSUME NEW p \in Payloads, BullResearcher(p) \/ BearResearcher(p)
      PROVE  /\ steps' # steps /\ node \in {"Bull_Researcher", "Bear_Researcher"}
             /\ node' \in {"Bull_Researcher", "Bear_Researcher", "Research_Manager"}
  <2>1. NextInDebate(invest') \in {"Bull_Researcher", "Bear_Researcher", "Research_Manager"}
    BY DEF NextInDebate
  <2>2. node' = NextInDebate(invest') /\ steps' = steps + 1 /\ node \in {"Bull_Researcher", "Bear_Researcher"}
    BY <1>3 DEF BullResearcher, BearResearcher, Goto
  <2> QED
    BY <1>1, <2>1, <2>2
<1>4. ASSUME NEW p \in Payloads, AggressiveAnalyst(p) \/ ConservativeAnalyst(p) \/ NeutralAnalyst(p)
      PROVE  steps' # steps /\ node \notin EarlyNodes /\ node' \notin EarlyNodes
  <2>1. NextInRisk(risk') \in {"Risk_Judge", "Conservative_Analyst", "Neutral_Analyst", "Aggressive_Analyst"}
    BY DEF NextInRisk
  <2>2. /\ node' = NextInRisk(risk') /\ steps' = steps + 1
        /\ node \in {"Aggressive_Analyst", "Conservative_Analyst", "Neutral_Analyst"}
    BY <1>4 DEF AggressiveAnalyst, ConservativeAnalyst, NeutralAnalyst, Goto
  <2> QED
    BY <1>1, <2>1, <2>2 DEF EarlyNodes
<1>5. CASE ResearchManager
  BY <1>1, <1>5 DEF ResearchManager, Goto, EarlyNodes
<1>6. CASE Trader
  <2>1. node = "Trader" /\ node' = "Aggressive_Analyst" /\ steps' = steps + 1
    BY <1>6 DEF Trader, Goto
  <2> QED
    BY <1>1, <2>1 DEF EarlyNodes
<1>7. CASE RiskJudge
  <2>1. node = "Risk_Judge" /\ node' \in {"Trader", "END"} /\ steps' = steps + 1
    BY <1>7 DEF RiskJudge, Goto, NextAfterJudge
  <2> QED
    BY <1>1, <2>1 DEF EarlyNodes
<1> QED
  BY <1>2, <1>3, <1>4, <1>5, <1>6, <1>7 DEF Next, Done

\* What may be written while a node runs.
LEMMA WritesAre ==
  ASSUME StreamTypeOK, plans' \in Nat, NodeWrites
  PROVE  /\ text' \in [Sections -> Nat]
         /\ node = "Analysts" => \A s \in Decisions : text'[s] = text[s]
         /\ node # "Analysts" => \A a \in Roster : text'[a] = text[a]
         /\ node # "Research_Manager" => text'["investment_plan"] = text["investment_plan"]
         /\ node \in EarlyNodes => /\ text'["trader_investment_plan"] = text["trader_investment_plan"]
                                   /\ text'["final_trade_decision"] = text["final_trade_decision"]
<1> DEFINE fields == CASE node = "Analysts"         -> Analysts
                       [] node = "Research_Manager" -> {"investment_plan"}
                       [] node = "Trader"           -> {"trader_investment_plan"}
                       [] node = "Risk_Judge"       -> {"final_trade_decision"}
                       [] OTHER                     -> {}
           version == IF node \in {"Trader", "Risk_Judge"} THEN plans' ELSE 1
<1>1. PICK filled \in SUBSET fields :
        text' = [s \in Sections |-> IF s \in filled THEN version ELSE IF s \in fields THEN 0 ELSE text[s]]
  BY DEF NodeWrites
<1>2. version \in Nat
  OBVIOUS
<1>3. /\ node = "Analysts" => fields = Analysts
      /\ node # "Analysts" => fields \subseteq Decisions
      /\ node # "Research_Manager" => "investment_plan" \notin fields
      /\ node \in EarlyNodes => "trader_investment_plan" \notin fields /\ "final_trade_decision" \notin fields
  BY NamesDiffer DEF Decisions, EarlyNodes
<1>4. text \in [Sections -> Nat]
  BY DEF StreamTypeOK
<1> HIDE DEF fields, version
<1>5. \A s \in Sections : s \notin fields => text'[s] = text[s]
  BY <1>1
<1>6. text' \in [Sections -> Nat]
  BY <1>1, <1>2, <1>4
<1> QED
  BY <1>3, <1>5, <1>6, NamesDiffer DEF Decisions

\* The fields of a chunk that were not seen before.
LEMMA FreshIs ==
  ASSUME StreamInv, NodeWrites, plans' \in Nat, NEW fresh, fresh = Fresh
  PROVE  /\ fresh \subseteq (Listed \cap Analysts) \cup Decisions \cup {"research"}
         /\ fresh \cap Roster = {a \in Listed \cap Analysts : text'[a] # 0} \ seen
         /\ \A s \in Decisions : s \in fresh <=> text'[s] # 0 /\ s \notin seen
         /\ "research" \in fresh <=>
              /\ Analysts \subseteq seen \cup {a \in Listed \cap Analysts : text'[a] # 0}
              /\ "research" \notin seen
  BY NamesDiffer DEF Fresh, Decisions

\* Which of its cases gives a member its status.
LEMMA StatusIs ==
  ASSUME NEW fresh, NEW m \in Members, StatusesAfter(fresh)[m] # status[m]
  PROVE  \/ m \in RiskTeam /\ "final_trade_decision" \in fresh /\ StatusesAfter(fresh)[m] = "completed"
         \/ /\ m = "Aggressive_Analyst" /\ "trader_investment_plan" \in fresh
            /\ StatusesAfter(fresh)[m] = "in_progress"
         \/ m = "Trader" /\ "trader_investment_plan" \in fresh /\ StatusesAfter(fresh)[m] = "completed"
         \/ m = "Trader" /\ "investment_plan" \in fresh /\ StatusesAfter(fresh)[m] = "in_progress"
         \/ m \in Research /\ "investment_plan" \in fresh /\ StatusesAfter(fresh)[m] = "completed"
         \/ m \in Research /\ "research" \in fresh /\ StatusesAfter(fresh)[m] = "in_progress"
         \/ m \in fresh /\ StatusesAfter(fresh)[m] = "completed"
  BY DEF StatusesAfter

LEMMA ResearchStarts ==
  ASSUME NEW fresh, NEW m \in Research, "investment_plan" \notin fresh, m \notin fresh
  PROVE  StatusesAfter(fresh)[m] = IF "research" \in fresh THEN "in_progress" ELSE status[m]
<1>1. m \in Members /\ m \notin RiskTeam /\ m # "Aggressive_Analyst" /\ m # "Trader"
  BY DEF Members, Research, RiskTeam
<1>2. CASE "research" \in fresh
  BY <1>1, <1>2 DEF StatusesAfter
<1>3. CASE "research" \notin fresh
  BY <1>1, <1>3 DEF StatusesAfter
<1> QED
  BY <1>2, <1>3

LEMMA StatusesAfterType ==
  ASSUME StreamTypeOK, NEW fresh
  PROVE  StatusesAfter(fresh) \in [Members -> DOMAIN Rank]
<1>1. ASSUME NEW m \in Members PROVE StatusesAfter(fresh)[m] \in DOMAIN Rank
  BY StatusIs, RankIs DEF StreamTypeOK
<1>2. StatusesAfter(fresh) = [m \in Members |-> StatusesAfter(fresh)[m]]
  BY DEF StatusesAfter
<1> QED
  BY <1>1, <1>2

\* The write of what was collected.
LEMMA FlushIs ==
  ASSUME StreamTypeOK, NEW pending \in SUBSET Sections, Flush(pending), shown' \in [Sections -> Nat]
  PROVE  /\ buffer' = {} /\ stored' \in [Sections -> Nat] /\ lost' \subseteq Sections
         /\ \A s \in Sections : s \notin pending => stored'[s] = stored[s] /\ (s \in lost => s \in lost')
         /\ \A s \in pending : stored'[s] # shown'[s] => s \in lost'
<1>1. CASE /\ stored' = [s \in Sections |-> IF s \in pending THEN shown'[s] ELSE stored[s]]
           /\ lost' = lost \ pending
  BY <1>1 DEF Flush, StreamTypeOK
<1>2. CASE lost' = lost \cup pending /\ UNCHANGED stored
  BY <1>2 DEF Flush, StreamTypeOK
<1> QED
  BY <1>1, <1>2 DEF Flush

\* What the chunk leaves of the reports that were shown, collected and stored.
LEMMA ChunkKeepsRow ==
  ASSUME StreamInv, text' \in [Sections -> Nat], Collect(buffer \cup Changed), UNCHANGED phase, phase = "running",
         shown' = [s \in Sections |-> IF s \in Changed THEN text'[s] ELSE shown[s]]
  PROVE  /\ shown' \in [Sections -> Nat] /\ stored' \in [Sections -> Nat]
         /\ buffer' \subseteq Sections /\ lost' \subseteq Sections
         /\ ShownIsLatest' /\ RowCatchesUp'
<1> PICK changed : changed = Changed
  OBVIOUS
<1> DEFINE pending == buffer \cup changed
<1>1. /\ StreamTypeOK /\ RowCatchesUp /\ ShownIsLatest /\ changed \subseteq Sections /\ Collect(pending)
      /\ \A s \in Sections : s \in changed <=> text'[s] # 0 /\ text'[s] # shown[s]
  BY DEF StreamInv, Changed
<1>2. /\ shown' \in [Sections -> Nat] /\ \A s \in Sections : s \notin changed => shown'[s] = shown[s]
      /\ \A s \in Sections : s \in changed => shown'[s] = text'[s]
  BY <1>1 DEF StreamTypeOK
<1>3. ShownIsLatest'
  BY <1>1, <1>2 DEF ShownIsLatest
<1>4. pending \in SUBSET Sections /\ Cardinality(buffer) < FlushSize
  BY <1>1 DEF StreamTypeOK, RowCatchesUp
<1>5. \A s \in Sections : stored[s] # shown[s] => s \in buffer \cup lost
  BY <1>1 DEF RowCatchesUp
<1>6. CASE Flush(pending)
  <2>1. /\ buffer' = {} /\ stored' \in [Sections -> Nat] /\ lost' \subseteq Sections
        /\ \A s \in Sections : s \notin pending => stored'[s] = stored[s] /\ (s \in lost => s \in lost')
        /\ \A s \in pending : stored'[s] # shown'[s] => s \in lost'
    BY <1>1, <1>2, <1>4, <1>6, FlushIs
  <2>2. \A s \in Sections : stored'[s] # shown'[s] => s \in buffer' \cup lost'
    BY <2>1, <1>2, <1>5
  <2>3. Cardinality(buffer') < FlushSize
    BY <2>1, FS_EmptySet DEF FlushSize
  <2> QED
    BY <2>1, <2>2, <2>3, <1>2, <1>3 DEF RowCatchesUp
<1>7. CASE /\ changed = {} \/ Cardinality(pending) < FlushSize
           /\ buffer' = pending /\ UNCHANGED <<stored, lost>>
  <2>1. Cardinality(buffer') < FlushSize
    <3>1. CASE changed = {}
      <4>1. pending = buffer
        BY <3>1
      <4> QED
        BY <4>1, <1>4, <1>7
    <3>2. CASE Cardinality(pending) < FlushSize
      BY <3>2, <1>7
    <3> QED
      BY <3>1, <3>2, <1>7
  <2>2. \A s \in Sections : stored'[s] # shown'[s] => s \in buffer' \cup lost'
    BY <1>2, <1>5, <1>7
  <2> QED
    BY <2>1, <2>2, <1>1, <1>2, <1>3, <1>4, <1>7 DEF RowCatchesUp, StreamTypeOK
<1> QED
  BY <1>1, <1>6, <1>7 DEF Collect

LEMMA ChunkStep == ASSUME StreamInv, Chunk PROVE StreamInv'
<1>1. /\ phase = "running" /\ node # "END" /\ Next /\ Inductive /\ StreamTypeOK
  BY DEF Chunk, StreamInv
<1>2. Inductive' /\ plans' \in Nat
  BY <1>1, StepCorrect DEF Inductive, DebatesInv, TypeOK
<1>3. CASE steps' = steps
  <2>1. UNCHANGED streamVars /\ node = "Analysts" /\ node' = "Analysts"
    BY <1>1, <1>3, GraphMoves DEF Chunk
  <2>2. UNCHANGED <<phase, text, seen, status, shown, buffer, stored, lost>>
    BY <2>1 DEF streamVars
  <2> QED
    BY <1>2, <2>1, <2>2 DEF StreamInv, StreamTypeOK, ShownIsLatest, RowCatchesUp, SeenBooks, Reported, StatusBooks
<1>4. CASE steps' # steps
  <2> PICK fresh : fresh = Fresh
    OBVIOUS
  <2>1. /\ NodeWrites /\ seen' = seen \cup fresh /\ status' = StatusesAfter(fresh) /\ UNCHANGED phase
        /\ shown' = [s \in Sections |-> IF s \in Changed THEN text'[s] ELSE shown[s]]
        /\ Collect(buffer \cup Changed)
    BY <1>4 DEF Chunk
  <2>2. /\ text' \in [Sections -> Nat]
        /\ node = "Analysts" => \A s \in Decisions : text'[s] = text[s]
        /\ node # "Analysts" => \A a \in Roster : text'[a] = text[a]
        /\ node # "Research_Manager" => text'["investment_plan"] = text["investment_plan"]
        /\ node \in EarlyNodes => /\ text'["trader_investment_plan"] = text["trader_investment_plan"]
                                  /\ text'["final_trade_decision"] = text["final_trade_decision"]
    BY <1>1, <1>2, <2>1, WritesAre
  <2>3. /\ fresh \subseteq (Listed \cap Analysts) \cup Decisions \cup {"research"}
        /\ fresh \cap Roster = {a \in Listed \cap Analysts : text'[a] # 0} \ seen
        /\ \A s \in Decisions : s \in fresh <=> text'[s] # 0 /\ s \notin seen
        /\ "research" \in fresh <=>
             /\ Analysts \subseteq seen \cup {a \in Listed \cap Analysts : text'[a] # 0}
             /\ "research" \notin seen
    BY <1>2, <2>1, FreshIs
  <2>4. /\ shown' \in [Sections -> Nat] /\ stored' \in [Sections -> Nat]
        /\ buffer' \subseteq Sections /\ lost' \subseteq Sections
        /\ ShownIsLatest' /\ RowCatchesUp'
    BY <1>1, <2>1, <2>2, ChunkKeepsRow
  <2>5. StreamTypeOK'
    <3>1. seen' \subseteq Sections \cup {"research"}
      BY <2>1, <2>3, <1>1, NamesDiffer DEF StreamTypeOK
    <3>2. status' \in [Members -> DOMAIN Rank]
      BY <1>1, <2>1, StatusesAfterType
    <3> QED
      BY <3>1, <3>2, <1>1, <2>1, <2>2, <2>4 DEF StreamTypeOK
  <2>6. \/ node = "Analysts" /\ node' = "Bull_Researcher"
        \/ /\ node \in {"Bull_Researcher", "Bear_Researcher"}
           /\ node' \in {"Bull_Researcher", "Bear_Researcher", "Research_Manager"}
        \/ node = "Research_Manager" /\ node' \notin EarlyNodes
        \/ node \notin EarlyNodes /\ node' \notin EarlyNodes
    BY <1>1, <1>4, GraphMoves
  <2>7. SeenBooks'
    <3>1. SeenBooks
      BY DEF StreamInv
    <3>2. \A s \in Decisions : text'[s] # 0 => s \in seen'
      BY <2>1, <2>3
    <3>3. node' \in EarlyNodes => Decisions \cap seen' = {}
      <4> SUFFICES ASSUME node' \in EarlyNodes PROVE Decisions \cap seen' = {}
        OBVIOUS
      <4>1. node \in EarlyNodes /\ node # "Research_Manager"
        BY <2>6 DEF EarlyNodes
      <4>2. \A s \in Decisions : text'[s] = text[s]
        BY <4>1, <2>2 DEF Decisions
      <4> QED
        BY <4>1, <4>2, <3>1, <2>1, <2>3 DEF SeenBooks
    <3>4. node' # "Analysts"
      BY <2>6 DEF EarlyNodes
    <3>5. seen' \cap Roster = Reported'
      <4>1. CASE node = "Analysts"
        BY <4>1, <3>1, <2>1, <2>3, NamesDiffer DEF SeenBooks, Reported
      <4>2. CASE node # "Analysts"
        <5>1. Reported' = Reported
          BY <4>2, <2>2, NamesDiffer DEF Reported
        <5> QED
          BY <5>1, <4>2, <3>1, <2>1, <2>2, <2>3, NamesDiffer DEF SeenBooks, Reported
      <4> QED
        BY <4>1, <4>2
    <3>6. "research" \in seen' <=> Analysts \subseteq Reported'
      <4>1. Analysts \subseteq seen \cup {a \in Listed \cap Analysts : text'[a] # 0} <=> Analysts \subseteq Reported'
        <5>1. CASE node = "Analysts"
          BY <5>1, <3>1 DEF SeenBooks, Reported
        <5>2. CASE node # "Analysts"
          BY <5>2, <3>1, <2>2, NamesDiffer DEF SeenBooks, Reported
        <5> QED
          BY <5>1, <5>2
      <4>2. "research" \in seen => Analysts \subseteq Reported'
        <5>1. CASE node = "Analysts"
          BY <5>1, <3>1 DEF SeenBooks
        <5>2. CASE node # "Analysts"
          BY <5>2, <3>1, <2>2, NamesDiffer DEF SeenBooks, Reported
        <5> QED
          BY <5>1, <5>2
      <4> QED
        BY <4>1, <4>2, <2>1, <2>3
    <3> QED
      BY <3>2, <3>3, <3>4, <3>5, <3>6 DEF SeenBooks
  <2>8. StatusBooks'
    <3>1. StatusBooks /\ SeenBooks
      BY DEF StreamInv
    <3>2. ASSUME NEW m \in Members PROVE status'[m] = "skipped" <=> m \in Listed \ Analysts
      <4>1. CASE status'[m] = status[m]
        BY <4>1, <3>1 DEF StatusBooks
      <4>2. CASE status'[m] # status[m]
        <5>1. status'[m] # "skipped" /\ (m \in RiskTeam \cup {"Trader"} \cup Research \cup fresh)
          BY <4>2, <2>1, StatusIs DEF RiskTeam
        <5> QED
          BY <5>1, <2>3, NamesDiffer
      <4> QED
        BY <4>1, <4>2
    <3>3. status'["Aggressive_Analyst"] = "completed" => "final_trade_decision" \in seen'
      <4>1. "Aggressive_Analyst" \in Members /\ "Aggressive_Analyst" \notin fresh
        BY <2>3, NamesDiffer DEF RiskTeam, Decisions
      <4>2. CASE status'["Aggressive_Analyst"] = status["Aggressive_Analyst"]
        BY <4>2, <3>1, <1>1, <2>1 DEF StatusBooks
      <4>3. CASE status'["Aggressive_Analyst"] # status["Aggressive_Analyst"]
        BY <4>1, <4>3, <2>1, StatusIs DEF Research
      <4> QED
        BY <4>2, <4>3
    <3>4. status'["Trader"] = "completed" => "trader_investment_plan" \in seen'
      <4>1. "Trader" \in Members /\ "Trader" \notin fresh
        BY <2>3, NamesDiffer DEF Decisions
      <4>2. CASE status'["Trader"] = status["Trader"]
        BY <4>2, <3>1, <1>1, <2>1 DEF StatusBooks
      <4>3. CASE status'["Trader"] # status["Trader"]
        BY <4>1, <4>3, <2>1, StatusIs DEF Research, RiskTeam
      <4> QED
        BY <4>2, <4>3
    <3>5. node' \in {"Bull_Researcher", "Bear_Researcher"} =>
            (status'["Bull_Researcher"] = "pending" <=> "research" \notin seen')
      <4> SUFFICES ASSUME node' \in {"Bull_Researcher", "Bear_Researcher"}
          PROVE  status'["Bull_Researcher"] = "pending" <=> "research" \notin seen'
        OBVIOUS
      <4>1. node \in {"Analysts", "Bull_Researcher", "Bear_Researcher"}
        BY <2>6 DEF EarlyNodes
      <4>2. "investment_plan" \notin fresh
        <5>1. text'["investment_plan"] = text["investment_plan"] /\ "investment_plan" \in Decisions
          BY <4>1, <2>2 DEF Decisions
        <5>2. "investment_plan" \notin seen
          BY <5>1, <4>1, <3>1 DEF SeenBooks, EarlyNodes
        <5> QED
          BY <5>1, <5>2, <3>1, <2>3 DEF SeenBooks
      <4>3. "Bull_Researcher" \in Research /\ "Bull_Researcher" \notin fresh
        BY <2>3, NamesDiffer DEF Research, Decisions
      <4>4. status'["Bull_Researcher"] = IF "research" \in fresh THEN "in_progress" ELSE status["Bull_Researcher"]
        BY <4>2, <4>3, <2>1, ResearchStarts
      <4>5. status["Bull_Researcher"] = "pending" <=> "research" \notin seen
        BY <4>1, <4>3, <3>1, <1>1 DEF StatusBooks, SeenBooks
      <4> QED
        BY <4>4, <4>5, <2>1, <2>3
    <3> QED
      BY <3>2, <3>3, <3>4, <3>5 DEF StatusBooks
  <2> QED
    BY <1>2, <2>4, <2>5, <2>7, <2>8 DEF StreamInv
<1> QED
  BY <1>3, <1>4

LEMMA EndOfStreamStep == ASSUME StreamInv, EndOfStream PROVE StreamInv'
<1>1. /\ phase = "running" /\ phase' = "ended" /\ UNCHANGED <<vars, text, seen, status, shown>>
      /\ StreamTypeOK /\ RowCatchesUp /\ node = "END"
  BY DEF EndOfStream, StreamInv
<1>2. Inductive'
  BY <1>1, StutterStep DEF StreamInv
<1>3. /\ buffer' = {} /\ stored' \in [Sections -> Nat] /\ lost' \subseteq Sections
      /\ \A s \in Sections : stored'[s] # shown'[s] => s \in lost'
  <2>1. CASE buffer = {}
    BY <2>1, <1>1 DEF EndOfStream, StreamTypeOK, RowCatchesUp
  <2>2. CASE buffer # {}
    <3>1. Flush(buffer) /\ buffer \in SUBSET Sections /\ shown' = shown /\ shown' \in [Sections -> Nat]
      BY <1>1, <2>2 DEF EndOfStream, StreamTypeOK
    <3>2. /\ buffer' = {} /\ stored' \in [Sections -> Nat] /\ lost' \subseteq Sections
          /\ \A s \in Sections : s \notin buffer => stored'[s] = stored[s] /\ (s \in lost => s \in lost')
          /\ \A s \in buffer : stored'[s] # shown'[s] => s \in lost'
      BY <3>1, <1>1, FlushIs
    <3>3. \A s \in Sections : stored[s] # shown[s] => s \in buffer \cup lost
      BY <1>1 DEF RowCatchesUp
    <3> QED
      BY <3>1, <3>2, <3>3
  <2> QED
    BY <2>1, <2>2
<1>4. node' = node
  BY <1>1 DEF vars
<1>5. RowCatchesUp'
  BY <1>3, FS_EmptySet DEF RowCatchesUp, FlushSize
<1>6. StreamTypeOK' /\ ShownIsLatest'
  BY <1>1, <1>3 DEF StreamInv, StreamTypeOK, ShownIsLatest
<1>7. SeenBooks' /\ StatusBooks'
  BY <1>1, <1>4 DEF StreamInv, SeenBooks, StatusBooks, Reported
<1> QED
  BY <1>2, <1>5, <1>6, <1>7 DEF StreamInv

LEMMA FailCloseStep == ASSUME StreamInv, StreamFails \/ CloseOut PROVE StreamInv'
<1>1. /\ UNCHANGED <<vars, text, seen, shown, buffer, stored, lost>> /\ StreamTypeOK
      /\ phase' \in {"failed", "closed"} /\ (phase' = "closed" => phase = "ended")
  BY DEF StreamFails, CloseOut, StreamInv
<1>2. Inductive' /\ node' = node
  BY <1>1, StutterStep DEF StreamInv, vars
<1>3. \/ status' = status
      \/ /\ status' = [m \in Members |-> IF status[m] = "skipped" THEN "skipped" ELSE "completed"]
         /\ phase = "ended"
  BY DEF StreamFails, CloseOut
<1>4. status' \in [Members -> DOMAIN Rank] /\ \A m \in Members : status'[m] = "skipped" <=> status[m] = "skipped"
  BY <1>1, <1>3, RankIs DEF StreamTypeOK
<1>5. StreamTypeOK' /\ ShownIsLatest' /\ RowCatchesUp'
  BY <1>1, <1>4 DEF StreamInv, StreamTypeOK, ShownIsLatest, RowCatchesUp
<1>6. StatusBooks'
  BY <1>1, <1>4 DEF StreamInv, StatusBooks
<1>7. SeenBooks'
  BY <1>1, <1>2, <1>3 DEF StreamInv, SeenBooks, Reported
<1> QED
  BY <1>2, <1>5, <1>6, <1>7 DEF StreamInv

LEMMA StreamStep == ASSUME StreamInv, [StreamNext]_<<vars, streamVars>> PROVE StreamInv'
<1>1. CASE UNCHANGED <<vars, streamVars>>
  <2>1. UNCHANGED <<phase, text, seen, status, shown, buffer, stored, lost>> /\ UNCHANGED vars /\ node' = node
    BY <1>1 DEF streamVars, vars
  <2>2. Inductive'
    BY <2>1, StutterStep DEF StreamInv
  <2> QED
    BY <2>1, <2>2 DEF StreamInv, StreamTypeOK, ShownIsLatest, RowCatchesUp, SeenBooks, Reported, StatusBooks
<1> QED
  BY <1>1, ChunkStep, EndOfStreamStep, FailCloseStep DEF StreamNext

ForwardStep ==
  \A m \in Members :
    \/ Rank[status'[m]] >= Rank[status[m]]
    \/ m = "Aggressive_Analyst" /\ "trader_investment_plan" \in seen' \ seen
         /\ "final_trade_decision" \in seen

LEMMA Forward == ASSUME StreamInv, [StreamNext]_<<vars, streamVars>> PROVE ForwardStep
<1> SUFFICES ASSUME NEW m \in Members
    PROVE  \/ Rank[status'[m]] >= Rank[status[m]]
           \/ m = "Aggressive_Analyst" /\ "trader_investment_plan" \in seen' \ seen
                /\ "final_trade_decision" \in seen
  BY DEF ForwardStep
<1>1. /\ status[m] \in {"pending", "in_progress", "completed", "skipped"} /\ SeenBooks /\ StatusBooks
      /\ status[m] = "skipped" => m \in Listed \ Analysts
  BY RankIs DEF StreamInv, StreamTypeOK, StatusBooks
<1>2. CASE status'[m] = status[m]
  BY <1>1, <1>2, RankIs
<1>3. CASE Chunk /\ status'[m] # status[m]
  <2> PICK fresh : fresh = Fresh
    OBVIOUS
  <2>1. /\ phase = "running" /\ node # "END" /\ Next /\ Inductive /\ StreamTypeOK
    BY <1>3 DEF Chunk, StreamInv
  <2>2. Inductive' /\ plans' \in Nat
    BY <2>1, StepCorrect DEF Inductive, DebatesInv, TypeOK
  <2>3. NodeWrites /\ seen' = seen \cup fresh /\ status' = StatusesAfter(fresh) /\ steps' # steps
    BY <1>3 DEF Chunk, streamVars
  <2>4. /\ fresh \subseteq (Listed \cap Analysts) \cup Decisions \cup {"research"}
        /\ fresh \cap Roster = {a \in Listed \cap Analysts : text'[a] # 0} \ seen
        /\ \A s \in Decisions : s \in fresh <=> text'[s] # 0 /\ s \notin seen
        /\ "research" \in fresh <=>
             /\ Analysts \subseteq seen \cup {a \in Listed \cap Analysts : text'[a] # 0}
             /\ "research" \notin seen
    BY <2>2, <2>3, FreshIs
  <2>5. /\ node # "Analysts" => \A a \in Roster : text'[a] = text[a]
        /\ node # "Research_Manager" => text'["investment_plan"] = text["investment_plan"]
    BY <2>1, <2>2, <2>3, WritesAre
  <2>6. m \in RiskTeam \cup {"Trader"} \cup Research \cup fresh /\ status'[m] \in {"in_progress", "completed"}
    BY <1>3, <2>3, StatusIs DEF RiskTeam
  <2>7. status[m] # "skipped"
    BY <1>1, <2>4, <2>6, NamesDiffer
  <2>8. CASE status'[m] = "completed"
    BY <1>1, <2>7, <2>8, RankIs
  <2>9. CASE status'[m] = "in_progress"
    <3>1. \/ m = "Aggressive_Analyst" /\ "trader_investment_plan" \in fresh
          \/ m = "Trader" /\ "investment_plan" \in fresh
          \/ m \in Research /\ "research" \in fresh
      BY <1>3, <2>3, <2>9, StatusIs
    <3>2. CASE m = "Aggressive_Analyst" /\ "trader_investment_plan" \in fresh
      <4>1. "trader_investment_plan" \in seen' \ seen
        BY <2>3, <2>4, <3>2 DEF Decisions
      <4>2. status[m] = "completed" => "final_trade_decision" \in seen
        BY <3>2, <2>1, <1>1 DEF StatusBooks
      <4> QED
        BY <4>1, <4>2, <3>2, <1>1, <2>7, <2>9, RankIs
    <3>3. CASE m = "Trader" /\ "investment_plan" \in fresh
      <4>1. node = "Research_Manager"
        <5>1. text'["investment_plan"] # 0 /\ "investment_plan" \notin seen
          BY <3>3, <2>4 DEF Decisions
        <5> QED
          BY <5>1, <2>5, <1>1 DEF SeenBooks, Decisions
      <4>2. "trader_investment_plan" \notin seen
        BY <4>1, <1>1 DEF SeenBooks, EarlyNodes, Decisions
      <4>3. status[m] # "completed"
        BY <4>2, <3>3, <2>1, <1>1 DEF StatusBooks
      <4> QED
        BY <4>3, <1>1, <2>7, <2>9, RankIs
    <3>4. CASE m \in Research /\ "research" \in fresh
      <4>1. node = "Analysts"
        <5> SUFFICES ASSUME node # "Analysts" PROVE FALSE
          OBVIOUS
        <5>1. {a \in Listed \cap Analysts : text'[a] # 0} = Reported
          BY <2>5, NamesDiffer DEF Reported
        <5>2. seen \cap Roster = Reported /\ "research" \notin seen
          BY <3>4, <2>4, <1>1 DEF SeenBooks
        <5>3. Analysts \subseteq Reported
          BY <5>1, <5>2, <3>4, <2>4, NamesDiffer
        <5> QED
          BY <5>2, <5>3, <1>1 DEF SeenBooks
      <4>2. status[m] = "pending"
        BY <4>1, <3>4, <2>1, <1>1 DEF SeenBooks
      <4> QED
        BY <4>2, <2>9, RankIs
    <3> QED
      BY <3>1, <3>2, <3>3, <3>4
  <2> QED
    BY <2>6, <2>8, <2>9
<1>4. CASE CloseOut /\ status'[m] # status[m]
  BY <1>1, <1>4, RankIs DEF CloseOut
<1>5. CASE EndOfStream \/ StreamFails \/ UNCHANGED <<vars, streamVars>>
  BY <1>2, <1>5 DEF EndOfStream, StreamFails, streamVars
<1> QED
  BY <1>2, <1>3, <1>4, <1>5 DEF StreamNext

(* What a client is told of a run, and what the report row keeps of it,     *)
(* agree with the run at every chunk and at its end, and progress is never  *)
(* taken back, for any analysts, limits and texts (api/main.py:1729-1850).  *)
THEOREM ProgressCorrect == StreamSpec => ProgressHolds
<1>1. StreamInit => StreamInv
  BY StreamInitCorrect
<1>2. StreamInv /\ [StreamNext]_<<vars, streamVars>> => StreamInv'
  BY StreamStep
<1>3. StreamInv => StreamTypeOK /\ ShownIsLatest /\ RowCatchesUp /\ DebateIsAnnounced /\ OnlySelectedComplete
  BY ProgressFollows DEF ProgressInv
<1>4. StreamInv /\ [StreamNext]_<<vars, streamVars>> => ForwardStep
  BY Forward
<1>5. ASSUME ForwardStep
      PROVE  \A m \in Members :
               \/ Rank[status'[m]] >= Rank[status[m]]
               \/ m = "Aggressive_Analyst" /\ "trader_investment_plan" \in seen' \ seen
                    /\ "final_trade_decision" \in seen
  BY <1>5 DEF ForwardStep
<1>6. StreamSpec => []StreamInv
  BY <1>1, <1>2, PTL DEF StreamSpec
<1>7. StreamSpec => NoStepBack
  BY <1>4, <1>5, <1>6, PTL DEF StreamSpec, NoStepBack
<1> QED
  BY <1>3, <1>6, <1>7, PTL DEF ProgressHolds

-----------------------------------------------------------------------------
(* Signals.  What is read in several places of a text is the word of the    *)
(* first place that has one, so it is in the text, and there is none only   *)
(* where no place has one.                                                  *)

LEMMA Least ==
  ASSUME NEW S \in SUBSET Nat, S # {}
  PROVE  \E x \in S : \A y \in S : x <= y
<1>1. PICK x \in S : \A y \in S : ~ (<<y, x>> \in OpToRel(<, Nat))
  BY NatLessThanWellFounded, WFMin
<1>2. \A y \in S : ~ (y < x)
  BY <1>1 DEF OpToRel
<1> QED
  BY <1>2

Places(t) == t.explicit \o <<t.headline, t.body>>

LEMMA FirstWordIsRead ==
  ASSUME NEW places, NEW n \in Nat, DOMAIN places = 1 .. n, Len(places) = n
  PROVE  /\ FirstWord(places) # None => \E i \in 1 .. n : FirstWord(places) = Classify(places[i])
         /\ FirstWord(places) = None => \A i \in 1 .. n : Classify(places[i]) = None
<1> DEFINE hits == {i \in 1 .. Len(places) : Classify(places[i]) # None}
           word == IF hits = {} THEN None
                   ELSE Classify(places[CHOOSE i \in hits : \A j \in hits : i <= j])
<1>0. FirstWord(places) = word
  BY DEF FirstWord
<1>1. CASE hits = {}
  <2>1. word = None
    BY <1>1
  <2>2. \A i \in 1 .. n : Classify(places[i]) = None
    BY <1>1
  <2> QED
    BY <1>0, <2>1, <2>2
<1>2. CASE hits # {}
  <2>1. hits \in SUBSET Nat
    OBVIOUS
  <2>2. \E i \in hits : \A j \in hits : i <= j
    BY <1>2, <2>1, Least
  <2> DEFINE first == CHOOSE i \in hits : \A j \in hits : i <= j
  <2>3. first \in hits
    BY <2>2
  <2>4. word = Classify(places[first])
    BY <1>2
  <2> HIDE DEF first, word
  <2> QED
    BY <1>0, <2>3, <2>4
<1> QED
  BY <1>1, <1>2

(* The places in which a text is searched: the explicit lines, the first    *)
(* lines, the whole.                                                        *)
LEMMA PlacesOfAText ==
  ASSUME NEW t \in Texts
  PROVE  /\ DOMAIN Places(t) = 1 .. Lines + 2 /\ Len(Places(t)) = Lines + 2
         /\ \A i \in 1 .. Lines : Places(t)[i] = t.explicit[i]
         /\ Places(t)[Lines + 1] = t.headline
         /\ Places(t)[Lines + 2] = t.body
<1>0. Lines \in Nat
  BY SignalsAssumption
<1>1. t.explicit \in [1 .. Lines -> {{None}} \cup SUBSET Words]
  BY DEF Texts
<1>2. t.explicit \in Seq({{None}} \cup SUBSET Words) /\ Len(t.explicit) = Lines
  BY <1>0, <1>1
<1>3. t.headline \in SUBSET Words /\ t.body \in SUBSET Words
  BY DEF Texts
<1>4. <<t.headline, t.body>> \in Seq(SUBSET Words) /\ Len(<<t.headline, t.body>>) = 2
  BY <1>3
<1> DEFINE D == {{None}} \cup SUBSET Words
<1>5. <<t.headline, t.body>> \in Seq(D)
  BY <1>3
<1> HIDE DEF D
<1> DEFINE e == t.explicit
           w == <<t.headline, t.body>>
<1>6. e \in Seq(D) /\ w \in Seq(D) /\ Len(e) = Lines /\ Len(w) = 2 /\ w[1] = t.headline /\ w[2] = t.body
  BY <1>2, <1>4, <1>5 DEF D
<1>7. Places(t) = e \o w
  BY DEF Places
<1> HIDE DEF e, w
<1>8. /\ DOMAIN (e \o w) = 1 .. Lines + 2 /\ Len(e \o w) = Lines + 2
      /\ \A i \in 1 .. Lines : (e \o w)[i] = e[i]
      /\ (e \o w)[Lines + 1] = w[1] /\ (e \o w)[Lines + 2] = w[2]
  <2>1. /\ e \o w \in Seq(D) /\ Len(e \o w) = Len(e) + Len(w)
        /\ \A i \in 1 .. Len(e) + Len(w) : (e \o w)[i] = IF i <= Len(e) THEN e[i] ELSE w[i - Len(e)]
    BY <1>6, ConcatProperties
  <2>2. Lines + 1 - Lines = 1 /\ Lines + 2 - Lines = 2
    BY <1>0
  <2> QED
    BY <1>0, <1>6, <2>1, <2>2
<1> QED
  BY <1>6, <1>7, <1>8 DEF e

LEMMA ClassifyReads ==
  ASSUME NEW words
  PROVE  /\ Classify(words) \in Words \cup {None}
         /\ Classify(words) # None => Classify(words) \in words
         /\ words \cap Words # {} => Classify(words) # None
  BY DEF Classify, Words, None

(* Two readers of one text agree unless only one can read the comment, and  *)
(* neither reads a word that is not there, for any number of explicit       *)
(* patterns (signal_processing.py:26-145, report_service.py:188-205,        *)
(* 398-421, backtest_service.py:148-155).                                   *)
THEOREM SignalsCorrect == SignalInit => SignalsInv
<1> SUFFICES ASSUME SignalInit PROVE SignalsInv
  OBVIOUS
<1>n. Lines \in Nat /\ Lines + 2 \in Nat /\ Lines + 2 \in 1 .. Lines + 2
  BY SignalsAssumption
<1> DEFINE t == signal
           word == FirstWord(Places(t))
<1>0. /\ t \in Texts /\ t.headline \subseteq t.body
      /\ \A i \in 1 .. Lines : t.explicit[i] \subseteq t.body \cup {None}
      /\ ~t.filled => t.comment.kind = "absent" /\ t.body = {}
  BY DEF SignalInit
<1>1. t.body \subseteq Words /\ t.comment \in Comments /\ t.filled \in BOOLEAN
  BY <1>0 DEF Texts
<1>2. Decision(t) = IF ~t.filled THEN "HOLD"
                    ELSE IF t.comment.kind = "known" THEN t.comment.word
                    ELSE IF word # None THEN word ELSE "UNKNOWN"
  BY DEF Decision, Places
<1>3. /\ word # None => \E i \in 1 .. Lines + 2 : word = Classify(Places(t)[i])
      /\ word = None => \A i \in 1 .. Lines + 2 : Classify(Places(t)[i]) = None
  <2>1. DOMAIN Places(t) = 1 .. Lines + 2 /\ Len(Places(t)) = Lines + 2
    BY <1>0, PlacesOfAText
  <2> QED
    BY <1>n, <2>1, FirstWordIsRead
<1>4. \A i \in 1 .. Lines + 2 : Places(t)[i] \subseteq t.body \cup {None}
  <2>1. \A i \in 1 .. Lines + 2 : i \in 1 .. Lines \/ i = Lines + 1 \/ i = Lines + 2
    BY <1>n
  <2> QED
    BY <1>0, <2>1, PlacesOfAText
<1> HIDE DEF word
<1>5. word # None => word \in t.body /\ word \in Words
  <2> SUFFICES ASSUME word # None PROVE word \in t.body
    BY <1>1
  <2>1. PICK i \in 1 .. Lines + 2 : word = Classify(Places(t)[i])
    BY <1>3
  <2>2. word \in Places(t)[i]
    BY <2>1, ClassifyReads
  <2> QED
    BY <2>2, <1>4
<1>6. t.body # {} => word # None
  <2>1. Places(t)[Lines + 2] = t.body /\ Lines + 2 \in 1 .. Lines + 2
    BY <1>0, <1>n, PlacesOfAText
  <2> QED
    BY <2>1, <1>1, <1>3, ClassifyReads
<1>7. DecisionFollowsDirection
  <2>1. Direction(t) \in Words => t.comment.kind \in {"known", "wrapped"} /\ Direction(t) = t.comment.word
    BY DEF Direction, Words, None
  <2> QED
    BY <2>1, <1>0, <1>2 DEF DecisionFollowsDirection
<1>8. NothingIsInvented
  <2>1. Decision(t) \in {"BUY", "SELL"} => Decision(t) \in t.body \cup {t.comment.word}
    BY <1>2, <1>5
  <2>2. t.body # {} => Decision(t) # "UNKNOWN"
    <3>1. t.comment.kind = "known" => t.comment.word \in Words
      BY <1>1 DEF Comments
    <3> QED
      BY <3>1, <1>0, <1>1, <1>2, <1>5, <1>6 DEF Words
  <2> QED
    BY <2>1, <2>2 DEF NothingIsInvented, Traded
<1>9. EventAndRowAgree
  BY DEF EventAndRowAgree, RowFields, Fields, OrElse
<1> QED
  BY <1>7, <1>8, <1>9 DEF SignalsInv

-----------------------------------------------------------------------------
(* The user's situation.                                                   *)

\* Merges: the first that says something is heard, and nothing else is.
LEMMA OverReads ==
  ASSUME NEW a, NEW b
  PROVE  /\ a # {} => Over(a, b) = a
         /\ a = {} => Over(a, b) = b
         /\ Over(a, b) = {} <=> a = {} /\ b = {}
  BY DEF Over

LEMMA ValueReads ==
  ASSUME NEW s
  PROVE  /\ Counts(raw[s]) => Value(s) = {s} /\ Value(s) # {}
         /\ ~Counts(raw[s]) => Value(s) = {}
  BY DEF Value

\* What the words and the model say of a key, whatever kind it is of.
LEMMA InferredReads ==
  ASSUME key \in {"number", "text", "list"}
  PROVE  /\ Inferred(key) = {} <=> Value("parsed") = {} /\ Value("words") = {}
         /\ key = "number" /\ Value("words") # {} => Inferred(key) = Value("words")
<1>1. CASE key = "number"
  BY <1>1, OverReads DEF Inferred
<1>2. CASE key = "list"
  BY <1>2 DEF Inferred
<1>3. CASE key = "text"
  BY <1>3, OverReads DEF Inferred
<1> QED
  BY <1>1, <1>2, <1>3

\* What each path tells the analysts.
LEMMA FinalReads ==
  ASSUME path \in Paths
  PROVE  \/ path = "analyze" /\ Heard = Sources
            /\ Final = Over(Over(Value("explicit"), Over({}, Value("imported"))), Inferred(key))
         \/ path = "chat by model" /\ Heard = {"explicit", "parsed", "imported"}
            /\ Final = Over(Value("explicit"), Over(Value("parsed"), Value("imported")))
         \/ path = "scheduled" /\ Heard = {"imported"} /\ Final = Value("imported")
         \/ path \in {"analyze without query", "chat by code"} /\ Heard = {"explicit", "imported"}
            /\ Final = Over(Value("explicit"), Over({}, Value("imported")))
  BY DEF Paths, Heard, Final, AtRun, Stored, Composed

(* On every path and for every kind of value the request stays on top,      *)
(* nothing that a source says and the path reads is lost, zero included,    *)
(* typed numbers win over the model's, and the chat's words over the        *)
(* imported position (main.py:1022-1055, 1650-1655, intent_parser.py:       *)
(* 90-97).                                                                  *)
THEOREM UserContextCorrect == ContextInit => UserContextInv
<1> SUFFICES ASSUME ContextInit PROVE UserContextInv
  OBVIOUS
<1>1. key \in {"number", "text", "list"} /\ path \in Paths
  BY DEF ContextInit
<1>2. Value("imported") = {} \/ Value("imported") = {"imported"}
  BY ValueReads
<1>3. ExplicitWins
  <2> SUFFICES ASSUME path # "scheduled", raw["explicit"] \in {"zero", "given"}
               PROVE  Final = {"explicit"}
    BY DEF ExplicitWins
  <2>1. Value("explicit") = {"explicit"}
    BY ValueReads DEF Counts
  <2>2. \A b, c : Over({"explicit"}, b) = {"explicit"} /\ Over(Over({"explicit"}, b), c) = {"explicit"}
    BY DEF Over
  <2> QED
    BY <1>1, <2>1, <2>2, FinalReads
<1>4. NothingSaidIsLost
  <2> SUFFICES ASSUME NEW s \in Heard, raw[s] \in {"zero", "given"}
               PROVE  Final # {}
    BY DEF NothingSaidIsLost
  <2>1. Value(s) # {}
    BY ValueReads DEF Counts
  <2>2. CASE path = "analyze"
    <3>1. Final = Over(Over(Value("explicit"), Over({}, Value("imported"))), Inferred(key))
      BY <1>1, <2>2, FinalReads
    <3>2. s \in {"explicit", "parsed", "words", "imported"}
      BY <2>2 DEF Heard, Sources
    <3>3. \/ Value("explicit") # {} \/ Value("imported") # {} \/ Inferred(key) # {}
      BY <1>1, <2>1, <3>2, InferredReads
    <3> QED
      BY <3>1, <3>3 DEF Over
  <2>3. CASE path = "chat by model"
    <3>1. Final = Over(Value("explicit"), Over(Value("parsed"), Value("imported")))
      BY <1>1, <2>3, FinalReads
    <3>2. s \in {"explicit", "parsed", "imported"}
      BY <2>3 DEF Heard
    <3> QED
      BY <2>1, <3>1, <3>2 DEF Over
  <2>4. CASE path = "scheduled"
    BY <1>1, <2>1, <2>4, FinalReads
  <2>5. CASE path \in {"analyze without query", "chat by code"}
    <3>1. Final = Over(Value("explicit"), Over({}, Value("imported"))) /\ s \in {"explicit", "imported"}
      BY <1>1, <2>5, FinalReads
    <3> QED
      BY <2>1, <3>1 DEF Over
  <2> QED
    BY <1>1, <2>2, <2>3, <2>4, <2>5 DEF Paths
<1>5. NumbersAreAsTyped
  <2> SUFFICES ASSUME key = "number", path = "analyze", raw["words"] \in {"zero", "given"}
               PROVE  "parsed" \notin Final
    BY DEF NumbersAreAsTyped
  <2>1. Value("words") = {"words"} /\ Inferred(key) = Value("words")
    BY <1>1, ValueReads, InferredReads DEF Counts
  <2>2. Value("explicit") = {} \/ Value("explicit") = {"explicit"}
    BY ValueReads
  <2>3. Final = Over(Over(Value("explicit"), Over({}, Value("imported"))), Inferred(key))
    BY <1>1, FinalReads
  <2> QED
    BY <1>2, <2>1, <2>2, <2>3 DEF Over
<1>6. ImportsYieldToWords
  <2> SUFFICES ASSUME path = "chat by model", raw["parsed"] \in {"zero", "given"}
               PROVE  "imported" \notin Final
    BY DEF ImportsYieldToWords
  <2>1. Value("parsed") = {"parsed"}
    BY ValueReads DEF Counts
  <2>2. Value("explicit") = {} \/ Value("explicit") = {"explicit"}
    BY ValueReads
  <2>3. Final = Over(Value("explicit"), Over(Value("parsed"), Value("imported")))
    BY <1>1, FinalReads
  <2> QED
    BY <2>1, <2>2, <2>3 DEF Over
<1> QED
  BY <1>3, <1>4, <1>5, <1>6 DEF UserContextInv
=============================================================================
