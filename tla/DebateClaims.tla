---------------------------- MODULE DebateClaims ----------------------------
(***************************************************************************)
(* The claims of a debate and what one turn does to them                   *)
(* (tradingagents/agents/utils/debate_utils.py,                            *)
(* update_debate_state_with_payload).  A debate state carries the claims   *)
(* with a status each and, next to them, the ids that are open, resolved   *)
(* and unresolved and the ids the next turn must answer.  The ids are      *)
(* <prefix>-1, <prefix>-2, ...: here, the numbers.                         *)
(*                                                                         *)
(* The payload of a turn is what the language model wrote: any ids in any  *)
(* of its lists, those of claims nobody has made yet included.             *)
(***************************************************************************)
EXTENDS Integers, Sequences, FiniteSets

CONSTANTS MaxClaims,  \* bound: claims made in one debate
          MaxNew      \* bound: new claims in one payload

ASSUME ClaimsAssumption == MaxClaims \in Nat /\ MaxNew \in Nat

ClaimStatuses == {"open", "addressed", "resolved", "unresolved"}
Ids           == 1 .. MaxClaims

EmptyDebate ==
  [count |-> 0, speaker |-> "none", claims |-> <<>>, open |-> {}, resolved |-> {},
   unresolved |-> {}, focus |-> {}]

DebateType(Speakers) ==
  [count : Nat, speaker : Speakers, claims : Seq(ClaimStatuses), open : SUBSET Ids,
   resolved : SUBSET Ids, unresolved : SUBSET Ids, focus : SUBSET Ids]

\* The id lists name claims that have been made.
IdsExist(d) == d.open \cup d.resolved \cup d.unresolved \cup d.focus \subseteq DOMAIN d.claims

\* What may stand in the tagged JSON; an unreadable block reads as one with
\* nothing in it.
Payloads == [responded : SUBSET Ids, resolved : SUBSET Ids,
             unresolved : SUBSET Ids, new : 0 .. MaxNew, focus : SUBSET Ids]

\* _filter_known_claim_ids
Known(ids, claims) == ids \cap DOMAIN claims

\* The statuses after the payload's responded, resolved and unresolved ids,
\* in this order, and its new claims.
Statuses(claims, p) ==
  LET known == [i \in DOMAIN claims |->
                  CASE i \in p.unresolved -> "unresolved"
                    [] i \in p.resolved \ p.unresolved -> "resolved"
                    [] i \in p.responded \ (p.resolved \cup p.unresolved) /\ claims[i] = "open" -> "addressed"
                    [] OTHER -> claims[i]]
  IN  known \o [i \in 1 .. p.new |-> "open"]

\* next_focus_claim_ids when the payload names none: two of the unresolved
\* claims first, then of the other open ones (the order is that of a set).
DefaultFocus(open, unresolved) ==
  {F \in SUBSET open :
     /\ Cardinality(F) = (IF Cardinality(open) < 2 THEN Cardinality(open) ELSE 2)
     /\ F \subseteq unresolved \/ unresolved \subseteq F}

\* Variant: a turn is not counted.
Turn_KeepsCount(d, speaker, p) ==
  LET res     == Known(p.resolved, d.claims)
      unres   == Known(p.unresolved, d.claims)
      claims  == Statuses(d.claims, p)
      open    == ((d.open \ res) \cup unres) \cup (DOMAIN claims \ DOMAIN d.claims)
      unr     == (d.unresolved \ res) \cup unres
      focus   == Known(p.focus, claims)
  IN  {[count |-> d.count, speaker |-> speaker, claims |-> claims, open |-> open,
        resolved |-> (d.resolved \cup res) \ unres, unresolved |-> unr, focus |-> F]
          : F \in IF focus # {} THEN {focus} ELSE DefaultFocus(open, unr)}

\* Variant: the unresolved ids are not taken out of the resolved ones.
Turn_KeepsResolved(d, speaker, p) ==
  LET res     == Known(p.resolved, d.claims)
      unres   == Known(p.unresolved, d.claims)
      claims  == Statuses(d.claims, p)
      new     == DOMAIN claims \ DOMAIN d.claims
      open    == ((d.open \ res) \cup unres) \cup new
      unr     == (d.unresolved \ res) \cup unres
      focus   == Known(p.focus, claims)
  IN  {[count |-> d.count + 1, speaker |-> speaker, claims |-> claims, open |-> open,
        resolved |-> d.resolved \cup res, unresolved |-> unr, focus |-> F]
          : F \in IF focus # {} THEN {focus} ELSE DefaultFocus(open, unr)}

\* update_debate_state_with_payload: the debate states a turn may lead to.
Turn(d, speaker, p) ==
  LET res     == Known(p.resolved, d.claims)
      unres   == Known(p.unresolved, d.claims)
      claims  == Statuses(d.claims, p)
      new     == DOMAIN claims \ DOMAIN d.claims
      open    == ((d.open \ res) \cup unres) \cup new
      unr     == (d.unresolved \ res) \cup unres
      focus   == Known(p.focus, claims)
  IN  {[count |-> d.count + 1, speaker |-> speaker, claims |-> claims, open |-> open,
        resolved |-> (d.resolved \cup res) \ unres, unresolved |-> unr, focus |-> F]
          : F \in IF focus # {} THEN {focus} ELSE DefaultFocus(open, unr)}

With(st, claims) == {i \in DOMAIN claims : claims[i] \in st}

(* The id lists and the claims' own statuses say the same, although each is *)
(* kept by itself over the turns and a payload may list an id as resolved   *)
(* and unresolved at once (debate_utils.py:196-215).                        *)
Consistent(d) ==
  /\ d.resolved = With({"resolved"}, d.claims)
  /\ d.unresolved = With({"unresolved"}, d.claims)
  /\ d.open = With(ClaimStatuses \ {"resolved"}, d.claims)

(* While a claim is open the next turn has claims to answer                 *)
(* (debate_utils.py:247-250).                                               *)
Focused(d) ==
  d.open # {} => d.focus # {}
=============================================================================
