----------------------------- MODULE ChipScores -----------------------------
(***************************************************************************)
(* The scores of the chip analysis (tradingagents/chip_deep/analyzer.py):  *)
(* six dimensions, the points they sum up to, the rating with its vetoes,  *)
(* the price levels of the advice, and the bins of a distribution.         *)
(* Scores are in quarters of a point; percentages and prices are integers. *)
(* There is no process here: every state is one input.                     *)
(***************************************************************************)
EXTENDS Integers, Sequences, FiniteSetsExt

CONSTANTS
  Stocks,          \* what the six dimensions may be computed from
  Levels,          \* what the advice may be computed from
  Distributions,   \* what is put into bins
  MaxPrice         \* bound of the prices in a distribution

VARIABLES
  stock,   \* what the six dimensions are computed from
  levels,  \* prices by the share of chips they hold, and the current price
  binned   \* the prices of a distribution, and the width of a bin

chipVars == <<stock, levels, binned>>

\* known: both distributions; change: of the bin that moved most; shift: of
\* the peak; below: the chips below the price grew by more than 10; hot: the
\* yearly return and the turnover pass the bounds of the period; under: the
\* chips at or under the price.
Stock == [known : BOOLEAN, change : Int, shift : Int, below : BOOLEAN, density : Int, winners : Int,
          hot : BOOLEAN, cost : Int, period : Int, over : Int, under : Int]

\* ranked: prices, the one with most chips first; step: the width of a bin.
ASSUME ChipScoresAssumption ==
  /\ Stocks \subseteq Stock
  /\ \A l \in Levels : l.ranked \in Seq(Nat \ {0}) /\ Len(l.ranked) > 0 /\ l.close \in Nat \ {0}
  /\ MaxPrice \in Nat
  /\ \A b \in Distributions : b.prices \in SUBSET (1 .. MaxPrice) \ {{}} /\ b.step \in Nat \ {0}

NoStock == [known |-> FALSE]

-----------------------------------------------------------------------------
(* The six dimensions. *)

\* A small loss where the peak moved up is a shake-out; otherwise the change
\* decides.
Margin(s) ==
  CASE ~s.known                                            -> 0
    [] s.known /\ s.shift > 5 /\ s.change \in -4 .. -1     -> 4
    [] s.known /\ s.change > 10                            -> 8
    [] s.known /\ s.change \in 3 .. 10                     -> 2
    [] OTHER                                               -> 0

Panic(s) == s.known /\ s.change < -15 /\ s.below

Density(s) == IF s.density > 40 THEN 4 ELSE IF s.density > 20 THEN 2 ELSE 0

\* The three bounds of a period: large, clear and partial rises of the cost.
CostBounds(s) == IF s.period <= 30 THEN <<8, 4, 1>> ELSE IF s.period <= 60 THEN <<15, 8, 3>> ELSE <<30, 15, 5>>

GoodLowWinners(s) == s.hot /\ s.cost > (IF s.period <= 30 THEN 2 ELSE IF s.period <= 60 THEN 5 ELSE 15)

\* What a share of winners means depends on the margin: all is well while
\* chips move up, and at most half a point is given while they leave.
Winners(s) ==
  LET low == IF GoodLowWinners(s) THEN 4 ELSE 0
  IN  CASE Margin(s) >= 8 -> 4
        [] Margin(s) = 0  -> IF s.winners > 90 THEN 0 ELSE IF s.winners >= 20 THEN 2 ELSE low
        [] OTHER          -> IF s.winners > 90 THEN 0 ELSE IF s.winners > 80 THEN 2
                             ELSE IF s.winners > 20 THEN 4 ELSE low

\* In the shortest period, few winners on rising chips make up for a cost
\* that did not rise.
CostRise(s) ==
  IF s.cost > CostBounds(s)[2] THEN 2 ELSE IF s.cost > CostBounds(s)[3] THEN 1
  ELSE IF s.period <= 30 /\ Margin(s) >= 6 /\ s.winners < 30 THEN 2 ELSE 0

Overshoot(s) == IF s.over > 15 THEN 0 ELSE IF s.over > 3 \/ s.over \in -10 .. -6 THEN 1 ELSE 2

\* A layer for each of four targets that the chips at or under the price reach.
Layers(s) == Cardinality({target \in {5, 10, 15, 20} : s.under >= target})

Support(s) == IF Layers(s) >= 3 THEN 2 ELSE IF Layers(s) >= 1 THEN 1 ELSE 0

Points(s) == Margin(s) + Density(s) + Winners(s) + CostRise(s) + Overshoot(s) + Support(s)

BaseRating(total) ==
  IF total >= 20 THEN 5 ELSE IF total >= 16 THEN 4 ELSE IF total >= 10 THEN 3 ELSE IF total >= 4 THEN 2 ELSE 1

\* Variant: a cost that did not rise is looked at first.
MaxRating_CostFirst(s) ==
  IF CostRise(s) = 0 THEN 5 ELSE IF Density(s) = 0 \/ Panic(s) THEN 2 ELSE 5

\* _apply_veto_rules: thin chips and a panic limit the rating; the other
\* rules only give a reason.
MaxRating(s) == IF Density(s) = 0 \/ Panic(s) THEN 2 ELSE 5

Rating(s) == IF BaseRating(Points(s)) < MaxRating(s) THEN BaseRating(Points(s)) ELSE MaxRating(s)

-----------------------------------------------------------------------------
(* Price levels, in hundredths. *)

TopN(ranked, n) == {ranked[i] : i \in 1 .. (IF Len(ranked) < n THEN Len(ranked) ELSE n)}

Supports(l) == {p \in TopN(l.ranked, 3) : p <= l.close}
Resistances(l) == {p \in TopN(l.ranked, 5) : p > l.close}

\* The support with the most chips; without one, the densest price at all.
StopLoss(l) ==
  93 * (IF Supports(l) = {} THEN l.ranked[1]
        ELSE l.ranked[Min({i \in DOMAIN l.ranked : l.ranked[i] \in Supports(l)})])

TakeProfit(l) == IF Resistances(l) = {} THEN 115 * l.close ELSE 102 * Min(Resistances(l))

-----------------------------------------------------------------------------
(* Bins: edges from the lowest price down to the highest price up, as      *)
(* np.arange makes them, which leaves out its end.                         *)

Floor(p, step) == (p \div step) * step
Ceiling(p, step) == ((p + step - 1) \div step) * step

Edges(b) ==
  {e \in Floor(Min(b.prices), b.step) .. Ceiling(Max(b.prices), b.step) + b.step - 1 : e % b.step = 0}

\* A price counts in the bin of the last edge that is not above it, if the bin
\* has an upper edge.
InSomeBin(p, b) == \E low \in Edges(b) : low + b.step \in Edges(b) /\ low <= p /\ p < low + b.step

-----------------------------------------------------------------------------
Nowhere == [ranked |-> <<20>>, close |-> 20]
NoBins  == [prices |-> {1}, step |-> 1]

ChipInit ==
  \/ stock \in Stocks /\ levels = Nowhere /\ binned = NoBins
  \/ stock = NoStock /\ levels \in Levels /\ binned = NoBins
  \/ stock = NoStock /\ levels = Nowhere /\ binned \in Distributions

-----------------------------------------------------------------------------
(* The thresholds of the rating and the weights of the dimensions go        *)
(* together: without any sign of buyers nothing gets four stars, and five   *)
(* stars need chips that rise strongly, whatever the other five dimensions  *)
(* give (analyzer.py:330-334, 632-633, 1088-1109).                          *)
StarsNeedBuyers ==
  stock # NoStock => /\ Rating(stock) >= 4 => Margin(stock) > 0
                     /\ Rating(stock) = 5 => Margin(stock) = 8

(* A panic or a thin distribution keeps the rating at two stars however the *)
(* total comes about, also when a weaker rule applies as well               *)
(* (analyzer.py:1132-1166, 1231-1233).                                      *)
RisksCapTheRating ==
  stock # NoStock /\ (Panic(stock) \/ stock.density <= 20) => Rating(stock) <= 2

(* A price at which more than nine of ten holders win counts for the stock  *)
(* only while chips rise strongly; a shake-out or a mild rise does not do   *)
(* (analyzer.py:384-480).                                                   *)
HotPricesNeedBuyers ==
  stock # NoStock /\ stock.winners > 90 /\ Winners(stock) > 0 => stock.change > 10

(* The advice never puts the profit below the price, and the loss above it  *)
(* only when the three densest prices all lie above (analyzer.py:1603-1650).*)
LevelsSurroundThePrice ==
  /\ TakeProfit(levels) > 100 * levels.close
  /\ StopLoss(levels) >= 100 * levels.close => \A p \in TopN(levels.ranked, 3) : p > levels.close

(* Every price of a distribution has a bin, except a highest price that is  *)
(* itself an edge: its chips are in no bin (analyzer.py:723-747).           *)
OnlyTheTopEdgeIsLost ==
  \A p \in binned.prices : ~InSomeBin(p, binned) => p = Max(binned.prices) /\ p % binned.step = 0

(* The rules about the rating, the price levels and the bins together,      *)
(* over every stock of the model (chip_deep/analyzer.py).                   *)
ChipScoresInv == StarsNeedBuyers /\ RisksCapTheRating /\ HotPricesNeedBuyers /\ LevelsSurroundThePrice /\ OnlyTheTopEdgeIsLost
=============================================================================
