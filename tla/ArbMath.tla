------------------------------ MODULE ArbMath -------------------------------
(***************************************************************************)
(* engine/arb.py and the stake arithmetic of matchbook_executor.py over    *)
(* whole numbers: decimal odds in tenths, stakes and outlays in pence,     *)
(* profit margins in tenths of a percent.  A sum of implied probabilities  *)
(* is kept as a fraction over the product of the odds, so the comparisons  *)
(* are exact; the program compares floats.                                 *)
(*                                                                         *)
(* A tick is [market, odds, exchange, back, lay, runner]: exchange says    *)
(* that its source or bookmaker is Matchbook, back and lay are the prices  *)
(* in its meta and 0 stands for a missing one, as it does for a runner.    *)
(***************************************************************************)
EXTENDS Integers, Sequences, FiniteSetsExt, Functions

One == 10    \* odds of 1.0

Outcomes == {"Home", "Draw", "Away"}

\* round(a / b); a tie goes up, where Python's goes by the binary float.
RoundDiv(a, b) == (2 * a + b) \div (2 * b)

\* Legs are kept by outcome or, of a back and lay pair, by side.
OddsOf(legs) == [i \in DOMAIN legs |-> legs[i].odds]
StakesOf(legs) == [i \in DOMAIN legs |-> legs[i].stake]
Outlay(legs) == SumFunction(StakesOf(legs))

\* The implied probabilities of some odds add up to InvNum / InvDen.
ProductOn(odds, indices) == FoldFunctionOnSet(LAMBDA x, y : x * y, 1, odds, indices)
ProductOfOthers(odds, i) == ProductOn(odds, DOMAIN odds \ {i})
SumOfProducts(odds) == SumFunction([i \in DOMAIN odds |-> ProductOfOthers(odds, i)])
InvNum(odds) == One * SumOfProducts(odds)
InvDen(odds) == ProductOn(odds, DOMAIN odds)

\* profit_pct = (1 / inv - 1) * 100 is at least margin tenths of a percent.
ProfitAtLeast(odds, margin) ==
  1000 * (InvDen(odds) - InvNum(odds)) >= margin * InvNum(odds)

Underround(odds) == InvNum(odds) < InvDen(odds)

Leg(m, odds, side, t) ==
  [market |-> m, odds |-> odds, side |-> side, exchange |-> t.exchange,
   runner |-> t.runner, stake |-> 0]

TickType == [market : STRING, odds : Nat \ {0}, exchange : BOOLEAN,
             back : Nat, lay : Nat, runner : Nat]

\* The ticks read for a fixture: a price is positive, the feeds drop the others.
IsLine(ticks) == ticks \in Seq(TickType)

TicksOn(ticks, m) == {i \in DOMAIN ticks : ticks[i].market = m}

\* _best_back_per_leg: the first of the highest prices on an outcome.
BestBack(ticks, m) ==
  ticks[CHOOSE i \in TicksOn(ticks, m) :
          \A j \in TicksOn(ticks, m) :
            /\ ticks[j].odds <= ticks[i].odds
            /\ j < i => ticks[j].odds < ticks[i].odds]

-----------------------------------------------------------------------------
(* dutch_1x2_arb, matchbook_back_lay_arb, scan_arbitrage: the opportunities *)
(* found, as sets.  An opportunity keeps the legs on Matchbook only, those  *)
(* that are placed.                                                         *)

Dutch1x2Arb(ticks, margin) ==
  LET best == [m \in Outcomes |-> BestBack(ticks, m)]
      odds == [m \in Outcomes |-> best[m].odds]
      matchbook == {m \in Outcomes : best[m].exchange}
  IN  IF /\ \A m \in Outcomes : TicksOn(ticks, m) # {}
         /\ Underround(odds)
         /\ ProfitAtLeast(odds, margin)
      THEN {[kind |-> "dutch_1x2", odds |-> odds,
             legs |-> [m \in matchbook |-> Leg(m, odds[m], "back", best[m])]]}
      ELSE {}

Mine(ticks, m) == {i \in TicksOn(ticks, m) : ticks[i].exchange}
Backs(ticks, m) ==
  {IF ticks[i].back > 0 THEN ticks[i].back ELSE ticks[i].odds : i \in Mine(ticks, m)}
Lays(ticks, m) == {l \in {ticks[i].lay : i \in Mine(ticks, m)} : l > One}
Priced(ticks) ==
  {m \in Outcomes : Lays(ticks, m) # {} /\ \E b \in Backs(ticks, m) : b > One}

\* The best prices of either side on a runner ...
Pair(ticks, m) == [back |-> Max(Backs(ticks, m)), lay |-> Min(Lays(ticks, m))]

\* ... which is the last one named, if any is.
Runner(ticks, m) ==
  LET named == {i \in Mine(ticks, m) : ticks[i].runner # 0}
  IN  ticks[Max(IF named = {} THEN Mine(ticks, m) ELSE named)]

MatchbookBackLayArb(ticks, margin) ==
  {[kind |-> "matchbook_back_lay", odds |-> Pair(ticks, m),
    legs |-> [side \in {"back", "lay"} |->
                Leg(m, Pair(ticks, m)[side], side, Runner(ticks, m))]] :
     m \in {n \in Priced(ticks) : /\ Pair(ticks, n).back < Pair(ticks, n).lay
                                  /\ Underround(Pair(ticks, n))
                                  /\ ProfitAtLeast(Pair(ticks, n), margin)}}

ScanArbitrage(ticks, margin) ==
  Dutch1x2Arb(ticks, margin) \cup MatchbookBackLayArb(ticks, margin)

-----------------------------------------------------------------------------
(* optimal_dutch_stakes, _scale_stakes_to_risk *)

\* (mutant: the outlay is split evenly)
EvenStake(odds, i, total) == RoundDiv(total, Cardinality(DOMAIN odds))

DutchStake(odds, i, total) ==
  RoundDiv(total * ProductOfOthers(odds, i), SumOfProducts(odds))

\* Equal payout on every leg; an outlay of zero or less leaves the stakes 0.
OptimalDutchStakes(legs, total) ==
  IF total <= 0 THEN legs
  ELSE [i \in DOMAIN legs |->
          [legs[i] EXCEPT !.stake = DutchStake(OddsOf(legs), i, total)]]

ScaleStakes(legs, cap, of) ==
  [i \in DOMAIN legs |-> [legs[i] EXCEPT !.stake = RoundDiv(@ * cap, of)]]

\* (mutant: the per-leg cap is left to the check that follows)
ScaleToOutlayOnly(legs, maxStake, maxOutlay) ==
  LET sum == Outlay(legs)
  IN  IF sum <= maxOutlay THEN legs ELSE ScaleStakes(legs, maxOutlay, sum)

\* Both caps are met by one factor, the smaller of cap / amount, rounded per
\* leg after it is applied.
ScaleStakesToRisk(legs, maxStake, maxOutlay) ==
  LET most == Max(Range(StakesOf(legs)))
      sum == Outlay(legs)
      legOver == most > maxStake
      sumOver == sum > maxOutlay
  IN  IF sum <= 0 \/ ~(legOver \/ sumOver) THEN legs
      ELSE IF legOver /\ (sumOver => maxStake * sum <= maxOutlay * most)
           THEN ScaleStakes(legs, maxStake, most)
           ELSE ScaleStakes(legs, maxOutlay, sum)

-----------------------------------------------------------------------------
(* What placed legs win, in tenths of a penny, when outcome m comes in and  *)
(* every offer has been matched.                                           *)

LegResult(l, m) ==
  LET win == l.stake * (l.odds - One)
      lose == -One * l.stake
  IN  IF l.side = "back" THEN IF l.market = m THEN win ELSE lose
      ELSE IF l.market = m THEN -win ELSE -lose

ResultIf(legs, m) == SumFunction([i \in DOMAIN legs |-> LegResult(legs[i], m)])

\* What rounding stakes to the penny can cost when m comes in: two roundings
\* of at most half a penny on each stake.
RoundingLoss(legs, m) ==
  SumFunction([i \in DOMAIN legs |->
                 IF legs[i].market = m THEN legs[i].odds - One ELSE One])
=============================================================================
