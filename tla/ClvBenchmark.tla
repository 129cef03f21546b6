---------------------------- MODULE ClvBenchmark ----------------------------
(***************************************************************************)
(* The closing price a settled pick is measured against, of                *)
(* engine/clv_benchmark.py: the first complete 1X2 triplet on the ladder,  *)
(* and the legacy price of the market behind all of them.  Odds are in     *)
(* hundredths; an invalid or missing price is NoOdds.                      *)
(***************************************************************************)
EXTENDS Integers

NoOdds == 0
EvenOdds == 100

Sides == {"home", "draw", "away"}
Tiers == {"pinnacle", "exchange", "sharp_synthetic", "api_football", "unavailable"}

ValidDecimal(o) == o > EvenOdds

TripletComplete(t) == \A s \in Sides : ValidDecimal(t[s])

ClosingForMarket(t, market) ==
  IF market \in Sides /\ ValidDecimal(t[market]) THEN t[market] ELSE NoOdds

\* Sum of 1/odds of a complete triplet, in ten-thousandths.
BookSum(t) ==
  LET inverse(s) == 1000000 \div t[s]
  IN  inverse("home") + inverse("draw") + inverse("away")

\* A complete triplet with its margin taken out; one without a margin is
\* taken as it is.
SharpSyntheticFairOdds(t) ==
  [s \in Sides |-> IF BookSum(t) >= 10000 THEN (t[s] * BookSum(t)) \div 10000 ELSE t[s]]

\* The first of the ladder's prices for a market, best tier first.  A complete
\* api_football triplet always has a fair price, so that its raw price is never
\* reached.
ResolveClvClosing(market, close) ==
  LET offers(tier) ==
        CASE tier = "pinnacle" ->
               IF TripletComplete(close.pinnacle)
               THEN ClosingForMarket(close.pinnacle, market) ELSE NoOdds
          [] tier = "exchange" ->
               IF TripletComplete(close.exchange)
               THEN ClosingForMarket(close.exchange, market) ELSE NoOdds
          [] tier = "sharp_synthetic" ->
               IF TripletComplete(close.apiFootball)
               THEN ClosingForMarket(SharpSyntheticFairOdds(close.apiFootball), market)
               ELSE NoOdds
          [] tier = "api_football" ->
               IF ValidDecimal(close.legacy[market]) THEN close.legacy[market] ELSE NoOdds
          [] OTHER -> NoOdds
      ladder == <<"pinnacle", "exchange", "sharp_synthetic", "api_football">>
      priced == {i \in DOMAIN ladder : offers(ladder[i]) # NoOdds}
  IN  IF priced = {} THEN [odds |-> NoOdds, tier |-> "unavailable"]
      ELSE LET first == CHOOSE i \in priced : \A j \in priced : i <= j
           IN  [odds |-> offers(ladder[first]), tier |-> ladder[first]]
=============================================================================
