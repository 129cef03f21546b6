----------------------------- MODULE PriceTruth -----------------------------
(***************************************************************************)
(* What a row of the prediction log knows of prices: the 1X2 odds its      *)
(* forecast was made at, the closing odds a sync fetches later, and the    *)
(* figures measured between them (prediction_log.py, price_truth.py and    *)
(* clv_institutional.py of the hibs-bet patches).  Odds are in hundredths, *)
(* closing line value in hundredths of a percentage point.  The de-vigged  *)
(* probabilities themselves are floats of another package: of the figures  *)
(* built from them the model keeps which closing odds they were taken      *)
(* from.                                                                   *)
(***************************************************************************)
EXTENDS Integers, FiniteSets, FiniteSetsExt, Functions

Sides == {"home", "draw", "away"}
NoOdds == 0       \* None; what a missing or unusable price is read as
Evens == 100      \* 1.0, which a price has to be above
NoBet == "none"   \* a forecast without a best bet
NoPp == -999999   \* clv_pp that is None

DecimalOddsSide(raw) == IF raw > Evens THEN raw ELSE NoOdds
TripletFromMapping(m) == [s \in Sides |-> DecimalOddsSide(m[s])]
TripletComplete(t) == \A s \in Sides : DecimalOddsSide(t[s]) # NoOdds
NoTriplet == [s \in Sides |-> NoOdds]

\* The first usable price: the bookmaker's, the line's, the fixture's own.
FirstPrice(a, b, c) ==
  IF DecimalOddsSide(a) # NoOdds THEN a ELSE IF DecimalOddsSide(b) # NoOdds THEN b
  ELSE DecimalOddsSide(c)

Opening1x2(fixture, p) ==
  [s \in Sides |-> FirstPrice(p.bookmaker[s], p.line[s], fixture[s])]

HasStored1x2(p) ==
  \E s \in Sides : DecimalOddsSide(p.bookmaker[s]) # NoOdds \/ DecimalOddsSide(p.line[s]) # NoOdds

\* What is stored of a forecast whose fixture carries odds of its own.
ApplyFixture1x2(fixture, p) ==
  [p EXCEPT !.bookmaker = [s \in Sides |-> FirstPrice(p.bookmaker[s], fixture[s], NoOdds)]]

\* A forecast without odds takes the fixture's, or those of one more fetch.
EnsureSnapshotOdds(fixture, fetched, p) ==
  LET own == ApplyFixture1x2(fixture, p) IN
  IF HasStored1x2(p) THEN p
  ELSE IF HasStored1x2(own) THEN own ELSE ApplyFixture1x2(fetched, own)

\* The best price of any bookmaker, out of an answer's <<side, price>> quotes.
ParseClosing1x2(quotes) ==
  [s \in Sides |-> Max({NoOdds} \cup {q[2] : q \in {x \in quotes : x[1] = s /\ x[2] > Evens}})]

-----------------------------------------------------------------------------
(* Closing line value.                                                     *)

\* round(1/close - 1/open, in pp, 2): the pick's price at the close was shorter.
ClvPp(open, close) ==
  IF open = NoOdds \/ close = NoOdds THEN NoPp
  ELSE LET num == 1000000 * (open - close) den == open * close
       IN (2 * num + den) \div (2 * den)

\* Prices of the quoted sides, and 1 + M as the fraction OverroundOf / Product.
Quoted(t) == {s \in Sides : DecimalOddsSide(t[s]) # NoOdds}
Product(t, S) == FoldFunctionOnSet(LAMBDA x, y : x * y, 1, t, S)
OverroundOf(t) == Evens * MapThenSumSet(LAMBDA s : Product(t, Quoted(t) \ {s}), Quoted(t))

\* enrich_summary_json["clv"]: fair and edge name the closing odds that
\* clv_pp_fair_* and edge_clv_pct were computed from.  A best bet on another market
\* than the match result has neither.
EnrichPriceTruth(c) ==
  LET opening == TripletFromMapping(c.opening)
      closing == TripletFromMapping(c.closing)
      stake == IF c.odds # NoOdds \/ c.best \notin Sides THEN c.odds ELSE opening[c.best]
  IN [c EXCEPT
       !.fair = IF c.best \in Sides /\ TripletComplete(opening) /\ TripletComplete(closing)
                THEN closing ELSE @,
       !.edge = IF c.best \in Sides /\ TripletComplete(closing) /\ stake # NoOdds
                THEN closing ELSE @]

\* The block a row is stored with.
ClvOpeningCapture(fixture, p) ==
  EnrichPriceTruth(
    [opening |-> Opening1x2(fixture, p), best |-> p.best,
     odds |-> IF p.best \in DOMAIN p.values THEN DecimalOddsSide(p.values[p.best].odds) ELSE NoOdds,
     closing |-> NoTriplet, pp |-> NoPp, fair |-> NoTriplet, edge |-> NoTriplet])

\* Mutant: a bet is measured from the price of its value leg or not at all.
ApplyClvOfLeg(c, closing) ==
  LET close == IF c.best \in Sides THEN closing[c.best] ELSE NoOdds IN
  EnrichPriceTruth([c EXCEPT !.closing = closing, !.pp = ClvPp(c.odds, close)])

\* The closing odds always replace the ones before; the fair figures only when
\* both triplets are complete.
ApplyClv(c, closing) ==
  LET open == IF c.odds = NoOdds /\ c.best \in Sides THEN c.opening[c.best] ELSE c.odds
      close == IF c.best \in Sides THEN closing[c.best] ELSE NoOdds
  IN EnrichPriceTruth([c EXCEPT !.closing = closing, !.pp = ClvPp(open, close)])

ClvBlock == [opening : [Sides -> Nat], best : STRING, odds : Nat, closing : [Sides -> Nat],
             pp : Int, fair : [Sides -> Nat], edge : [Sides -> Nat]]
=============================================================================
