--------------------------- MODULE MCPaperLedger ----------------------------
EXTENDS PaperLedger, TLC
CONSTANTS a, b, f

\* Two prices of a pick, with the stakes they call for.
MCQuotes == {<<210, 5>>, <<250, 8>>}

\* A home win without Pinnacle's close and with an incomplete one of an
\* exchange: a 1X2 pick is measured against the fair price of a book with a
\* margin, which lies between the quotes, another one against its legacy price.
NoTriplet == [s \in Sides |-> NoOdds]
HomeWin == [outcome |-> "home",
  close |-> [pinnacle |-> NoTriplet,
             exchange |-> [NoTriplet EXCEPT !["home"] = 260],
             apiFootball |-> [s \in Sides |->
                CASE s = "home" -> 220 [] s = "draw" -> 330 [] s = "away" -> 350],
             legacy |-> [m \in Markets |-> IF m = "over25" THEN 230 ELSE NoOdds]]]
\* A draw without any closing line to measure a pick against.
NoLine == [pinnacle |-> NoTriplet, exchange |-> NoTriplet, apiFootball |-> NoTriplet,
           legacy |-> [m \in Markets |-> NoOdds]]
MCResults == {HomeWin, [outcome |-> "draw", close |-> NoLine]}
MCSymmetry == Permutations({a, b})

\* Both prices of the example's ladder.
ASSUME LadderAssumption ==
  /\ ResolveClvClosing("home", HomeWin.close) = [odds |-> 229, tier |-> "sharp_synthetic"]
  /\ ResolveClvClosing("over25", HomeWin.close) = [odds |-> 230, tier |-> "api_football"]
=============================================================================
