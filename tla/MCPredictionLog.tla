-------------------------- MODULE MCPredictionLog --------------------------
(***************************************************************************)
(* A match known under two ids, the API's and an alias, a cup match that   *)
(* kicks off earlier and never gets status FT, a thread of the web process *)
(* and the command line, and two rows: enough for two rows of one fixture, *)
(* for a row of each id, and for one that settlement passes over for ever. *)
(***************************************************************************)
EXTENDS ProductionGates
CONSTANTS web, cli, match, alias, cup

MCKickoff == [i \in Ids |-> IF i = cup THEN 0 ELSE 1]
MCResolve == [i \in Ids |-> IF i = alias THEN match ELSE i]
MCFinal == [i \in Ids |-> IF i = cup THEN NotFT ELSE "home"]

T(h, d, a) == [s \in Sides |-> CASE s = "home" -> h [] s = "draw" -> d [] s = "away" -> a]

\* A live forecast with a value bet, which takes its odds from the fixture, and a
\* replay without one, whose pick is measured from the opening odds.
Live == [pick |-> "home", bookmaker |-> NoTriplet,
         line |-> NoTriplet, best |-> "home",
         values |-> [m \in {"home"} |-> [odds |-> 230, roi |-> 15]]]
Replay == [pick |-> "draw", bookmaker |-> T(230, 330, 340),
           line |-> NoTriplet, best |-> "home", values |-> [m \in {} |-> 0]]
MCOffers == {[fixture |-> T(210, 340, 350), fetched |-> NoTriplet, forecast |-> Live]}
MCReplays == {Replay}

\* The table is new, or has a row of before the price panels, with a best bet on the
\* result or on another market.
Old(best) ==
  [pick |-> "home", bookmaker |-> T(220, 330, 350),
   line |-> NoTriplet, best |-> best, values |-> [m \in {best} |-> [odds |-> 190, roi |-> 10]]]
MCHistories ==
  {<<>>} \cup {<<[fixture |-> match, forecast |-> Old(best)]>> : best \in {"home", "over25"}}

MCClosings ==
  {NoTriplet, ParseClosing1x2({<<"home", 205>>, <<"home", 210>>}),
   ParseClosing1x2({<<"home", 205>>, <<"home", 210>>, <<"draw", 340>>,
                    <<"away", 360>>, <<"away", 100>>})}

\* A contract with a cup that is audited only and excluded.
MCBadFields == [c \in Codes |-> {}]
=============================================================================
