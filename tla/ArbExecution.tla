---------------------------- MODULE ArbExecution ----------------------------
(***************************************************************************)
(* From cached prices to orders: an executor (arb_worker.py's loop or one  *)
(* request of POST /arb/execute) scans the ticks it reads for opportunities*)
(* (ArbMath), and execute_matchbook_arb stakes one, checks it against the  *)
(* risk limits and submits it.  The daily counters and the exchange are    *)
(* RiskRails'; this module adds what is placed and when it is refused.     *)
(*                                                                         *)
(* The ticks of a scan are any of Lines: the prices move between two       *)
(* scans.  A scan's opportunities are tried one by one, best first; any    *)
(* of them may be tried here, which includes that order.                   *)
(***************************************************************************)
EXTENDS ArbMath, RiskRails

CONSTANTS
  Requests,                  \* the executors that build a RiskConfig each time
  Lines,                     \* the lists of ticks a scan can find
  RequestOutlays,            \* total_outlay of a request
  Default,                   \* total_outlay not given
  MaxStake, MaxOutlay,       \* max_stake_gbp, max_total_outlay_gbp
  MinProfit, ScanMinProfit,  \* min_profit_pct of the limits, of the API's scan
  AllowPartialDutch          \* allow_partial_dutch

ASSUME ExecutionAssumption ==
  /\ Requests \subseteq Executors
  /\ MaxStake \in Nat \ {0} /\ MaxOutlay \in Nat \ {0}
  /\ MinProfit \in Nat /\ ScanMinProfit \in Nat
  /\ AllowPartialDutch \in BOOLEAN
  /\ RequestOutlays \subseteq Int \cup {Default}
  /\ \A ticks \in Lines : IsLine(ticks)

VARIABLES
  deal,      \* the staked opportunity each executor holds
  live       \* live_enabled() in the executor's process

\* The stakes of an opportunity for a requested outlay.
Staked(opp, total) ==
  [opp EXCEPT !.legs =
    ScaleStakesToRisk(OptimalDutchStakes(@, IF total = Default THEN MaxOutlay ELSE total),
                      MaxStake, MaxOutlay)]

\* The deals an executor can come to; the worker's scan uses the limits' own
\* margin, a request the API's.
Deals ==
  [e \in Executors |->
    LET margin == IF e \in Requests THEN ScanMinProfit ELSE MinProfit
        totals == IF e \in Requests THEN RequestOutlays ELSE {Default}
        opps == UNION {ScanArbitrage(ticks, margin) : ticks \in Lines}
    IN  {Staked(o, total) : o \in opps, total \in totals}]

DealOutlays == UNION {{Outlay(d.legs) : d \in Deals[e]} : e \in Executors}

ASSUME OutlaysAssumption == DealOutlays \subseteq Outlays

\* The tolerance of the outlay check, in pence.
Tolerance == 5

vars == <<railsVars, deal, live>>

NoDeal == [kind |-> "none", odds |-> <<>>, legs |-> <<>>]

ExecutionTypeOK ==
  /\ RailsTypeOK
  /\ live \in [Executors -> BOOLEAN]
  /\ \A e \in Executors :
       /\ deal[e] \in Deals[e] \cup {NoDeal}
       /\ amount[e] = IF xpc[e] = "idle" THEN 0 ELSE Outlay(deal[e].legs)

Init ==
  /\ RailsInit
  /\ deal = [e \in Executors |-> NoDeal]
  /\ live \in [Executors -> BOOLEAN]

\* What validate_opportunity asks of the opportunity, and of its legs' stakes.
Acceptable(d) ==
  /\ ProfitAtLeast(d.odds, MinProfit)
  /\ (d.kind = "dutch_1x2" /\ Cardinality(DOMAIN d.legs) < 3) => AllowPartialDutch
  /\ \A i \in DOMAIN d.legs : d.legs[i].runner # 0

StakesFit(d) ==
  /\ Outlay(d.legs) <= MaxOutlay + Tolerance
  /\ \A i \in DOMAIN d.legs : d.legs[i].stake <= MaxStake

\* An opportunity with legs on Matchbook is staked, by a request with a
\* RiskConfig of its own.
TakeUp(e) ==
  /\ xpc[e] = "idle"
  /\ \E d \in Deals[e] : d.legs # <<>> /\ deal' = [deal EXCEPT ![e] = d]
  /\ \/ e \in Requests /\ NewRiskConfig(e)
     \/ e \notin Requests /\ deal[e] = NoDeal /\ UNCHANGED railsVars
  /\ UNCHANGED live

\* It is validated, and the gates let it be sent ...
Place(e) ==
  /\ deal[e] # NoDeal
  /\ live[e]
  /\ Acceptable(deal[e]) /\ StakesFit(deal[e])
  /\ Validate(e, Outlay(deal[e].legs))
  /\ UNCHANGED <<deal, live>>

Clear(e) ==
  /\ deal' = [deal EXCEPT ![e] = NoDeal]
  /\ UNCHANGED live

\* ... or it is refused (the kill switch raises too), or a dry run.
Decline(e) ==
  /\ deal[e] # NoDeal
  /\ \/ ~live[e]
     \/ ~Acceptable(deal[e]) \/ ~StakesFit(deal[e])
     \/ ~WithinDay(e, Outlay(deal[e].legs))
  /\ RefuseOrDryRun(e)
  /\ Clear(e)

Accepted(e) == ExchangeAccepts(e) /\ UNCHANGED <<deal, live>>

Rejected(e) == SubmitFails(e) /\ Clear(e)

Recorded(e) == RecordExecution(e) /\ Clear(e)

LostReply(e) == ReplyLost(e) /\ Clear(e)

\* The executor's process restarts and reads auto_trade, live_confirmed and
\* kill_switch anew: they are evaluated when execution.risk is imported.
Restart(e) ==
  /\ NewRiskConfig(e)
  /\ deal' = [deal EXCEPT ![e] = NoDeal]
  /\ \E g \in BOOLEAN : live' = [live EXCEPT ![e] = g]

DayEnds == Midnight /\ UNCHANGED <<deal, live>>

Step(e) ==
  \/ TakeUp(e) \/ Place(e) \/ Decline(e)
  \/ Accepted(e) \/ Rejected(e) \/ Recorded(e) \/ LostReply(e)
  \/ Restart(e)

Next == DayEnds \/ \E e \in Executors : Step(e)

Spec == Init /\ [][Next]_vars
-----------------------------------------------------------------------------
(* Properties *)

\* _scale_stakes_to_risk is enough: whatever the prices and the outlay asked
\* for, the stakes it rounds are never what validate_opportunity refuses.
ScalingFits == \A e \in Executors : deal[e] # NoDeal => StakesFit(deal[e])

\* The deals the exchange has taken.
Placed == {deal[e] : e \in {f \in Executors : xpc[f] \in {"sent", "sentBefore"}}}

\* A dutch placed on all three outcomes wins the margin asked for whichever
\* comes in, but for what rounding its stakes can cost: of what it wins, and of
\* the outlay the margin is asked on, which rounding can add a penny per leg to.
DutchLocked ==
  \A d \in Placed :
    (d.kind = "dutch_1x2" /\ DOMAIN d.legs = Outcomes) =>
      \A m \in Outcomes :
        1000 * (ResultIf(d.legs, m) + RoundingLoss(d.legs, m))
          >= MinProfit * One * (Outlay(d.legs) - 3)

\* "Simplified scalp: ... profit if lay_implied < back": a back and lay pair
\* placed on one runner does not lose on every outcome.
ScalpCanWin ==
  \A d \in Placed :
    d.kind = "matchbook_back_lay" =>
      \E m \in Outcomes :
        ResultIf(d.legs, m) + RoundingLoss(d.legs, m) >= 0
=============================================================================
