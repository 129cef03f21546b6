----------------------------- MODULE RiskRails ------------------------------
(***************************************************************************)
(* The daily limits of execution/risk.py around one order.  An executor    *)
(* owns a RiskConfig and handles one opportunity at a time: it asks        *)
(* validate_opportunity, submits the offers, and calls record_execution    *)
(* once the reply is in.  arb_worker.py keeps one RiskConfig for the life  *)
(* of its process; POST /arb/execute builds one per request.  The exchange *)
(* may accept the offers and the reply still be lost: the exception is     *)
(* caught and nothing is recorded.                                         *)
(*                                                                         *)
(* Midnight falls between any two steps.  _day is only ever compared with  *)
(* today, so it is kept as stale: _day # today.  What the exchange took    *)
(* today for each RiskConfig is recorded beside the code's own counters.   *)
(* Money is in pence.                                                      *)
(***************************************************************************)
EXTENDS Integers

CONSTANTS
  Executors,       \* the arb worker and the API requests
  MaxDailyTrades,  \* max_daily_trades
  MaxDailyOutlay,  \* max_daily_outlay_gbp
  MaxLost,         \* bound on the orders of a day whose reply an executor loses
  Outlays          \* what the legs of one opportunity can add up to

ASSUME RailsAssumption ==
  /\ MaxDailyTrades \in Nat
  /\ MaxDailyOutlay \in Nat
  /\ MaxLost \in Nat
  /\ Outlays \subseteq Nat

VARIABLES
  trades,         \* _daily_trades
  outlay,         \* _daily_outlay
  stale,          \* _day is not today
  xpc,            \* where each executor is
  amount,         \* sum of the stakes of the legs it is placing
  takenTrades,    \* accepted by the exchange today
  takenOutlay,
  lostTrades,     \* ... of these, those whose reply never came back
  lostOutlay

countVars == <<trades, outlay, stale>>
takenVars == <<takenTrades, takenOutlay, lostTrades, lostOutlay>>
railsVars == <<countVars, xpc, amount, takenVars>>

\* "sent": accepted today; "sentBefore": accepted before midnight.
RailsPc == {"idle", "submit", "sent", "sentBefore"}

RailsTypeOK ==
  /\ trades \in [Executors -> Nat]
  /\ outlay \in [Executors -> Nat]
  /\ stale \in [Executors -> BOOLEAN]
  /\ xpc \in [Executors -> RailsPc]
  /\ amount \in [Executors -> Nat]
  /\ takenTrades \in [Executors -> Nat]
  /\ takenOutlay \in [Executors -> Nat]
  /\ lostTrades \in [Executors -> Nat]
  /\ lostOutlay \in [Executors -> Nat]

RailsInit ==
  /\ trades = [e \in Executors |-> 0]
  /\ outlay = [e \in Executors |-> 0]
  /\ stale = [e \in Executors |-> FALSE]
  /\ xpc = [e \in Executors |-> "idle"]
  /\ amount = [e \in Executors |-> 0]
  /\ takenTrades = [e \in Executors |-> 0]
  /\ takenOutlay = [e \in Executors |-> 0]
  /\ lostTrades = [e \in Executors |-> 0]
  /\ lostOutlay = [e \in Executors |-> 0]

\* The counters _roll_day leaves.
TradesToday(e) == IF stale[e] THEN 0 ELSE trades[e]
OutlayToday(e) == IF stale[e] THEN 0 ELSE outlay[e]

RollDay(e) ==
  /\ trades' = [trades EXCEPT ![e] = TradesToday(e)]
  /\ outlay' = [outlay EXCEPT ![e] = OutlayToday(e)]
  /\ stale' = [stale EXCEPT ![e] = FALSE]

\* The daily limits of validate_opportunity.
WithinDay(e, a) ==
  /\ TradesToday(e) < MaxDailyTrades
  /\ OutlayToday(e) + a <= MaxDailyOutlay

\* validate_opportunity lets the legs through and live_enabled() holds.
Validate(e, a) ==
  /\ xpc[e] = "idle"
  /\ WithinDay(e, a)
  /\ RollDay(e)
  /\ xpc' = [xpc EXCEPT ![e] = "submit"]
  /\ amount' = [amount EXCEPT ![e] = a]
  /\ UNCHANGED takenVars

\* validate_opportunity raises, or nothing is sent after it (dry run, no
\* credentials): only the day is rolled.
RefuseOrDryRun(e) ==
  /\ xpc[e] = "idle"
  /\ RollDay(e)
  /\ UNCHANGED <<xpc, amount, takenVars>>

\* submit_offers: the exchange takes the offers ...
ExchangeAccepts(e) ==
  /\ xpc[e] = "submit"
  /\ xpc' = [xpc EXCEPT ![e] = "sent"]
  /\ takenTrades' = [takenTrades EXCEPT ![e] = @ + 1]
  /\ takenOutlay' = [takenOutlay EXCEPT ![e] = @ + amount[e]]
  /\ UNCHANGED <<countVars, amount, lostTrades, lostOutlay>>

\* ... or does not, and the call raises.
SubmitFails(e) ==
  /\ xpc[e] = "submit"
  /\ xpc' = [xpc EXCEPT ![e] = "idle"]
  /\ amount' = [amount EXCEPT ![e] = 0]
  /\ UNCHANGED <<countVars, takenVars>>

\* (mutant: the execution is counted before the day is rolled)
RecordThenRoll(e) ==
  /\ xpc[e] \in {"sent", "sentBefore"}
  /\ trades' = [trades EXCEPT ![e] = IF stale[e] THEN 0 ELSE trades[e] + 1]
  /\ outlay' = [outlay EXCEPT ![e] = IF stale[e] THEN 0 ELSE outlay[e] + amount[e]]
  /\ stale' = [stale EXCEPT ![e] = FALSE]
  /\ xpc' = [xpc EXCEPT ![e] = "idle"]
  /\ amount' = [amount EXCEPT ![e] = 0]
  /\ UNCHANGED takenVars

\* The reply arrives: record_execution, which rolls the day first.
RecordExecution(e) ==
  /\ xpc[e] \in {"sent", "sentBefore"}
  /\ trades' = [trades EXCEPT ![e] = TradesToday(e) + 1]
  /\ outlay' = [outlay EXCEPT ![e] = OutlayToday(e) + amount[e]]
  /\ stale' = [stale EXCEPT ![e] = FALSE]
  /\ xpc' = [xpc EXCEPT ![e] = "idle"]
  /\ amount' = [amount EXCEPT ![e] = 0]
  /\ UNCHANGED takenVars

\* The reply does not arrive (a timeout, a body that does not parse): what the
\* exchange took is not counted, and may be placed again.
ReplyLost(e) ==
  /\ \/ /\ xpc[e] = "sent" /\ lostTrades[e] < MaxLost
        /\ lostTrades' = [lostTrades EXCEPT ![e] = @ + 1]
        /\ lostOutlay' = [lostOutlay EXCEPT ![e] = @ + amount[e]]
     \/ xpc[e] = "sentBefore" /\ UNCHANGED <<lostTrades, lostOutlay>>
  /\ xpc' = [xpc EXCEPT ![e] = "idle"]
  /\ amount' = [amount EXCEPT ![e] = 0]
  /\ UNCHANGED <<countVars, takenTrades, takenOutlay>>

\* A new RiskConfig: the process restarts, or a new request comes in.
NewRiskConfig(e) ==
  /\ trades' = [trades EXCEPT ![e] = 0]
  /\ outlay' = [outlay EXCEPT ![e] = 0]
  /\ stale' = [stale EXCEPT ![e] = FALSE]
  /\ xpc' = [xpc EXCEPT ![e] = "idle"]
  /\ amount' = [amount EXCEPT ![e] = 0]
  /\ takenTrades' = [takenTrades EXCEPT ![e] = 0]
  /\ takenOutlay' = [takenOutlay EXCEPT ![e] = 0]
  /\ lostTrades' = [lostTrades EXCEPT ![e] = 0]
  /\ lostOutlay' = [lostOutlay EXCEPT ![e] = 0]

Midnight ==
  /\ stale' = [e \in Executors |-> TRUE]
  /\ xpc' = [e \in Executors |-> IF xpc[e] = "sent" THEN "sentBefore" ELSE xpc[e]]
  /\ takenTrades' = [e \in Executors |-> 0]
  /\ takenOutlay' = [e \in Executors |-> 0]
  /\ lostTrades' = [e \in Executors |-> 0]
  /\ lostOutlay' = [e \in Executors |-> 0]
  /\ UNCHANGED <<trades, outlay, amount>>

RailsStep(e) ==
  \/ \E a \in Outlays : Validate(e, a)
  \/ RefuseOrDryRun(e)
  \/ ExchangeAccepts(e)
  \/ SubmitFails(e)
  \/ RecordExecution(e)
  \/ ReplyLost(e)
  \/ NewRiskConfig(e)

RailsNext == Midnight \/ \E e \in Executors : RailsStep(e)

\* What may happen to the counters: any executor is held to this.
RailsSafety == RailsInit /\ [][RailsNext]_railsVars

-----------------------------------------------------------------------------
(* Properties *)

\* Whatever midnight cuts through, the orders the exchange took today from one
\* RiskConfig pass its daily limits by the orders whose reply was lost and by no
\* more, though each of those may have been placed again: the validated order is
\* covered by the counters of the day it is taken on, not only by those of the
\* day it was validated on.
DailyLimitsHold ==
  \A e \in Executors :
    /\ takenTrades[e] - lostTrades[e] <= MaxDailyTrades
    /\ takenOutlay[e] - lostOutlay[e] <= MaxDailyOutlay
=============================================================================
