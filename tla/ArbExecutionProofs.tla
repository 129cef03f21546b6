------------------------- MODULE ArbExecutionProofs -------------------------
(***************************************************************************)
(* The daily limits of RiskRails, for any number of executors, any limits  *)
(* and any outlays; that ArbExecution, whatever prices it meets, keeps to  *)
(* the rails, so that the limits hold of what it places; that the stakes   *)
(* it scales fit the limits they are then checked against; and that a      *)
(* dutch placed in full wins the margin asked for.                         *)
(***************************************************************************)
EXTENDS ArbExecution, WellFoundedInduction, TLAPS

USE DEF RailsPc

\* Every variable keeps its type.
THEOREM RailsTypeCorrect == RailsSafety => []RailsTypeOK
<1>1. RailsInit => RailsTypeOK
  BY RailsAssumption DEF RailsInit, RailsTypeOK
<1>2. RailsTypeOK /\ [RailsNext]_railsVars => RailsTypeOK'
  <2> SUFFICES ASSUME RailsTypeOK, [RailsNext]_railsVars PROVE RailsTypeOK'
    OBVIOUS
  <2> USE RailsAssumption DEF RailsTypeOK, TradesToday, OutlayToday, takenVars, countVars
  <2>1. CASE Midnight
    BY <2>1 DEF Midnight
  <2>2. ASSUME NEW e \in Executors, RailsStep(e) PROVE RailsTypeOK'
    <3>0. /\ TradesToday(e) \in Nat
          /\ OutlayToday(e) \in Nat
          /\ amount[e] \in Nat
      OBVIOUS
    <3>1. ASSUME NEW a \in Outlays, Validate(e, a) PROVE RailsTypeOK'
      BY <3>0, <3>1 DEF Validate, RollDay
    <3>2. CASE RefuseOrDryRun(e)
      BY <3>0, <3>2 DEF RefuseOrDryRun, RollDay
    <3>3. CASE ExchangeAccepts(e)
      BY <3>0, <3>3 DEF ExchangeAccepts
    <3>4. CASE SubmitFails(e)
      BY <3>4 DEF SubmitFails
    <3>5. CASE RecordExecution(e)
      BY <3>0, <3>5 DEF RecordExecution
    <3>6. CASE ReplyLost(e)
      BY <3>0, <3>6 DEF ReplyLost
    <3>7. CASE NewRiskConfig(e)
      BY <3>7 DEF NewRiskConfig
    <3> QED BY <2>2, <3>1, <3>2, <3>3, <3>4, <3>5, <3>6, <3>7 DEF RailsStep
  <2>3. CASE UNCHANGED railsVars
    BY <2>3 DEF railsVars
  <2> QED BY <2>1, <2>2, <2>3 DEF RailsNext
<1> QED BY <1>1, <1>2, PTL DEF RailsSafety

\* What was taken today from e's RiskConfig is covered by its counters, by the
\* order now in flight, or by a lost reply.
Covered(e) ==
  /\ takenTrades[e] - lostTrades[e]
       <= TradesToday(e) + (IF xpc[e] = "sent" THEN 1 ELSE 0)
  /\ takenOutlay[e] - lostOutlay[e]
       <= OutlayToday(e) + (IF xpc[e] = "sent" THEN amount[e] ELSE 0)

\* The counters are within the limits, with room for an order in flight.
Room(e) ==
  /\ trades[e] <= MaxDailyTrades
  /\ outlay[e] <= MaxDailyOutlay
  /\ xpc[e] # "idle" => /\ trades[e] + 1 <= MaxDailyTrades
                        /\ outlay[e] + amount[e] <= MaxDailyOutlay

RailsInv == \A e \in Executors : Covered(e) /\ Room(e)

\* Counters that are covered and have room keep what is taken to the limits.
LEMMA CoveredWithinLimits == RailsTypeOK /\ RailsInv => DailyLimitsHold
<1> SUFFICES ASSUME RailsTypeOK, RailsInv, NEW e \in Executors
             PROVE  /\ takenTrades[e] - lostTrades[e] <= MaxDailyTrades
                    /\ takenOutlay[e] - lostOutlay[e] <= MaxDailyOutlay
  BY DEF DailyLimitsHold
<1>1. Covered(e) /\ Room(e)
  BY DEF RailsInv
<1>2. /\ trades[e] \in Nat /\ outlay[e] \in Nat /\ amount[e] \in Nat
      /\ takenTrades[e] \in Nat /\ lostTrades[e] \in Nat
      /\ takenOutlay[e] \in Nat /\ lostOutlay[e] \in Nat
  BY DEF RailsTypeOK
<1>3. TradesToday(e) \in 0 .. trades[e] /\ OutlayToday(e) \in 0 .. outlay[e]
  BY <1>2 DEF TradesToday, OutlayToday
<1>4. CASE xpc[e] = "sent"
  <2>1. /\ takenTrades[e] - lostTrades[e] <= TradesToday(e) + 1
        /\ takenOutlay[e] - lostOutlay[e] <= OutlayToday(e) + amount[e]
    BY <1>1, <1>4 DEF Covered
  <2>2. trades[e] + 1 <= MaxDailyTrades /\ outlay[e] + amount[e] <= MaxDailyOutlay
    BY <1>1, <1>4 DEF Room
  <2> QED BY <2>1, <2>2, <1>2, <1>3, RailsAssumption
<1>5. CASE xpc[e] # "sent"
  <2>1. /\ takenTrades[e] - lostTrades[e] <= TradesToday(e)
        /\ takenOutlay[e] - lostOutlay[e] <= OutlayToday(e)
    BY <1>1, <1>2, <1>3, <1>5 DEF Covered
  <2> QED BY <2>1, <1>1, <1>2, <1>3, RailsAssumption DEF Room
<1> QED BY <1>4, <1>5

\* A step of one executor keeps its own counters covered and leaves the others'
\* as they are.
LEMMA RailsStepCovers ==
  ASSUME RailsTypeOK, RailsTypeOK', RailsInv,
         NEW e \in Executors, NEW f \in Executors, RailsStep(e)
  PROVE  Covered(f)' /\ Room(f)'
<1> USE RailsAssumption
    DEF RailsTypeOK, RailsInv, Covered, Room, TradesToday, OutlayToday,
        takenVars, countVars
<1>1. ASSUME NEW a \in Outlays, Validate(e, a) PROVE Covered(f)' /\ Room(f)'
  <2>1. CASE f = e
    BY <1>1, <2>1 DEF Validate, RollDay, WithinDay
  <2>2. CASE f # e
    BY <1>1, <2>2 DEF Validate, RollDay
  <2> QED BY <2>1, <2>2
<1>2. CASE RefuseOrDryRun(e)
  <2>1. CASE f = e
    BY <1>2, <2>1 DEF RefuseOrDryRun, RollDay
  <2>2. CASE f # e
    BY <1>2, <2>2 DEF RefuseOrDryRun, RollDay
  <2> QED BY <2>1, <2>2
<1>3. CASE ExchangeAccepts(e)
  <2>1. CASE f = e
    <3>1. /\ xpc[e] = "submit" /\ xpc'[e] = "sent" /\ trades' = trades /\ outlay' = outlay
          /\ stale' = stale /\ amount' = amount
          /\ lostTrades' = lostTrades /\ lostOutlay' = lostOutlay
      BY <1>3 DEF ExchangeAccepts
    <3>2. takenTrades'[e] = takenTrades[e] + 1 /\ takenOutlay'[e] = takenOutlay[e] + amount[e]
      BY <1>3 DEF ExchangeAccepts
    <3>3. Covered(e)'
      BY <3>1, <3>2
    <3>4. Room(e)'
      BY <3>1
    <3> QED BY <2>1, <3>3, <3>4
  <2>2. CASE f # e
    BY <1>3, <2>2 DEF ExchangeAccepts
  <2> QED BY <2>1, <2>2
<1>4. CASE SubmitFails(e)
  BY <1>4 DEF SubmitFails
<1>5. CASE RecordExecution(e)
  <2>1. CASE f = e
    BY <1>5, <2>1 DEF RecordExecution
  <2>2. CASE f # e
    BY <1>5, <2>2 DEF RecordExecution
  <2> QED BY <2>1, <2>2
<1>6. CASE ReplyLost(e)
  <2>1. CASE f = e
    BY <1>6, <2>1 DEF ReplyLost
  <2>2. CASE f # e
    BY <1>6, <2>2 DEF ReplyLost
  <2> QED BY <2>1, <2>2
<1>7. CASE NewRiskConfig(e)
  BY <1>7 DEF NewRiskConfig
<1> QED BY <1>1, <1>2, <1>3, <1>4, <1>5, <1>6, <1>7 DEF RailsStep

\* Midnight forgets what was taken; an order then in flight is covered by the
\* day it is recorded on.
LEMMA MidnightCovers ==
  ASSUME RailsTypeOK, RailsInv, Midnight, NEW f \in Executors
  PROVE  Covered(f)' /\ Room(f)'
<1>1. Room(f) /\ xpc[f] \in RailsPc
  BY DEF RailsTypeOK, RailsInv
<1>2. /\ xpc'[f] # "sent" /\ stale'[f] = TRUE
      /\ (xpc'[f] = "idle") <=> (xpc[f] = "idle")
  BY <1>1 DEF Midnight
<1>3. Covered(f)'
  <2>1. /\ takenTrades'[f] = 0 /\ lostTrades'[f] = 0
        /\ takenOutlay'[f] = 0 /\ lostOutlay'[f] = 0
    BY DEF Midnight
  <2>2. TradesToday(f)' = 0 /\ OutlayToday(f)' = 0
    BY <1>2 DEF TradesToday, OutlayToday
  <2> QED BY <2>1, <2>2, <1>2 DEF Covered
<1>4. Room(f)'
  <2>1. trades' = trades /\ outlay' = outlay /\ amount' = amount
    BY DEF Midnight
  <2> QED BY <2>1, <1>1, <1>2 DEF Room
<1> QED BY <1>3, <1>4

LEMMA RailsInvariant == RailsSafety => [](RailsTypeOK /\ RailsInv)
<1>1. RailsInit => RailsInv
  <2> SUFFICES ASSUME RailsInit, NEW e \in Executors PROVE Covered(e) /\ Room(e)
    BY DEF RailsInv
  <2>1. /\ trades[e] = 0 /\ outlay[e] = 0 /\ stale[e] = FALSE /\ xpc[e] = "idle"
        /\ takenTrades[e] = 0 /\ lostTrades[e] = 0
        /\ takenOutlay[e] = 0 /\ lostOutlay[e] = 0
    BY DEF RailsInit
  <2>2. TradesToday(e) = 0 /\ OutlayToday(e) = 0
    BY <2>1 DEF TradesToday, OutlayToday
  <2> QED BY <2>1, <2>2, RailsAssumption DEF Covered, Room
<1>2. RailsTypeOK /\ RailsTypeOK' /\ RailsInv /\ [RailsNext]_railsVars => RailsInv'
  <2>1. ASSUME UNCHANGED railsVars, RailsInv PROVE RailsInv'
    BY <2>1
    DEF railsVars, countVars, takenVars, RailsInv, Covered, Room, TradesToday, OutlayToday
  <2>2. ASSUME RailsTypeOK, RailsTypeOK', RailsInv, RailsNext PROVE RailsInv'
    BY <2>2, RailsStepCovers, MidnightCovers DEF RailsNext, RailsInv
  <2> QED BY <2>1, <2>2
<1>3. RailsSafety => []RailsTypeOK
  BY RailsTypeCorrect
<1> QED BY <1>1, <1>2, <1>3, PTL DEF RailsSafety

\* The orders the exchange took today from one RiskConfig keep to its daily
\* limits but for those whose reply was lost, whatever midnight cuts through.
THEOREM RailsDailyLimitsHold == RailsSafety => []DailyLimitsHold
BY RailsInvariant, CoveredWithinLimits, PTL

-----------------------------------------------------------------------------
(* The executors *)

\* A deal an executor comes to has an outlay the rails know.
LEMMA DealOutlayKnown ==
  ASSUME NEW e \in Executors, NEW d \in Deals[e]
  PROVE  Outlay(d.legs) \in Outlays
BY OutlaysAssumption DEF DealOutlays

\* What an executor holds is one of its deals.
HoldsDeals == /\ deal \in [Executors -> (UNION {Deals[e] : e \in Executors}) \cup {NoDeal}]
              /\ \A e \in Executors : deal[e] \in Deals[e] \cup {NoDeal}

LEMMA HoldsDealsInvariant == Spec => []HoldsDeals
<1>1. Init => HoldsDeals
  BY DEF Init, HoldsDeals
<1>2. HoldsDeals /\ [Next]_vars => HoldsDeals'
  <2> SUFFICES ASSUME HoldsDeals, [Next]_vars PROVE HoldsDeals'
    OBVIOUS
  <2>1. ASSUME NEW e \in Executors, TakeUp(e) PROVE HoldsDeals'
    <3>1. PICK d \in Deals[e] : deal' = [deal EXCEPT ![e] = d]
      BY <2>1 DEF TakeUp
    <3>2. QED
      BY <3>1 DEF HoldsDeals
  <2>2. ASSUME NEW e \in Executors, deal' = [deal EXCEPT ![e] = NoDeal] PROVE HoldsDeals'
    BY <2>2 DEF HoldsDeals
  <2>3. CASE UNCHANGED deal
    BY <2>3 DEF HoldsDeals
  <2>4. ASSUME NEW e \in Executors, Step(e)
        PROVE  TakeUp(e) \/ deal' = [deal EXCEPT ![e] = NoDeal] \/ UNCHANGED deal
    BY <2>4 DEF Step, Place, Decline, Accepted, Rejected, Recorded, LostReply, Restart, Clear
  <2>5. QED
    BY <2>1, <2>2, <2>3, <2>4 DEF Next, DayEnds, vars
<1>3. QED
  BY <1>1, <1>2, PTL DEF Spec

\* The executors do to the rails what the rails' specification lets them do, so
\* that what is proved of it holds of them.
LEMMA ExecutionKeepsRails == Spec => RailsSafety
<1>1. Init => RailsInit
  BY DEF Init
<1>2. HoldsDeals /\ [Next]_vars => [RailsNext]_railsVars
  <2> SUFFICES ASSUME HoldsDeals, Next PROVE RailsNext \/ UNCHANGED railsVars
    BY DEF vars
  <2>1. CASE DayEnds
    BY <2>1 DEF DayEnds, RailsNext
  <2>2. ASSUME NEW e \in Executors, Step(e) PROVE RailsStep(e) \/ UNCHANGED railsVars
    <3>1. CASE TakeUp(e)
      BY <3>1 DEF TakeUp, RailsStep
    <3>2. CASE Place(e)
      <4>1. deal[e] \in Deals[e]
        BY <3>2 DEF Place, HoldsDeals
      <4>2. Outlay(deal[e].legs) \in Outlays
        BY <4>1, DealOutlayKnown
      <4>3. QED
        BY <3>2, <4>2 DEF Place, RailsStep
    <3>3. CASE Restart(e)
      BY <3>3 DEF Restart, RailsStep
    <3>4. QED
      BY <2>2, <3>1, <3>2, <3>3 DEF Step, Decline, Accepted, Rejected, Recorded, LostReply, RailsStep
  <2>3. QED
    BY <2>1, <2>2 DEF Next, RailsNext
<1>3. QED
  BY <1>1, <1>2, HoldsDealsInvariant, PTL DEF Spec, RailsSafety

\* The daily limits hold of what the executors place.
THEOREM ExecutionDailyLimitsHold == Spec => []DailyLimitsHold
BY ExecutionKeepsRails, RailsDailyLimitsHold

\* Every variable keeps its type, and an order on its way is for the outlay of
\* the deal its executor holds.
THEOREM ExecutionTypeCorrect == Spec => []ExecutionTypeOK
<1> DEFINE Amounts == \A e \in Executors :
                        amount[e] = IF xpc[e] = "idle" THEN 0 ELSE Outlay(deal[e].legs)
           Inv == live \in [Executors -> BOOLEAN] /\ Amounts
<1>1. Init => Inv
  BY DEF Init, RailsInit
<1>2. RailsTypeOK /\ HoldsDeals /\ Inv /\ [Next]_vars => Inv'
  <2> SUFFICES ASSUME RailsTypeOK, HoldsDeals, Inv, [Next]_vars PROVE Inv'
    OBVIOUS
  <2> USE DEF RailsTypeOK, HoldsDeals, RailsPc
  <2>1. CASE DayEnds
    BY <2>1 DEF DayEnds, Midnight
  <2>2. ASSUME NEW e \in Executors, Step(e) PROVE Inv'
    <3>1. CASE TakeUp(e)
      BY <3>1 DEF TakeUp, NewRiskConfig, railsVars, countVars, takenVars
    <3>2. CASE Place(e)
      BY <3>2 DEF Place, Validate
    <3>3. CASE Decline(e)
      BY <3>3 DEF Decline, RefuseOrDryRun, Clear
    <3>4. CASE Accepted(e)
      BY <3>4 DEF Accepted, ExchangeAccepts
    <3>5. CASE Rejected(e)
      BY <3>5 DEF Rejected, SubmitFails, Clear
    <3>6. CASE Recorded(e)
      BY <3>6 DEF Recorded, RecordExecution, Clear
    <3>7. CASE LostReply(e)
      BY <3>7 DEF LostReply, ReplyLost, Clear
    <3>8. CASE Restart(e)
      <4>1. live' \in [Executors -> BOOLEAN]
        BY <3>8 DEF Restart
      <4>2. Amounts'
        BY <3>8 DEF Restart, NewRiskConfig
      <4>3. QED
        BY <4>1, <4>2
    <3>9. QED
      BY <2>2, <3>1, <3>2, <3>3, <3>4, <3>5, <3>6, <3>7, <3>8 DEF Step
  <2>3. CASE UNCHANGED vars
    BY <2>3 DEF vars, railsVars, countVars, takenVars
  <2>4. QED
    BY <2>1, <2>2, <2>3 DEF Next
<1>3. RailsTypeOK /\ HoldsDeals /\ Inv => ExecutionTypeOK
  BY DEF HoldsDeals, ExecutionTypeOK
<1>4. Spec => []RailsTypeOK
  BY ExecutionKeepsRails, RailsTypeCorrect
<1>5. QED
  BY <1>1, <1>2, <1>3, <1>4, HoldsDealsInvariant, PTL DEF Spec

-----------------------------------------------------------------------------
(* Stakes: sums and products over at most three legs, and rounding. *)

\* What index x adds to a sum over s ...
Part(f, s, x) == IF x \in s THEN f[x] ELSE 0

\* A sum over a part of three indices is the sum of its parts: the fold of the
\* community modules unfolds, whatever order it chooses.
LEMMA SumOfThree ==
  ASSUME NEW a, NEW b, NEW c, a # b, a # c, b # c,
         NEW f, NEW D \in SUBSET {a, b, c}, \A x \in D : f[x] \in Int
  PROVE  SumFunctionOnSet(f, D) = Part(f, D, a) + Part(f, D, b) + Part(f, D, c)
<1> DEFINE Any(s) == CHOOSE x \in s : TRUE
           Total(s) == Part(f, s, a) + Part(f, s, b) + Part(f, s, c)
           Sums(g) == g = [s \in SUBSET D |->
                                 IF s = {} THEN 0
                                 ELSE f[Any(s)] + g[s \ {Any(s)}]]
           iter == CHOOSE g : Sums(g)
<1>1. SumFunctionOnSet(f, D) = iter[D]
  BY DEF SumFunctionOnSet, FoldFunctionOnSet, MapThenFoldSet
<1>2. \A s \in SUBSET D : \A x \in s : Total(s) = f[x] + Total(s \ {x})
  BY DEF Part
<1>3. Total({}) = 0
  BY DEF Part
<1>4. \A s \in SUBSET D : s # {} => Any(s) \in s
  OBVIOUS
<1> HIDE DEF Any, Total
<1>5. Sums(iter)
  <2> DEFINE g == [s \in SUBSET D |-> Total(s)]
  <2>1. ASSUME NEW s \in SUBSET D
        PROVE  g[s] = IF s = {} THEN 0 ELSE f[Any(s)] + g[s \ {Any(s)}]
    BY <1>2, <1>3, <1>4
  <2>2. Sums(g)
    BY <2>1
  <2> QED BY <2>2
<1> HIDE DEF iter
<1>6. iter[{}] = Total({})
  BY <1>3, <1>5
<1>7. ASSUME NEW s \in SUBSET D, s # {}, \A x \in s : iter[s \ {x}] = Total(s \ {x})
      PROVE  iter[s] = Total(s)
  <2>1. iter[s] = f[Any(s)] + iter[s \ {Any(s)}]
    BY <1>5, <1>7
  <2> QED BY <2>1, <1>2, <1>4, <1>7
<1>8. \A p : \A s \in SUBSET D : s \subseteq {p} => iter[s] = Total(s)
  <2> SUFFICES ASSUME NEW p, NEW s \in SUBSET D, s \subseteq {p}, s # {}
               PROVE  iter[s] = Total(s)
    BY <1>6
  <2>1. \A x \in s : s \ {x} = {}
    OBVIOUS
  <2> QED BY <2>1, <1>6, <1>7
<1>9. \A p, q : \A s \in SUBSET D : s \subseteq {p, q} => iter[s] = Total(s)
  <2> SUFFICES ASSUME NEW p, NEW q, NEW s \in SUBSET D, s \subseteq {p, q}, s # {}
               PROVE  iter[s] = Total(s)
    BY <1>6
  <2>1. \A x \in s : s \ {x} \in SUBSET D /\ (s \ {x} \subseteq {p} \/ s \ {x} \subseteq {q})
    OBVIOUS
  <2>2. \A x \in s : iter[s \ {x}] = Total(s \ {x})
    BY <2>1, <1>8
  <2> QED BY <2>2, <1>7
<1>10. iter[D] = Total(D)
  <2>1. ASSUME NEW x \in D
        PROVE  /\ D \ {x} \in SUBSET D
               /\ \/ D \ {x} \subseteq {a, b}
                  \/ D \ {x} \subseteq {a, c}
                  \/ D \ {x} \subseteq {b, c}
    OBVIOUS
  <2>2. \A x \in D : iter[D \ {x}] = Total(D \ {x})
    BY <2>1, <1>9
  <2> QED BY <2>2, <1>6, <1>7
<1> QED BY <1>1, <1>10 DEF Total

\* Division of naturals rounds down.
LEMMA DivBounds ==
  ASSUME NEW n \in Nat, NEW k \in Nat \ {0}
  PROVE  /\ n \div k \in Nat
         /\ k * (n \div k) <= n
         /\ n < k * (n \div k) + k
<1>1. n \div k \in Nat
  BY Z3
<1>2. k * (n \div k) <= n
  BY Z3
<1>3. n < k * (n \div k) + k
  BY Z3
<1> QED BY <1>1, <1>2, <1>3

\* A rounded quotient is a half off at most.
LEMMA RoundDivBounds ==
  ASSUME NEW a \in Nat, NEW b \in Nat \ {0}
  PROVE  /\ RoundDiv(a, b) \in Nat
         /\ 2 * (b * RoundDiv(a, b)) <= 2 * a + b
         /\ 2 * a <= 2 * (b * RoundDiv(a, b)) + b
<1> DEFINE q == (2 * a + b) \div (2 * b)
<1>1. 2 * a + b \in Nat /\ 2 * b \in Nat \ {0}
  OBVIOUS
<1>2. q \in Nat /\ (2 * b) * q <= 2 * a + b /\ 2 * a + b < (2 * b) * q + 2 * b
  BY <1>1, DivBounds
<1> HIDE DEF q
<1>3. (2 * b) * q = 2 * (b * q) /\ b * q \in Int
  BY <1>2
<1> DEFINE bq == b * q
<1>4. bq \in Int
  BY <1>3
<1>5. 2 * bq <= 2 * a + b /\ 2 * a + b < 2 * bq + 2 * b
  BY <1>2, <1>3
<1> HIDE DEF bq
<1>6. 2 * bq <= 2 * a + b /\ 2 * a <= 2 * bq + b
  BY <1>4, <1>5
<1> QED BY <1>2, <1>6 DEF RoundDiv, q, bq

\* A common factor is cancelled from an order.
LEMMA CancelFactor ==
  ASSUME NEW d \in Nat \ {0}, NEW p \in Int, NEW q \in Int, d * p <= d * q
  PROVE  p <= q
<1> SUFFICES ASSUME q < p PROVE FALSE
  OBVIOUS
<1>1. d * q < d * p
  OBVIOUS
<1> QED BY <1>1

\* A leg, as the model keeps it.
LegType == [market : Outcomes, odds : Nat \ {0}, side : {"back", "lay"},
            exchange : BOOLEAN, runner : Nat, stake : Nat]

\* The outlay of up to three legs is a number of pence, each leg's a part of it.
LEMMA OutlayOfThree ==
  ASSUME NEW a, NEW b, NEW c, a # b, a # c, b # c,
         NEW D \in SUBSET {a, b, c}, NEW legs \in [D -> LegType]
  PROVE  /\ Outlay(legs) \in Nat
         /\ \A x \in D : legs[x].stake <= Outlay(legs)
         /\ Outlay(legs) = Part(StakesOf(legs), D, a) + Part(StakesOf(legs), D, b)
                             + Part(StakesOf(legs), D, c)
<1> DEFINE f == StakesOf(legs)
<1>1. DOMAIN f = D /\ \A x \in D : f[x] = legs[x].stake /\ f[x] \in Nat
  BY DEF StakesOf, LegType
<1> HIDE DEF f
<1>2. Outlay(legs) = Part(f, D, a) + Part(f, D, b) + Part(f, D, c)
  <2>1. SumFunctionOnSet(f, D) = Part(f, D, a) + Part(f, D, b) + Part(f, D, c)
    BY <1>1, SumOfThree
  <2> QED BY <2>1, <1>1 DEF Outlay, SumFunction, f
<1>3. /\ Part(f, D, a) \in Nat /\ Part(f, D, b) \in Nat /\ Part(f, D, c) \in Nat
      /\ \A x \in D : f[x] = Part(f, D, x)
  BY <1>1 DEF Part
<1> QED BY <1>1, <1>2, <1>3 DEF f

\* Scaling stakes by c / d, at most 1, that meets both caps, rounds them to stakes
\* that fit: a rounding adds half a penny to each of three legs at most.
LEMMA ScaledStakesFit ==
  ASSUME NEW u, NEW v, NEW w, u # v, u # w, v # w,
         NEW D \in SUBSET {u, v, w}, NEW legs \in [D -> LegType],
         NEW c \in Nat \ {0}, NEW d \in Nat \ {0},
         NEW maxStake \in Nat, NEW maxOutlay \in Nat,
         \A x \in D : legs[x].stake * c <= maxStake * d,
         Outlay(legs) * c <= maxOutlay * d
  PROVE  LET scaled == ScaleStakes(legs, c, d)
         IN  /\ scaled \in [D -> LegType]
             /\ \A x \in D : scaled[x].stake <= maxStake
             /\ Outlay(scaled) <= maxOutlay + 1
<1> DEFINE scaled == ScaleStakes(legs, c, d)
           X(x) == Part(StakesOf(legs), D, x)
           Y(x) == Part(StakesOf(scaled), D, x)
<1>1. \A x \in D : /\ scaled[x] = [legs[x] EXCEPT !.stake = RoundDiv(legs[x].stake * c, d)]
                   /\ legs[x] \in LegType
  BY DEF ScaleStakes
<1>2. ASSUME NEW x \in D
      PROVE  /\ scaled[x].stake = RoundDiv(legs[x].stake * c, d)
             /\ legs[x].stake \in Nat
             /\ legs[x].stake * c \in Nat
  <2>1. legs[x].stake \in Nat /\ scaled[x].stake = RoundDiv(legs[x].stake * c, d)
    <3> HIDE DEF scaled
    <3> QED BY <1>1 DEF LegType
  <2> DEFINE z == legs[x].stake
  <2>2. z \in Nat
    BY <2>1
  <2> HIDE DEF z
  <2>3. z * c \in Nat
    BY <2>2
  <2> QED BY <2>1, <2>2, <2>3 DEF z
<1>3. ASSUME NEW x \in D
      PROVE  /\ scaled[x].stake \in Nat
             /\ 2 * (d * scaled[x].stake) <= 2 * (legs[x].stake * c) + d
  BY <1>2, RoundDivBounds
<1>4. scaled \in [D -> LegType]
  <2>1. ASSUME NEW x \in D PROVE scaled[x] \in LegType
    BY <1>1, <1>3 DEF LegType
  <2> QED BY <2>1 DEF ScaleStakes
<1>5. ASSUME NEW x \in D PROVE scaled[x].stake <= maxStake
  <2> DEFINE y == scaled[x].stake
             z == legs[x].stake * c
  <2>1. y \in Nat /\ z \in Nat /\ z <= maxStake * d /\ 2 * (d * y) <= 2 * z + d
    BY <1>2, <1>3
  <2> HIDE DEF y, z
  <2>2. d * (2 * y) <= d * (2 * maxStake + 1)
    <3>1. d * (2 * y) = 2 * (d * y) /\ d * (2 * maxStake + 1) = 2 * (maxStake * d) + d
      BY <2>1
    <3> DEFINE dy == d * y
               md == maxStake * d
    <3>2. dy \in Int /\ md \in Int
      BY <2>1
    <3> HIDE DEF dy, md
    <3>3. 2 * dy <= 2 * md + d
      BY <2>1, <3>2 DEF dy, md
    <3> QED BY <3>1, <3>3 DEF dy, md
  <2>3. 2 * y <= 2 * maxStake + 1
    BY <2>1, <2>2, CancelFactor
  <2>4. y <= maxStake
    BY <2>1, <2>3
  <2> QED BY <2>4 DEF y
<1>6. ASSUME NEW x \in {u, v, w}
      PROVE  X(x) \in Nat /\ Y(x) \in Nat /\ 2 * (d * Y(x)) <= 2 * (X(x) * c) + d
  <2>1. CASE x \in D
    <3>1. X(x) = legs[x].stake /\ Y(x) = scaled[x].stake
      BY <2>1, <1>4 DEF Part, StakesOf
    <3> QED BY <3>1, <2>1, <1>2, <1>3
  <2>2. CASE x \notin D
    BY <2>2 DEF Part
  <2> QED BY <2>1, <2>2
<1>7. /\ Outlay(legs) = X(u) + X(v) + X(w)
      /\ Outlay(scaled) = Y(u) + Y(v) + Y(w)
      /\ Outlay(legs) \in Nat
      /\ Outlay(scaled) \in Nat
  <2> HIDE DEF scaled
  <2>1. Outlay(legs) \in Nat
    BY OutlayOfThree
  <2>2. Outlay(legs) = X(u) + X(v) + X(w)
    BY OutlayOfThree
  <2>3. Outlay(scaled) \in Nat
    BY <1>4, OutlayOfThree
  <2>4. Outlay(scaled) = Y(u) + Y(v) + Y(w)
    BY <1>4, OutlayOfThree
  <2> QED BY <2>1, <2>2, <2>3, <2>4
<1> HIDE DEF X, Y, scaled
<1> DEFINE all == Outlay(legs)
           sum == Outlay(scaled)
<1>8. 2 * (d * sum) <= 2 * (all * c) + 3 * d
  <2>1. /\ d * sum = d * Y(u) + d * Y(v) + d * Y(w)
        /\ all * c = X(u) * c + X(v) * c + X(w) * c
    BY <1>6, <1>7
  <2> DEFINE yu == d * Y(u)
             yv == d * Y(v)
             yw == d * Y(w)
             xu == X(u) * c
             xv == X(v) * c
             xw == X(w) * c
  <2>2. /\ yu \in Int /\ yv \in Int /\ yw \in Int
        /\ xu \in Int /\ xv \in Int /\ xw \in Int
        /\ 2 * yu <= 2 * xu + d /\ 2 * yv <= 2 * xv + d /\ 2 * yw <= 2 * xw + d
    BY <1>6
  <2>3. d * sum = yu + yv + yw /\ all * c = xu + xv + xw
    BY <2>1
  <2> HIDE DEF yu, yv, yw, xu, xv, xw
  <2> QED BY <2>2, <2>3
<1>9. d * (2 * sum) <= d * (2 * maxOutlay + 3)
  <2> HIDE DEF sum, all
  <2>0. sum \in Nat /\ all \in Nat /\ all * c <= maxOutlay * d
    BY <1>7 DEF sum, all
  <2>1. d * (2 * sum) = 2 * (d * sum) /\ d * (2 * maxOutlay + 3) = 2 * (maxOutlay * d) + 3 * d
    BY <2>0
  <2> DEFINE ds == d * sum
             ac == all * c
             md == maxOutlay * d
  <2>2. ds \in Int /\ ac \in Int /\ md \in Int
    BY <2>0
  <2>3. 2 * ds <= 2 * ac + 3 * d /\ ac <= md
    BY <1>8, <2>0
  <2> HIDE DEF ds, ac, md
  <2>4. 2 * ds <= 2 * md + 3 * d
    BY <2>2, <2>3
  <2> QED BY <2>1, <2>4 DEF ds, md
<1>10. 2 * sum <= 2 * maxOutlay + 3
  BY <1>7, <1>9, CancelFactor
<1>11. sum <= maxOutlay + 1
  BY <1>7, <1>10
<1> QED BY <1>4, <1>5, <1>11 DEF scaled

\* ... and what it multiplies a product over s by.
Factor(f, s, x) == IF x \in s THEN f[x] ELSE 1

\* A product over a part of three indices, likewise.
LEMMA ProductOfThree ==
  ASSUME NEW a, NEW b, NEW c, a # b, a # c, b # c,
         NEW f, NEW D \in SUBSET {a, b, c}, \A x \in D : f[x] \in Int
  PROVE  ProductOn(f, D) = Factor(f, D, a) * Factor(f, D, b) * Factor(f, D, c)
<1> DEFINE Any(s) == CHOOSE x \in s : TRUE
           Total(s) == Factor(f, s, a) * Factor(f, s, b) * Factor(f, s, c)
           Products(g) == g = [s \in SUBSET D |->
                                 IF s = {} THEN 1
                                 ELSE f[Any(s)] * g[s \ {Any(s)}]]
           iter == CHOOSE g : Products(g)
<1>1. ProductOn(f, D) = iter[D]
  BY DEF ProductOn, FoldFunctionOnSet, MapThenFoldSet
<1>2. \A s \in SUBSET D : \A x \in s : Total(s) = f[x] * Total(s \ {x})
  <2> SUFFICES ASSUME NEW s \in SUBSET D, NEW x \in s
               PROVE  Total(s) = f[x] * Total(s \ {x})
    OBVIOUS
  <2>1. /\ Factor(f, s, a) \in Int /\ Factor(f, s, b) \in Int /\ Factor(f, s, c) \in Int
        /\ f[x] \in Int
    BY DEF Factor
  <2>2. \A y : /\ y # x => Factor(f, s \ {x}, y) = Factor(f, s, y)
               /\ y = x => Factor(f, s \ {x}, y) = 1 /\ Factor(f, s, y) = f[x]
    BY DEF Factor
  <2>3. CASE x = a
    <3>1. /\ Factor(f, s, a) = f[x] /\ Factor(f, s \ {x}, a) = 1
          /\ Factor(f, s \ {x}, b) = Factor(f, s, b)
          /\ Factor(f, s \ {x}, c) = Factor(f, s, c)
      BY <2>2, <2>3
    <3> QED BY <2>1, <3>1
  <2>4. CASE x = b
    <3>1. /\ Factor(f, s, b) = f[x] /\ Factor(f, s \ {x}, b) = 1
          /\ Factor(f, s \ {x}, a) = Factor(f, s, a)
          /\ Factor(f, s \ {x}, c) = Factor(f, s, c)
      BY <2>2, <2>4
    <3> QED BY <2>1, <3>1
  <2>5. CASE x = c
    <3>1. /\ Factor(f, s, c) = f[x] /\ Factor(f, s \ {x}, c) = 1
          /\ Factor(f, s \ {x}, a) = Factor(f, s, a)
          /\ Factor(f, s \ {x}, b) = Factor(f, s, b)
      BY <2>2, <2>5
    <3> QED BY <2>1, <3>1
  <2> QED BY <2>3, <2>4, <2>5
<1>3. Total({}) = 1
  BY DEF Factor
<1>4. \A s \in SUBSET D : s # {} => Any(s) \in s
  OBVIOUS
<1> HIDE DEF Any, Total
<1>5. Products(iter)
  <2> DEFINE g == [s \in SUBSET D |-> Total(s)]
  <2>1. ASSUME NEW s \in SUBSET D
        PROVE  g[s] = IF s = {} THEN 1 ELSE f[Any(s)] * g[s \ {Any(s)}]
    BY <1>2, <1>3, <1>4
  <2>2. Products(g)
    BY <2>1
  <2> QED BY <2>2
<1> HIDE DEF iter
<1>6. iter[{}] = Total({})
  BY <1>3, <1>5
<1>7. ASSUME NEW s \in SUBSET D, s # {}, \A x \in s : iter[s \ {x}] = Total(s \ {x})
      PROVE  iter[s] = Total(s)
  <2>1. iter[s] = f[Any(s)] * iter[s \ {Any(s)}]
    BY <1>5, <1>7
  <2> QED BY <2>1, <1>2, <1>4, <1>7
<1>8. \A p : \A s \in SUBSET D : s \subseteq {p} => iter[s] = Total(s)
  <2> SUFFICES ASSUME NEW p, NEW s \in SUBSET D, s \subseteq {p}, s # {}
               PROVE  iter[s] = Total(s)
    BY <1>6
  <2>1. \A x \in s : s \ {x} = {}
    OBVIOUS
  <2> QED BY <2>1, <1>6, <1>7
<1>9. \A p, q : \A s \in SUBSET D : s \subseteq {p, q} => iter[s] = Total(s)
  <2> SUFFICES ASSUME NEW p, NEW q, NEW s \in SUBSET D, s \subseteq {p, q}, s # {}
               PROVE  iter[s] = Total(s)
    BY <1>6
  <2>1. \A x \in s : s \ {x} \in SUBSET D /\ (s \ {x} \subseteq {p} \/ s \ {x} \subseteq {q})
    OBVIOUS
  <2>2. \A x \in s : iter[s \ {x}] = Total(s \ {x})
    BY <2>1, <1>8
  <2> QED BY <2>2, <1>7
<1>10. iter[D] = Total(D)
  <2>1. ASSUME NEW x \in D
        PROVE  /\ D \ {x} \in SUBSET D
               /\ \/ D \ {x} \subseteq {a, b}
                  \/ D \ {x} \subseteq {a, c}
                  \/ D \ {x} \subseteq {b, c}
    OBVIOUS
  <2>2. \A x \in D : iter[D \ {x}] = Total(D \ {x})
    BY <2>1, <1>9
  <2> QED BY <2>2, <1>6, <1>7
<1> QED BY <1>1, <1>10 DEF Total

\* Positive numbers have a positive product.
LEMMA PositiveProduct ==
  ASSUME NEW x \in Nat \ {0}, NEW y \in Nat \ {0}
  PROVE  x * y \in Nat \ {0}
<1>1. x * y \in Int /\ x * y > 0
  OBVIOUS
<1> QED BY <1>1

\* The products that implied probabilities are kept as are positive.
LEMMA OddsOfThree ==
  ASSUME NEW a, NEW b, NEW c, a # b, a # c, b # c,
         NEW D \in SUBSET {a, b, c}, D # {},
         NEW odds, DOMAIN odds = D, \A x \in D : odds[x] \in Nat \ {0}
  PROVE  /\ \A x \in D : ProductOfOthers(odds, x) \in Nat \ {0}
         /\ SumOfProducts(odds) \in Nat \ {0}
<1>1. ASSUME NEW x \in D PROVE ProductOfOthers(odds, x) \in Nat \ {0}
  <2> DEFINE E == D \ {x}
  <2>1. E \in SUBSET {a, b, c} /\ \A y \in E : odds[y] \in Int
    OBVIOUS
  <2>2. ProductOn(odds, E) = Factor(odds, E, a) * Factor(odds, E, b) * Factor(odds, E, c)
    <3> HIDE DEF E
    <3> QED BY <2>1, ProductOfThree
  <2>3. /\ Factor(odds, E, a) \in Nat \ {0}
        /\ Factor(odds, E, b) \in Nat \ {0}
        /\ Factor(odds, E, c) \in Nat \ {0}
    BY DEF Factor
  <2>4. ProductOn(odds, E) \in Nat \ {0}
    <3> HIDE DEF E
    <3> QED BY <2>2, <2>3, PositiveProduct
  <2> QED BY <2>4 DEF ProductOfOthers
<1>2. SumOfProducts(odds) \in Nat \ {0}
  <2> DEFINE p == [i \in DOMAIN odds |-> ProductOfOthers(odds, i)]
  <2>1. DOMAIN p = D /\ \A x \in D : p[x] \in Nat \ {0}
    BY <1>1
  <2> HIDE DEF p
  <2>2. SumFunctionOnSet(p, D) = Part(p, D, a) + Part(p, D, b) + Part(p, D, c)
    BY <2>1, SumOfThree
  <2>3. /\ Part(p, D, a) \in Nat /\ Part(p, D, b) \in Nat /\ Part(p, D, c) \in Nat
        /\ Part(p, D, a) # 0 \/ Part(p, D, b) # 0 \/ Part(p, D, c) # 0
    BY <2>1 DEF Part
  <2>4. SumFunctionOnSet(p, D) \in Nat \ {0}
    BY <2>2, <2>3
  <2> QED BY <2>1, <2>4 DEF SumOfProducts, SumFunction, p
<1> QED BY <1>1, <1>2

\* Each leg's dutch stake is a number of pence.
LEMMA StakedLegs ==
  ASSUME NEW u, NEW v, NEW w, u # v, u # w, v # w,
         NEW D \in SUBSET {u, v, w}, D # {}, NEW legs \in [D -> LegType],
         NEW total \in Int
  PROVE  OptimalDutchStakes(legs, total) \in [D -> LegType]
<1>1. CASE total <= 0
  BY <1>1 DEF OptimalDutchStakes
<1>2. CASE total > 0
  <2> DEFINE odds == OddsOf(legs)
             P(x) == ProductOfOthers(odds, x)
             S == SumOfProducts(odds)
  <2>1. DOMAIN odds = D /\ \A x \in D : odds[x] \in Nat \ {0}
    BY DEF OddsOf, LegType
  <2> HIDE DEF odds
  <2>2. S \in Nat \ {0}
    BY <2>1, OddsOfThree
  <2>3. \A x \in D : P(x) \in Nat \ {0}
    BY <2>1, OddsOfThree
  <2> HIDE DEF P, S
  <2>4. ASSUME NEW x \in D PROVE RoundDiv(total * P(x), S) \in Nat
    <3>1. total * P(x) \in Nat
      BY <1>2, <2>3, PositiveProduct
    <3> QED BY <3>1, <2>2, RoundDivBounds
  <2>5. ASSUME NEW x \in D
        PROVE  [legs[x] EXCEPT !.stake = RoundDiv(total * P(x), S)] \in LegType
    BY <2>4 DEF LegType
  <2>6. [x \in D |-> [legs[x] EXCEPT !.stake = RoundDiv(total * P(x), S)]] \in [D -> LegType]
    BY <2>5
  <2>7. OptimalDutchStakes(legs, total)
          = [x \in D |-> [legs[x] EXCEPT !.stake = RoundDiv(total * P(x), S)]]
    BY <1>2 DEF OptimalDutchStakes, DutchStake, P, S, odds
  <2> QED BY <2>6, <2>7
<1> QED BY <1>1, <1>2

\* n is the highest value of f.
IsMost(f, n) == /\ \E x \in DOMAIN f : n = f[x]
                /\ \A x \in DOMAIN f : f[x] <= n

\* The highest of up to three stakes is one of them.
LEMMA MostOfThree ==
  ASSUME NEW a, NEW b, NEW c,
         NEW D \in SUBSET {a, b, c}, D # {}, NEW f, DOMAIN f = D, \A x \in D : f[x] \in Nat
  PROVE  IsMost(f, Max(Range(f)))
<1>1. Range(f) = {f[x] : x \in D}
  BY DEF Range
<1>2. \E x \in D : \A y \in D : f[x] >= f[y]
  <2> PICK p \in D : TRUE
    OBVIOUS
  <2> DEFINE Best(x, E) == x \in D /\ \A y \in D \cap E : f[x] >= f[y]
  <2>1. \E x : Best(x, {a})
    <3>1. CASE a \in D
      BY <3>1
    <3>2. CASE a \notin D
      BY <3>2
    <3> QED BY <3>1, <3>2
  <2>2. \E x : Best(x, {a, b})
    <3>1. PICK x : Best(x, {a})
      BY <2>1
    <3>2. CASE b \notin D \/ f[b] <= f[x]
      <4>1. Best(x, {a, b})
        BY <3>1, <3>2
      <4> QED BY <4>1
    <3>3. CASE b \in D /\ f[b] > f[x]
      <4>1. Best(b, {a, b})
        BY <3>1, <3>3
      <4> QED BY <4>1
    <3> QED BY <3>1, <3>2, <3>3
  <2>3. \E x : Best(x, {a, b, c})
    <3>1. PICK x : Best(x, {a, b})
      BY <2>2
    <3>2. CASE c \notin D \/ f[c] <= f[x]
      <4>1. Best(x, {a, b, c})
        BY <3>1, <3>2
      <4> QED BY <4>1
    <3>3. CASE c \in D /\ f[c] > f[x]
      <4>1. Best(c, {a, b, c})
        BY <3>1, <3>3
      <4> QED BY <4>1
    <3> QED BY <3>1, <3>2, <3>3
  <2> QED BY <2>3
<1>3. PICK x \in D : \A y \in D : f[x] >= f[y]
  BY <1>2
<1>4. f[x] \in Range(f) /\ \A y \in Range(f) : f[x] >= y
  BY <1>1, <1>3
<1>5. Max(Range(f)) \in Range(f) /\ \A y \in Range(f) : Max(Range(f)) >= y
  BY <1>4 DEF Max
<1>6. \A y \in D : f[y] <= Max(Range(f))
  BY <1>1, <1>5
<1> QED BY <1>1, <1>5, <1>6 DEF IsMost

\* An order is preserved by multiplying with naturals.
LEMMA TimesMonotone ==
  ASSUME NEW p \in Nat, NEW q \in Nat, NEW r \in Nat, NEW s \in Nat, p <= q, r <= s
  PROVE  p * r <= q * s
<1>1. p * r <= q * r /\ q * r <= q * s /\ p * r \in Int /\ q * r \in Int /\ q * s \in Int
  OBVIOUS
<1> QED BY <1>1

\* c / d is a factor _scale_stakes_to_risk may take: at most 1, and both caps met.
Factored(legs, c, d, maxStake, maxOutlay) ==
  /\ c <= d
  /\ ScaleStakesToRisk(legs, maxStake, maxOutlay) = ScaleStakes(legs, c, d)
  /\ \A x \in DOMAIN legs : legs[x].stake * c <= maxStake * d
  /\ Outlay(legs) * c <= maxOutlay * d

\* Stakes are scaled by one factor, or left, which scaling by 1 / 1 does.
LEMMA OneFactor ==
  ASSUME NEW u, NEW v, NEW w, u # v, u # w, v # w,
         NEW D \in SUBSET {u, v, w}, D # {}, NEW legs \in [D -> LegType],
         NEW maxStake \in Nat \ {0}, NEW maxOutlay \in Nat \ {0}
  PROVE  \E c, d \in Nat \ {0} : Factored(legs, c, d, maxStake, maxOutlay)
<1> DEFINE most == Max(Range(StakesOf(legs)))
           sum == Outlay(legs)
           legOver == most > maxStake
           sumOver == sum > maxOutlay
           Fit(c, d) == /\ \A x \in D : legs[x].stake * c <= maxStake * d
                        /\ sum * c <= maxOutlay * d
<1>0. \A x \in D : legs[x].stake \in Nat
  BY DEF LegType
<1>1. sum \in Nat /\ \A x \in D : legs[x].stake <= sum
  <2>1. sum \in Nat
    BY OutlayOfThree
  <2>2. \A x \in D : legs[x].stake <= sum
    BY OutlayOfThree
  <2> QED BY <2>1, <2>2
<1>2. most \in Nat /\ \A x \in D : legs[x].stake <= most
  <2> DEFINE f == StakesOf(legs)
  <2>1. DOMAIN f = D /\ \A x \in D : f[x] = legs[x].stake /\ f[x] \in Nat
    BY <1>0 DEF StakesOf
  <2> HIDE DEF f
  <2>2. IsMost(f, Max(Range(f)))
    BY <2>1, MostOfThree
  <2>3. Max(Range(f)) \in Nat /\ \A x \in D : legs[x].stake <= Max(Range(f))
    BY <2>1, <2>2 DEF IsMost
  <2> QED BY <2>3 DEF f
<1>3. ScaleStakesToRisk(legs, maxStake, maxOutlay)
        = IF sum <= 0 \/ ~(legOver \/ sumOver) THEN legs
          ELSE IF legOver /\ (sumOver => maxStake * sum <= maxOutlay * most)
               THEN ScaleStakes(legs, maxStake, most)
               ELSE ScaleStakes(legs, maxOutlay, sum)
  BY DEF ScaleStakesToRisk
<1> HIDE DEF most, sum
<1>4. CASE sum <= 0 \/ ~(legOver \/ sumOver)
  <2>1. ScaleStakes(legs, 1, 1) = legs
    <3>1. \A n \in Nat : RoundDiv(n * 1, 1) = n
      <4> SUFFICES ASSUME NEW n \in Nat PROVE RoundDiv(n, 1) = n
        OBVIOUS
      <4>1. /\ RoundDiv(n, 1) \in Nat
            /\ 2 * (1 * RoundDiv(n, 1)) <= 2 * n + 1
            /\ 2 * n <= 2 * (1 * RoundDiv(n, 1)) + 1
        BY RoundDivBounds
      <4> QED BY <4>1
    <3>2. ASSUME NEW x \in D PROVE [legs[x] EXCEPT !.stake = RoundDiv(legs[x].stake * 1, 1)] = legs[x]
      <4>1. RoundDiv(legs[x].stake * 1, 1) = legs[x].stake
        BY <1>0, <3>1
      <4>2. legs[x] \in LegType
        OBVIOUS
      <4> QED BY <4>1, <4>2 DEF LegType
    <3>3. ScaleStakes(legs, 1, 1) = [x \in D |-> [legs[x] EXCEPT !.stake = RoundDiv(legs[x].stake * 1, 1)]]
      BY DEF ScaleStakes
    <3> QED BY <3>2, <3>3
  <2>2. Fit(1, 1)
    <3>1. sum <= maxOutlay /\ \A x \in D : legs[x].stake <= maxStake
      BY <1>0, <1>1, <1>2, <1>4
    <3> QED BY <3>1, <1>0, <1>1
  <2>3. Factored(legs, 1, 1, maxStake, maxOutlay)
    BY <1>3, <1>4, <2>1, <2>2 DEF Factored, sum
  <2> QED BY <2>3
<1>5. CASE /\ ~(sum <= 0 \/ ~(legOver \/ sumOver))
           /\ legOver /\ (sumOver => maxStake * sum <= maxOutlay * most)
  <2>1. most \in Nat \ {0} /\ maxStake <= most
    BY <1>2, <1>5
  <2>2. \A x \in D : legs[x].stake * maxStake <= maxStake * most
    <3> SUFFICES ASSUME NEW x \in D PROVE legs[x].stake * maxStake <= most * maxStake
      BY <2>1
    <3> QED BY <1>0, <1>2, TimesMonotone
  <2>3. sum * maxStake <= maxOutlay * most
    <3>1. CASE sumOver
      BY <3>1, <1>1, <1>5
    <3>2. CASE ~sumOver
      BY <3>2, <1>1, <2>1, TimesMonotone
    <3> QED BY <3>1, <3>2
  <2>4. Fit(maxStake, most)
    BY <2>2, <2>3
  <2>5. Factored(legs, maxStake, most, maxStake, maxOutlay)
    BY <1>3, <1>5, <2>1, <2>4 DEF Factored, sum
  <2> QED BY <2>1, <2>5
<1>6. CASE /\ ~(sum <= 0 \/ ~(legOver \/ sumOver))
           /\ ~(legOver /\ (sumOver => maxStake * sum <= maxOutlay * most))
  <2>1. sum \in Nat \ {0} /\ maxOutlay <= sum
    BY <1>1, <1>2, <1>6
  <2>2. most * maxOutlay <= maxStake * sum
    <3>1. CASE legOver
      <4>1. maxStake * sum \in Int /\ maxOutlay * most \in Int /\ ~(maxStake * sum <= maxOutlay * most)
        BY <3>1, <1>1, <1>2, <1>6
      <4>2. most * maxOutlay = maxOutlay * most
        BY <1>2
      <4> QED BY <4>1, <4>2
    <3>2. CASE ~legOver
      BY <3>2, <1>2, <2>1, TimesMonotone
    <3> QED BY <3>1, <3>2
  <2>3. \A x \in D : legs[x].stake * maxOutlay <= maxStake * sum
    <3> SUFFICES ASSUME NEW x \in D PROVE legs[x].stake * maxOutlay <= maxStake * sum
      OBVIOUS
    <3>1. legs[x].stake * maxOutlay <= most * maxOutlay
      BY <1>0, <1>2, TimesMonotone
    <3>2. legs[x].stake * maxOutlay \in Int /\ most * maxOutlay \in Int /\ maxStake * sum \in Int
      BY <1>0, <1>1, <1>2
    <3> QED BY <2>2, <3>1, <3>2
  <2>4. sum * maxOutlay <= maxOutlay * sum
    BY <1>1
  <2>5. Fit(maxOutlay, sum)
    BY <2>3, <2>4
  <2>6. Factored(legs, maxOutlay, sum, maxStake, maxOutlay)
    BY <1>3, <1>6, <2>1, <2>5 DEF Factored, sum
  <2> QED BY <2>1, <2>6
<1> QED BY <1>4, <1>5, <1>6

\* The stakes of an opportunity's legs on Matchbook fit, whatever outlay is asked.
LEMMA StakesOfLegsFit ==
  ASSUME NEW u, NEW v, NEW w, u # v, u # w, v # w,
         NEW D \in SUBSET {u, v, w}, D # {}, NEW legs \in [D -> LegType],
         NEW total \in Int
  PROVE  LET placed == ScaleStakesToRisk(OptimalDutchStakes(legs, total), MaxStake, MaxOutlay)
         IN  /\ placed \in [D -> LegType]
             /\ \A x \in D : placed[x].stake <= MaxStake
             /\ Outlay(placed) <= MaxOutlay + 1
<1> DEFINE staked == OptimalDutchStakes(legs, total)
           placed == ScaleStakesToRisk(staked, MaxStake, MaxOutlay)
<1>1. staked \in [D -> LegType]
  BY StakedLegs
<1> HIDE DEF staked
<1>2. PICK c \in Nat \ {0}, d \in Nat \ {0} : Factored(staked, c, d, MaxStake, MaxOutlay)
  BY <1>1, OneFactor, ExecutionAssumption
<1>7. /\ placed = ScaleStakes(staked, c, d)
      /\ \A x \in D : staked[x].stake * c <= MaxStake * d
      /\ Outlay(staked) * c <= MaxOutlay * d
  BY <1>1, <1>2 DEF Factored
<1> HIDE DEF placed
<1>3. MaxStake \in Nat /\ MaxOutlay \in Nat
  BY ExecutionAssumption
<1>4. placed \in [D -> LegType]
  BY <1>1, <1>7, <1>3, ScaledStakesFit
<1>5. \A x \in D : placed[x].stake <= MaxStake
  BY <1>1, <1>7, <1>3, ScaledStakesFit
<1>6. Outlay(placed) <= MaxOutlay + 1
  BY <1>1, <1>7, <1>3, ScaledStakesFit
<1> QED BY <1>4, <1>5, <1>6 DEF placed, staked

-----------------------------------------------------------------------------
(* What a full dutch wins. *)

\* A dutch stake rounded, scaled by c / d and rounded again is a penny off at most.
LEMMA TwoRoundings ==
  ASSUME NEW c \in Nat \ {0}, NEW d \in Nat \ {0}, c <= d,
         NEW n \in Nat, NEW s \in Nat \ {0},
         NEW y, y = RoundDiv(RoundDiv(n, s) * c, d)
  PROVE  /\ y \in Nat
         /\ (d * s) * y <= c * n + d * s
         /\ c * n <= (d * s) * y + d * s
<1> DEFINE x == RoundDiv(n, s)
<1>1. x \in Nat /\ 2 * (s * x) <= 2 * n + s /\ 2 * n <= 2 * (s * x) + s
  BY RoundDivBounds
<1> HIDE DEF x
<1>2. x * c \in Nat
  BY <1>1
<1>3. y \in Nat /\ 2 * (d * y) <= 2 * (x * c) + d /\ 2 * (x * c) <= 2 * (d * y) + d
  BY <1>2, RoundDivBounds DEF x
<1> DEFINE dsy == (d * s) * y
           csx == c * (s * x)
           cn == c * n
           ds == d * s
           cs == c * s
<1>4. /\ dsy \in Int /\ csx \in Int /\ cn \in Int /\ ds \in Int /\ cs \in Int
      /\ cs <= ds
  BY <1>1, <1>3, TimesMonotone
<1>5. 2 * csx <= 2 * cn + cs /\ 2 * cn <= 2 * csx + cs
  <2>1. c * (2 * (s * x)) <= c * (2 * n + s) /\ c * (2 * n) <= c * (2 * (s * x) + s)
    BY <1>1, s * x \in Int
  <2>2. /\ c * (2 * (s * x)) = 2 * csx /\ c * (2 * n + s) = 2 * cn + cs
        /\ c * (2 * n) = 2 * cn /\ c * (2 * (s * x) + s) = 2 * csx + cs
    BY <1>1
  <2> QED BY <2>1, <2>2
<1>6. 2 * dsy <= 2 * csx + ds /\ 2 * csx <= 2 * dsy + ds
  <2> DEFINE dy == d * y
             xc == x * c
  <2>1. dy \in Int /\ xc \in Int /\ 2 * dy <= 2 * xc + d /\ 2 * xc <= 2 * dy + d
    BY <1>1, <1>3
  <2>2. /\ s * (2 * dy) = 2 * dsy /\ s * (2 * xc + d) = 2 * csx + ds
        /\ s * (2 * xc) = 2 * csx /\ s * (2 * dy + d) = 2 * dsy + ds
    BY <1>1, <1>3
  <2> HIDE DEF dy, xc
  <2>3. s * (2 * dy) <= s * (2 * xc + d) /\ s * (2 * xc) <= s * (2 * dy + d)
    BY <2>1
  <2> HIDE DEF dsy, csx, ds
  <2> QED BY <2>2, <2>3
<1> HIDE DEF dsy, csx, cn, ds, cs
<1>7. dsy <= cn + ds /\ cn <= dsy + ds
  BY <1>4, <1>5, <1>6
<1> QED BY <1>3, <1>7 DEF dsy, cn, ds

\* Three stakes y are within a penny of the shares u * p / (d * s) of an outlay,
\* on odds that leave the margin ...
EqualShares(d, u, o, p1, p2, p3, y1, y2, y3, margin) ==
  LET s == p1 + p2 + p3
      k == d * s
  IN  /\ u * p1 <= k * y1 + k
      /\ k * y1 <= u * p1 + k
      /\ k * y2 <= u * p2 + k
      /\ k * y3 <= u * p3 + k
      /\ 10 * s < o * p1
      /\ 1000 * (o * p1 - 10 * s) >= margin * (10 * s)

\* ... and what they then win, at odds o on the first, after the pennies.
WinsMargin(o, y1, y2, y3, margin) ==
  1000 * ((y1 + 1) * o - 10 * (y1 + y2 + y3 - 1)) >= margin * 10 * (y1 + y2 + y3 - 3)

\* Stakes within a penny of equal payout win the margin.
LEMMA EqualPayout ==
  ASSUME NEW d \in Nat \ {0}, NEW u \in Nat, NEW o \in Nat,
         NEW p1 \in Nat \ {0}, NEW p2 \in Nat \ {0}, NEW p3 \in Nat \ {0},
         NEW y1 \in Nat, NEW y2 \in Nat, NEW y3 \in Nat, NEW margin \in Nat,
         EqualShares(d, u, o, p1, p2, p3, y1, y2, y3, margin)
  PROVE  WinsMargin(o, y1, y2, y3, margin)
<1>a. PICK s, k :
        /\ s = p1 + p2 + p3 /\ k = d * s
        /\ u * p1 <= k * y1 + k
        /\ k * y1 <= u * p1 + k /\ k * y2 <= u * p2 + k /\ k * y3 <= u * p3 + k
        /\ 10 * s < o * p1
        /\ 1000 * (o * p1 - 10 * s) >= margin * (10 * s)
  BY DEF EqualShares
<1> USE <1>a
<1> DEFINE y == y1 + y2 + y3
           w == k * y1 + k - u * p1
           won == (y1 + 1) * o - 10 * (y - 1)
<1>0. s \in Nat \ {0} /\ k \in Nat \ {0} /\ y \in Nat
  BY <1>a, PositiveProduct
<1>1. o > 10
  <2> SUFFICES ASSUME o <= 10 PROVE FALSE
    OBVIOUS
  <2>1. o * p1 <= 10 * p1 /\ o * p1 \in Int
    BY TimesMonotone
  <2> QED BY <2>1
<1>2. /\ u * p1 \in Nat /\ u * p2 \in Nat /\ u * p3 \in Nat /\ u * s \in Nat
      /\ k * y1 \in Nat /\ k * y2 \in Nat /\ k * y3 \in Nat /\ k * y \in Nat
      /\ u * s = u * p1 + u * p2 + u * p3
      /\ k * y = k * y1 + k * y2 + k * y3
  BY <1>0
<1>3. w \in Nat
  BY <1>0, <1>2
<1>4. k * y - k <= w + u * s
  BY <1>0, <1>2
\* the outlay exceeds the one asked for by a penny a leg
<1>5. d * (y - 3) <= u
  <2>1. k * y - 3 * k <= u * s
    BY <1>0, <1>2
  <2>2. s * (d * (y - 3)) = k * y - 3 * k
    <3>1. s * (d * (y - 3)) = (s * d) * (y - 3)
      <4> DEFINE q == y - 3
      <4>1. q \in Int /\ s \in Int /\ d \in Int
        BY <1>0
      <4> HIDE DEF q
      <4>2. s * (d * q) = (s * d) * q
        BY <4>1
      <4> QED BY <4>2 DEF q
    <3>2. k * (y - 3) = k * y - 3 * k
      BY <1>0
    <3> QED BY <3>1, <3>2, <1>0
  <2>3. s * (d * (y - 3)) <= s * u
    BY <2>1, <2>2, <1>0
  <2>4. d * (y - 3) \in Int
    BY <1>0
  <2> QED BY <2>3, <2>4, <1>0, CancelFactor
<1>6. k * won = (w * o + u * (o * p1)) - 10 * (k * y - k)
  <2> HIDE DEF y
  <2>1. k * ((y1 + 1) * o) = (k * y1 + k) * o
    BY <1>0
  <2>2. (k * y1 + k) * o = w * o + (u * p1) * o
    BY <1>0, <1>2, <1>3
  <2>3. (u * p1) * o = u * (o * p1)
    BY <1>0
  <2>4. k * (10 * (y - 1)) = 10 * (k * y - k)
    BY <1>0
  <2>5. k * won = k * ((y1 + 1) * o) - k * (10 * (y - 1))
    BY <1>0
  <2> HIDE DEF won, w
  <2>6. k * ((y1 + 1) * o) = w * o + u * (o * p1)
    BY <2>1, <2>2, <2>3
  <2>7. k * won = (w * o + u * (o * p1)) - 10 * (k * y - k)
    BY <2>4, <2>5, <2>6
  <2> QED BY <2>7
<1>7. 10 * w <= w * o
  BY <1>1, <1>3
<1>8. k * won >= u * (o * p1 - 10 * s)
  <2>1. u * (o * p1 - 10 * s) = u * (o * p1) - 10 * (u * s)
    BY <1>0
  <2>2. w * o \in Int /\ u * (o * p1) \in Int
    BY <1>3
  <2> DEFINE wo == w * o
             uop == u * (o * p1)
             us == u * s
             ky == k * y
  <2>3. /\ k * won = wo + uop - 10 * (ky - k) /\ 10 * w <= wo /\ ky - k <= w + us
        /\ wo \in Int /\ uop \in Int /\ us \in Int /\ ky \in Int
    BY <1>2, <1>4, <1>6, <1>7, <2>2
  <2> HIDE DEF wo, uop, us, ky, won, w
  <2>4. k * won >= uop - 10 * us
    BY <2>3, <1>0, <1>3
  <2> QED BY <2>1, <2>4 DEF uop, us
<1> DEFINE gain == o * p1 - 10 * s
<1>9. gain \in Int /\ 1000 * gain >= margin * (10 * s)
  BY <1>0
<1>10. 1000 * (k * won) >= u * (margin * (10 * s))
  <2>1. u * (1000 * gain) >= u * (margin * (10 * s))
    <3> DEFINE g == 1000 * gain
               h == margin * (10 * s)
    <3>1. g \in Int /\ h \in Int /\ g >= h
      BY <1>0, <1>9
    <3> HIDE DEF g, h
    <3>2. u * g >= u * h
      BY <3>1
    <3> QED BY <3>2 DEF g, h
  <2>2. u * (1000 * gain) = 1000 * (u * gain)
    BY <1>9
  <2>3. k * won \in Int /\ u * gain \in Int /\ k * won >= u * gain
    BY <1>0, <1>8, <1>9
  <2> HIDE DEF won, gain
  <2> DEFINE kw == k * won
             ug == u * gain
             um == u * (margin * (10 * s))
  <2>4. kw \in Int /\ ug \in Int /\ kw >= ug /\ 1000 * ug >= um /\ um \in Int
    BY <2>1, <2>2, <2>3, <1>0
  <2> HIDE DEF kw, ug, um
  <2>5. 1000 * kw >= um
    BY <2>4
  <2> QED BY <2>5 DEF kw, um
<1>11. u * (margin * (10 * s)) >= k * (margin * 10 * (y - 3))
  <2> DEFINE ms == margin * (10 * s)
             dy == d * (y - 3)
  <2>1. ms \in Nat /\ dy \in Int /\ dy <= u
    BY <1>0, <1>5
  <2>2. ms * dy = k * (margin * 10 * (y - 3))
    <3>1. ms * dy = (10 * margin) * (s * (d * (y - 3)))
      BY <1>0
    <3>2. s * (d * (y - 3)) = k * (y - 3)
      BY <1>0
    <3>3. (10 * margin) * (k * (y - 3)) = k * (margin * 10 * (y - 3))
      BY <1>0
    <3> QED BY <3>1, <3>2, <3>3
  <2> HIDE DEF ms, dy
  <2>3. ms * dy <= ms * u
    BY <2>1
  <2>4. ms * u = u * ms
    BY <2>1
  <2> QED BY <2>2, <2>3, <2>4 DEF ms
<1>12. k * (1000 * won) >= k * (margin * 10 * (y - 3))
  <2>1. k * (1000 * won) = 1000 * (k * won)
    BY <1>0
  <2>2. k * (1000 * won) \in Int /\ u * (margin * (10 * s)) \in Int /\ k * (margin * 10 * (y - 3)) \in Int
    BY <1>0
  <2> DEFINE left == k * (1000 * won)
             middle == u * (margin * (10 * s))
             right == k * (margin * 10 * (y - 3))
  <2>3. left >= middle /\ middle >= right
    BY <2>1, <1>10, <1>11
  <2>4. left \in Int /\ middle \in Int /\ right \in Int
    BY <2>2
  <2> HIDE DEF left, middle, right
  <2>5. left >= right
    BY <2>3, <2>4
  <2> QED BY <2>5 DEF left, right
<1>13. 1000 * won \in Int /\ margin * 10 * (y - 3) \in Int
  BY <1>0
<1>14. margin * 10 * (y - 3) <= 1000 * won
  <2> HIDE DEF won, y
  <2> QED BY <1>0, <1>12, <1>13, CancelFactor
<1> QED BY <1>14 DEF WinsMargin

-----------------------------------------------------------------------------
(* What a scan finds, and the deals made of it. *)

\* A set of naturals has a least one.
LEMMA LeastNat ==
  ASSUME NEW T \in SUBSET Nat, T # {}
  PROVE  \E x \in T : \A y \in T : x <= y
<1> DEFINE R == OpToRel(<, Nat)
<1>0. IsWellFoundedOn(R, Nat)
  BY NatLessThanWellFounded
<1>1. \A x, y \in Nat : y < x => <<y, x>> \in R
  BY DEF OpToRel
<1> HIDE DEF R
<1>2. PICK x \in T : \A y \in T : ~ (<<y, x>> \in R)
  BY <1>0, WFMin
<1>3. \A y \in T : x \in Nat /\ y \in Nat /\ ~ (y < x)
  BY <1>1, <1>2
<1> QED BY <1>3

\* i is the first of the indices on with the highest value.
Highest(f, on, i) ==
  /\ i \in on
  /\ \A j \in on : f[j] <= f[i] /\ (j < i => f[j] < f[i])

\* A list of prices has a first highest: by induction on its length, as a least
\* counterexample.
LEMMA HighestExists ==
  ASSUME NEW n \in Nat, NEW on \in SUBSET (1 .. n), on # {},
         NEW f, \A i \in on : f[i] \in Int
  PROVE  \E i : Highest(f, on, i)
<1> DEFINE On(k) == {i \in on : i <= k}
           Bad == {k \in 0 .. n : On(k) # {} /\ ~ \E i : Highest(f, On(k), i)}
<1>0. \A i \in on : i \in Nat /\ 1 <= i /\ i <= n
  OBVIOUS
<1>1. SUFFICES Bad = {}
  <2>1. On(n) = on
    BY <1>0
  <2>2. n \in 0 .. n
    OBVIOUS
  <2>3. n \notin Bad
    BY <1>1
  <2> QED BY <2>1, <2>2, <2>3
<1>2. SUFFICES ASSUME Bad # {} PROVE FALSE
  OBVIOUS
<1>3. PICK k \in Bad : \A l \in Bad : k <= l
  <2>1. Bad \in SUBSET Nat
    OBVIOUS
  <2> HIDE DEF Bad
  <2> QED BY <1>2, <2>1, LeastNat
<1>4. k \in 0 .. n /\ On(k) # {} /\ ~ \E i : Highest(f, On(k), i)
  OBVIOUS
<1>5. k # 0
  <2>1. \A i \in on : ~(i <= 0)
    BY <1>0
  <2>2. On(0) = {}
    BY <2>1
  <2> HIDE DEF On, Bad
  <2> QED BY <2>2, <1>4
<1>6. k - 1 \in 0 .. n /\ k - 1 \notin Bad
  <2> HIDE DEF Bad
  <2> QED BY <1>3, <1>4, <1>5
<1>7. CASE On(k - 1) = {}
  <2>1. \A i \in On(k) : i = k
    <3>1. \A i \in on : ~(i <= k - 1)
      BY <1>7
    <3>2. \A i \in on : i <= k => i = k
      BY <3>1, <1>0, <1>4
    <3> QED BY <3>2
  <2>2. Highest(f, On(k), k)
    BY <2>1, <1>0, <1>4 DEF Highest
  <2> QED BY <2>2, <1>4
<1>8. CASE On(k - 1) # {}
  <2>1. PICK i : Highest(f, On(k - 1), i)
    BY <1>6, <1>8
  <2>2. i \in on /\ i < k /\ \A j \in on : j < k => f[j] <= f[i] /\ (j < i => f[j] < f[i])
    BY <2>1, <1>0, <1>4 DEF Highest
  <2>3. CASE k \in on /\ f[i] < f[k]
    <3>1. Highest(f, On(k), k)
      BY <2>2, <2>3, <1>0, <1>4 DEF Highest
    <3> QED BY <3>1, <1>4
  <2>4. CASE k \notin on \/ f[k] <= f[i]
    <3>1. Highest(f, On(k), i)
      BY <2>2, <2>4, <1>0, <1>4 DEF Highest
    <3> QED BY <3>1, <1>4
  <2> QED BY <2>2, <2>3, <2>4, <1>4
<1> QED BY <1>7, <1>8

\* The best back price of an outcome is one of its ticks.
LEMMA BestBackIsTick ==
  ASSUME NEW ticks, IsLine(ticks), NEW m, TicksOn(ticks, m) # {}
  PROVE  BestBack(ticks, m) \in TickType
<1> DEFINE on == TicksOn(ticks, m)
           f == [i \in on |-> ticks[i].odds]
<1>1. /\ Len(ticks) \in Nat /\ on \in SUBSET (1 .. Len(ticks))
      /\ \A i \in on : ticks[i] \in TickType
  BY DEF IsLine, TicksOn
<1>2. \A i \in on : f[i] = ticks[i].odds /\ f[i] \in Int
  BY <1>1 DEF TickType
<1> HIDE DEF on, f
<1>3. PICK i : Highest(f, on, i)
  BY <1>1, <1>2, HighestExists DEF on
<1>4. i \in on /\ \A j \in on : /\ ticks[j].odds <= ticks[i].odds
                                /\ j < i => ticks[j].odds < ticks[i].odds
  BY <1>2, <1>3 DEF Highest
<1> DEFINE best == CHOOSE k \in on : \A j \in on : /\ ticks[j].odds <= ticks[k].odds
                                                   /\ j < k => ticks[j].odds < ticks[k].odds
<1>5. best \in on
  BY <1>4
<1>6. BestBack(ticks, m) = ticks[best]
  BY DEF BestBack, on
<1> QED BY <1>1, <1>5, <1>6

\* The highest of a list of prices is one of them ...
LEMMA MaxOfImage ==
  ASSUME NEW n \in Nat, NEW on \in SUBSET (1 .. n), on # {},
         NEW f, \A i \in on : f[i] \in Int
  PROVE  Max({f[i] : i \in on}) \in {f[i] : i \in on}
<1>1. PICK i : Highest(f, on, i)
  BY HighestExists
<1> DEFINE S == {f[j] : j \in on}
<1>2. f[i] \in S /\ \A x \in S : f[i] >= x
  BY <1>1 DEF Highest
<1> HIDE DEF S
<1>3. Max(S) \in S
  BY <1>2 DEF Max
<1> QED BY <1>3 DEF S

\* ... and so is the lowest.
LEMMA MinOfNats ==
  ASSUME NEW S \in SUBSET Nat, S # {}
  PROVE  Min(S) \in S
BY LeastNat DEF Min

\* The best back of a runner and the tick that names it are of the line ...
LEMMA PricedRunner ==
  ASSUME NEW ticks, IsLine(ticks), NEW m \in Priced(ticks)
  PROVE  /\ Pair(ticks, m).back \in Nat \ {0}
         /\ Runner(ticks, m) \in TickType
<1> DEFINE n == Len(ticks)
           mine == Mine(ticks, m)
           back == [i \in mine |-> IF ticks[i].back > 0 THEN ticks[i].back ELSE ticks[i].odds]
           named == {i \in mine : ticks[i].runner # 0}
           from == IF named = {} THEN mine ELSE named
           index == [i \in from |-> i]
<1>1. n \in Nat /\ mine \in SUBSET (1 .. n) /\ \A i \in mine : ticks[i] \in TickType
  BY DEF IsLine, TicksOn, Mine
<1>2. mine # {}
  BY DEF Priced, Backs
<1>3. Pair(ticks, m).back \in Nat \ {0}
  <2>1. \A i \in mine : back[i] \in Nat \ {0} /\ back[i] \in Int
    BY <1>1 DEF TickType
  <2>2. Backs(ticks, m) = {back[i] : i \in mine}
    BY DEF Backs
  <2> HIDE DEF back, mine, n
  <2>3. Max({back[i] : i \in mine}) \in {back[i] : i \in mine}
    BY <1>1, <1>2, <2>1, MaxOfImage
  <2>4. Max(Backs(ticks, m)) \in Nat \ {0}
    BY <2>1, <2>2, <2>3
  <2> QED BY <2>4 DEF Pair
<1>4. Runner(ticks, m) \in TickType
  <2>1. from \in SUBSET (1 .. n) /\ from # {} /\ from \subseteq mine
    BY <1>1, <1>2
  <2>2. \A i \in from : index[i] = i /\ index[i] \in Int
    BY <2>1
  <2>3. Runner(ticks, m) = ticks[Max(from)]
    BY DEF Runner
  <2>4. {index[i] : i \in from} = from
    BY <2>2
  <2> HIDE DEF from, n, mine, index
  <2>5. Max({index[i] : i \in from}) \in {index[i] : i \in from}
    BY <1>1, <2>1, <2>2, MaxOfImage
  <2>6. Max(from) \in from
    BY <2>4, <2>5
  <2> QED BY <1>1, <2>1, <2>3, <2>6
<1> QED BY <1>3, <1>4

\* ... and its lay.
LEMMA PricedLay ==
  ASSUME NEW ticks, IsLine(ticks), NEW m \in Priced(ticks)
  PROVE  Pair(ticks, m).lay \in Nat \ {0}
<1>1. Lays(ticks, m) \in SUBSET (Nat \ {0}) /\ Lays(ticks, m) # {}
  <2>1. \A i \in Mine(ticks, m) : ticks[i] \in TickType
    BY DEF IsLine, TicksOn, Mine
  <2>2. \A i \in Mine(ticks, m) : ticks[i].lay \in Nat
    BY <2>1 DEF TickType
  <2>3. \A l \in Lays(ticks, m) : l \in Nat /\ l > One
    BY <2>2 DEF Lays
  <2> QED BY <2>3 DEF One, Priced
<1>2. Min(Lays(ticks, m)) \in Lays(ticks, m)
  BY <1>1, MinOfNats
<1> QED BY <1>1, <1>2 DEF Pair

Sides == {"back", "lay"}

\* What a scan finds: legs of positive prices, unstaked, on outcomes or on the
\* two sides of a runner; a dutch's legs back its outcomes at its odds.
IsOpportunity(o) ==
  /\ o = [kind |-> o.kind, odds |-> o.odds, legs |-> o.legs]
  /\ \/ o.legs \in [Sides -> LegType]
     \/ \E D \in SUBSET Outcomes : o.legs \in [D -> LegType]
  /\ o.kind = "dutch_1x2" =>
       /\ o.odds \in [Outcomes -> Nat \ {0}]
       /\ Underround(o.odds)
       /\ DOMAIN o.legs \subseteq Outcomes
       /\ \A m \in DOMAIN o.legs : /\ o.legs[m].odds = o.odds[m]
                                   /\ o.legs[m].side = "back"
                                   /\ o.legs[m].market = m
  /\ \A m \in DOMAIN o.legs : o.legs[m].stake = 0

\* A scan of positive prices finds opportunities, and nothing else.
LEMMA ScannedOpportunity ==
  ASSUME NEW ticks, IsLine(ticks), NEW margin, NEW o \in ScanArbitrage(ticks, margin)
  PROVE  IsOpportunity(o)
<1>0. \A m, t, side, odds :
         t \in TickType /\ m \in Outcomes /\ side \in Sides /\ odds \in Nat \ {0}
           => Leg(m, odds, side, t) \in LegType
  BY DEF Leg, LegType, TickType, Sides
<1>1. CASE o \in Dutch1x2Arb(ticks, margin)
  <2> DEFINE best == [m \in Outcomes |-> BestBack(ticks, m)]
             odds == [m \in Outcomes |-> best[m].odds]
             matchbook == {m \in Outcomes : best[m].exchange}
             legs == [m \in matchbook |-> Leg(m, odds[m], "back", best[m])]
  <2>1. /\ \A m \in Outcomes : TicksOn(ticks, m) # {}
        /\ Underround(odds)
        /\ o = [kind |-> "dutch_1x2", odds |-> odds, legs |-> legs]
    BY <1>1 DEF Dutch1x2Arb
  <2>2. \A m \in Outcomes : best[m] \in TickType
    BY <2>1, BestBackIsTick
  <2> HIDE DEF best
  <2>3. odds \in [Outcomes -> Nat \ {0}]
    BY <2>2 DEF TickType
  <2>5. matchbook \in SUBSET Outcomes
    OBVIOUS
  <2> HIDE DEF odds, matchbook
  <2>6. \A m \in matchbook : legs[m] \in LegType
    BY <1>0, <2>2, <2>3, <2>5 DEF Sides
  <2>7. legs \in [matchbook -> LegType]
    BY <2>6
  <2>8. \A m \in matchbook : /\ legs[m].odds = odds[m] /\ legs[m].side = "back"
                             /\ legs[m].market = m /\ legs[m].stake = 0
    BY DEF Leg
  <2> HIDE DEF legs
  <2>9. DOMAIN legs = matchbook
    BY <2>7
  <2>10. /\ o.kind = "dutch_1x2" /\ o.odds = odds /\ o.legs = legs
    BY <2>1
  <2> QED BY <2>1, <2>3, <2>5, <2>7, <2>8, <2>9, <2>10 DEF IsOpportunity
<1>2. CASE o \in MatchbookBackLayArb(ticks, margin)
  <2>1. PICK m \in Priced(ticks) :
          o = [kind |-> "matchbook_back_lay", odds |-> Pair(ticks, m),
               legs |-> [side \in {"back", "lay"} |->
                           Leg(m, Pair(ticks, m)[side], side, Runner(ticks, m))]]
    BY <1>2 DEF MatchbookBackLayArb
  <2> DEFINE pair == Pair(ticks, m)
             legs == [side \in {"back", "lay"} |-> Leg(m, pair[side], side, Runner(ticks, m))]
  <2>2. \A side \in Sides : pair[side] \in Nat \ {0}
    BY PricedRunner, PricedLay DEF Sides
  <2>3. Runner(ticks, m) \in TickType /\ m \in Outcomes
    BY PricedRunner DEF Priced
  <2> HIDE DEF pair
  <2>4. \A side \in Sides : legs[side] \in LegType /\ legs[side].stake = 0
    BY <1>0, <2>2, <2>3 DEF Sides, Leg
  <2>5. legs \in [Sides -> LegType]
    BY <2>4 DEF Sides
  <2>6. o = [kind |-> "matchbook_back_lay", odds |-> pair, legs |-> legs]
    BY <2>1 DEF pair
  <2> HIDE DEF legs
  <2>7. o.kind = "matchbook_back_lay" /\ o.legs = legs /\ o.odds = pair /\ DOMAIN legs = Sides
    BY <2>5, <2>6
  <2> QED BY <2>4, <2>5, <2>6, <2>7 DEF IsOpportunity
<1> QED BY <1>1, <1>2 DEF ScanArbitrage

\* A staked opportunity is what execute_matchbook_arb makes of what a scan found.
IsStaked(d, o, total) ==
  d = [o EXCEPT !.legs = ScaleStakesToRisk(OptimalDutchStakes(o.legs, total), MaxStake, MaxOutlay)]

\* A deal is a staked opportunity.
LEMMA DealOrigin ==
  ASSUME NEW e \in Executors, NEW d \in Deals[e]
  PROVE  \E o : \E total \in Int : IsOpportunity(o) /\ IsStaked(d, o, total)
<1> DEFINE margin == IF e \in Requests THEN ScanMinProfit ELSE MinProfit
           totals == IF e \in Requests THEN RequestOutlays ELSE {Default}
           opps == UNION {ScanArbitrage(ticks, margin) : ticks \in Lines}
<1>1. Deals[e] = {Staked(o, total) : o \in opps, total \in totals}
  BY DEF Deals
<1>2. PICK o \in opps, total \in totals : d = Staked(o, total)
  BY <1>1
<1>3. PICK ticks \in Lines : o \in ScanArbitrage(ticks, margin)
  BY <1>2
<1>4. IsOpportunity(o)
  <2> HIDE DEF margin
  <2>1. IsLine(ticks)
    BY ExecutionAssumption
  <2> QED BY <1>3, <2>1, ScannedOpportunity
<1> DEFINE asked == IF total = Default THEN MaxOutlay ELSE total
<1>5. asked \in Int
  BY ExecutionAssumption
<1>6. IsStaked(d, o, asked)
  BY <1>2 DEF Staked, IsStaked
<1> QED BY <1>4, <1>5, <1>6

\* Staking changes the legs only ...
LEMMA StakedLegsOf ==
  ASSUME NEW d, NEW o, NEW total \in Int, IsOpportunity(o), IsStaked(d, o, total)
  PROVE  /\ d.kind = o.kind /\ d.odds = o.odds
         /\ d.legs = ScaleStakesToRisk(OptimalDutchStakes(o.legs, total), MaxStake, MaxOutlay)
BY DEF IsOpportunity, IsStaked

\* No leg, no stake.
LEMMA EmptyOutlay ==
  ASSUME NEW u, NEW v, NEW w, u # v, u # w, v # w,
         NEW D \in SUBSET {u, v, w}, NEW legs \in [D -> LegType]
  PROVE  D = {} => Outlay(legs) = 0
<1>1. Outlay(legs) = Part(StakesOf(legs), D, u) + Part(StakesOf(legs), D, v)
                       + Part(StakesOf(legs), D, w)
  BY OutlayOfThree
<1> QED BY <1>1 DEF Part

\* An opportunity without a leg on Matchbook stays without.
LEMMA EmptyLegs ==
  ASSUME NEW u, NEW v, NEW w, u # v, u # w, v # w,
         NEW D \in SUBSET {u, v, w}, D = {}, NEW legs \in [D -> LegType],
         NEW total \in Int
  PROVE  LET placed == ScaleStakesToRisk(OptimalDutchStakes(legs, total), MaxStake, MaxOutlay)
         IN  placed \in [D -> LegType] /\ Outlay(placed) = 0
<1> DEFINE staked == OptimalDutchStakes(legs, total)
<1>1. staked \in [D -> LegType]
  BY DEF OptimalDutchStakes
<1> HIDE DEF staked
<1>2. Outlay(staked) = 0
  BY <1>1, EmptyOutlay
<1>3. ScaleStakesToRisk(staked, MaxStake, MaxOutlay) = staked
  BY <1>2 DEF ScaleStakesToRisk
<1> QED BY <1>1, <1>2, <1>3 DEF staked

\* Whatever the prices and the outlay asked for, the stakes fit.
LEMMA DealFits ==
  ASSUME NEW e \in Executors, NEW d \in Deals[e]
  PROVE  StakesFit(d)
<1>0. PICK o : \E total \in Int : IsOpportunity(o) /\ IsStaked(d, o, total)
  BY DealOrigin
<1>1. PICK total \in Int : IsOpportunity(o) /\ IsStaked(d, o, total)
  BY <1>0
<1> DEFINE placed == ScaleStakesToRisk(OptimalDutchStakes(o.legs, total), MaxStake, MaxOutlay)
<1>2. d.legs = placed
  BY <1>1, StakedLegsOf
<1>3. MaxStake \in Nat /\ MaxOutlay \in Nat
  BY ExecutionAssumption
<1>4. SUFFICES /\ \A x \in DOMAIN placed : placed[x].stake <= MaxStake
               /\ Outlay(placed) \in Int /\ Outlay(placed) <= MaxOutlay + 1
  <2> HIDE DEF placed
  <2> QED BY <1>2, <1>3, <1>4 DEF StakesFit, Tolerance
<1>5. PICK u, v, w, D :
        u # v /\ u # w /\ v # w /\ D \in SUBSET {u, v, w} /\ o.legs \in [D -> LegType]
  <2>1. CASE o.legs \in [Sides -> LegType]
    <3>1. "back" # "lay" /\ "back" # "none" /\ "lay" # "none" /\ Sides \in SUBSET {"back", "lay", "none"}
      BY DEF Sides
    <3> QED BY <2>1, <3>1
  <2>2. ASSUME NEW D \in SUBSET Outcomes, o.legs \in [D -> LegType]
        PROVE  \E u, v, w, E :
                 u # v /\ u # w /\ v # w /\ E \in SUBSET {u, v, w} /\ o.legs \in [E -> LegType]
    <3>1. /\ "Home" # "Draw" /\ "Home" # "Away" /\ "Draw" # "Away"
          /\ D \in SUBSET {"Home", "Draw", "Away"}
      BY DEF Outcomes
    <3> QED BY <2>2, <3>1
  <2> QED BY <1>1, <2>1, <2>2 DEF IsOpportunity
<1> DEFINE legs == o.legs
<1>6. CASE D = {}
  <2>1. placed \in [D -> LegType]
    BY <1>5, <1>6, EmptyLegs
  <2>2. Outlay(placed) = 0
    BY <1>5, <1>6, EmptyLegs
  <2> HIDE DEF placed
  <2> QED BY <2>1, <2>2, <1>3, <1>6
<1>7. CASE D # {}
  <2>1. legs \in [D -> LegType]
    BY <1>5
  <2> HIDE DEF legs
  <2> DEFINE put == ScaleStakesToRisk(OptimalDutchStakes(legs, total), MaxStake, MaxOutlay)
  <2>2. put \in [D -> LegType]
    BY <1>5, <1>7, <2>1, StakesOfLegsFit
  <2>3. \A x \in D : put[x].stake <= MaxStake
    BY <1>5, <1>7, <2>1, StakesOfLegsFit
  <2>4. Outlay(put) <= MaxOutlay + 1
    BY <1>5, <1>7, <2>1, StakesOfLegsFit
  <2>5. Outlay(put) \in Nat
    <3> HIDE DEF put
    <3> QED BY <1>5, <2>2, OutlayOfThree
  <2>6. put = placed
    BY DEF legs
  <2> HIDE DEF put, placed
  <2> QED BY <2>2, <2>3, <2>4, <2>5, <2>6
<1> QED BY <1>6, <1>7

\* The outcomes, in any order.
AreOutcomes(u, v, w) == u # v /\ u # w /\ v # w /\ Outcomes = {u, v, w}

\* The odds of a full dutch: each outcome's product of the others.
LEMMA OddsOfOutcomes ==
  ASSUME NEW u, NEW v, NEW w, AreOutcomes(u, v, w),
         NEW odds \in [Outcomes -> Nat \ {0}]
  PROVE  /\ SumOfProducts(odds) = ProductOfOthers(odds, u) + ProductOfOthers(odds, v)
                                    + ProductOfOthers(odds, w)
         /\ InvDen(odds) = odds[u] * ProductOfOthers(odds, u)
<1> USE DEF AreOutcomes
<1> DEFINE D == Outcomes
<1>1. D \in SUBSET {u, v, w} /\ DOMAIN odds = D /\ \A x \in D : odds[x] \in Int
  OBVIOUS
<1> DEFINE p == [i \in DOMAIN odds |-> ProductOfOthers(odds, i)]
           others == D \ {u}
<1>2. D # {} /\ \A x \in D : odds[x] \in Nat \ {0}
  <2>1. u \in D
    OBVIOUS
  <2>2. ASSUME NEW x \in D PROVE odds[x] \in Nat \ {0}
    OBVIOUS
  <2> QED BY <2>1, <2>2
<1>3. \A x \in D : ProductOfOthers(odds, x) \in Nat \ {0}
  BY <1>1, <1>2, OddsOfThree
<1>4. DOMAIN p = D /\ \A x \in D : p[x] = ProductOfOthers(odds, x) /\ p[x] \in Int
  BY <1>1, <1>3
<1> HIDE DEF p
<1>5. SumOfProducts(odds) = p[u] + p[v] + p[w]
  <2>1. SumFunctionOnSet(p, D) = Part(p, D, u) + Part(p, D, v) + Part(p, D, w)
    BY <1>1, <1>4, SumOfThree
  <2>2. SumFunctionOnSet(p, D) = p[u] + p[v] + p[w]
    BY <2>1 DEF Part
  <2> QED BY <2>2, <1>4 DEF SumOfProducts, SumFunction, p
<1>6. ProductOn(odds, D) = odds[u] * odds[v] * odds[w]
  <2>1. ProductOn(odds, D) = Factor(odds, D, u) * Factor(odds, D, v) * Factor(odds, D, w)
    BY <1>1, ProductOfThree
  <2> QED BY <2>1 DEF Factor
<1>7. ProductOn(odds, others) = 1 * odds[v] * odds[w]
  <2>1. others \in SUBSET {u, v, w} /\ \A x \in others : odds[x] \in Int
    BY <1>1
  <2>2. /\ Factor(odds, others, u) = 1 /\ Factor(odds, others, v) = odds[v]
        /\ Factor(odds, others, w) = odds[w]
    BY DEF Factor
  <2> HIDE DEF others
  <2>3. ProductOn(odds, others)
          = Factor(odds, others, u) * Factor(odds, others, v) * Factor(odds, others, w)
    BY <2>1, ProductOfThree
  <2> QED BY <2>2, <2>3
<1>8. InvDen(odds) = odds[u] * ProductOfOthers(odds, u)
  <2>1. InvDen(odds) = ProductOn(odds, D) /\ ProductOfOthers(odds, u) = ProductOn(odds, others)
    BY <1>1 DEF InvDen, ProductOfOthers
  <2>2. odds[u] \in Int /\ odds[v] \in Int /\ odds[w] \in Int
    OBVIOUS
  <2>3. odds[u] * odds[v] * odds[w] = odds[u] * (1 * odds[v] * odds[w])
    BY <2>2
  <2> HIDE DEF others
  <2> QED BY <2>1, <2>3, <1>6, <1>7
<1> QED BY <1>4, <1>5, <1>8

\* A sum over the three outcomes.
LEMMA SumOverOutcomes ==
  ASSUME NEW u, NEW v, NEW w, AreOutcomes(u, v, w), NEW f \in [Outcomes -> Int]
  PROVE  SumFunction(f) = f[u] + f[v] + f[w]
<1> USE DEF AreOutcomes
<1> DEFINE D == Outcomes
<1>1. D \in SUBSET {u, v, w}
  OBVIOUS
<1>2. SumFunctionOnSet(f, D) = Part(f, D, u) + Part(f, D, v) + Part(f, D, w)
  BY <1>1, SumOfThree
<1> QED BY <1>2 DEF Part, SumFunction

\* A dutch placed in full, whose odds leave the margin the limits ask for, wins it
\* on an outcome.
LockedOn(legs, m) ==
  1000 * (ResultIf(legs, m) + RoundingLoss(legs, m))
    >= MinProfit * One * (Outlay(legs) - 3)

\* The stakes of a full dutch are shares of one outlay, rounded, scaled and rounded.
Shares(legs, odds, t, c, d) ==
  /\ c <= d
  /\ legs \in [Outcomes -> LegType]
  /\ \A m \in Outcomes :
       /\ legs[m].odds = odds[m] /\ legs[m].side = "back" /\ legs[m].market = m
       /\ legs[m].stake = RoundDiv(RoundDiv(t * ProductOfOthers(odds, m),
                                           SumOfProducts(odds)) * c, d)

\* The stakes a full dutch is placed with are such shares.
LEMMA DutchShares ==
  ASSUME NEW o, IsOpportunity(o), o.kind = "dutch_1x2", DOMAIN o.legs = Outcomes,
         NEW total \in Int
  PROVE  \E t \in Nat : \E c, d \in Nat \ {0} :
           Shares(ScaleStakesToRisk(OptimalDutchStakes(o.legs, total), MaxStake, MaxOutlay),
                  o.odds, t, c, d)
<1> DEFINE legs == o.legs
           odds == o.odds
           P(m) == ProductOfOthers(odds, m)
           S == SumOfProducts(odds)
           t == IF total <= 0 THEN 0 ELSE total
           staked == OptimalDutchStakes(legs, total)
           put == ScaleStakesToRisk(staked, MaxStake, MaxOutlay)
<1>1. legs \in [Outcomes -> LegType]
  <2>1. ASSUME legs \in [Sides -> LegType] PROVE FALSE
    <3>1. DOMAIN legs = Sides /\ "Home" \in DOMAIN legs
      BY <2>1 DEF Outcomes
    <3> QED BY <3>1 DEF Sides
  <2>2. PICK D \in SUBSET Outcomes : legs \in [D -> LegType]
    BY <2>1 DEF IsOpportunity
  <2> QED BY <2>2
<1>2. /\ odds \in [Outcomes -> Nat \ {0}]
      /\ \A m \in Outcomes : /\ legs[m].odds = odds[m] /\ legs[m].side = "back"
                             /\ legs[m].market = m /\ legs[m].stake = 0
  BY DEF IsOpportunity
<1>3. t \in Nat
  OBVIOUS
<1>4. "Home" # "Draw" /\ "Home" # "Away" /\ "Draw" # "Away"
      /\ Outcomes \in SUBSET {"Home", "Draw", "Away"} /\ Outcomes # {}
  BY DEF Outcomes
<1>5. PICK u, v, w : /\ u # v /\ u # w /\ v # w /\ Outcomes \in SUBSET {u, v, w}
  BY <1>4
<1> HIDE DEF t, odds, legs, S
<1>6. S \in Nat \ {0} /\ \A m \in Outcomes : P(m) \in Nat \ {0}
  <2>0. odds \in [Outcomes -> Nat \ {0}]
    BY <1>2
  <2>1. DOMAIN odds = Outcomes /\ \A m \in Outcomes : odds[m] \in Nat \ {0}
    BY <2>0
  <2>2. Outcomes # {}
    BY <1>4
  <2>3. /\ \A m \in Outcomes : ProductOfOthers(odds, m) \in Nat \ {0}
        /\ SumOfProducts(odds) \in Nat \ {0}
    BY <1>5, <2>1, <2>2, OddsOfThree
  <2> QED BY <2>3 DEF S
<1>7. staked = [m \in Outcomes |-> [legs[m] EXCEPT !.stake = RoundDiv(t * P(m), S)]]
  <2>1. OddsOf(legs) = odds
    BY <1>1, <1>2 DEF OddsOf
  <2>2. CASE total <= 0
    <3>1. t = 0 /\ staked = legs
      BY <2>2 DEF t, OptimalDutchStakes
    <3>2. \A m \in Outcomes : RoundDiv(t * P(m), S) = 0
      <4>0. RoundDiv(0, S) = 0
        <5>1. RoundDiv(0, S) \in Nat /\ 2 * (S * RoundDiv(0, S)) <= 2 * 0 + S
          BY <1>6, RoundDivBounds
        <5>2. CASE RoundDiv(0, S) >= 1
          <6>1. S * RoundDiv(0, S) >= S
            BY <5>1, <5>2, <1>6
          <6> QED BY <6>1, <5>1, <1>6
        <5> QED BY <5>1, <5>2
      <4>1. \A m \in Outcomes : t * P(m) = 0
        BY <3>1, <1>6
      <4> QED BY <4>0, <4>1
    <3>3. \A m \in Outcomes : [legs[m] EXCEPT !.stake = RoundDiv(t * P(m), S)] = legs[m]
      <4> SUFFICES ASSUME NEW m \in Outcomes PROVE [legs[m] EXCEPT !.stake = 0] = legs[m]
        BY <3>2
      <4>1. legs[m] \in LegType /\ legs[m].stake = 0
        BY <1>1, <1>2
      <4> QED BY <4>1 DEF LegType
    <3> HIDE DEF staked
    <3> QED BY <1>1, <3>1, <3>3
  <2>3. CASE total > 0
    <3>1. t = total
      BY <2>3 DEF t
    <3> QED BY <2>1, <2>3, <3>1, <1>1 DEF OptimalDutchStakes, DutchStake, S
  <2> QED BY <2>2, <2>3
<1>8. staked \in [Outcomes -> LegType]
  <2> HIDE DEF staked
  <2> QED BY <1>1, <1>4, <1>5, StakedLegs DEF staked
<1>9. PICK c \in Nat \ {0}, d \in Nat \ {0} : Factored(staked, c, d, MaxStake, MaxOutlay)
  <2> HIDE DEF staked
  <2> QED BY <1>4, <1>5, <1>8, OneFactor, ExecutionAssumption
<1>10. c <= d /\ put = ScaleStakes(staked, c, d)
  BY <1>9 DEF Factored
<1>11. ASSUME NEW m \in Outcomes
       PROVE  put[m] = [staked[m] EXCEPT !.stake = RoundDiv(staked[m].stake * c, d)]
  <2> HIDE DEF staked
  <2> QED BY <1>8, <1>10 DEF ScaleStakes
<1>12. DOMAIN put = Outcomes
  <2> HIDE DEF staked
  <2> QED BY <1>8, <1>10 DEF ScaleStakes
<1>13. ASSUME NEW m \in Outcomes
       PROVE  put[m] = [legs[m] EXCEPT !.stake = RoundDiv(RoundDiv(t * P(m), S) * c, d)]
  <2>1. staked[m] = [legs[m] EXCEPT !.stake = RoundDiv(t * P(m), S)]
    <3> HIDE DEF staked
    <3> QED BY <1>7
  <2>2. legs[m] \in LegType
    BY <1>1
  <2>3. staked[m].stake = RoundDiv(t * P(m), S)
    <3> HIDE DEF staked
    <3> QED BY <2>1, <2>2 DEF LegType
  <2> DEFINE r1 == RoundDiv(t * P(m), S)
             r2 == RoundDiv(r1 * c, d)
  <2> HIDE DEF staked, put
  <2>4. put[m] = [staked[m] EXCEPT !.stake = r2] /\ staked[m] = [legs[m] EXCEPT !.stake = r1]
    BY <1>11, <2>1, <2>3
  <2> HIDE DEF r1, r2
  <2>5. put[m] = [legs[m] EXCEPT !.stake = r2]
    BY <2>2, <2>4 DEF LegType
  <2> QED BY <2>5 DEF r1, r2
<1>14. ASSUME NEW m \in Outcomes
       PROVE  RoundDiv(RoundDiv(t * P(m), S) * c, d) \in Nat
  <2>1. t * P(m) \in Nat
    BY <1>3, <1>6
  <2>2. RoundDiv(t * P(m), S) * c \in Nat
    <3>1. RoundDiv(t * P(m), S) \in Nat
      BY <2>1, <1>6, RoundDivBounds
    <3> DEFINE r == RoundDiv(t * P(m), S)
    <3>2. r \in Nat
      BY <3>1
    <3> HIDE DEF r
    <3>3. r * c \in Nat
      BY <3>2
    <3> QED BY <3>3 DEF r
  <2> QED BY <2>2, RoundDivBounds
<1> HIDE DEF put
<1>15. ASSUME NEW m \in Outcomes
       PROVE  /\ put[m] \in LegType
              /\ put[m].odds = odds[m] /\ put[m].side = "back" /\ put[m].market = m
              /\ put[m].stake = RoundDiv(RoundDiv(t * P(m), S) * c, d)
  <2>1. legs[m] \in LegType /\ legs[m].odds = odds[m] /\ legs[m].side = "back" /\ legs[m].market = m
    BY <1>1, <1>2
  <2> DEFINE r == RoundDiv(RoundDiv(t * P(m), S) * c, d)
  <2>2. r \in Nat /\ put[m] = [legs[m] EXCEPT !.stake = r]
    BY <1>13, <1>14
  <2> HIDE DEF r
  <2>3. /\ put[m] \in LegType
        /\ put[m].odds = odds[m] /\ put[m].side = "back" /\ put[m].market = m
        /\ put[m].stake = r
    BY <2>1, <2>2 DEF LegType
  <2> QED BY <2>3 DEF r
<1>16. put \in [Outcomes -> LegType]
  <2>1. put = [m \in Outcomes |-> put[m]]
    <3> HIDE DEF staked
    <3> QED BY <1>8, <1>10 DEF ScaleStakes
  <2> QED BY <2>1, <1>15
<1>17. Shares(put, odds, t, c, d)
  BY <1>10, <1>15, <1>16 DEF Shares, S
<1>18. put = ScaleStakesToRisk(OptimalDutchStakes(o.legs, total), MaxStake, MaxOutlay)
  BY DEF put, legs
<1>19. Shares(ScaleStakesToRisk(OptimalDutchStakes(o.legs, total), MaxStake, MaxOutlay),
              o.odds, t, c, d)
  BY <1>17, <1>18 DEF odds
<1> HIDE DEF staked, legs
<1> QED BY <1>3, <1>19

\* ... of which it keeps every one.
LEMMA PlacedLegs ==
  ASSUME NEW d, NEW o, NEW total \in Int, IsOpportunity(o), IsStaked(d, o, total)
  PROVE  DOMAIN d.legs = DOMAIN o.legs
<1> DEFINE staked == OptimalDutchStakes(o.legs, total)
<1>1. DOMAIN staked = DOMAIN o.legs
  BY DEF OptimalDutchStakes
<1> HIDE DEF staked
<1>2. DOMAIN ScaleStakesToRisk(staked, MaxStake, MaxOutlay) = DOMAIN staked
  <2>1. \A a, b : DOMAIN ScaleStakes(staked, a, b) = DOMAIN staked
    BY DEF ScaleStakes
  <2> QED BY <2>1 DEF ScaleStakesToRisk
<1>3. d.legs = ScaleStakesToRisk(staked, MaxStake, MaxOutlay)
  BY StakedLegsOf DEF staked
<1> QED BY <1>1, <1>2, <1>3

\* What a share of an outlay wins, when outcome u comes in, after the pennies.
LEMMA SharesLocked ==
  ASSUME NEW u, NEW v, NEW w, AreOutcomes(u, v, w),
         NEW odds \in [Outcomes -> Nat \ {0}],
         Underround(odds), ProfitAtLeast(odds, MinProfit),
         NEW t \in Nat, NEW c \in Nat \ {0}, NEW d \in Nat \ {0},
         NEW legs, Shares(legs, odds, t, c, d)
  PROVE  LockedOn(legs, u)
<1>0. u # v /\ u # w /\ v # w /\ Outcomes = {u, v, w}
  BY DEF AreOutcomes
<1> DEFINE P(x) == ProductOfOthers(odds, x)
           s == SumOfProducts(odds)
           y(x) == legs[x].stake
           o == odds[u]
           k == d * s
           h == c * t
<1>1. /\ c <= d /\ legs \in [Outcomes -> LegType]
      /\ \A x \in Outcomes :
           /\ legs[x].odds = odds[x] /\ legs[x].side = "back" /\ legs[x].market = x
           /\ y(x) = RoundDiv(RoundDiv(t * P(x), s) * c, d)
  BY DEF Shares
<1>2. u \in Outcomes /\ v \in Outcomes /\ w \in Outcomes
  BY <1>0
<1>3. s = P(u) + P(v) + P(w) /\ InvDen(odds) = o * P(u)
  <2>1. s = P(u) + P(v) + P(w)
    BY OddsOfOutcomes
  <2>2. InvDen(odds) = o * P(u)
    BY OddsOfOutcomes
  <2> QED BY <2>1, <2>2
<1>4. s \in Nat \ {0} /\ \A x \in Outcomes : P(x) \in Nat \ {0}
  <2>1. DOMAIN odds = Outcomes /\ Outcomes # {} /\ Outcomes \in SUBSET {u, v, w}
        /\ \A x \in Outcomes : odds[x] \in Nat \ {0}
    BY <1>0
  <2>2. SumOfProducts(odds) \in Nat \ {0}
    BY <1>0, <2>1, OddsOfThree
  <2>3. \A x \in Outcomes : ProductOfOthers(odds, x) \in Nat \ {0}
    BY <1>0, <2>1, OddsOfThree
  <2> QED BY <2>2, <2>3
<1>5. o \in Nat \ {0} /\ k \in Nat \ {0} /\ h \in Nat /\ MinProfit \in Nat
  BY <1>2, <1>4, PositiveProduct, ExecutionAssumption
<1>6. \A x \in Outcomes : y(x) \in Nat
  BY <1>1 DEF LegType
<1>7. ASSUME NEW x \in Outcomes
      PROVE  /\ k * y(x) <= h * P(x) + k
             /\ h * P(x) <= k * y(x) + k
  <2> DEFINE n == t * P(x)
  <2>1. n \in Nat
    BY <1>4
  <2>2. c * n = h * P(x)
    BY <1>4
  <2>3. y(x) = RoundDiv(RoundDiv(n, s) * c, d)
    BY <1>1
  <2> HIDE DEF n, h, s, y
  <2>4. (d * s) * y(x) <= c * n + d * s
    BY <1>1, <1>4, <2>1, <2>3, TwoRoundings
  <2>5. c * n <= (d * s) * y(x) + d * s
    BY <1>1, <1>4, <2>1, <2>3, TwoRoundings
  <2> QED BY <2>2, <2>4, <2>5
<1>8. 10 * s < o * P(u) /\ 1000 * (o * P(u) - 10 * s) >= MinProfit * (10 * s)
  <2>1. InvNum(odds) = 10 * s
    BY DEF InvNum, One
  <2>2. InvNum(odds) < InvDen(odds)
    BY DEF Underround
  <2>3. 1000 * (InvDen(odds) - InvNum(odds)) >= MinProfit * InvNum(odds)
    BY DEF ProfitAtLeast
  <2> HIDE DEF s, o
  <2> QED BY <2>1, <2>2, <2>3, <1>3
<1>9. WinsMargin(o, y(u), y(v), y(w), MinProfit)
  <2>1. /\ P(u) \in Nat \ {0} /\ P(v) \in Nat \ {0} /\ P(w) \in Nat \ {0}
        /\ y(u) \in Nat /\ y(v) \in Nat /\ y(w) \in Nat
        /\ h * P(u) <= k * y(u) + k /\ k * y(u) <= h * P(u) + k
        /\ k * y(v) <= h * P(v) + k /\ k * y(w) <= h * P(w) + k
    BY <1>2, <1>4, <1>6, <1>7
  <2>2. k = d * s
    OBVIOUS
  <2> HIDE DEF P, y, s, o, k, h
  <2>3. EqualShares(d, h, o, P(u), P(v), P(w), y(u), y(v), y(w), MinProfit)
    BY <2>1, <2>2, <1>3, <1>8 DEF EqualShares
  <2> QED BY <2>1, <2>3, <1>1, <1>5, EqualPayout
<1>10. Outlay(legs) = y(u) + y(v) + y(w)
  <2> DEFINE f == StakesOf(legs)
  <2>1. DOMAIN f = Outcomes /\ \A x \in Outcomes : f[x] = y(x) /\ f[x] \in Int
    BY <1>1, <1>6 DEF StakesOf
  <2>4. f \in [Outcomes -> Int]
    BY <2>1 DEF StakesOf
  <2> HIDE DEF f, y
  <2>2. SumFunction(f) = f[u] + f[v] + f[w]
    BY <2>4, SumOverOutcomes
  <2>3. SumFunction(f) = y(u) + y(v) + y(w)
    BY <1>2, <2>1, <2>2
  <2> QED BY <2>3 DEF Outlay, f
<1>11. ResultIf(legs, u) = y(u) * (o - 10) + -(10 * y(v)) + -(10 * y(w))
  <2> DEFINE f == [i \in DOMAIN legs |-> LegResult(legs[i], u)]
  <2>1. DOMAIN f = Outcomes
    BY <1>1
  <2>2. f[u] = y(u) * (o - 10)
    BY <1>0, <1>1, <1>2 DEF LegResult, One
  <2>3. f[v] = -(10 * y(v))
    BY <1>0, <1>1, <1>2 DEF LegResult, One
  <2>4. f[w] = -(10 * y(w))
    BY <1>0, <1>1, <1>2 DEF LegResult, One
  <2>5. \A x \in Outcomes : f[x] \in Int
    <3>1. f[u] \in Int /\ f[v] \in Int /\ f[w] \in Int
      BY <1>2, <1>5, <1>6, <2>2, <2>3, <2>4
    <3> HIDE DEF f
    <3> QED BY <1>0, <3>1
  <2>7. f \in [Outcomes -> Int]
    BY <2>1, <2>5
  <2> HIDE DEF f, y, o
  <2>6. SumFunction(f) = f[u] + f[v] + f[w]
    BY <2>7, SumOverOutcomes
  <2> QED BY <2>2, <2>3, <2>4, <2>6 DEF ResultIf, f
<1>12. RoundingLoss(legs, u) = (o - 10) + 10 + 10
  <2> DEFINE f == [i \in DOMAIN legs |-> IF legs[i].market = u THEN legs[i].odds - One ELSE One]
  <2>1. DOMAIN f = Outcomes
    BY <1>1
  <2>2. f[u] = o - 10 /\ f[v] = 10 /\ f[w] = 10
    BY <1>0, <1>1, <1>2 DEF One
  <2>3. \A x \in Outcomes : f[x] \in Int
    <3> HIDE DEF f
    <3> QED BY <1>0, <1>5, <2>2
  <2>5. f \in [Outcomes -> Int]
    BY <2>1, <2>3
  <2> HIDE DEF f, o
  <2>4. SumFunction(f) = f[u] + f[v] + f[w]
    BY <2>5, SumOverOutcomes
  <2> QED BY <2>2, <2>4 DEF RoundingLoss, f
<1>13. ResultIf(legs, u) + RoundingLoss(legs, u)
         = (y(u) + 1) * o - 10 * (y(u) + y(v) + y(w) - 1)
  <2>1. y(u) \in Nat /\ y(v) \in Nat /\ y(w) \in Nat
    BY <1>2, <1>6
  <2> DEFINE a == y(u)
             b == y(v)
             g == y(w)
  <2>2. a \in Nat /\ b \in Nat /\ g \in Nat
    BY <2>1
  <2> HIDE DEF a, b, g, o
  <2>3. a * (o - 10) = a * o - 10 * a /\ (a + 1) * o = a * o + o /\ a * o \in Int
    BY <2>2, <1>5
  <2>4. (a * (o - 10) + -(10 * b) + -(10 * g)) + ((o - 10) + 10 + 10)
          = (a + 1) * o - 10 * (a + b + g - 1)
    BY <2>2, <2>3, <1>5
  <2> QED BY <1>11, <1>12, <2>4 DEF a, b, g
<1>14. y(u) + y(v) + y(w) - 3 = Outlay(legs) - 3
  <2>1. y(u) \in Nat /\ y(v) \in Nat /\ y(w) \in Nat
    BY <1>2, <1>6
  <2> HIDE DEF y
  <2> QED BY <2>1, <1>10
<1> HIDE DEF y, o
<1> QED BY <1>9, <1>13, <1>14 DEF WinsMargin, LockedOn, One

\* So a full dutch within the margin is locked.
LEMMA FullDutchLocked ==
  ASSUME NEW e \in Executors, NEW d \in Deals[e],
         d.kind = "dutch_1x2", DOMAIN d.legs = Outcomes,
         ProfitAtLeast(d.odds, MinProfit), NEW m \in Outcomes
  PROVE  LockedOn(d.legs, m)
<1>0. PICK o : \E total \in Int : IsOpportunity(o) /\ IsStaked(d, o, total)
  BY DealOrigin
<1>1. PICK total \in Int : IsOpportunity(o) /\ IsStaked(d, o, total)
  BY <1>0
<1>2. /\ o.kind = "dutch_1x2" /\ DOMAIN o.legs = Outcomes /\ d.odds = o.odds
      /\ d.legs = ScaleStakesToRisk(OptimalDutchStakes(o.legs, total), MaxStake, MaxOutlay)
  BY <1>1, StakedLegsOf, PlacedLegs
<1>3. PICK t \in Nat : \E a \in Nat \ {0}, b \in Nat \ {0} : Shares(d.legs, d.odds, t, a, b)
  BY <1>1, <1>2, DutchShares
<1>4. PICK a \in Nat \ {0}, b \in Nat \ {0} : Shares(d.legs, d.odds, t, a, b)
  BY <1>3
<1>5. d.odds \in [Outcomes -> Nat \ {0}] /\ Underround(d.odds)
  BY <1>1, <1>2 DEF IsOpportunity
<1>6. PICK v, w : AreOutcomes(m, v, w)
  <2>1. CASE m = "Home"
    <3>1. AreOutcomes(m, "Draw", "Away")
      BY <2>1 DEF AreOutcomes, Outcomes
    <3> QED BY <3>1
  <2>2. CASE m = "Draw"
    <3>1. AreOutcomes(m, "Home", "Away")
      BY <2>2 DEF AreOutcomes, Outcomes
    <3> QED BY <3>1
  <2>3. CASE m = "Away"
    <3>1. AreOutcomes(m, "Home", "Draw")
      BY <2>3 DEF AreOutcomes, Outcomes
    <3> QED BY <3>1
  <2> QED BY <2>1, <2>2, <2>3 DEF Outcomes
<1> QED BY <1>4, <1>5, <1>6, SharesLocked

-----------------------------------------------------------------------------
(* The executors' deals *)

\* Whatever the prices and the outlay asked for, scaling leaves stakes that
\* validate_opportunity lets through.
THEOREM StakesAlwaysFit == Spec => []ScalingFits
<1>1. HoldsDeals => ScalingFits
  BY DealFits DEF HoldsDeals, ScalingFits
<1> QED BY <1>1, HoldsDealsInvariant, PTL

\* An order on its way is for a deal the limits accepted.
SendsAccepted ==
  \A e \in Executors : xpc[e] # "idle" => deal[e] # NoDeal /\ Acceptable(deal[e])

LEMMA SendsAcceptedInvariant == Spec => []SendsAccepted
<1>1. Init => SendsAccepted
  BY DEF Init, RailsInit, SendsAccepted
<1>2. RailsTypeOK /\ HoldsDeals /\ SendsAccepted /\ [Next]_vars => SendsAccepted'
  <2> SUFFICES ASSUME RailsTypeOK, HoldsDeals, SendsAccepted, [Next]_vars,
                      NEW f \in Executors, xpc'[f] # "idle"
               PROVE  deal'[f] # NoDeal /\ Acceptable(deal'[f])
    BY DEF SendsAccepted, Acceptable
  <2>0. xpc[f] # "idle" => deal[f] # NoDeal /\ Acceptable(deal[f])
    BY DEF SendsAccepted
  <2>t. xpc \in [Executors -> RailsPc] /\ DOMAIN deal = Executors
    BY DEF RailsTypeOK, HoldsDeals
  <2>1. CASE DayEnds
    BY <2>0, <2>1 DEF DayEnds, Midnight
  <2>2. ASSUME NEW e \in Executors, Step(e)
        PROVE  deal'[f] # NoDeal /\ Acceptable(deal'[f])
    <3>1. CASE Place(e)
      <4>1. CASE f = e
        BY <3>1, <4>1 DEF Place
      <4>2. CASE f # e
        BY <3>1, <4>2, <2>0, <2>t DEF Place, Validate
      <4>3. QED
        BY <4>1, <4>2
    <3>2. CASE Accepted(e)
      <4>1. xpc[f] # "idle" /\ deal' = deal
        BY <3>2, <2>t DEF Accepted, ExchangeAccepts
      <4>2. QED
        BY <4>1, <2>0
    <3>3. ASSUME TakeUp(e) \/ Decline(e) \/ Rejected(e) \/ Recorded(e) \/ LostReply(e) \/ Restart(e)
          PROVE  /\ xpc'[f] = IF f = e THEN "idle" ELSE xpc[f]
                 /\ f # e => deal'[f] = deal[f]
      <4>1. CASE TakeUp(e)
        BY <4>1, <2>t DEF TakeUp, NewRiskConfig, railsVars
      <4>2. CASE Decline(e)
        BY <4>2, <2>t DEF Decline, RefuseOrDryRun, Clear
      <4>3. CASE Rejected(e)
        BY <4>3, <2>t DEF Rejected, SubmitFails, Clear
      <4>4. CASE Recorded(e)
        BY <4>4, <2>t DEF Recorded, RecordExecution, Clear
      <4>5. CASE LostReply(e)
        BY <4>5, <2>t DEF LostReply, ReplyLost, Clear
      <4>6. CASE Restart(e)
        BY <4>6, <2>t DEF Restart, NewRiskConfig
      <4>7. QED
        BY <3>3, <4>1, <4>2, <4>3, <4>4, <4>5, <4>6
    <3>4. QED
      BY <2>2, <2>0, <3>1, <3>2, <3>3 DEF Step
  <2>3. CASE UNCHANGED vars
    BY <2>0, <2>3 DEF vars, railsVars
  <2>4. QED
    BY <2>1, <2>2, <2>3 DEF Next
<1>3. Spec => []RailsTypeOK
  BY ExecutionKeepsRails, RailsTypeCorrect
<1>4. QED
  BY <1>1, <1>2, <1>3, HoldsDealsInvariant, PTL DEF Spec

\* A dutch placed in full wins its margin on each outcome, but for the pennies,
\* for any prices, outlay and limits.
THEOREM DutchesLocked == Spec => []DutchLocked
<1>1. HoldsDeals /\ SendsAccepted => DutchLocked
  <2> SUFFICES ASSUME HoldsDeals, SendsAccepted, NEW e \in Executors,
                      xpc[e] \in {"sent", "sentBefore"},
                      deal[e].kind = "dutch_1x2", DOMAIN deal[e].legs = Outcomes,
                      NEW m \in Outcomes
               PROVE  LockedOn(deal[e].legs, m)
    BY DEF DutchLocked, Placed, LockedOn
  <2>1. deal[e] # NoDeal /\ Acceptable(deal[e])
    BY DEF SendsAccepted
  <2>2. deal[e] \in Deals[e]
    BY <2>1 DEF HoldsDeals
  <2>3. ProfitAtLeast(deal[e].odds, MinProfit)
    BY <2>1 DEF Acceptable
  <2> QED BY <2>2, <2>3, FullDutchLocked
<1> QED BY <1>1, HoldsDealsInvariant, SendsAcceptedInvariant, PTL
=============================================================================
