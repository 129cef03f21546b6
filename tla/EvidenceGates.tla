--------------------------- MODULE EvidenceGates ----------------------------
(***************************************************************************)
(* The forward evidence gates of forward_evidence.py: what the operator is *)
(* told the prediction log proves so far, and the grade drawn from it.     *)
(* Percentages, which the code rounds to two places first, are compared as  *)
(* fractions.                                                              *)
(***************************************************************************)
EXTENDS PredictionReports

CONSTANTS
  CronScheduled,            \* of the deployment
  Since,                    \* evidence_deploy_since_iso()
  ShortWindow, LongWindow,  \* 7 and 28 days
  MinMatchdays, CapturePct, ScoredPct, ClvMinRows, BeatPct, ValueBeatPct

ASSUME EvidenceAssumption ==
  {ShortWindow, LongWindow, MinMatchdays, CapturePct, ScoredPct, ClvMinRows,
   BeatPct, ValueBeatPct} \subseteq Nat

Critical == {"F1", "F2", "F3"}
Informational == {"F9b", "F9c", "F9d"}
Evidence == {"F7", "F7b", "F8", "F9"}
GateIds == Critical \cup Evidence \cup Informational

AtLeast(part, whole, pct) == whole > 0 /\ 100 * part >= pct * whole

\* mu_CLV above zero: the prices taken, over the fair closing prices, multiply to
\* more than one (to the per mille; a negative margin is left to the same lift).
RatioPermille(c) ==
  LET rest == Product(c.edge, Quoted(c.edge) \ {c.best})
      open == IF c.odds = NoOdds THEN c.opening[c.best] ELSE c.odds
  IN (open * rest) \div (OverroundOf(c.edge) \div 1000)
MuPositive(S) ==
  LET R == {r \in S : r.clv.best \in Sides} IN
  FoldFunction(LAMBDA x, y : (x * y) \div 1000, 1000, [r \in R |-> RatioPermille(r.clv)]) > 1000

BeatsClose(h, pct) ==
  /\ AtLeast(Cardinality(h.beat), Cardinality(h.rows), pct)
  /\ Cardinality(h.rows) >= ClvMinRows

\* The gates that no buyer's verdict waits for: F9b never passes.
InformationalGates(value) ==
  [F9b |-> FALSE,
   F9c |-> BeatsClose(value, ValueBeatPct),
   F9d |-> /\ value.priced # {} /\ MuPositive(value.priced)
           /\ Cardinality(value.rows) >= ClvMinRows]

Gates ==
  LET short == OddsCapture(ShortWindow, Unset)
      long == OddsCapture(LongWindow, Since)
      clv == ClvSummary(LongWindow, Since, FALSE)
      value == ClvSummary(LongWindow, Since, TRUE)
  IN [g \in GateIds |->
       CASE g = "F1" -> AuditOn
         [] g = "F2" -> ClvOn
         [] g = "F3" -> CronScheduled
         [] g = "F7" -> /\ CountMatchdays(ShortWindow, Since) >= MinMatchdays
                        /\ AtLeast(short.with, short.n, CapturePct)
         [] g = "F7b" -> Since # Unset /\ AtLeast(long.scoredWith, long.scored, ScoredPct)
         [] g = "F8" -> Cardinality(clv.rows) >= ClvMinRows
         [] g = "F9" -> BeatsClose(clv, BeatPct)
         [] g \in Informational -> InformationalGates(value)[g]]

CriticalPass(gates) == \A g \in Critical : gates[g]

\* The grade counts all gates, the informational ones too.
EvidenceGrade(gates) ==
  LET passed == Cardinality({g \in GateIds : gates[g]})
      Share(pct) == 100 * passed >= pct * Cardinality(GateIds)
  IN IF ~ CriticalPass(gates) THEN "D"
     ELSE IF \A g \in Evidence : gates[g] THEN "A"
     ELSE IF Share(85) THEN "B+" ELSE IF Share(70) THEN "B" ELSE IF Share(55) THEN "C+" ELSE "C"

-----------------------------------------------------------------------------
Grades == <<"D", "C", "C+", "B", "B+", "A">>
Rank(grade) == CHOOSE n \in DOMAIN Grades : Grades[n] = grade

\* Passing one more gate never costs a deployment its grade, over every outcome of
\* the ten gates (_evidence_grade cascades over shares of all of them, and jumps
\* to A and D on some).
GradeMonotone ==
  \A gates \in [GateIds -> BOOLEAN], g \in GateIds :
    Rank(EvidenceGrade(gates)) <= Rank(EvidenceGrade([gates EXCEPT ![g] = TRUE]))

\* No gate on the closing line passes on fewer rows than the sample gate asks for,
\* the value picks being among the rows it counts; and a deployment that has switched
\* closing line values off passes none of them on the rows it logged before.
GatesNested ==
  LET g == Gates IN
  /\ (g["F9"] \/ g["F9c"] \/ g["F9d"]) => g["F8"]
  /\ (ClvMinRows > 0 /\ g["F8"]) => g["F1"] /\ g["F2"]
=============================================================================
