-------------------------- MODULE PredictionReports -------------------------
(***************************************************************************)
(* What the hibs-bet patches report from the prediction log: the tables of *)
(* the monitor, the recent results, the backtest and the closing line      *)
(* value headlines (prediction_log.py, price_truth.py).  Each is one query *)
(* over the committed rows and a count, so it is an operator of the state; *)
(* several are asked of snapshots, others of one row per fixture, and they *)
(* select by different columns.  Tallies, scores, Wilson intervals and     *)
(* averages only describe what they are given and are left out.            *)
(***************************************************************************)
EXTENDS PredictionLog

CONSTANTS
  AuditOn, ClvOn,       \* HIBS_PREDICTION_LOG_ENABLED, HIBS_CLV_LOG_ENABLED
  DayLength,            \* ticks of a day
  Fetched,              \* rows asked for per result shown, 4
  ScoredLag             \* the backtest's own 2.5 hours

ASSUME ReportAssumption ==
  /\ {AuditOn, ClvOn} \subseteq BOOLEAN /\ (ClvOn => AuditOn)
  /\ {ScoredLag, Fetched} \subseteq Nat /\ DayLength \in Nat \ {0}

\* Mutant: of equal rows, the one that was there first.
NewestOrFirst(S, column) ==
  CHOOSE r \in S : \A s \in S :
    s[column] < r[column] \/ (s[column] = r[column] /\ r.id <= s.id)

\* The row with the greatest value in a column, the newest of equal ones.
Newest(S, column) ==
  CHOOSE r \in S : \A s \in S :
    s[column] < r[column] \/ (s[column] = r[column] /\ s.id <= r.id)
PerFixture(S, column) ==
  {Newest({r \in S : r.fixture = i}, column) : i \in {r.fixture : r \in S}}

\* The rows that may be the first of their fixture in an answer that is ordered by
\* one column only: SQL leaves the order of equal ones open.
AnyGreatest(S, column) ==
  {r \in S : \A s \in S : s.fixture = r.fixture => s[column] <= r[column]}

\* isoformat cut-offs: the window's, or the deployment when that is later.
Cutoff(days, since) == Max({now - days} \cup (IF since = Unset THEN {} ELSE {since}))
KickedOffSince(cut) == {r \in rows : Kickoff[r.fixture] >= cut}
CapturedSince(cut) == {r \in rows : r.captured >= cut}
ScoredOf(S) == {r \in S : Scored(r)}

\* The logged value leg: the best bet, or the one with the highest return.
ValuePick(p) ==
  LET legs == DOMAIN p.values
      top == CHOOSE m \in legs : \A n \in legs : p.values[n].roi <= p.values[m].roi
      key == IF p.best # NoBet THEN p.best ELSE top
  IN IF legs = {} \/ (p.best # NoBet /\ p.best \notin legs) THEN NoBet ELSE key

-----------------------------------------------------------------------------
(* Monitor and recent results.                                              *)

Today == (now \div DayLength) * DayLength .. ((now \div DayLength) + 1) * DayLength - 1

\* _rows_kickoff_today: what its table may show.
KickoffToday == AnyGreatest({r \in rows : Kickoff[r.fixture] \in Today}, "captured")

\* recent_logged_results_dict: one row per fixture out of the newest ones.
Before(r, S) == {s \in S : s.recorded > r.recorded \/ (s.recorded = r.recorded /\ s.id > r.id)}
RecentResults(limit) ==
  LET asked == {r \in ScoredOf(rows) : Cardinality(Before(r, ScoredOf(rows))) < Fetched * limit}
      seen == PerFixture(asked, "recorded")
  IN {r \in seen : Cardinality(Before(r, seen)) < limit}

-----------------------------------------------------------------------------
(* The backtest: one forecast per fixture, the last before kick-off.        *)

\* Mutant: the last forecast, whenever it was made.
AnyTime(r) == TRUE

InTime(r) == r.captured <= Kickoff[r.fixture] + Grace
DedupeLatestPreKickoff(S) == PerFixture({r \in S : InTime(r)}, "captured")

BacktestReport(days) ==
  LET deduped == DedupeLatestPreKickoff(KickedOffSince(now - days))
      over == {r \in deduped : now >= Kickoff[r.fixture] + ScoredLag}
  IN [future |-> deduped \ over, pending |-> over \ ScoredOf(over), scored |-> ScoredOf(over)]

-----------------------------------------------------------------------------
(* Reports over snapshots: every row of a fixture counts.                   *)

ClvCounted(S) == {r \in S : r.clv.pp # NoPp}

\* clv_beat_close_summary: settled rows of the kick-off window, while the log and its
\* closing line values are switched on.
ClvSummary(days, since, valueOnly) ==
  LET S == ClvCounted({r \in ScoredOf(KickedOffSince(Cutoff(days, since))) :
             ClvOn /\ (valueOnly => ValuePick(r.forecast) # NoBet)})
  IN [rows |-> S, beat |-> {r \in S : r.clv.pp > 0},
      priced |-> {r \in S : r.clv.edge # NoTriplet}]

\* clv_beat_close_fair_summary recomputes each row from what it stores, on or off.
ClvFairSummary(days, since) ==
  {r \in ScoredOf(KickedOffSince(Cutoff(days, since))) : EnrichPriceTruth(r.clv).fair # NoTriplet}

\* audit_odds_capture_stats
OddsCapture(days, since) ==
  LET S == {r \in CapturedSince(Cutoff(days, since)) : AuditOn} IN
  [n |-> Cardinality(S), with |-> Cardinality({r \in S : HasStored1x2(r.forecast)}),
   scored |-> Cardinality(ScoredOf(S)),
   scoredWith |-> Cardinality({r \in ScoredOf(S) : HasStored1x2(r.forecast)})]

\* Distinct days of kick-off with a snapshot in the window.
CountMatchdays(days, since) ==
  Cardinality({Kickoff[r.fixture] \div DayLength : r \in CapturedSince(Cutoff(days, since))})

-----------------------------------------------------------------------------
(* Properties.                                                              *)

\* Hindsight does not choose the backtest's forecast: once a match has begun (plus
\* the grace) the forecast it is judged by stays the same one, until it is deleted
\* or replayed, or a forecast made in time arrives late, from another id or
\* from a thread that had still to write it.
PickOf(i) == {r.id : r \in DedupeLatestPreKickoff(Of(i))}
PickFrozen ==
  [][\A i \in Ids : (now > Kickoff[i] + Grace /\ PickOf(i) # {} /\ PickOf(i)' # PickOf(i)) =>
       LET before == {r.id : r \in Of(i)} after == {r.id : r \in Of(i)'} IN
       \/ PickOf(i) \cap after = {}
       \/ \E r \in Of(i)' : ~ r.live
       \/ \E r \in Of(i)' : r.id \in after \ before /\ r.captured <= Kickoff[i] + Grace]_vars

\* The backtest judges a match by one forecast, over any window and whatever ids the
\* match was logged under and by whomever its rows were settled and moved.
JudgedOnce ==
  \A days \in 0..MaxTime :
    \A r, s \in BacktestReport(days).scored : Resolve[r.logged] = Resolve[s.logged] => r = s

\* A fixture whose rows were logged one after the other, in time, and settled at once
\* is judged by its last forecast on every page, though the monitor picks it by capture
\* time, the recent results by the settlement's time out of as many rows as they ask
\* for, and the backtest by capture time out of its window.
Regular(i) ==
  /\ \A r, s \in Of(i) : irregular \cap r.id..s.id = {} /\ Scored(r) /\ r.recorded = s.recorded
  /\ \A r \in Of(i) : r.captured <= Kickoff[i] + Grace
VerdictsAgree ==
  \A i \in Ids : (MinInterval > 0 /\ Regular(i)) =>
    \A r \in Of(i) :
      \/ r = Latest(Of(i))
      \/ /\ r \notin KickoffToday
         /\ \A n \in 1..MaxRows : r \notin RecentResults(n)
         /\ \A days \in 0..MaxTime : r \notin BacktestReport(days).scored

\* The two headlines on closing line value, one read from the stored figure and one
\* recomputed, count the same settled rows of any window, but for rows that miss a
\* price of another side, and rows whose pick a later sync found no closing price for,
\* which the recomputed one still counts by the closing odds of a sync before.
HeadlinesAgree ==
  ClvOn => \A days \in 0..MaxTime, since \in {Unset} \cup 0..MaxTime :
    LET raw == ClvSummary(days, since, FALSE).rows
        fair == ClvFairSummary(days, since)
    IN /\ \A r \in raw \ fair :
            ~ (TripletComplete(r.clv.opening) /\ TripletComplete(r.clv.closing))
       /\ \A r \in fair \ raw : r.clv.closing[r.clv.best] = NoOdds
=============================================================================
