---------------------------- MODULE PredictionLog ---------------------------
(***************************************************************************)
(* The prediction log of the hibs-bet patches (prediction_log.py): a table *)
(* of forecasts that the web process appends to after every bundle build,  *)
(* and that a settlement pass fills with full-time results and closing     *)
(* odds.  The daily pipeline of the command line logs and settles too,     *)
(* replays matches of the past into the same table, recomputes its price   *)
(* figures and deletes from it.  Every function reads in autocommit mode   *)
(* and commits later, on a connection of its own, so a commit may find     *)
(* other rows than the read before it did.  A process may be killed        *)
(* between any two steps.                                                  *)
(*                                                                         *)
(* The API knows a match under one fixture id; a row logged from another   *)
(* source carries an id of its own, and is moved to the API's id, found by *)
(* the team names, when it is settled.                                     *)
(***************************************************************************)
EXTENDS Integers, Sequences, FiniteSets, PriceTruth

CONSTANTS
  Web,          \* threads of the web process: log and settle
  Cli,          \* the command line's: log, settle, replay, mine, delete
  Ids,          \* fixture ids
  Resolve,      \* [Ids -> Ids], the API's id of the match
  Final,        \* [Ids -> Sides \cup {NotFT}], the result the API ends up with
  NotFT,        \* a match that never gets status FT (AET, PEN, abandoned)
  Unset,        \* NULL
  Kickoff,      \* [Ids -> Nat]
  Offers,       \* what a bundle has of a fixture: [fixture, fetched, forecast]
  Replays,      \* forecasts of a historic replay
  Histories,    \* what the table may start with: sequences of [fixture, forecast],
                \* rows of a version that stored no panel of fair opening odds
  Closings,     \* the closing odds a sync may get, NoTriplet a failed fetch
  Purgeable,    \* ids of leagues the pipeline excludes
  Elite,        \* ids of the leagues a replacement of the cohort keeps
  AlwaysLog,    \* HIBS_PREDICTION_LOG_ALWAYS
  MinInterval,  \* HIBS_PREDICTION_LOG_MIN_INTERVAL_SEC
  Grace,        \* the backtest's 15 minutes
  Lock,         \* the two hours before kick-off a replay is stamped with
  FtAfter,      \* min_after_kickoff_hours
  Limit,        \* max_fixtures of one sync
  Retain,       \* days of prune_old_rows
  MaxRows, MaxTime, MaxDeaths   \* bounds

\* What is used of a forecast; its best bet and its value legs may be of any market.
IsForecast(p) ==
  /\ p = [pick |-> p.pick, bookmaker |-> p.bookmaker, line |-> p.line,
          best |-> p.best, values |-> p.values]
  /\ p.best \in STRING /\ {p.bookmaker, p.line} \subseteq [Sides -> Nat]
  /\ \A m \in DOMAIN p.values : p.values[m].odds \in Nat /\ p.values[m].roi \in Int

ASSUME LogAssumption ==
  /\ IsFiniteSet(Web \cup Cli)
  /\ \A p \in Replays : IsForecast(p)
  /\ \A o \in Offers : IsForecast(o.forecast) /\ {o.fixture, o.fetched} \subseteq [Sides -> Nat]
  /\ \A old \in Histories :
       /\ Len(old) \in 0..MaxRows /\ DOMAIN old = 1..Len(old)
       /\ \A n \in DOMAIN old : old[n].fixture \in Ids /\ IsForecast(old[n].forecast)
  /\ Unset \notin Sides \cup Nat
  /\ Resolve \in [Ids -> Ids] /\ \A i \in Ids : Resolve[Resolve[i]] = Resolve[i]
  /\ Kickoff \in [Ids -> Nat] /\ Final \in [Ids -> Sides \cup {NotFT}]
  /\ \A i \in Ids : Kickoff[Resolve[i]] = Kickoff[i] /\ Final[Resolve[i]] = Final[i]
  /\ Purgeable \subseteq Ids /\ Elite \subseteq Ids \ Purgeable
  /\ Closings \subseteq [Sides -> Nat] /\ NoTriplet \in Closings
  /\ {MinInterval, Grace, Lock, FtAfter, Retain, MaxRows, MaxTime, MaxDeaths} \subseteq Nat
  /\ Limit \in Nat \ {0} /\ AlwaysLog \in BOOLEAN

VARIABLES
  now,      \* the clock
  rows,     \* prediction_snapshots
  nextId,   \* AUTOINCREMENT
  job,      \* what each thread is in the middle of, with its locals
  irregular,  \* ids of rows that may not be the next of their fixture by time: the
              \* ones the table starts with, those whose logger had not seen
              \* another one, replays, and rows moved to an id
  deaths    \* processes killed so far

vars == <<now, rows, nextId, job, irregular, deaths>>
Threads == Web \cup Cli
Idle == [at |-> "idle"]
Become(t, j) == job' = [job EXCEPT ![t] = j]

Unrecorded(r) == r.recorded = Unset
Scored(r) == r.outcome # Unset
Of(i) == {r \in rows : r.fixture = i}
Latest(S) == CHOOSE r \in S : \A s \in S : s.id <= r.id

\* A row as a version before price_truth.py left it.
OldRow(n, o) ==
  [id |-> n, fixture |-> o.fixture, logged |-> o.fixture, captured |-> 0, live |-> TRUE,
   forecast |-> o.forecast, panel |-> FALSE, clv |-> ClvOpeningCapture(NoTriplet, o.forecast),
   outcome |-> Unset, recorded |-> Unset]

Init ==
  /\ \E old \in Histories :
       /\ rows = {OldRow(n, old[n]) : n \in DOMAIN old}
       /\ nextId = Len(old) + 1 /\ irregular = DOMAIN old
  /\ now = 0 /\ deaths = 0
  /\ job = [t \in Threads |-> Idle]

\* The bound on rows, with those that threads are about to insert.
Room ==
  nextId + Cardinality({t \in Threads : job[t].at \in {"insert", "pick", "import"}}) <= MaxRows

-----------------------------------------------------------------------------
(* Logging a forecast: maybe_log_prediction_snapshot of a bundle's fixture. *)

\* Mutant: the interval is not asked of rows that were settled.
DueOfOpen(i) ==
  \A r \in Of(i) : (r = Latest(Of(i)) /\ ~ Scored(r)) => now - r.captured >= MinInterval

\* Without ALWAYS a fixture is logged once, by backfill_snapshots_from_fixtures.
LogsMissing(i) == ~ AlwaysLog => Of(i) = {}

\* The interval since the fixture's last row.
Due(i) ==
  \A r \in Of(i) : r = Latest(Of(i)) => now - r.captured >= MinInterval

LogLook(t, i, o) ==
  LET p == EnsureSnapshotOdds(o.fixture, o.fetched, o.forecast) IN
  /\ job[t] = Idle /\ Room
  /\ HasStored1x2(p) /\ LogsMissing(i) /\ Due(i)
  /\ Become(t, [at |-> "insert", fixture |-> i, captured |-> now, forecast |-> p,
                clv |-> ClvOpeningCapture(o.fixture, p), known |-> {r.id : r \in Of(i)}])
  /\ UNCHANGED <<now, rows, nextId, irregular, deaths>>

\* A row as it is inserted: with the bookmaker's three prices goes the panel of the
\* fair ones (attach_price_panel_to_prediction).
NewRow(j) ==
  [id |-> nextId, fixture |-> j.fixture, logged |-> j.fixture, captured |-> j.captured,
   live |-> TRUE, forecast |-> j.forecast, panel |-> TripletComplete(j.forecast.bookmaker),
   clv |-> j.clv,
   outcome |-> Unset, recorded |-> Unset]

LogWrite(t) ==
  /\ job[t].at = "insert"
  /\ rows' = rows \cup {NewRow(job[t])}
  /\ irregular' = IF {r.id : r \in Of(job[t].fixture)} \subseteq job[t].known
             THEN irregular ELSE irregular \cup {nextId}
  /\ nextId' = nextId + 1
  /\ Become(t, Idle)
  /\ UNCHANGED <<now, deaths>>

-----------------------------------------------------------------------------
(* A historic replay: insert_historic_snapshot of a match that is over.     *)

ImportCheck(t, i, p) ==
  /\ t \in Cli /\ job[t] = Idle /\ Room
  /\ Final[i] # NotFT /\ Resolve[i] = i /\ now >= Kickoff[i] + FtAfter
  /\ ~ \E r \in Of(i) : Scored(r)
  /\ Become(t, [at |-> "pick", fixture |-> i, forecast |-> p])
  /\ UNCHANGED <<now, rows, nextId, irregular, deaths>>

\* _latest_unscored_snapshot_id
ImportLook(t) ==
  LET open == {r \in Of(job[t].fixture) : ~ Scored(r)} IN
  /\ job[t].at = "pick"
  /\ Become(t, [at |-> "import", fixture |-> job[t].fixture, forecast |-> job[t].forecast,
                target |-> IF open = {} THEN 0 ELSE Latest(open).id])
  /\ UNCHANGED <<now, rows, nextId, irregular, deaths>>

\* The columns a replay writes, over a row it updates or into a new one.
Replayed(r, j) ==
  [r EXCEPT !.captured = Kickoff[j.fixture] - Lock, !.live = FALSE, !.panel = FALSE,
            !.forecast = j.forecast, !.clv = ClvOpeningCapture(NoTriplet, j.forecast),
            !.outcome = Final[j.fixture], !.recorded = now]

ImportUpdate(t) ==
  /\ job[t].at = "import" /\ job[t].target # 0
  /\ rows' = {IF r.id = job[t].target THEN Replayed(r, job[t]) ELSE r : r \in rows}
  /\ irregular' = irregular \cup {job[t].target}
  /\ Become(t, Idle)
  /\ UNCHANGED <<now, nextId, deaths>>

ImportInsert(t) ==
  LET j == job[t]
      blank == [id |-> nextId, fixture |-> j.fixture, logged |-> j.fixture, captured |-> 0,
                live |-> FALSE, forecast |-> j.forecast, panel |-> FALSE,
                clv |-> ClvOpeningCapture(NoTriplet, j.forecast),
                outcome |-> Unset, recorded |-> Unset]
  IN
  /\ j.at = "import" /\ j.target = 0
  /\ rows' = rows \cup {Replayed(blank, j)}
  /\ irregular' = irregular \cup {nextId}
  /\ nextId' = nextId + 1
  /\ Become(t, Idle)
  /\ UNCHANGED <<now, deaths>>

-----------------------------------------------------------------------------
(* Settlement: sync_finished_results, one fixture after another.            *)

\* The LIMIT earliest fixtures with a row that has no result.
Batch(B) ==
  LET pending == {r.fixture : r \in {x \in rows : Unrecorded(x)}} IN
  /\ B \subseteq pending
  /\ Cardinality(B) = Min({Limit, Cardinality(pending)})
  /\ \A b \in B, p \in pending \ B : Kickoff[b] <= Kickoff[p]

Finished(i, at) == at >= Kickoff[i] + FtAfter

SyncBegin(t) ==
  /\ job[t] = Idle
  /\ \E B \in SUBSET {r.fixture : r \in rows} :
       /\ Batch(B)
       /\ LET todo == {i \in B : Finished(i, now)} IN
            todo # {} /\ Become(t, [at |-> "sync", todo |-> todo])
  /\ UNCHANGED <<now, rows, nextId, irregular, deaths>>

\* A sync as the command line runs it, and the one after the build of a bundle in
\* the web process, when something is pending; its throttle is left open.
PredLogSync(t) == rows # {} /\ SyncBegin(t)
AutoSync(t) == (\E r \in rows : Unrecorded(r) \/ ~ Scored(r)) /\ PredLogSync(t)

\* The fixture whose turn it is, and what is left after it.
Turn(t, i) ==
  /\ job[t].at = "sync" /\ i \in job[t].todo
  /\ \A j \in job[t].todo : Kickoff[i] <= Kickoff[j]
Rest(todo, i) == IF todo = {i} THEN Idle ELSE [at |-> "sync", todo |-> todo \ {i}]

\* The fetch fails, finds no such teams, or the status is not FT.
SyncSkip(t, i) ==
  /\ Turn(t, i)
  /\ Become(t, Rest(job[t].todo, i))
  /\ UNCHANGED <<now, rows, nextId, irregular, deaths>>

\* Mutant: the rows stay under the id they were logged with.
SettledInPlace(i) ==
  {IF r.fixture = i /\ Unrecorded(r) THEN [r EXCEPT !.outcome = Final[i], !.recorded = now] ELSE r
   : r \in rows}

\* Mutant: the rows of the API's id, which the fetch answered with, are settled.
SettledByAnswer(i) ==
  {IF r.fixture = Resolve[i] /\ Unrecorded(r)
   THEN [r EXCEPT !.outcome = Final[i], !.recorded = now] ELSE r : r \in rows}

\* _apply_ft_to_snapshots: every row of the stored id without a result.
Settled(i) ==
  {IF r.fixture = i /\ Unrecorded(r)
   THEN [r EXCEPT !.outcome = Final[i], !.recorded = now, !.fixture = Resolve[i]] ELSE r
   : r \in rows}

SyncSettle(t, i) ==
  /\ Turn(t, i) /\ Final[i] # NotFT
  /\ rows' = Settled(i)
  /\ irregular' = irregular \cup {r.id : r \in {x \in Of(i) : Unrecorded(x) /\ i # Resolve[i]}}
  /\ Become(t, [at |-> "odds", fixture |-> i, todo |-> job[t].todo])
  /\ UNCHANGED <<now, nextId, deaths>>

\* The closing odds are fetched, then all rows of the match are read, and what
\* is computed from these copies is written later.
SyncRead(t, closing) ==
  LET j == job[t] IN
  /\ j.at = "odds"
  /\ Become(t, [at |-> "clv", fixture |-> j.fixture, todo |-> j.todo, closing |-> closing,
                computed |-> {[id |-> r.id, clv |-> ApplyClv(r.clv, closing)] :
                                r \in Of(j.fixture) \cup Of(Resolve[j.fixture])}])
  /\ UNCHANGED <<now, rows, nextId, irregular, deaths>>

Rewritten(computed) ==
  {IF \E c \in computed : c.id = r.id
   THEN [r EXCEPT !.clv = (CHOOSE c \in computed : c.id = r.id).clv] ELSE r : r \in rows}

SyncWrite(t) ==
  LET j == job[t] IN
  /\ j.at = "clv"
  /\ rows' = Rewritten(j.computed)
  /\ Become(t, Rest(j.todo, j.fixture))
  /\ UNCHANGED <<now, nextId, irregular, deaths>>

-----------------------------------------------------------------------------
(* Maintenance from the command line.                                       *)

\* backfill_audit_price_truth reads every row and writes back, with its forecast,
\* those whose recomputation differs from what it read: the ones without a panel,
\* which old rows and replays lack.
MineRead(t) ==
  LET stale == {r \in rows : ~ r.panel /\ TripletComplete(r.forecast.bookmaker)} IN
  /\ t \in Cli /\ job[t] = Idle /\ stale # {}
  /\ Become(t, [at |-> "mine",
                computed |-> {[id |-> r.id, forecast |-> r.forecast,
                               clv |-> EnrichPriceTruth(r.clv)] : r \in stale}])
  /\ UNCHANGED <<now, rows, nextId, irregular, deaths>>

\* Mutant: the row is replaced by one with the columns the backfill knows.
MinedAnew(r, c) ==
  [r EXCEPT !.clv = c.clv, !.forecast = c.forecast, !.panel = TRUE,
            !.outcome = Unset, !.recorded = Unset]

Mined(r, c) == [r EXCEPT !.clv = c.clv, !.forecast = c.forecast, !.panel = TRUE]

MineWrite(t) ==
  LET computed == job[t].computed IN
  /\ job[t].at = "mine"
  /\ rows' = {IF \E c \in computed : c.id = r.id
              THEN Mined(r, CHOOSE c \in computed : c.id = r.id) ELSE r : r \in rows}
  /\ Become(t, Idle)
  /\ UNCHANGED <<now, nextId, irregular, deaths>>

Delete(t, S) ==
  /\ t \in Cli /\ job[t] = Idle /\ S # {}
  /\ rows' = rows \ S
  /\ UNCHANGED <<now, nextId, job, irregular, deaths>>

Prune(t) == Delete(t, {r \in rows : r.captured < now - Retain})
PurgeExcluded(t) == Delete(t, {r \in rows : r.logged \in Purgeable})

\* replace_elite_backfill_cohort is this one after the other.
PurgeWindow(t, from, to) ==
  Delete(t, {r \in rows : r.logged \notin Elite /\ Kickoff[r.logged] \in from..to})

-----------------------------------------------------------------------------
Tick == now < MaxTime /\ now' = now + 1 /\ UNCHANGED <<rows, nextId, job, irregular, deaths>>

\* A process is killed: its threads lose what they were in the middle of.
Die(P) ==
  /\ deaths < MaxDeaths /\ \E t \in P : job[t] # Idle
  /\ job' = [t \in Threads |-> IF t \in P THEN Idle ELSE job[t]]
  /\ deaths' = deaths + 1
  /\ UNCHANGED <<now, rows, nextId, irregular>>

SyncFetch(t) == \E i \in Ids : SyncSkip(t, i) \/ SyncSettle(t, i)
SyncOdds(t) == \E c \in Closings : SyncRead(t, c)
Import(t) == ImportLook(t) \/ ImportUpdate(t) \/ ImportInsert(t)

\* What a thread does next once it has begun something.
Resume(t) ==
  LogWrite(t) \/ Import(t) \/ SyncFetch(t) \/ SyncOdds(t) \/ SyncWrite(t) \/ MineWrite(t)

\* Any fixture of a bundle that is given a forecast.
LogBundle(t) == \E i \in Ids, o \in Offers : LogLook(t, i, o)

Maintain(t) ==
  \/ \E i \in Ids, p \in Replays : ImportCheck(t, i, p)
  \/ MineRead(t) \/ Prune(t) \/ PurgeExcluded(t)
  \/ \E from, to \in Range(Kickoff) : PurgeWindow(t, from, to)

Begin(t) == LogBundle(t) \/ AutoSync(t) \/ (t \in Cli /\ PredLogSync(t)) \/ Maintain(t)

Next ==
  \/ \E t \in Threads : Begin(t) \/ Resume(t)
  \/ Tick \/ Die(Web) \/ Die(Cli)

\* The daily pipeline keeps starting a sync and finishes what it begins, and an
\* API that is asked again and again answers in the end.  The web process owes
\* nobody a sync.
Fairness ==
  /\ WF_vars(Tick)
  /\ \A t \in Cli :
       /\ WF_vars(Resume(t)) /\ SF_vars(PredLogSync(t))
       /\ SF_vars(\E i \in Ids : SyncSettle(t, i))

Spec == Init /\ [][Next]_vars /\ Fairness
-----------------------------------------------------------------------------
(* Properties.                                                              *)

LogTypeOK ==
  /\ now \in 0..MaxTime /\ nextId \in 1..MaxRows + 1 /\ deaths \in 0..MaxDeaths
  /\ irregular \subseteq 1..MaxRows
  /\ \A r \in rows :
       /\ r.id < nextId /\ {r.fixture, r.logged} \subseteq Ids /\ r.clv \in ClvBlock
       /\ {r.live, r.panel} \subseteq BOOLEAN /\ r.captured \in -Lock..MaxTime
       /\ r.outcome \in Sides \cup {Unset} /\ r.recorded \in 0..MaxTime \cup {Unset}
  /\ \A t \in Threads :
       job[t].at \in {"idle", "insert", "pick", "import", "sync", "odds", "clv", "mine"}

\* A row carries the result of the match it was logged for, and stands under
\* that match's API id, whoever settled it: two syncs at once, a replay that
\* overtook them, and rows moved between ids (_apply_ft_to_snapshots,
\* insert_historic_snapshot).
ResultOfItsMatch ==
  /\ LogTypeOK
  /\ \A r \in rows : Scored(r) =>
       /\ r.outcome = Final[r.logged] /\ r.fixture = Resolve[r.logged] /\ ~ Unrecorded(r)

\* Rows of one fixture are MIN_INTERVAL apart, as long as none from the one to the
\* other was logged by a thread that had not seen the last (the SELECT and the
\* INSERT of maybe_log are apart), replayed, or moved in from another id: the
\* interval is asked of the row with the highest id, which need not be the newest.
SpacedUnlessOverlapped ==
  \A r, s \in rows :
    (r.id < s.id /\ r.fixture = s.fixture /\ irregular \cap r.id..s.id = {})
      => s.captured - r.captured >= MinInterval

\* A row that has its result is history.  Its forecast, its capture time and its
\* result change only by a replay that chose the row before it was settled (the
\* UPDATE ... WHERE id of insert_historic_snapshot does not ask again); its closing
\* line value, once measured, is taken back only by a later sync of the match that
\* gets no closing price for its pick.  A backfill from the command line leaves its
\* result alone, and takes back a forecast or a measurement only if it read the row
\* before the replay that wrote the one, or the sync that made the other.
SettledKept ==
  [][\A r \in rows, s \in rows' :
       (r.id = s.id /\ Scored(r)) =>
         \/ \E t \in Threads : job[t].at = "import" /\ job[t].target = r.id
         \/ \E t \in Threads :
              /\ job[t].at = "mine"
              /\ [s EXCEPT !.clv = r.clv, !.panel = r.panel, !.forecast = r.forecast] = r
              /\ \E c \in job[t].computed :
                   c.id = r.id /\ (c.clv.pp = NoPp \/ c.forecast # r.forecast)
         \/ /\ [s EXCEPT !.clv = r.clv, !.panel = r.panel] = r
            /\ \/ r.clv.pp = NoPp \/ s.clv.pp # NoPp \/ ~ r.live
               \/ \E t \in Threads :
                    job[t].at = "clv" /\ job[t].closing[r.clv.best] = NoOdds]_vars

\* A match the API reports FT does not stay pending, if from some time on the matches
\* that never get there leave a sync a slot (LIMIT, ORDER BY kickoff): crashes, failed
\* fetches, rows under several ids and rows logged after the match included.
Pending(m) == \E r \in rows : Resolve[r.fixture] = m /\ ~ Scored(r)
Stuck == {r.fixture : r \in {x \in rows : Unrecorded(x) /\ Final[x.fixture] = NotFT}}
EverySettled ==
  <>[](Cardinality(Stuck) < Limit) =>
    \A m \in {Resolve[i] : i \in {x \in Ids : Final[x] # NotFT}} : Pending(m) ~> ~ Pending(m)
=============================================================================
