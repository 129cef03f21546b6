# A TLA+ development of the football value engine

The repository prices football matches, collects the odds of several feeds into
a line cache, pushes line changes to WebSocket clients and executes arbitrage
on Matchbook under daily limits; the patches it carries for a sister project
log predictions, measure them, and run a trading process. This directory models
the parts of it whose correctness depends on the order in which things happen:
modules that TLC checks on small instances (`MC*.tla`, `*.cfg`), and theorems
that TLAPS checks for every value of the constants (`*Proofs.tla`). Paths below
are relative to the repository. `PROJECT.json` maps every definition to the
lines it models.

## 1. Inventory

| Component | State it keeps | Operations | Interacts with |
|---|---|---|---|
| circuit breaker `pipeline/circuit_breaker.py` | state, failures, half-open calls, `_opened_at`, per feed and process | `allow_call`, `call_started`, `record_success`, `record_failure`, `status` | called by every pool thread that polls the feed, and by every line view |
| hourly budget `pipeline/rate_limits.py` | one counter per source and hour, in Redis or in memory | `allow`, `record` | all processes that share Redis |
| scheduler `pipeline/async_scheduler.py`, `pipeline/auto_ingest.py` | `_in_flight`, next run per fixture and feed | schedule, `execute_safely` | event loop, thread pool, ingest, sports |
| ingest `pipeline/ingest.py` | none | `ingest_feed`, `build_line_view`, `refresh_sports_context` | breaker, budget, feeds, cache, bus |
| line cache `pipeline/cache.py`, `tick_history.py`, `redis_tick_ring.py` | snapshot with an expiry, rings of moves per market, sports, meta | `merge_ticks`, `get_ticks`, `get_peak_ticks` | all ingesting threads and processes, all readers |
| deltas and bus `pipeline/line_delta.py`, `line_bus.py`, `ws_lines_merge.py` | `_LAST_SHOPPED` per fixture and process, handlers, a listener thread | diff, publish, dispatch, merge | ingest publishes, the hub subscribes, clients merge |
| WebSocket hub `api/ws_hub.py` | rooms, pending sends, lines state | connect, commands, broadcast, disconnect | event loop of the API, bus, cache, clients |
| WebSocket client `services/ws_lines_client.py` | merged lines | `on_message` | hub |
| arbitrage `engine/arb.py` | none | scan, stakes | cache's peak ticks |
| execution rails `execution/risk.py` | day, trades and outlay of the day, per `RiskConfig` | `validate_opportunity`, `record_execution` | executor |
| executor `execution/matchbook_executor.py`, `arb_worker.py`, `POST /arb/execute` | none but its `RiskConfig` | `execute_matchbook_arb` | rails, Matchbook |
| worker gates and registry `worker.py`, `feeds/registry.py`, `feeds/scrape_mode.py` | none but the environment | gates, choice of the loop, enabled feeds | everything the worker starts |
| watchlist `pipeline/watchlist.py`, `auto_ingest.py` | keys and contexts of the fixtures watched | `refresh` in a thread, `snapshot` on the loop | budget, upstream APIs, scheduler |
| sports context `pipeline/ingest.py` | a cached entry per fixture | `refresh_sports_context` | budget, cache, the explicit lists' loops |
| feed adapters `feeds/` | sessions, SLA of the composite feed | `fetch_ticks` | upstream HTTP |
| paper ledger `engine/paper_ledger.py`, `db/` | picks, reconciliation file | record, settle, gates | API scans, database |
| in-play `inplay/` | evidence store, event packets | record, route, simulate | database |
| pricing `model.py`, `pricing/`, `engine/devig.py` ... | fitted parameters | numeric | API, UI |
| prediction log `patches/hibs-bet/.../prediction_log.py`, `price_truth.py` | rows of a SQLite table | log, import, settle, enrich, purge, prune, report | web process, command line, the football API |
| gates `.../forward_evidence.py`, `institutional_readiness.py`, `production_secure.py`, `market_contract.py` | none | evidence gates, issues, grades, verdict | the log, the deployment's environment |
| trading orchestrator `.../trading_core/` | tasks, lanes, trades seen | arm, supervise, poll, shut down | services outside the repository |
| UI, scrapers, scripts, tests, proto, config | - | I/O | - |

What is hard in this code: the breaker, the cache and `_LAST_SHOPPED` are shared
by pool threads without a lock; the budget is checked before and recorded after
a call, by several processes; polls go from the event loop to a thread pool and
back; bus messages cross from threads to an event loop; sends to clients stall,
time out and overlap; orders cross midnight, and their replies get lost; the
watchlist is replaced in two steps by a thread while the loop reads it in two;
the log's functions read on one transaction and write on another, in two
processes that may be killed in between.
`PROJECT.json` lists every such place under `hazards` with the property that
would notice it going wrong, or the reason why none does yet.

What makes each component correct, in a sentence: the breaker opens at its
threshold, never wedges, takes a healthy feed back and sheds a dead one; the
budget's count exceeds its cap by no more than the calls that were allowed
together; a fixture has at most one poll per feed and is always polled again;
a merge loses nothing but to an overlapping merge; deltas add up to the view;
the hub's backlog counts what is in flight, and nothing survives a session; the
exchange never takes more in a day than the limits of the `RiskConfig` that
asked, and a dutch wins whatever happens; a fixture has one open pick per
market, settled at the price it shows, unless two requests overlapped; the
trading process reconnects its lanes until it is told to stop, stores every trade
it counts as seen, and closes its storage behind everything that uses it; what
the worker watches is polled, in its context, and its frozen modes spend none of
the budget; a logged prediction keeps its result and its price, is judged by a
forecast made before the match, and is settled once the match can be.

## 2. Modules

```
 CircuitBreaker   ApiBudget        LineCache            ArbMath   RiskRails       WsHub
        \           /              /       \                \      /                |
          FeedPoll       LineCacheHistory  LinePipeline     ArbExecution        WsDelivery

 ClvBenchmark
      |             TradingOrchestrator    RestFallback
 PaperLedger                     \       /
                               TradingProcess

 WorkerMode      PriceTruth
      |               |
 AutoIngest     PredictionLog
                      |
                PredictionReports
                      |
                 EvidenceGates
                      |
                ProductionGates
```

* **CircuitBreaker** - one breaker and the threads inside it. Python gives a
  thread switch at calls, so each method is cut at its `time.time()` call:
  `AllowCall` reads `_state`, `AllowCallExpiry` is what follows the clock read
  (`SettleExpiry` is the body of the `state` property); `RecordFailure` sets
  `_state`, `StampOpenedAt` writes `_opened_at`. `bpc` says where a thread is.
  Time is the age of `_opened_at`, up to the timeout.
* **ApiBudget** - the counter of one source: `BudgetAllow` (a read),
  `BudgetRecord` (the increment after the call), `BudgetAbandon` (the call
  raised), the change of the hour, a restart that forgets a counter in memory.
  `StoreOf` says which processes share a counter.
* **FeedPoll** - the two composed with the scheduler: `SchedulePoll` is the
  guard's test and insertion, `TakeJob` a pool thread, then one action per step
  of `_fetch_feed` and `ingest_feed`, and `Release` the guard's `finally`. Each
  step that touches the breaker or the budget conjoins an action of theirs.
* **LineCache** - `merge_ticks` as its three round trips (`ReadSnapshot`,
  `AppendTick`, `WriteSnapshot`), the rings of moves, the peak view
  (`LineView`), and `WindowPasses`, the clock in units of the peak window.
  **LineCacheHistory** adds variables that only watch: the price last merged,
  and which reads are older than somebody's write.
* **LinePipeline** - the worker's way from a merge to a publication: the view
  built in two reads, with a third of the snapshot where no move is in the window
  (`ViewAgain`), the diff, the overwriting of `_LAST_SHOPPED`, the publication or
  its failure, and a consumer that applies every delta.
* **RiskRails** - the counters of a `RiskConfig` around one order, midnight, the
  exchange's acceptance and the reply as separate steps, and beside them what
  the exchange took today. **ArbMath** - `engine/arb.py` and the scaling of stakes over
  whole numbers: legs are a function from outcomes, or from the sides of a back
  and lay pair, and sums and products are folds over its domain. **ArbExecution** - what an executor finds and stakes (`TakeUp`),
  validates and submits (`Place`) or is refused (`Decline`), and the outcome of
  a submission; every action but `TakeUp` conjoins one of RiskRails.
* **WsHub** - the hub's coroutines for one fixture, cut at their awaits:
  sessions, the two halves of `_send_json`, `disconnect`, broadcasts.
  **WsDelivery** - the bus, the listener's thread, and what clients show.
* **PaperLedger** - requests of the API that record or settle picks, each in a
  database session: `Look` is the query and the change of one pick,
  `SettleBegins` the query of all open ones, `Commit` writes of each pick the
  columns the session changed (`Rewrites`, `Merged`), `Fail` closes a session without a
  commit, or loses the file after it. `TruncateRecon` and `DumpRecon` are the two
  moments of the reconciliation file. `late` and `raced` only watch.
  **ClvBenchmark** - the ladder of closing prices a settlement measures against.

* **TradingOrchestrator** - `run_orchestrator`: arming (`Arm`, or `ArmFails` with
  the storage open or not), `StartTasks`, and the shutdown as a walk through
  `Steps`, the order of `graceful_shutdown`: a task is skipped, or cancelled
  (`CancelTask`, which marks it `pending`) and awaited (`Awaited`, `AwaitRaises`).
  `where` follows each lane's supervisor through its try, finally and backoff.
  asyncio's rule is `Runs`: a task goes on from an await only if no cancellation
  is pending, and otherwise `LaneCancelled` or `TaskCancelled` is its next step.
  **RestFallback** - the inside of one of those tasks: `run_forever`, the thread
  it awaits, `_seen` with its expiry, and what remains of a poll when the task is
  cancelled under it. **TradingProcess** composes them: the fallback's task and the
  storage are those of the process (`FallbackTask`), and a storage that refuses a
  trade ends the task (`StorageRefuses`).

* **WorkerMode** - what follows from the environment alone, as operators: the
  registry and the feeds enabled in it, the gates (`EnforceGates`), the choice of
  the loop, where the watchlist comes from, who serves sports.
  **AutoIngest** - the worker from `Start`: `WatchlistState.refresh` call by call
  and as its two assignments (`SetKeys`, `SetContexts`), which run in a thread
  beside the loop's two reads (`ReadKeys`, `Schedule`); the polls, in their context
  or bare; the sports of an explicit list, one action per way
  `refresh_sports_context` goes. All of them spend from one hourly count (`spent`),
  and each asks it in one step and is counted in another: the discovery in
  `FetchAsks` (or `FetchRefused`) and in `FetchAnswered`, `FetchMissed` or
  `FetchRaises`, a poll in `PollAsks` and `PollEnds` (`calling` holds the polls in
  between), sports in `SportsAsk` and `SportsEnds`. FotMob and API-Football list
  the fixtures each in slots and under keys of its own (`SlotOf`). What a poll does
  inside is FeedPoll's matter.
* **PriceTruth** - the odds a row is stored with, the closing odds parsed from a
  panel, and the closing line value drawn from both. **PredictionLog** - the
  table `rows` and the threads that work on it: a function that reads and then
  writes is two actions with its locals in `job` (`LogLook`/`LogWrite`,
  `ImportCheck`/`ImportLook`/`ImportUpdate`, `SyncBegin`/`SyncSettle`/`SyncRead`/
  `SyncWrite`, `MineRead`/`MineWrite`), a DELETE is one, and `Die` takes what a
  process holds. The table starts empty or with rows of a version that stored no
  fair opening odds (`Histories`, `OldRow`), and `Mined` is what a backfill makes of
  a row it has read. `irregular` only watches. **PredictionReports** - the reports
  whose choice of rows matters, each an operator over the committed rows: the
  monitor's table of the day's kick-offs, the recent results, the backtest, the two
  headlines on closing line value and the odds capture. Where SQL leaves the order of
  rows open, the operator is the set of those it may put first (`AnyGreatest`). **EvidenceGates** and **ProductionGates** -
  the gates, grades, issues and claims drawn from the reports and the settings.

The abstract specifications are `BreakerSafety` and `BudgetSafety`, what a feed
poll may do to the breaker and the budget, and `FallbackSafety`, what the trading
process may do to its REST fallback: the composed modules are proved to implement
them, and TLC checks the first and the last on the way. ArbExecution is written as
steps of RiskRails conjoined with the executor's own, so that it implements
`RailsSafety` is no result but a step of the proof that carries the rails'
invariant over.

## 3. Runs

| Run | Shows |
|---|---|
| `breaker` | two threads in one breaker, threshold 2, timeout 2 ticks, 1 half-open call: `NeverWedged`, and as liveness `RecoversWhenHealthy` and `ShedsDeadFeed` |
| `feed_poll` | three fixtures on two pool threads, another process on the same counter: `OnePollPerFixture`, `GuardHoldsWork`, `BoundedOverrun`, every step one of the breaker's (`BreakerSafety`), every fixture polled again and again (`EveryFixturePolled`) |
| `arb` | the worker and a request over five markets: `DailyLimitsHold` through midnight, lost replies and the orders placed again after them, `ScalingFits`, `DutchLocked` |
| `scalp` (violated) | the back/lay scan flags and executes pairs that lose on every outcome |
| `line_cache` | two feeds merge at once: `LossNeedsOverlap` |
| `line_pipeline` | two polls merge and publish in every interleaving: `DeltasAddUp` |
| `ws_hub` | two clients, two broadcasts: `PendingCounts`, `NothingLeftBehind`, `LeaversLeave`, `BroadcastsEnd` |
| `paper_ledger` | two threads scan and settle, commits fail, the process restarts: `OneOpenPick`, `PicksAddUp`, `ReconCovered` |
| `trading` | any of the tasks, with streams, requests, storage and tasks failing and a shutdown at any moment: `StorageClosedLast`, `TapeComplete`, `FallbackSafety`, `LanesReconnect`, `PollsAgain`, `ShutdownEnds` |
| `worker` | fourteen environments, a refresh beside the loop, requests that fail or raise: `HourlyOverrun`, `ContextUnlessRefreshed`, `DroppedOnlyIfMissed`, `FrozenSpares`, and as liveness `WatchedArePolled` |
| `prediction_log` | the web process and the command line over one table, one of them killed at any moment, a match under two ids, over a new table or an old one: `ResultOfItsMatch`, `SpacedUnlessOverlapped`, `SettledKept`, `PickFrozen`, `JudgedOnce`, `VerdictsAgree`, `HeadlinesAgree`, `GradesAgree`, and as liveness `EverySettled` |
| `ws_push` (violated) | a change published by another process never reaches a client |

A type invariant is checked as the first conjunct of a safety invariant of the
same module (`PendingCounts`, `PicksAddUp`, `StorageClosedLast`, `TapeComplete`,
`HourlyOverrun`, `ResultOfItsMatch`), and is a part of the inductive invariants of
section 4; the breaker's, the budget's, the polls', the executors', the rails' and
the line pipeline's are theorems of their own.

**Findings.** The two violated properties are what a comment or a document of the
repository says; `findings` in `PROJECT.json` quotes it and names the line that
does otherwise. In short: the scalp's test `back >= lay` keeps the wrong side; and
the hub's bus handler runs in a thread without an event loop and returns.

**Bounds.** Two threads show every pairwise interleaving of a protocol in which
a thread shares nothing but the breaker's and the cache's fields; a third
fixture makes the pool's queue longer than the pool. Threshold 2 separates the
first failure from the one that opens; a cap of 2 with three spenders lets the
overrun reach its bound. Two prices and two selections make every view, diff
and lost update distinguishable; `Ttl` is 2 windows, so an expiry can fall
between any two steps of a merge. Stakes are in pence with the defaults' limits
(2 pounds a leg, 6 an outlay); two trades a day and one lost reply reach each limit
and both sides of midnight. `MaxLost` bounds the replies that get lost and nothing
else: after a lost one the executors go on, and the same opportunity is placed
again. No memory is volatile in `feed_poll` (`Volatile`): a restart that forgets the
count is covered by the theorem alone. A backlog of 2 with
one session and two broadcasts reaches the drop of a slow client.
Two picks in two markets hold a settled pick beside a new one, two open ones of a
key, and a scan that writes two rows; `MaxPicks` bounds the picks ever stored.
The trading process runs with one lane streamed (`Streams`), since supervisors share
nothing but the shutdown, which takes one lane down after the other; its REST
fallback polls both, and one trade a lane (`MaxTrades`) is fetched again and again
while its key lives and after it expired.
The worker watches two fixtures, which API-Football lists in slots of their own, so
that one slot can fail without the other, and of which FotMob knows one, in another
slot; two calls an hour (`Cap`) let a discovery spend the hour and polls and sports
overrun it; one of them (`Far`) comes into reach later; the
environments are the ones that take another way through gates, loops or sources.
The prediction log holds two rows (`MaxRows`) of two ids of one match and of a
match that never ends FT, over three moments (`MaxTime`): before, at and after the
kick-off; one process is killed (`MaxDeaths`). A sync takes one match (`Limit`), so
the one that never ends FT can fill it, and the recent results ask for as many rows
as they show (`Fetched`), so several rows of a fixture crowd others out. A table may
start with one old row, whose best bet is of the match result or of another market.
A full closing panel, one of a single side and a missing one are enough to
measure, keep and lose a closing value. `GradesAgree` also ranges over all outcomes of the ten gates and all settings of a deployment.
`Broadcasts` bounds the tasks under way at once; it replaces no guard of the
code. The theorems of section 4 hold without these bounds.

Read in the code on the way: the hourly cap itself does not hold, since `allow()`
reserves nothing and threads are allowed before others have recorded
(`pipeline/rate_limits.py:79`), and what holds is `BoundedOverrun`; a pick that is
quoted again gets a hash over a `pick_id` and a time that are not stored
(`engine/paper_ledger.py:97`); a pick of a market other than 1X2 is settled as
lost whatever the score (`:248`, and `Settled` does so); a complete API-Football
triplet always has a fair price, so its raw price is never the benchmark
(`engine/clv_benchmark.py:96`); a REST poll under way when its task is cancelled
goes on in its thread over a storage that may be closed by then
(`rest_market_fallback.py:302`, and `RestFallback` lets it); a strategy loop that
raised is not started again (`orchestrator.py:591`); `graceful_shutdown` catches
only the cancellation of a task it awaits, so a task that ended in an exception
leaves the storage open (`orchestrator.py:457`, and `AwaitRaises` does so: the
process ends with the exception); only *changed* prices are in the rings, so one
move hides the prices that stand (`pipeline/cache.py:80`, `:144`).

Of the executor: the margin of a dutch is promised on the outlay that was asked,
and each leg is rounded to the penny, so what is placed wins its margin on up to a
penny a leg less than it lays out, and loses up to half a penny of odds besides;
`DutchLocked` says exactly that, since with small stakes and margins beyond 100%
nothing better holds. A dutch with legs at other books is not locked by what is
placed, and `DutchLocked` says nothing of it.

Of the worker: `docs/ARB_FREEZE.md:21` says that an arb-only worker does not call
API-Football, which holds but for the sports of an explicit list with ids
(`FrozenSpares` names the exception). `run_auto_ingest_loop` refreshes twice in a
row when it starts (`SetContexts`); 14 default leagues over 3 days are 42 calls a
time against 100 an hour, so a restart within the hour can find the budget spent,
and a list is then replaced by what was found, be it nothing, until the next
refresh. A fixture of the explicit list that stands in for a discovery that
found nothing can drop out without a missed request, when it comes into range after
its slot was asked about; and where a refresh changes the source, a fixture leaves
with the key the other source gave it, and what the new one knows comes in under
keys of its own: `DroppedOnlyIfMissed` is about what the same source listed before.
A first refresh that raises ends the worker, a later one is caught; a
sports feed that raises ends the uniform loop. The hourly cap is no bound here either: the discovery, the polls and the sports
ask before their request and are counted after it, and sports ask for one call and
make two, so `HourlyOverrun` allows one call less than may be out at once
(`OutAtOnce`) beyond it. The entry leaves the cache when it
falls due, so the branches that serve it stale are hardly ever taken. Automatic
ingest and `--sync` never refresh sports. An empty watchlist beats its heart once
per refresh only, so `/health` can call a live worker stale.

Of the prediction log: a match that ends AET or PEN stays pending and keeps its
slot of `LIMIT`, and as many of them as a sync takes starve the others, so
`EverySettled` supposes that from some time on they leave it a slot; a crash between the commit of a
result and that of its closing odds leaves rows without them, and no later sync
tries again; a second sync whose fetch fails replaces measured closing odds by
none (`SettledKept` excepts it) while the fair figures stay, so that one headline
drops the row and the other keeps it (`HeadlinesAgree` says so); a value leg without
a settle key stays pending on a settled row (`prediction_log.py:2143`); a row whose
triplet is incomplete is counted raw and not fair; the interval is asked
of the row with the highest id, not the newest; a replay overwrites the row it
chose before the row was settled; rows logged after the kick-off count in every
report but the backtest; a match under two ids counts twice until it is settled;
the summaries say fixtures and count snapshots, and so does the scale gate, which
opens on as many snapshots as it asks for fixtures (`prediction_log.py:3156`, and
the message at `:3223`); one UPDATE gives all rows of a fixture the same
`result_recorded_at` (`:1673`), and the monitor's table of the results recorded in a
day orders by nothing else, so it may show an older forecast than the latest its
docstring names (`:1659`); the backfill of the price figures reads before it locks
(`price_truth.py:462`), and writes the closing odds it read over those committed
since, which `SettledKept` excepts; the informational gates weigh in
the grade, and F9b never passes; `HIBS_CLV_LOG_ENABLED` unset means on to the log
and not to the readiness check; taking the line shop out of its pause removes an
issue, turning it on while paused adds one; `traffic_safe` can be claimed of a
deployment whose engineering grade is blocked; and the fair closing price, described
over the full 1X2, is computed over two sides as well.

**Fairness.** Breaker: the clock runs, a thread that was switched out runs on,
every feed call ends (the HTTP clients have timeouts), and the scheduler asks
again. `CallStarted` is strongly fair because a caller that was let through can
be turned away by the hourly budget, which stops refusing when the hour ends.
Polls: each fixture comes due again, the event loop resumes a finished poll,
the pool's threads run; a pool takes its jobs in order. `EveryFixturePolled` is
claimed only once the worker stops being restarted. Hub: what is ready on the
loop runs, a send ends at `WS_SEND_TIMEOUT_SEC` at the latest, a receive on a
socket that is gone raises. Nobody is assumed to connect, to ask, to succeed in a
send or to hang up. Trading: what is ready on the loop runs, `stop()` and the
metrics server return, a backoff ends; nothing is assumed of streams or signals,
and a stream may hang in its connect for ever. Of the fallback's thread, that it is
scheduled and its requests time out. Worker: the threads run, an hour and a poll
interval pass, a request ends in some way; that requests are answered is the
hypothesis of `WatchedArePolled` and not assumed of the API. A fixture that comes
due again and again is scheduled (strong fairness, since the loop re-reads its
list between). Prediction log: the cron of the command line starts a sync again and
again and goes on with what it began, and an API that is asked for ever answers
once (strong fairness of `SyncSettle`); the web process owes nobody a sync.
`ws_hub`, `trading`, `worker` and `prediction_log` do not look for deadlock: sockets,
trades, a process or the bounded time come to an end, and then there is nothing
left to do.

## 4. Proofs

Assumptions are the named ASSUMEs of the modules, and nothing else is assumed:
thresholds, caps and limits are natural numbers (positive where the code's defaults
need it); sets of spenders, fixtures, broadcasts and threads are finite; markers
such as `NoJob` and `Unset` are not values of the data; prices read from a line are
positive, which the feeds see to (`IsLine`); `Outlays` holds every outlay a deal can
have; an environment lists fixtures there are, and ids only of those; resolving an
id twice is resolving it once, and two ids of a match agree on its kick-off and its
result; forecasts carry odds for three sides and value legs with a price and a
return, of any market, and an old table holds rows of the log's ids; each source
lists a fixture in one slot at most; a market contract names finitely many leagues
and fields. TLC evaluates every one of them in the run of its module.

Each theorem `Spec => []P` is the last step of the same argument: an invariant
that is inductive by one step per action, and P read off it. What each invariant
adds to the property is what says why the code works.

* `FeedPollProofs`, the breaker - `ClosedBelowThreshold`, which no run checks, is
  inductive with the type invariant. `NeverWedged` needs more: the half-open calls that
  are counted are covered by threads whose call is out, in every state whose
  expiry has not been settled yet, also while the breaker is open; each action that leaves
  `calling` leaves HALF_OPEN or resets the count.
* `FeedPollProofs`, the budget - `BoundedOverrun`: whoever is allowed sees a count below
  the cap, and the spenders that are out number at most those that share
  the store; the bound is about cardinalities, and one lemma per change of
  `spending` gives them.
* `FeedPollProofs`, the polls - `PollRefinesBreaker` and `PollRefinesBudget`: each poll
  step is a step of the component or a stutter, so the theorems above hold of the
  composed system too. `OnePollPerFixture` and `GuardHoldsWork` come from
  one invariant, `GuardInv`: queue, jobs and finished polls are disjoint,
  without repetition, and together are what the guard holds.
* `ArbExecutionProofs`, the rails - `DailyLimitsHold` needs an invariant that
  relates what was taken today to the counters for each place an executor can be in
  (`RailsInv`): before recording, the order on its way is covered by the room
  `validate_opportunity` left, and after midnight the stale counters do not matter.
* `ArbExecutionProofs`, the stakes - `StakesAlwaysFit` and `DutchesLocked` are facts
  of arithmetic, for any prices, caps and outlays, tied to the state by two
  invariants: an executor holds one of its deals (`HoldsDeals`), and an order on its
  way is for a deal the limits accepted (`SendsAccepted`). `ScannedOpportunity` says
  of what shape the scan's findings are; that a line has a best price at all
  is an induction over a bounded set of numbers (`HighestExists`). The folds of the community
  modules are unfolded for three legs (`SumOfThree`, `ProductOfThree`). Scaling by
  the smaller of two ratios leaves each stake at its cap and the sum over its own by
  half a penny a leg at most, which the tolerance grants (`ScaledStakesFit`). For
  the dutch, the stakes are shares of one payout rounded twice (`TwoRoundings`), so
  each leg pays within its rounding the same (`EqualPayout`), and what is paid
  exceeds the outlay by the margin the limits asked for.
* `LinePipelineProofs`, the cache - `LossNeedsOverlap`: a selection that a reader's
  copy shows wrongly is one that was written or expired since it read (`behind`).
* `LinePipelineProofs`, the deltas - `DeltasAddUp`: while nothing is spoilt, at most one
  thread is between diff and publication, its delta is the difference between
  what the process remembered and its view, and the consumer shows the former.
  The same invariant gives the pipeline's type correctness.
* `WsHubProofs` - `PendingCounts` and `NothingLeftBehind` from `HubInv`: a socket
  in the room has exactly its sends in flight counted, one that left has at least
  as many in flight as are counted, and one that never connected is on no
  broadcast's list (`Fresh`), which is what an entry of a later session rests on.
  WsDelivery's steps are the hub's or leave it alone (`DeliveryIsHub`), so both
  properties hold while lines change and arrive (`DeliveryKeepsHub`).
* `PaperLedgerProofs` - `OneOpenPick`, `PicksAddUp` and `ReconCovered` from
  `LedgerInv`, which says of every change a session plans that it is of a pick as
  it was stored, or adds one under an id nobody else has (`Sound`, `OwnIds`); that
  it is still current unless a commit to its key came between (`Current`); and where
  what a scan expects is to be found: in its plan, then in the ledger, then in the
  file (`Expects`).
* `TradingProofs` - `StorageClosedLast` from `OrderInv`: a shutdown that has come to
  step n has taken down what the steps before n take down, and nothing starts
  again. `TradingFallbackSafety` is a refinement: every step of the process leaves
  the fallback's task and the storage alone, or cancels a task that is alive, or
  closes the storage behind one that is not (`Sees`). Over that, `TapeComplete` is an
  invariant of the fallback's own specification (`TapeInv`): what counts as seen
  was fetched, and what was fetched is stored or in hand.
* `AutoIngestProofs` - `HourlyOverrun`: the count and the calls that are out stay
  together below the bound (`BudgetInv`), because a call is allowed below the cap,
  and at most `OutAtOnce` are out: who may call beside whom is what `CallInv` says
  of each loop, the rest is counting. `ContextUnlessRefreshed`; `DroppedOnlyIfMissed`
  (what the source listed is listed by it again, or has kicked off, or its slot has
  yet to be asked or got no answer, `ListInv`); and `FrozenSpares`. All come from
  `WorkerInv`; the last three are action properties, read off one step.
* `PredictionLogProofs` - `ResultOfItsMatch`, `SpacedUnlessOverlapped` and the action
  properties `SettledKept` and `PickFrozen` from `LogInv`. Its hard part is what each
  thread holds across its await (`JobOK`): a logger's row is the interval away from
  those it saw and that are regular (`InsertOK`), a replay's target stays a row of
  its match (`TargetOK`), and what a sync computed is of the bet the row still has,
  and measures it unless the fetched odds lack the pick (`MeasuresOK`). The parts
  are predicates of a set of rows, so that what a step does to them is a fact about
  sets. The reports are read off the same invariant. `JudgedOnce`: a report of one
  row per fixture takes none twice (`OnePerFixture`), and a settled row stands under
  the one id of its match. `VerdictsAgree`: of a fixture whose rows are spaced, the
  row with the highest id is the latest by capture time, whichever column a page
  orders by, and one that is among the newest results is never behind another of
  its fixture (`RecentIsLast`). `HeadlinesAgree`: the fair headline recomputes what
  is stored, so the invariant says that every stored block has been enriched
  (`Block`), through captures, syncs, replays and backfills, of old rows too. The
  conjuncts of the assumption are restated as two lemmas (`Bounds`, `Matches`), so
  that a step which needs one is not handed all.
  The gates need no state but the nesting of the closing line gates in the sample
  gate; that a correction never lowers the engineering grade is `GradeOfFewer`: no
  more issues, and no more warnings unless there were issues.

Model-checked only: the liveness properties (`RecoversWhenHealthy`,
`ShedsDeadFeed`, `EveryFixturePolled`, `LeaversLeave`, `BroadcastsEnd`,
`LanesReconnect`, `ShutdownEnds`, `PollsAgain`, `WatchedArePolled`,
`EverySettled`), which need fairness and ENABLED. Every invariant and action
property of a passing run is a theorem.

## 5. What is not modelled, and why

The numeric code (pricing, de-vigging, Monte Carlo, fits) computes over floats
and keeps no state that steps race for. Adapters, scrapers, codecs, clients and
the UI are I/O. Within the modelled components: `last_error` and other fields
nothing decides on; full-mode updates; the lines state's contents, which no
broadcast reaches; one fixture and one feed stand for all, since rooms, rings,
breakers and guard entries of different ones share nothing; a market's
channels, over which `shop_lines` takes a maximum, are one price; the legs an
exchange fills are all filled; a worker's feeds are polled as one; of the sports only whether they are cached;
prices are units further apart than the 0.001 below which the diff and the rings
see no change; the worker's budget store is taken not to fail between `allow()`
and `record()`, as a poll's may (`FeedPoll`); of the log's reports the tallies per league and month, the averages, log
losses, calibration bins and intervals, the coverage, the CSV
export, the monitor's table of results by the day they were recorded, the scale gate, and the texts
beside the gates: they describe rows that other operators choose.
`PROJECT.json` has the note per component.

## 6. Plan

Written first, because an error there loses money or lines: the poll path
(breaker, budget, guard), the execution path, the line path from cache to
client; then the trading process, the paper ledger, the worker with its
watchlist and sports, and the prediction log with its reports and gates.

Every safety property of the passing runs is proved; what the next modules promise
is to be checked and proved in the same way.

Modules that would follow: **CompositeFeed** (the chain of adapters with its
shared status), **InplayEvidence** (the store and the router of packets), and the
decision rules among the numeric code (the cap of the Kelly portfolio) against
reference definitions.
