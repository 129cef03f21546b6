----------------------------- MODULE WorkerMode -----------------------------
(***************************************************************************)
(* What the ingest worker does with its environment before it polls        *)
(* anything: the feeds the registry builds (feeds/registry.py,             *)
(* feeds/scrape_mode.py), the gates of FVE_PAUSED and FVE_ARB_ONLY and the *)
(* choice of loop (worker.py), and where the watchlist comes from          *)
(* (pipeline/watchlist.py).  An environment is a record:                   *)
(*   paused, arbOnly    FVE_PAUSED, FVE_ARB_ONLY                           *)
(*   feedMode           "default", "separate", "scrape"; "hibs" stands for *)
(*                      FVE_UPSTREAM_MODE=hibs                             *)
(*   disabled, extra    DISABLED_FEEDS, ENABLED_FEEDS                      *)
(*   auto, loop         --auto; "async", "sync" or "uniform" without it    *)
(*   spec, ids          the fixtures of WATCHLIST_FIXTURES, and those of   *)
(*                      them that carry an API-Football id                 *)
(*   map                the fixtures of matchbook_map.json                 *)
(*   key                whether API_SPORTS_KEY is set                      *)
(***************************************************************************)
EXTENDS Integers, FiniteSets

Default == {"matchbook", "betfair", "pinnacle", "api-football"}

ScrapeMode(env) == env.feedMode = "scrape"

\* build_default_registry: the scraping and the separate chain are one feed.
Registry(env) ==
  CASE env.feedMode = "hibs" -> {"hibs-upstream"}
    [] env.feedMode = "default" -> Default
    [] OTHER -> {"composite"}

\* betfair and pinnacle are on by default only with their keys, which the
\* environments leave out.
OnByDefault == {"matchbook", "api-football", "hibs-upstream", "composite"}

Enabled(env) ==
  {f \in Registry(env) \ env.disabled : f \in OnByDefault \cup env.extra}

IsMatchbookOnly(env) == Enabled(env) = {"matchbook"}

\* (mutant: arb-only does not ask which feeds are enabled)
EnforceGatesLate(env) ==
  CASE env.paused /\ ~env.arbOnly -> "exit0"
    [] OTHER -> "go"

\* _enforce_pause_and_arb_gates; once the first exit is passed an arb-only
\* worker is matchbook-only.
EnforceGates(env) ==
  CASE env.arbOnly /\ ~IsMatchbookOnly(env) -> "exit1"
    [] env.paused /\ ~env.arbOnly -> "exit0"
    [] OTHER -> "go"

\* main
Loop(env) ==
  IF EnforceGates(env) # "go" THEN EnforceGates(env)
  ELSE IF env.auto THEN "auto"
  ELSE IF env.spec = {} THEN "exit1" ELSE "fixtures"

\* scrape_watchlist_enabled; without a key FotMob is the default.
ScrapeWatchlist(env) == ScrapeMode(env) \/ ~env.key

\* discover_matchbook_only: the explicit list, else the map.
MatchbookList(env) == IF env.spec # {} THEN env.spec ELSE env.map

\* The context of a fixture by where it was listed: does it name the fixture
\* to API-Football?  parse_fixture_spec, discover_matchbook_only,
\* discover_upcoming, discover_fixtures.
SpecContexts(env) == [f \in env.spec |-> IF f \in env.ids THEN "id" ELSE "label"]

MatchbookContexts(env) ==
  IF env.spec # {} THEN SpecContexts(env) ELSE [f \in env.map |-> "label"]

\* A poll that returns is counted for API-Football whether or not the context
\* named the fixture to it.
PollsSpend(env) == "api-football" \in Enabled(env) \/ env.feedMode = "separate"

\* refresh_sports_context asks the feeds that serve sports, and API-Football
\* only in the modes that own a key.
SportsFromFeed(env) == ScrapeMode(env) \/ env.feedMode = "hibs"
SportsFromApi(env) == ~SportsFromFeed(env)
=============================================================================
