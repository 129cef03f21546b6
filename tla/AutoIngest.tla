----------------------------- MODULE AutoIngest -----------------------------
(***************************************************************************)
(* The ingest worker from its gates to its polls: the watchlist and its    *)
(* refresh, which runs in a thread (pipeline/watchlist.py and              *)
(* _refresh_loop), beside the event loop that takes a snapshot of it and   *)
(* schedules polls (run_auto_ingest_loop); and the loops over an explicit  *)
(* list (pipeline/async_scheduler.py, pipeline/ingest.py), which also      *)
(* refresh the sports context.  All of them spend from the hourly budget   *)
(* of API-Football.                                                        *)
(*                                                                         *)
(* A slot is what one call of the discovery asks about: a league on a date *)
(* for API-Football, a date for FotMob.  A fixture is a key of the list:   *)
(* the sources name teams, and know leagues, each in its own way, so a     *)
(* match can be listed by both under one key, by one of them only, or      *)
(* under a key of each.  poll[f] stands for the polls of all enabled       *)
(* feeds; what such a poll does is module FeedPoll.                        *)
(***************************************************************************)
EXTENDS WorkerMode

CONSTANTS
  Fixtures,      \* fixture keys
  Slots,         \* the calls of a discovery, 1 .. Slots
  SlotOf,        \* the slot in which a source lists a fixture, 0 if it has no such key
  Cap,           \* calls per hour to API-Football
  Far,           \* fixtures beyond FVE_WATCHLIST_DAYS when the worker starts
  Environments   \* the environments a worker is started in

ASSUME IngestAssumption ==
  /\ Slots \in Nat \ {0}
  /\ SlotOf \in [{"fotmob", "api"} -> [Fixtures -> 0 .. Slots]]
  /\ Cap \in Nat \ {0}
  /\ IsFiniteSet(Fixtures)
  /\ \A e \in Environments : e.spec \cup e.map \subseteq Fixtures /\ e.ids \subseteq e.spec

VARIABLES
  env,        \* the worker's environment, read once
  stage,      \* "gates", the loop it runs in, or how it ended
  status,     \* of each fixture upstream: "far", "upcoming" or "started"
  spent,      \* calls counted for API-Football this hour
  rpc,        \* where WatchlistState.refresh is
  source,     \* whom it asks: "fotmob" or "api"
  slot,       \* the next call of the discovery
  found,      \* contexts of the fixtures discovered so far
  missed,     \* slots this refresh, or the last one, has no answer from
  keys,       \* WatchlistState._keys
  contexts,   \* WatchlistState._contexts
  lpc,        \* the event loop: before the reading of keys or of contexts
  snap,       \* the keys it has read
  poll,       \* the context each fixture is being polled in
  calling,    \* fixtures whose poll was allowed to call API-Football and is not over
  sports,     \* whether a sports request of the fixture is out
  cached      \* whether the cache holds the fixture's sports context

refreshVars == <<rpc, source, slot, found, missed>>
listVars == <<keys, contexts>>
loopVars == <<lpc, snap, poll, calling>>
sportsVars == <<sports, cached>>
vars == <<env, stage, status, spent, refreshVars, listVars, loopVars, sportsVars>>

Contexts == {"id", "label", "fotmob"}
NoContexts == [f \in {} |-> "label"]
Lists == UNION {[F -> Contexts] : F \in SUBSET Fixtures}

WorkerTypeOK ==
  /\ env \in Environments
  /\ stage \in {"gates", "exit0", "exit1", "crashed", "auto", "fixtures"}
  /\ status \in [Fixtures -> {"far", "upcoming", "started"}]
  /\ spent \in Nat
  /\ rpc \in {"off", "begin", "fetch", "asked", "keys", "contexts", "asleep"}
  /\ source \in {"fotmob", "api"}
  /\ slot \in 1 .. Slots + 1 /\ (rpc = "asked" => slot <= Slots)
  /\ found \in Lists /\ missed \subseteq 1 .. Slots
  /\ keys \subseteq Fixtures /\ contexts \in Lists
  /\ lpc \in {"off", "keys", "contexts"} /\ snap \subseteq Fixtures
  /\ poll \in [Fixtures -> Contexts \cup {"off", "bare", "fed"}] /\ calling \subseteq Fixtures
  /\ sports \in [Fixtures -> BOOLEAN] /\ cached \in [Fixtures -> BOOLEAN]

Init ==
  /\ env \in Environments
  /\ stage = "gates"
  /\ status = [f \in Fixtures |-> IF f \in Far THEN "far" ELSE "upcoming"]
  /\ spent = 0
  /\ rpc = "off" /\ source = "api" /\ slot = 1 /\ found = NoContexts /\ missed = {}
  /\ keys = {} /\ contexts = NoContexts
  /\ lpc = "off" /\ snap = {} /\ poll = [f \in Fixtures |-> "off"] /\ calling = {}
  /\ sports = [f \in Fixtures |-> FALSE] /\ cached = [f \in Fixtures |-> FALSE]

-----------------------------------------------------------------------------
(* worker.py: main.  The automatic loop begins with a refresh of its own,   *)
(* in the main thread.                                                      *)

Start ==
  /\ stage = "gates"
  /\ stage' = Loop(env)
  /\ rpc' = IF stage' = "auto" THEN "begin" ELSE "off"
  /\ IF stage' = "fixtures"
       THEN lpc' = "keys" /\ keys' = env.spec /\ contexts' = SpecContexts(env)
       ELSE UNCHANGED <<lpc, keys, contexts>>
  /\ UNCHANGED <<env, status, spent, source, slot, found, missed, snap, poll, calling, sportsVars>>

-----------------------------------------------------------------------------
(* WatchlistState.refresh.  discover_upcoming asks FotMob or API-Football,  *)
(* slot by slot; discover_matchbook_only asks nobody.                       *)

RefreshRest == UNCHANGED <<env, status, keys, contexts, loopVars, sportsVars>>

RefreshBegins ==
  /\ rpc = "begin"
  /\ missed' = {} /\ slot' = 1
  /\ source' = IF ScrapeWatchlist(env) THEN "fotmob" ELSE "api"
  /\ IF env.arbOnly
       THEN rpc' = "keys" /\ found' = MatchbookContexts(env)
       ELSE rpc' = "fetch" /\ found' = NoContexts
  /\ RefreshRest /\ UNCHANGED <<stage, spent>>

\* The context a source lists its fixtures with.
As(s) == IF s = "api" THEN "id" ELSE "fotmob"

\* Those that this source has in the slot and that have not started.
Listed ==
  [f \in {g \in Fixtures : SlotOf[source][g] = slot /\ status[g] = "upcoming"} |-> As(source)]

\* allow(), which keeps nothing for the request that follows; FotMob has no budget.
FetchAsks ==
  /\ rpc = "fetch" /\ slot <= Slots
  /\ source = "fotmob" \/ spent < Cap
  /\ rpc' = "asked"
  /\ RefreshRest /\ UNCHANGED <<stage, spent, source, slot, found, missed>>

\* record(), once the answer is there and before it is read.
Recorded == spent' = IF source = "api" THEN spent + 1 ELSE spent

FetchAnswered ==
  /\ rpc = "asked"
  /\ found' = [f \in DOMAIN found \cup DOMAIN Listed |->
                 IF f \in DOMAIN found THEN found[f] ELSE Listed[f]]
  /\ Recorded
  /\ slot' = slot + 1 /\ rpc' = "fetch"
  /\ RefreshRest /\ UNCHANGED <<stage, source, missed>>

\* The discovery goes on without an answer about this slot.
SkipsSlot ==
  /\ missed' = missed \cup {slot}
  /\ slot' = slot + 1 /\ rpc' = "fetch"
  /\ RefreshRest /\ UNCHANGED <<stage, source, found>>

FetchRefused ==
  /\ rpc = "fetch" /\ slot <= Slots
  /\ source = "api" /\ spent >= Cap
  /\ SkipsSlot /\ UNCHANGED spent

\* (mutant: a request that fails ends the discovery with what it has)
FetchMissedEnds ==
  /\ rpc = "asked"
  /\ missed' = missed \cup {slot}
  /\ slot' = Slots + 1 /\ rpc' = "fetch"
  /\ Recorded \/ UNCHANGED spent
  /\ RefreshRest /\ UNCHANGED <<stage, source, found>>

\* The request fails and is not counted, or its answer is counted and cannot be
\* read.
FetchMissed ==
  /\ rpc = "asked"
  /\ Recorded \/ UNCHANGED spent
  /\ SkipsSlot

\* An answer of another shape has been counted when it raises what
\* _fetch_fixtures does not catch: the worker's first refresh ends it, a later
\* one keeps the list.
FetchRaises ==
  /\ rpc = "asked"
  /\ Recorded
  /\ stage' = IF lpc = "off" THEN "crashed" ELSE stage
  /\ rpc' = IF lpc = "off" THEN "off" ELSE "asleep"
  /\ missed' = 1 .. Slots /\ found' = NoContexts /\ slot' = 1
  /\ RefreshRest /\ UNCHANGED source

\* FotMob has nothing: API-Football is asked next, given a key.
AskApiNext == source = "fotmob" /\ DOMAIN found = {} /\ env.key

FetchEnds ==
  /\ rpc = "fetch" /\ slot > Slots
  /\ slot' = 1
  /\ IF AskApiNext
       THEN source' = "api" /\ missed' = {} /\ UNCHANGED <<rpc, found>>
       ELSE /\ rpc' = "keys"
            /\ found' = IF DOMAIN found = {} THEN SpecContexts(env) ELSE found
            /\ UNCHANGED <<source, missed>>
  /\ RefreshRest /\ UNCHANGED <<stage, spent>>

SetKeys ==
  /\ rpc = "keys"
  /\ keys' = DOMAIN found
  /\ rpc' = "contexts"
  /\ UNCHANGED <<env, stage, status, spent, source, slot, found, missed, contexts, loopVars, sportsVars>>

\* (mutant: only fixtures that are new get their context)
SetNewContexts ==
  /\ rpc = "contexts"
  /\ contexts' = [f \in DOMAIN found \ DOMAIN contexts |-> found[f]]
  /\ found' = NoContexts
  /\ rpc' = IF lpc = "off" THEN "begin" ELSE "asleep"
  /\ lpc' = IF lpc = "off" THEN "keys" ELSE lpc
  /\ UNCHANGED <<env, stage, status, spent, source, slot, missed, keys, snap, poll, calling, sportsVars>>

\* The first refresh is followed by the loop and by _refresh_loop, which begins
\* with another one.
SetContexts ==
  /\ rpc = "contexts"
  /\ contexts' = found
  /\ found' = NoContexts
  /\ rpc' = IF lpc = "off" THEN "begin" ELSE "asleep"
  /\ lpc' = IF lpc = "off" THEN "keys" ELSE lpc
  /\ UNCHANGED <<env, stage, status, spent, source, slot, missed, keys, snap, poll, calling, sportsVars>>

\* (mutant: only an empty list is refreshed)
RefreshDueIfEmpty ==
  /\ rpc = "asleep" /\ keys = {}
  /\ rpc' = "begin"
  /\ UNCHANGED <<env, stage, status, spent, source, slot, found, missed, listVars, loopVars, sportsVars>>

\* asyncio.sleep(refresh_sec)
RefreshDue ==
  /\ rpc = "asleep"
  /\ rpc' = "begin"
  /\ UNCHANGED <<env, stage, status, spent, source, slot, found, missed, listVars, loopVars, sportsVars>>

-----------------------------------------------------------------------------
(* The loops.  WatchlistState.snapshot reads the keys, then the contexts.   *)

ReadKeys ==
  /\ lpc = "keys"
  /\ snap' = keys
  /\ lpc' = "contexts"
  /\ UNCHANGED <<env, stage, status, spent, refreshVars, listVars, poll, calling, sportsVars>>

Going == {f \in Fixtures : poll[f] # "off" \/ sports[f]}

\* Only the asynchronous loops poll more than one fixture at a time.
OneByOne == stage = "fixtures" /\ env.loop # "async"

\* A poll is created for each fixture that is due, in contexts.get(fk, {}); the
\* guard drops those whose last poll still runs.
Schedule(due) ==
  /\ lpc = "contexts"
  /\ due \subseteq {f \in snap : poll[f] = "off"}
  /\ OneByOne => IF due = {} THEN TRUE ELSE Going = {} /\ Cardinality(due) = 1
  /\ poll' = [f \in Fixtures |->
       IF f \notin due THEN poll[f] ELSE IF f \in DOMAIN contexts THEN contexts[f] ELSE "bare"]
  /\ lpc' = "keys" /\ snap' = {}
  /\ UNCHANGED <<env, stage, status, spent, refreshVars, listVars, calling, sportsVars>>

\* ingest_fixture goes on to the sports of its fixture.
SportsFollow(f) ==
  /\ stage = "fixtures" /\ env.loop = "uniform"
  /\ f \in env.ids \/ env.feedMode = "hibs"

Polling(f) == poll[f] \in Contexts \cup {"bare"}

\* API-Football's poll asks the budget, and calls.
PollAsks(f) ==
  /\ Polling(f) /\ f \notin calling
  /\ PollsSpend(env) /\ spent < Cap
  /\ calling' = calling \cup {f}
  /\ UNCHANGED <<env, stage, status, spent, refreshVars, listVars, lpc, snap, poll, sportsVars>>

\* The feeds have been polled.  API-Football's poll was refused, or its call is
\* counted now if it did not raise.
PollEnds(f) ==
  /\ Polling(f)
  /\ poll' = [poll EXCEPT ![f] = IF SportsFollow(f) THEN "fed" ELSE "off"]
  /\ calling' = calling \ {f}
  /\ (f \in calling /\ spent' = spent + 1) \/ UNCHANGED spent
  /\ UNCHANGED <<env, stage, status, refreshVars, listVars, lpc, snap, sportsVars>>

-----------------------------------------------------------------------------
(* refresh_sports_context, of the explicit lists only: every so often in    *)
(* the asynchronous loop, after the feeds in ingest_fixture, and never in   *)
(* run_tiered_ingest_loop.                                                  *)

SportsDue(f) ==
  \/ poll[f] = "fed"
  \/ stage = "fixtures" /\ env.loop = "async" /\ f \in env.ids /\ ~sports[f]

\* The poll that led here is over.
PollOver(f) == poll' = [poll EXCEPT ![f] = IF @ = "fed" THEN "off" ELSE @]

SportsRest == UNCHANGED <<env, stage, status, refreshVars, listVars, lpc, snap, calling>>

SportsOfFeed(f) ==
  /\ SportsDue(f) /\ ~cached[f]
  /\ SportsFromFeed(env)
  /\ cached' = [cached EXCEPT ![f] = TRUE]
  /\ PollOver(f) /\ SportsRest /\ UNCHANGED <<spent, sports>>

\* What a feed raises is caught by the guard of the asynchronous loop only.
SportsRaises(f) ==
  /\ poll[f] = "fed" /\ ~cached[f]
  /\ SportsFromFeed(env)
  /\ stage' = "crashed" /\ lpc' = "off"
  /\ PollOver(f)
  /\ UNCHANGED <<env, status, spent, refreshVars, listVars, snap, calling, sportsVars>>

\* (mutant: the budget is not asked)
MayAskAnyway(f) == SportsFromApi(env) /\ f \in env.ids

MayAsk(f) == SportsFromApi(env) /\ f \in env.ids /\ spent < Cap

\* One call is allowed, and two are made.
SportsAsk(f) ==
  /\ SportsDue(f) /\ ~cached[f]
  /\ MayAsk(f)
  /\ sports' = [sports EXCEPT ![f] = TRUE]
  /\ PollOver(f) /\ SportsRest /\ UNCHANGED <<spent, cached>>

\* They are still cached, or nobody may be asked.
SportsLeft(f) ==
  /\ poll[f] = "fed"
  /\ cached[f] \/ ~MayAsk(f)
  /\ PollOver(f) /\ SportsRest /\ UNCHANGED <<spent, sportsVars>>

\* Both are counted once both are answered.
SportsEnds(f) ==
  /\ sports[f]
  /\ sports' = [sports EXCEPT ![f] = FALSE]
  /\ \/ cached' = [cached EXCEPT ![f] = TRUE] /\ spent' = spent + 2
     \/ UNCHANGED <<cached, spent>>
  /\ SportsRest /\ UNCHANGED poll

\* The entry leaves the cache when it falls due.
SportsExpire(f) ==
  /\ cached[f]
  /\ cached' = [cached EXCEPT ![f] = FALSE]
  /\ SportsRest /\ UNCHANGED <<spent, poll, sports>>

-----------------------------------------------------------------------------
(* What goes on outside. *)

HourTurns ==
  /\ spent > 0
  /\ spent' = 0
  /\ UNCHANGED <<env, stage, status, refreshVars, listVars, loopVars, sportsVars>>

\* A fixture comes into FVE_WATCHLIST_DAYS, and kicks off or is put off beyond it.
FixtureMoves(f) ==
  /\ status[f] # "started"
  /\ status' = [status EXCEPT ![f] = IF @ = "far" THEN "upcoming" ELSE "started"]
  /\ UNCHANGED <<env, stage, spent, refreshVars, listVars, loopVars, sportsVars>>

Refresh ==
  \/ RefreshBegins \/ FetchAsks \/ FetchRefused
  \/ FetchAnswered \/ FetchMissed \/ FetchRaises
  \/ FetchEnds \/ SetKeys \/ SetContexts \/ RefreshDue

SportsBegins(f) == SportsOfFeed(f) \/ SportsRaises(f) \/ SportsAsk(f) \/ SportsLeft(f)

SportsSteps(f) == SportsBegins(f) \/ SportsEnds(f) \/ SportsExpire(f)

Next ==
  \/ Start \/ Refresh \/ ReadKeys
  \/ \E due \in SUBSET Fixtures : Schedule(due)
  \/ \E f \in Fixtures : PollAsks(f) \/ PollEnds(f) \/ SportsSteps(f) \/ FixtureMoves(f)
  \/ HourTurns

\* The threads run, an hour and a poll interval pass, and a request ends.
Fairness ==
  /\ WF_vars(Start) /\ WF_vars(Refresh) /\ WF_vars(ReadKeys)
  /\ WF_vars(\E due \in SUBSET Fixtures : Schedule(due))
  /\ \A f \in Fixtures :
       /\ SF_vars(\E due \in SUBSET Fixtures : f \in due /\ Schedule(due))
       /\ WF_vars(PollEnds(f)) /\ WF_vars(SportsEnds(f))
       /\ WF_vars(poll[f] = "fed" /\ SportsBegins(f))

Spec == Init /\ [][Next]_vars /\ Fairness

-----------------------------------------------------------------------------
(* allow() reserves nothing and record() comes after the call, so the       *)
(* hour's count passes the cap by one call less than may be out at once:    *)
(* beside the automatic loop a call of the discovery and one of each        *)
(* fixture's poll; in the asynchronous loop over a list a poll of each      *)
(* fixture, and the two calls of the sports of each that has an id, which   *)
(* are allowed as one; and elsewhere one poll, or one fixture's sports, at  *)
(* a time.                                                                  *)

OutAtOnce(e) ==
  IF e.auto THEN 1 + Cardinality(Fixtures)
  ELSE IF e.loop = "async" THEN Cardinality(e.spec) + 2 * Cardinality(e.ids)
  ELSE 2

HourlyOverrun ==
  /\ WorkerTypeOK
  /\ spent <= Cap - 1 + OutAtOnce(env)

(* A poll runs in the context its fixture was listed with, although keys    *)
(* and contexts are replaced, and read, one after the other: it goes        *)
(* without one only for a fixture that has left the list since, or that a   *)
(* refresh is bringing in at this moment.                                   *)

ContextUnlessRefreshed ==
  [][\A f \in Fixtures :
       poll[f] = "off" /\ poll'[f] = "bare" => f \notin keys \/ rpc = "contexts"]_vars

(* A refresh that replaces the list takes a fixture off that the same       *)
(* source put there and still lists only if it got no answer about it: a    *)
(* failing, refused or raising request costs the fixtures of its own slot   *)
(* and no others, in whatever order they come.  Where the other source      *)
(* answers, a fixture goes with the key the first one gave it; and where    *)
(* the explicit list stands in for a discovery that found nothing, one may  *)
(* come into range too late for the next discovery to see it.               *)

DroppedOnlyIfMissed ==
  [][\A f \in keys \ keys' :
       contexts # SpecContexts(env) /\ contexts[f] = As(source) /\ status[f] = "upcoming" =>
         SlotOf[source][f] \in missed]_vars

(* The frozen modes leave API-Football's budget alone: a paused worker      *)
(* spends none of it unless it is also arb-only, and an arb-only one only   *)
(* on the sports of a fixture whose id was given with the list.             *)

FrozenSpares ==
  [][(env.paused \/ env.arbOnly) /\ spent' > spent =>
       env.arbOnly /\ \E f \in env.ids : sports[f] /\ ~sports'[f]]_vars

(* A fixture that the worker is to watch from some time on, because it is   *)
(* on the list it was given or because each discovery ends with a source    *)
(* that lists it and answered for it, is polled in its context again and    *)
(* again, whatever other requests fail or raise.                            *)

AnsweredFor(f) ==
  rpc \in {"keys", "contexts", "asleep"} => SlotOf[source][f] \notin missed \cup {0}

Watched(f) ==
  \/ stage = "fixtures" /\ f \in env.spec
  \/ stage = "auto" /\ env.arbOnly /\ f \in MatchbookList(env)
  \/ stage = "auto" /\ ~env.arbOnly /\ status[f] = "upcoming" /\ AnsweredFor(f)

WatchedArePolled ==
  \A f \in Fixtures : <>[]Watched(f) => []<>(poll[f] \in Contexts)
=============================================================================
