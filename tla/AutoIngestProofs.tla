-------------------------- MODULE AutoIngestProofs --------------------------
(***************************************************************************)
(* Proofs about the ingest worker, for any fixtures, slots, cap and        *)
(* environments: how far the hourly budget can be passed, that a worker    *)
(* frozen by its gates leaves the budget alone, in which context a fixture *)
(* is polled, and which fixtures a refresh may take off the list.          *)
(***************************************************************************)
EXTENDS AutoIngest, FiniteSetTheorems, TLAPS

-----------------------------------------------------------------------------
(* The invariant *)

\* The sports requests that are out, and whether one of the discovery is.
Out == {f \in Fixtures : sports[f]}

Discovering == IF rpc = "asked" /\ source = "api" THEN 1 ELSE 0

\* What is counted, and what is out and may be counted yet, stay below the cap and
\* what can be out at once: whoever is allowed sees a count below the cap.
BudgetInv ==
  spent + Cardinality(calling) + Discovering + 2 * Cardinality(Out) <= Cap - 1 + OutAtOnce(env)

\* Who can be out: the sports and the explicit list go together, without a discovery,
\* and outside the asynchronous loop one goes at a time.
CallInv ==
  /\ calling # {} => PollsSpend(env)
  /\ \A f \in calling : Polling(f)
  /\ stage = "auto" => env.auto
  /\ stage = "fixtures" => ~env.auto
  /\ lpc # "off" => stage \in {"auto", "fixtures"}
  /\ Out \subseteq env.ids
  /\ env.auto => \A f \in Fixtures : ~sports[f] /\ poll[f] # "fed"
  /\ ~env.auto =>
       /\ keys \cup snap \subseteq env.spec
       /\ \A f \in Fixtures : poll[f] # "off" => f \in env.spec
  /\ ~env.auto /\ env.loop # "async" =>
       /\ \A f, g \in Going : f = g
       /\ \A f \in Fixtures : poll[f] = "off" \/ ~sports[f]

\* Before the gates nothing runs, and what runs has passed them.
Nothing ==
  /\ rpc = "off" /\ lpc = "off"
  /\ \A f \in Fixtures : poll[f] = "off" /\ ~sports[f]

GateInv ==
  /\ stage = "gates" => Nothing /\ keys = {} /\ contexts = NoContexts
  /\ EnforceGates(env) = "go" \/ Nothing
  /\ rpc # "off" => stage = "auto"
  /\ stage = "fixtures" => EnforceGates(env) = "go"
  /\ rpc \in {"fetch", "asked"} => ~env.arbOnly
  /\ \A f \in Fixtures : poll[f] = "fed" => rpc = "off"

\* Keys and contexts are of one list, but between their replacements.
OneList ==
  /\ rpc = "contexts" => keys = DOMAIN found
  /\ rpc # "contexts" => keys = DOMAIN contexts

\* What a discovery has listed is in range and has a slot with its source.
Known(l) ==
  \A f \in DOMAIN l :
    status[f] # "far" /\ \A s \in {"fotmob", "api"} : l[f] = As(s) => SlotOf[s][f] # 0

Fetching == rpc \in {"fetch", "asked"}

\* Once the slot of a fixture has been asked about where it comes from, it is listed
\* again, has kicked off, or its slot has no answer.
Settling(f) ==
  \/ status[f] = "started" \/ f \in DOMAIN found
  \/ contexts[f] # As(source) \/ SlotOf[source][f] \in missed
  \/ Fetching /\ SlotOf[source][f] >= slot
  \/ ~Fetching /\ rpc # "keys"

ListInv ==
  /\ ~env.arbOnly /\ rpc # "off" =>
       /\ contexts # SpecContexts(env) => Known(contexts) /\ \A f \in DOMAIN contexts : Settling(f)
       /\ Fetching \/ (rpc \in {"keys", "contexts"} /\ found # SpecContexts(env)) => Known(found)
  /\ env.arbOnly /\ rpc # "off" =>
       /\ keys \subseteq MatchbookList(env)
       /\ rpc \in {"keys", "contexts"} => DOMAIN found = MatchbookList(env)

WorkerInv ==
  WorkerTypeOK /\ GateInv /\ CallInv /\ BudgetInv /\ OneList /\ ListInv

-----------------------------------------------------------------------------
(* Lists and environments *)

LEMMA ListTypes ==
  ASSUME NEW F \in SUBSET Fixtures, NEW l \in [F -> Contexts]
  PROVE  l \in Lists
BY DEF Lists

LEMMA ListShape ==
  ASSUME NEW l \in Lists
  PROVE  DOMAIN l \subseteq Fixtures /\ l \in [DOMAIN l -> Contexts]
BY DEF Lists

LEMMA JoinedLists ==
  ASSUME NEW k \in Lists, NEW l \in Lists
  PROVE  [x \in DOMAIN k \cup DOMAIN l |-> IF x \in DOMAIN k THEN k[x] ELSE l[x]] \in Lists
<1>1. /\ DOMAIN k \subseteq Fixtures /\ k \in [DOMAIN k -> Contexts]
      /\ DOMAIN l \subseteq Fixtures /\ l \in [DOMAIN l -> Contexts]
  BY ListShape
<1>2. [x \in DOMAIN k \cup DOMAIN l |-> IF x \in DOMAIN k THEN k[x] ELSE l[x]]
        \in [DOMAIN k \cup DOMAIN l -> Contexts]
  BY <1>1
<1> QED BY <1>1, <1>2, ListTypes

LEMMA EnvironmentLists ==
  ASSUME NEW e \in Environments
  PROVE  /\ SpecContexts(e) \in Lists /\ DOMAIN SpecContexts(e) = e.spec
         /\ MatchbookContexts(e) \in Lists /\ DOMAIN MatchbookContexts(e) = MatchbookList(e)
         /\ NoContexts \in Lists /\ DOMAIN NoContexts = {}
         /\ e.spec \subseteq Fixtures
         /\ IsFiniteSet(e.ids) /\ Cardinality(e.ids) \in Nat
<1>1. e.spec \subseteq Fixtures /\ e.map \subseteq Fixtures /\ e.ids \subseteq Fixtures
      /\ IsFiniteSet(Fixtures)
  BY IngestAssumption
<1>2. SpecContexts(e) \in [e.spec -> Contexts]
  BY DEF SpecContexts, Contexts
<1>3. [f \in e.map |-> "label"] \in [e.map -> Contexts]
  BY DEF Contexts
<1>4. MatchbookContexts(e) \in Lists /\ DOMAIN MatchbookContexts(e) = MatchbookList(e)
  BY <1>1, <1>2, <1>3, ListTypes DEF MatchbookContexts, MatchbookList
<1>5. NoContexts \in [{} -> Contexts]
  BY DEF NoContexts
<1>6. IsFiniteSet(e.ids) /\ Cardinality(e.ids) \in Nat
  BY <1>1, FS_Subset, FS_CardinalityType
<1> QED BY <1>1, <1>2, <1>4, <1>5, <1>6, ListTypes

LEMMA ListedTypes ==
  ASSUME WorkerTypeOK
  PROVE  /\ Listed \in Lists
         /\ DOMAIN Listed = {f \in Fixtures : SlotOf[source][f] = slot /\ status[f] = "upcoming"}
         /\ \A f \in DOMAIN Listed : Listed[f] = As(source)
<1>1. /\ Listed \in [{f \in Fixtures : SlotOf[source][f] = slot /\ status[f] = "upcoming"} -> Contexts]
      /\ \A f \in DOMAIN Listed : Listed[f] = As(source)
  BY DEF Listed, Contexts, As
<1> QED BY <1>1, ListTypes

-----------------------------------------------------------------------------
(* Types *)

LEMMA GatesAnswer ==
  ASSUME NEW e
  PROVE  /\ EnforceGates(e) \in {"exit0", "exit1", "go"}
         /\ Loop(e) \in {"exit0", "exit1", "auto", "fixtures"}
         /\ Loop(e) \in {"auto", "fixtures"} => EnforceGates(e) = "go"
         /\ EnforceGates(e) = "go" /\ e.paused => e.arbOnly
         /\ EnforceGates(e) = "go" /\ e.arbOnly => IsMatchbookOnly(e)
<1> DEFINE jailed == e.arbOnly /\ ~IsMatchbookOnly(e)
           paused == e.paused /\ ~e.arbOnly
<1>1. EnforceGates(e) = CASE jailed -> "exit1" [] paused -> "exit0" [] OTHER -> "go"
  BY DEF EnforceGates
<1>2. EnforceGates(e) \in {"exit0", "exit1", "go"}
  BY <1>1
<1>3. Loop(e) = IF EnforceGates(e) # "go" THEN EnforceGates(e)
                ELSE IF e.auto THEN "auto" ELSE IF e.spec = {} THEN "exit1" ELSE "fixtures"
  BY DEF Loop
<1>4. /\ Loop(e) \in {"exit0", "exit1", "auto", "fixtures"}
      /\ Loop(e) \in {"auto", "fixtures"} => EnforceGates(e) = "go"
  BY <1>2, <1>3
<1>5. EnforceGates(e) = "go" => ~jailed /\ ~paused
  <2> HIDE DEF jailed, paused
  <2> QED BY <1>1
<1> QED BY <1>2, <1>4, <1>5

\* What a refresh never touches.
LEMMA RefreshLeaves ==
  ASSUME Refresh
  PROVE  UNCHANGED <<env, status, snap, poll, calling, sports, cached>>
BY DEF Refresh, RefreshBegins, FetchAsks, FetchRefused, SkipsSlot, FetchAnswered, FetchMissed,
   FetchRaises, FetchEnds, SetKeys, SetContexts, RefreshDue, RefreshRest, loopVars, sportsVars

LEMMA RefreshTypes ==
  ASSUME WorkerTypeOK, Refresh
  PROVE  WorkerTypeOK'
<1>0. /\ env \in Environments /\ stage \in {"gates", "exit0", "exit1", "crashed", "auto", "fixtures"}
      /\ slot \in 1 .. Slots + 1 /\ spent \in Nat /\ found \in Lists /\ missed \in SUBSET (1 .. Slots)
      /\ Slots \in Nat \ {0} /\ (rpc = "asked" => slot <= Slots)
  BY IngestAssumption DEF WorkerTypeOK
<1>1. UNCHANGED <<env, status, snap, poll, calling, sports, cached>>
  BY RefreshLeaves
<1>2. stage' \in {"gates", "exit0", "exit1", "crashed", "auto", "fixtures"}
  BY <1>0 DEF Refresh, RefreshBegins, FetchAsks, FetchRefused, SkipsSlot, Recorded, FetchAnswered,
     FetchMissed, FetchRaises, FetchEnds, SetKeys, SetContexts, RefreshDue
<1>3. spent' \in Nat
  BY <1>0 DEF Refresh, RefreshBegins, FetchAsks, FetchRefused, SkipsSlot, Recorded, FetchAnswered,
     FetchMissed, FetchRaises, FetchEnds, SetKeys, SetContexts, RefreshDue
<1>4. rpc' \in {"off", "begin", "fetch", "asked", "keys", "contexts", "asleep"} /\ source' \in {"fotmob", "api"}
  BY DEF WorkerTypeOK, Refresh, RefreshBegins, FetchAsks, FetchRefused, SkipsSlot, Recorded,
     FetchAnswered, FetchMissed, FetchRaises, FetchEnds, SetKeys, SetContexts, RefreshDue
<1>5. slot' \in 1 .. Slots + 1 /\ missed' \in SUBSET (1 .. Slots) /\ (rpc' = "asked" => slot' <= Slots)
  BY <1>0 DEF Refresh, RefreshBegins, FetchAsks, FetchRefused, SkipsSlot, Recorded, FetchAnswered,
     FetchMissed, FetchRaises, FetchEnds, SetKeys, SetContexts, RefreshDue
<1>6. found' \in Lists
  <2>1. SpecContexts(env) \in Lists /\ MatchbookContexts(env) \in Lists /\ NoContexts \in Lists
    BY <1>0, EnvironmentLists
  <2>2. [f \in DOMAIN found \cup DOMAIN Listed |-> IF f \in DOMAIN found THEN found[f] ELSE Listed[f]]
          \in Lists
    BY <1>0, ListedTypes, JoinedLists
  <2> QED BY <1>0, <2>1, <2>2 DEF Refresh, RefreshBegins, FetchAsks, FetchRefused, SkipsSlot,
     Recorded, FetchAnswered, FetchMissed, FetchRaises, FetchEnds, SetKeys, SetContexts, RefreshDue
<1>7. keys' \subseteq Fixtures /\ contexts' \in Lists /\ lpc' \in {"off", "keys", "contexts"}
  <2>1. /\ DOMAIN found \subseteq Fixtures /\ keys \subseteq Fixtures /\ contexts \in Lists
        /\ lpc \in {"off", "keys", "contexts"}
    BY <1>0, ListShape DEF WorkerTypeOK
  <2>2. CASE SetKeys
    BY <2>1, <2>2 DEF SetKeys, loopVars
  <2>3. CASE SetContexts
    BY <1>0, <2>1, <2>3 DEF SetContexts
  <2>4. CASE UNCHANGED <<keys, contexts, lpc>>
    BY <2>1, <2>4
  <2>5. SetKeys \/ SetContexts \/ UNCHANGED <<keys, contexts, lpc>>
    BY DEF Refresh, RefreshBegins, FetchAsks, FetchRefused, SkipsSlot, Recorded, FetchAnswered,
       FetchMissed, FetchRaises, FetchEnds, RefreshDue, RefreshRest, loopVars, listVars
  <2> QED BY <2>2, <2>3, <2>4, <2>5
<1> QED BY <1>1, <1>2, <1>3, <1>4, <1>5, <1>6, <1>7 DEF WorkerTypeOK, sportsVars

LEMMA LoopTypes ==
  ASSUME WorkerTypeOK, Start \/ ReadKeys \/ \E due \in SUBSET Fixtures : Schedule(due)
  PROVE  WorkerTypeOK'
<1>1. CASE Start
  <2>1. Loop(env) \in {"exit0", "exit1", "auto", "fixtures"}
    BY GatesAnswer
  <2>2. SpecContexts(env) \in Lists /\ env.spec \subseteq Fixtures
    BY EnvironmentLists DEF WorkerTypeOK
  <2> QED BY <1>1, <2>1, <2>2 DEF Start, WorkerTypeOK, sportsVars
<1>2. CASE ReadKeys
  BY <1>2 DEF ReadKeys, WorkerTypeOK, refreshVars, listVars, sportsVars
<1>3. ASSUME NEW due \in SUBSET Fixtures, Schedule(due) PROVE WorkerTypeOK'
  <2>1. poll' \in [Fixtures -> Contexts \cup {"off", "bare", "fed"}]
    <3>1. contexts \in [DOMAIN contexts -> Contexts]
      BY ListShape DEF WorkerTypeOK
    <3> QED BY <1>3, <3>1 DEF Schedule, WorkerTypeOK
  <2> QED BY <1>3, <2>1 DEF Schedule, WorkerTypeOK, refreshVars, listVars, sportsVars
<1> QED BY <1>1, <1>2, <1>3

LEMMA FixtureTypes ==
  ASSUME WorkerTypeOK, NEW f \in Fixtures,
         PollAsks(f) \/ PollEnds(f) \/ SportsSteps(f) \/ FixtureMoves(f)
  PROVE  WorkerTypeOK'
<1>0. /\ poll \in [Fixtures -> Contexts \cup {"off", "bare", "fed"}] /\ spent \in Nat
      /\ calling \subseteq Fixtures
      /\ sports \in [Fixtures -> BOOLEAN] /\ cached \in [Fixtures -> BOOLEAN]
      /\ status \in [Fixtures -> {"far", "upcoming", "started"}]
  BY DEF WorkerTypeOK
<1>1. UNCHANGED <<env, refreshVars, listVars, snap>>
  BY DEF PollAsks, PollEnds, SportsSteps, SportsBegins, SportsOfFeed, SportsRaises, SportsAsk,
     SportsLeft, SportsEnds, SportsExpire, FixtureMoves, SportsRest, loopVars
<1>2. poll' \in [Fixtures -> Contexts \cup {"off", "bare", "fed"}]
  BY <1>0 DEF PollAsks, PollEnds, SportsSteps, SportsBegins, SportsOfFeed, SportsRaises,
     SportsAsk, SportsLeft, SportsEnds, SportsExpire, FixtureMoves, PollOver, loopVars
<1>3. calling' \subseteq Fixtures
  BY <1>0 DEF PollAsks, PollEnds, SportsSteps, SportsBegins, SportsOfFeed, SportsRaises, SportsAsk,
     SportsLeft, SportsEnds, SportsExpire, FixtureMoves, SportsRest, loopVars
<1>4. sports' \in [Fixtures -> BOOLEAN] /\ cached' \in [Fixtures -> BOOLEAN]
  BY <1>0 DEF PollAsks, PollEnds, SportsSteps, SportsBegins, SportsOfFeed, SportsRaises,
     SportsAsk, SportsLeft, SportsEnds, SportsExpire, FixtureMoves, sportsVars
<1>5. spent' \in Nat
  BY <1>0 DEF PollAsks, PollEnds, SportsSteps, SportsBegins, SportsOfFeed, SportsRaises,
     SportsAsk, SportsLeft, SportsEnds, SportsExpire, FixtureMoves
<1>6. status' \in [Fixtures -> {"far", "upcoming", "started"}]
  BY <1>0 DEF PollAsks, PollEnds, SportsSteps, SportsBegins, SportsOfFeed, SportsRaises,
     SportsAsk, SportsLeft, SportsEnds, SportsExpire, FixtureMoves, SportsRest
<1>7. /\ stage' \in {"gates", "exit0", "exit1", "crashed", "auto", "fixtures"}
      /\ lpc' \in {"off", "keys", "contexts"}
  BY DEF WorkerTypeOK, PollAsks, PollEnds, SportsSteps, SportsBegins, SportsOfFeed, SportsRaises,
     SportsAsk, SportsLeft, SportsEnds, SportsExpire, FixtureMoves, SportsRest, loopVars
<1> QED BY <1>1, <1>2, <1>3, <1>4, <1>5, <1>6, <1>7 DEF WorkerTypeOK, refreshVars, listVars

LEMMA NextTypes == WorkerTypeOK /\ [Next]_vars => WorkerTypeOK'
<1> SUFFICES ASSUME WorkerTypeOK, [Next]_vars PROVE WorkerTypeOK'
  OBVIOUS
<1>1. CASE HourTurns
  BY <1>1 DEF HourTurns, WorkerTypeOK, refreshVars, listVars, loopVars, sportsVars
<1>2. CASE UNCHANGED vars
  BY <1>2 DEF vars, WorkerTypeOK, refreshVars, listVars, loopVars, sportsVars
<1> QED BY <1>1, <1>2, RefreshTypes, LoopTypes, FixtureTypes DEF Next

LEMMA InitTypes == Init => WorkerTypeOK
<1> SUFFICES ASSUME Init PROVE WorkerTypeOK
  OBVIOUS
<1>1. NoContexts \in Lists
  BY EnvironmentLists DEF Init
<1>2. 1 \in 1 .. Slots + 1
  BY IngestAssumption
<1> QED BY <1>1, <1>2 DEF Init, WorkerTypeOK

-----------------------------------------------------------------------------
(* The gates *)

LEMMA NextGates == WorkerTypeOK /\ GateInv /\ [Next]_vars => GateInv'
<1> SUFFICES ASSUME WorkerTypeOK, GateInv, [Next]_vars PROVE GateInv'
  OBVIOUS
<1>0. WorkerTypeOK'
  BY NextTypes
<1>1. CASE Start
  <2>1. /\ stage' = Loop(env) /\ rpc' = IF stage' = "auto" THEN "begin" ELSE "off"
        /\ stage' # "fixtures" => lpc' = lpc
        /\ UNCHANGED <<env, poll, sports>> /\ \A f \in Fixtures : poll[f] = "off"
    BY <1>1 DEF Start, sportsVars, GateInv, Nothing
  <2>2. Loop(env) \in {"exit0", "exit1", "auto", "fixtures"}
        /\ (Loop(env) \in {"auto", "fixtures"} => EnforceGates(env) = "go")
    BY GatesAnswer
  <2>3. CASE stage' \in {"auto", "fixtures"}
    BY <2>1, <2>2, <2>3 DEF GateInv
  <2>4. CASE stage' \in {"exit0", "exit1"}
    BY <2>1, <2>4 DEF GateInv, Nothing
  <2> QED BY <2>1, <2>2, <2>3, <2>4
<1>2. CASE Refresh
  <2>1. rpc # "off" /\ stage = "auto" /\ EnforceGates(env) = "go"
    BY <1>2 DEF Refresh, RefreshBegins, FetchAsks, FetchRefused, SkipsSlot, Recorded, FetchAnswered,
       FetchMissed, FetchRaises, FetchEnds, SetKeys, SetContexts, RefreshDue, GateInv, Nothing
  <2>2. /\ UNCHANGED <<env, poll>> /\ stage' \in {"auto", "crashed"}
        /\ rpc' # "off" => stage' = "auto"
        /\ rpc' \in {"fetch", "asked"} => ~env.arbOnly
    BY <1>2, <2>1 DEF Refresh, RefreshBegins, FetchAsks, FetchRefused, SkipsSlot, Recorded,
       FetchAnswered, FetchMissed, FetchRaises, FetchEnds, SetKeys, SetContexts, RefreshDue,
       RefreshRest, loopVars, GateInv
  <2> QED BY <2>1, <2>2 DEF GateInv
<1>3. CASE ReadKeys \/ \E due \in SUBSET Fixtures : Schedule(due)
  <2>1. lpc # "off" /\ UNCHANGED <<env, stage, rpc>>
    BY <1>3 DEF ReadKeys, Schedule, refreshVars
  <2>2. \A f \in Fixtures : poll'[f] = "fed" => poll[f] = "fed"
    <3>1. \A f \in DOMAIN contexts : contexts[f] \in Contexts
      BY ListShape DEF WorkerTypeOK
    <3> QED BY <1>3, <3>1 DEF ReadKeys, Schedule, Contexts
  <2> QED BY <2>1, <2>2 DEF GateInv, Nothing
<1>4. ASSUME NEW f \in Fixtures, PollAsks(f) \/ PollEnds(f) PROVE GateInv'
  <2>1. /\ poll[f] # "off" /\ UNCHANGED <<env, stage, rpc>>
        /\ \A g \in Fixtures : poll'[g] = "fed" => poll[g] = "fed" \/ stage = "fixtures"
    BY <1>4 DEF PollAsks, PollEnds, Polling, Contexts, refreshVars, WorkerTypeOK, SportsFollow
  <2> QED BY <2>1 DEF GateInv, Nothing
<1>5. ASSUME NEW f \in Fixtures, SportsBegins(f) \/ SportsEnds(f) PROVE GateInv'
  <2>1. EnforceGates(env) = "go" /\ stage # "gates"
    BY <1>5 DEF SportsBegins, SportsOfFeed, SportsRaises, SportsAsk, SportsLeft, SportsEnds,
       SportsDue, GateInv, Nothing
  <2>2. /\ UNCHANGED <<env, rpc>>
        /\ stage' = stage \/ (stage' = "crashed" /\ poll[f] = "fed")
        /\ \A g \in Fixtures : poll'[g] = "fed" => poll[g] = "fed"
    BY <1>5 DEF SportsBegins, SportsOfFeed, SportsRaises, SportsAsk, SportsLeft, SportsEnds,
       SportsRest, refreshVars, PollOver, WorkerTypeOK
  <2> QED BY <2>1, <2>2 DEF GateInv
<1>6. ASSUME NEW f \in Fixtures, SportsExpire(f) \/ FixtureMoves(f) PROVE GateInv'
  <2>1. UNCHANGED <<env, stage, rpc, lpc, poll, sports, keys, contexts>>
    BY <1>6 DEF SportsExpire, FixtureMoves, SportsRest, refreshVars, listVars, loopVars, sportsVars
  <2> QED BY <2>1 DEF GateInv, Nothing
<1>7. CASE HourTurns \/ UNCHANGED vars
  <2>1. UNCHANGED <<env, stage, rpc, lpc, poll, sports, keys, contexts>>
    BY <1>7 DEF HourTurns, vars, refreshVars, listVars, loopVars, sportsVars
  <2> QED BY <2>1 DEF GateInv, Nothing
<1> QED BY <1>1, <1>2, <1>3, <1>4, <1>5, <1>6, <1>7 DEF Next, SportsSteps

-----------------------------------------------------------------------------
(* Who can be out *)

\* A fixture whose sports were asked for is not polled any more.
LEMMA PollOverKeepsCalls ==
  ASSUME WorkerTypeOK, CallInv, NEW f \in Fixtures,
         poll' = [poll EXCEPT ![f] = IF @ = "fed" THEN "off" ELSE @],
         UNCHANGED <<env, calling, sports, keys, snap>>,
         UNCHANGED <<stage, lpc>> \/ (stage' = "crashed" /\ lpc' = "off")
  PROVE  CallInv'
<1>1. poll \in [Fixtures -> Contexts \cup {"off", "bare", "fed"}] /\ calling \subseteq Fixtures
  BY DEF WorkerTypeOK
<1>2. \A g \in Fixtures : poll'[g] = IF poll[g] = "fed" /\ g = f THEN "off" ELSE poll[g]
  BY <1>1
<1>3. \A g \in calling : Polling(g)'
  BY <1>1, <1>2 DEF CallInv, Polling, Contexts
<1>4. Going' \subseteq Going
  BY <1>2 DEF Going
<1> QED BY <1>2, <1>3, <1>4 DEF CallInv, Out

LEMMA NextCalls == WorkerTypeOK /\ GateInv /\ CallInv /\ [Next]_vars => CallInv'
<1> SUFFICES ASSUME WorkerTypeOK, GateInv, CallInv, [Next]_vars PROVE CallInv'
  OBVIOUS
<1>0. /\ WorkerTypeOK' /\ env \in Environments /\ contexts \in Lists
      /\ poll \in [Fixtures -> Contexts \cup {"off", "bare", "fed"}]
      /\ sports \in [Fixtures -> BOOLEAN] /\ calling \subseteq Fixtures
  BY NextTypes DEF WorkerTypeOK
<1>1. CASE Start
  <2>1. /\ stage' = Loop(env) /\ rpc' = IF stage' = "auto" THEN "begin" ELSE "off"
        /\ UNCHANGED <<env, snap, poll, calling, sports>>
        /\ IF stage' = "fixtures" THEN lpc' = "keys" /\ keys' = env.spec ELSE UNCHANGED <<lpc, keys>>
        /\ lpc = "off"
    BY <1>1 DEF Start, sportsVars, GateInv, Nothing
  <2>2. Loop(env) = IF EnforceGates(env) # "go" THEN EnforceGates(env)
                    ELSE IF env.auto THEN "auto" ELSE IF env.spec = {} THEN "exit1" ELSE "fixtures"
    BY DEF Loop
  <2>6. EnforceGates(env) \in {"exit0", "exit1", "go"}
    BY GatesAnswer
  <2>3. (stage' = "auto" => env.auto) /\ (stage' = "fixtures" => ~env.auto)
    BY <2>1, <2>2, <2>6
  <2>4. lpc' # "off" => stage' = "fixtures"
    BY <2>1
  <2>5. ~env.auto => keys' \cup snap' \subseteq env.spec
    BY <2>1 DEF CallInv
  <2> QED BY <2>1, <2>3, <2>4, <2>5 DEF CallInv, Out, Going, Polling
<1>2. CASE Refresh
  <2>1. rpc # "off" /\ stage = "auto" /\ env.auto
    BY <1>2 DEF Refresh, RefreshBegins, FetchAsks, FetchRefused, FetchAnswered, FetchMissed, FetchRaises,
       FetchEnds, SetKeys, SetContexts, RefreshDue, GateInv, CallInv
  <2>2. UNCHANGED <<env, poll, calling, sports>>
    BY <1>2, RefreshLeaves
  <2>3. stage' \in {"auto", "crashed"} /\ (stage' = "crashed" => lpc' = "off")
    BY <1>2, <2>1 DEF Refresh, RefreshBegins, FetchAsks, FetchRefused, SkipsSlot, FetchAnswered,
       FetchMissed, FetchRaises, FetchEnds, SetKeys, SetContexts, RefreshDue, RefreshRest, loopVars
  <2> QED BY <2>1, <2>2, <2>3 DEF CallInv, Out, Polling
<1>3. CASE ReadKeys
  BY <1>3 DEF ReadKeys, CallInv, Out, Going, Polling, listVars, sportsVars
<1>4. ASSUME NEW due \in SUBSET Fixtures, Schedule(due) PROVE CallInv'
  <2>1. /\ lpc = "contexts" /\ due \subseteq {f \in snap : poll[f] = "off"}
        /\ OneByOne => due = {} \/ (Going = {} /\ Cardinality(due) = 1)
        /\ poll' = [f \in Fixtures |->
             IF f \notin due THEN poll[f] ELSE IF f \in DOMAIN contexts THEN contexts[f] ELSE "bare"]
        /\ UNCHANGED <<env, stage, calling, sports, keys>> /\ snap' = {} /\ lpc' = "keys"
    BY <1>4 DEF Schedule, listVars, sportsVars
  <2>2. \A f \in DOMAIN contexts : contexts[f] \in Contexts
    BY <1>0, ListShape
  <2>3. \A f \in due : poll'[f] \in Contexts \cup {"bare"}
    BY <2>1, <2>2
  <2>4. \A f \in Fixtures : (f \notin due => poll'[f] = poll[f]) /\ (poll[f] # "off" => f \notin due)
    BY <2>1
  <2>5. \A f \in Fixtures : poll'[f] = "fed" => poll[f] = "fed"
    BY <2>3, <2>4 DEF Contexts
  <2>6. \A f \in calling : Polling(f)'
    BY <1>0, <2>1, <2>4 DEF CallInv, Polling, Contexts
  <2>7. ~env.auto => \A f \in Fixtures : poll'[f] # "off" => f \in env.spec
    BY <2>1, <2>4 DEF CallInv
  <2>8. ASSUME ~env.auto, env.loop # "async"
        PROVE  /\ \A f, g \in Going' : f = g
               /\ \A f \in Fixtures : poll'[f] = "off" \/ ~sports'[f]
    <3>1. OneByOne
      BY <2>1, <2>8 DEF OneByOne, CallInv
    <3>2. CASE due = {}
      <4>1. poll' = poll
        BY <1>0, <2>1, <3>2
      <4> QED BY <2>1, <2>8, <4>1 DEF CallInv, Going
    <3>3. CASE Going = {} /\ Cardinality(due) = 1
      <4>1. PICK d : due = {d}
        BY <3>3, FS_Singleton, FS_Subset, IngestAssumption
      <4>2. Going' \subseteq due /\ \A f \in Fixtures : poll[f] = "off" /\ ~sports[f]
        BY <1>0, <2>1, <2>4, <3>3 DEF Going
      <4> QED BY <2>1, <4>1, <4>2
    <3> QED BY <2>1, <3>1, <3>2, <3>3
  <2>9. stage' \in {"auto", "fixtures"}
    BY <2>1 DEF CallInv
  <2> QED BY <2>1, <2>5, <2>6, <2>7, <2>8, <2>9 DEF CallInv, Out
<1>5. ASSUME NEW f \in Fixtures, PollAsks(f) PROVE CallInv'
  BY <1>5 DEF PollAsks, CallInv, Out, Going, Polling, listVars, sportsVars
<1>6. ASSUME NEW f \in Fixtures, PollEnds(f) PROVE CallInv'
  <2>1. /\ Polling(f) /\ calling' = calling \ {f}
        /\ poll' = [poll EXCEPT ![f] = IF SportsFollow(f) THEN "fed" ELSE "off"]
        /\ UNCHANGED <<env, stage, lpc, keys, snap, sports>>
    BY <1>6 DEF PollEnds, listVars, sportsVars
  <2>2. poll[f] # "off" /\ (SportsFollow(f) => stage = "fixtures")
    BY <2>1 DEF Polling, Contexts, SportsFollow
  <2>3. /\ \A g \in Fixtures : g # f => poll'[g] = poll[g]
        /\ poll'[f] = "off" \/ (poll'[f] = "fed" /\ stage = "fixtures")
    BY <1>0, <2>1, <2>2
  <2>4. \A g \in calling' : Polling(g)'
    BY <1>0, <2>1, <2>3 DEF CallInv, Polling
  <2>5. Going' \subseteq Going
    BY <2>1, <2>2, <2>3 DEF Going
  <2> QED BY <1>0, <2>1, <2>2, <2>3, <2>4, <2>5 DEF CallInv, Out
<1>7. ASSUME NEW f \in Fixtures, SportsOfFeed(f) \/ SportsLeft(f) \/ SportsRaises(f) PROVE CallInv'
  <2>1. /\ poll' = [poll EXCEPT ![f] = IF @ = "fed" THEN "off" ELSE @]
        /\ UNCHANGED <<env, calling, sports, keys, snap>>
        /\ UNCHANGED <<stage, lpc>> \/ (stage' = "crashed" /\ lpc' = "off")
    BY <1>7 DEF SportsOfFeed, SportsLeft, SportsRaises, PollOver, SportsRest, listVars, sportsVars
  <2> QED BY <1>0, <2>1, PollOverKeepsCalls
<1>8. ASSUME NEW f \in Fixtures, SportsAsk(f) PROVE CallInv'
  <2>1. /\ SportsDue(f) /\ f \in env.ids
        /\ poll' = [poll EXCEPT ![f] = IF @ = "fed" THEN "off" ELSE @]
        /\ sports' = [sports EXCEPT ![f] = TRUE]
        /\ UNCHANGED <<env, stage, lpc, calling, keys, snap>>
    BY <1>8 DEF SportsAsk, MayAsk, PollOver, SportsRest, listVars
  <2>2. ~env.auto /\ (env.loop # "async" => poll[f] = "fed")
    BY <2>1 DEF SportsDue, CallInv
  <2>3. \A g \in Fixtures : /\ poll'[g] = IF poll[g] = "fed" /\ g = f THEN "off" ELSE poll[g]
                            /\ sports'[g] = (g = f \/ sports[g])
    BY <1>0, <2>1
  <2>4. \A g \in calling : Polling(g)'
    BY <1>0, <2>1, <2>3 DEF CallInv, Polling, Contexts
  <2>5. \A g \in Fixtures : poll'[g] # "off" => poll[g] # "off"
    BY <2>3
  <2>6. Out' \subseteq env.ids
    BY <2>1, <2>3 DEF Out, CallInv
  <2>7. ASSUME env.loop # "async"
        PROVE  /\ \A g, h \in Going' : g = h
               /\ \A g \in Fixtures : poll'[g] = "off" \/ ~sports'[g]
    <3>1. poll[f] = "fed" /\ \A g, h \in Going : g = h
      BY <2>2, <2>7 DEF CallInv
    <3>2. f \in Going
      BY <3>1 DEF Going
    <3>3. Going' \subseteq Going
      BY <2>3, <2>5, <3>2 DEF Going
    <3>4. \A g \in Fixtures : g # f => poll[g] = "off" /\ ~sports[g]
      BY <1>0, <3>1, <3>2 DEF Going
    <3> QED BY <2>3, <3>1, <3>3, <3>4
  <2> QED BY <2>1, <2>2, <2>4, <2>5, <2>6, <2>7 DEF CallInv
<1>9. ASSUME NEW f \in Fixtures, SportsEnds(f) PROVE CallInv'
  <2>1. sports' = [sports EXCEPT ![f] = FALSE] /\ UNCHANGED <<env, stage, lpc, poll, calling, keys, snap>>
    BY <1>9 DEF SportsEnds, SportsRest, listVars
  <2>2. \A g \in Fixtures : sports'[g] => sports[g]
    BY <1>0, <2>1
  <2>3. Out' \subseteq Out /\ Going' \subseteq Going
    BY <1>0, <2>1, <2>2 DEF Out, Going
  <2> QED BY <2>1, <2>2, <2>3 DEF CallInv, Polling
<1>10. CASE UNCHANGED <<env, stage, lpc, keys, snap, poll, calling, sports>>
  BY <1>10 DEF CallInv, Out, Going, Polling
<1>11. ASSUME NEW f \in Fixtures, SportsExpire(f) \/ FixtureMoves(f) PROVE CallInv'
  BY <1>10, <1>11 DEF SportsExpire, FixtureMoves, SportsRest, listVars, loopVars, sportsVars
<1>12. CASE HourTurns \/ UNCHANGED vars
  BY <1>10, <1>12 DEF HourTurns, vars, listVars, loopVars, sportsVars
<1> QED BY <1>1, <1>2, <1>3, <1>4, <1>5, <1>6, <1>7, <1>8, <1>9, <1>11, <1>12 DEF Next, SportsSteps,
   SportsBegins

-----------------------------------------------------------------------------
(* The budget *)

\* Polls, sports requests and the discovery that are out at once, counted.
LEMMA OutIsBounded ==
  ASSUME NEW e \in Environments, NEW C \in SUBSET Fixtures, NEW O \in SUBSET Fixtures, NEW d \in {0, 1},
         e.auto => O = {},
         ~e.auto => d = 0 /\ C \subseteq e.spec /\ O \subseteq e.ids,
         ~e.auto /\ e.loop # "async" => (\A f, g \in C \cup O : f = g) /\ C \cap O = {}
  PROVE  /\ IsFiniteSet(C) /\ Cardinality(C) \in Nat /\ IsFiniteSet(O) /\ Cardinality(O) \in Nat
         /\ OutAtOnce(e) \in Nat
         /\ Cardinality(C) + d + 2 * Cardinality(O) <= OutAtOnce(e)
<1>1. IsFiniteSet(Fixtures) /\ e.spec \subseteq Fixtures /\ e.ids \subseteq Fixtures
  BY IngestAssumption, EnvironmentLists
<1>2. /\ IsFiniteSet(C) /\ Cardinality(C) \in Nat /\ IsFiniteSet(O) /\ Cardinality(O) \in Nat
      /\ Cardinality(C) <= Cardinality(Fixtures) /\ Cardinality(Fixtures) \in Nat
  BY <1>1, FS_Subset, FS_CardinalityType
<1>3. IsFiniteSet(e.spec) /\ IsFiniteSet(e.ids) /\ Cardinality(e.spec) \in Nat /\ Cardinality(e.ids) \in Nat
  BY <1>1, FS_Subset, FS_CardinalityType
<1>4. CASE e.auto
  <2>1. Cardinality(O) = 0
    BY <1>4, FS_EmptySet
  <2>2. OutAtOnce(e) = 1 + Cardinality(Fixtures)
    BY <1>4 DEF OutAtOnce
  <2> QED BY <1>2, <2>1, <2>2
<1>5. CASE ~e.auto /\ e.loop = "async"
  <2>1. Cardinality(C) <= Cardinality(e.spec) /\ Cardinality(O) <= Cardinality(e.ids)
    BY <1>3, <1>5, FS_Subset
  <2>2. OutAtOnce(e) = Cardinality(e.spec) + 2 * Cardinality(e.ids)
    BY <1>5 DEF OutAtOnce
  <2> QED BY <1>2, <1>3, <1>5, <2>1, <2>2
<1>6. CASE ~e.auto /\ e.loop # "async"
  <2>1. OutAtOnce(e) = 2
    BY <1>6 DEF OutAtOnce
  <2>2. CASE C \cup O = {}
    <3>1. Cardinality(C) = 0 /\ Cardinality(O) = 0
      BY <2>2, FS_EmptySet
    <3> QED BY <1>2, <1>6, <2>1, <3>1
  <2>3. ASSUME NEW c \in C \cup O PROVE Cardinality(C) + 2 * Cardinality(O) <= 2
    <3>1. C \cup O = {c}
      BY <1>6, <2>3
    <3>2. (C = {c} /\ O = {}) \/ (C = {} /\ O = {c})
      BY <1>6, <3>1
    <3>3. Cardinality({c}) = 1 /\ Cardinality({}) = 0
      BY FS_Singleton, FS_EmptySet
    <3>4. (Cardinality(C) = 1 /\ Cardinality(O) = 0) \/ (Cardinality(C) = 0 /\ Cardinality(O) = 1)
      BY <3>2, <3>3
    <3> QED BY <3>4
  <2> QED BY <1>2, <1>6, <2>1, <2>2, <2>3
<1> QED BY <1>4, <1>5, <1>6

LEMMA OutCounted ==
  ASSUME WorkerTypeOK, GateInv, CallInv
  PROVE  /\ IsFiniteSet(calling) /\ Cardinality(calling) \in Nat
         /\ IsFiniteSet(Out) /\ Cardinality(Out) \in Nat
         /\ Discovering \in {0, 1} /\ OutAtOnce(env) \in Nat
         /\ spent \in Nat /\ Cap \in Nat \ {0}
         /\ Cardinality(calling) + Discovering + 2 * Cardinality(Out) <= OutAtOnce(env)
<1>1. /\ env \in Environments /\ calling \in SUBSET Fixtures /\ Out \in SUBSET Fixtures
      /\ Discovering \in {0, 1} /\ spent \in Nat /\ Cap \in Nat \ {0}
  BY IngestAssumption DEF WorkerTypeOK, Out, Discovering
<1>2. env.auto => Out = {}
  BY DEF CallInv, Out
<1>3. \A f \in calling : poll[f] # "off"
  BY DEF CallInv, Polling, Contexts
<1>4. ~env.auto => Discovering = 0 /\ calling \subseteq env.spec /\ Out \subseteq env.ids
  BY <1>1, <1>3 DEF CallInv, GateInv, Discovering
<1>5. ~env.auto /\ env.loop # "async" => (\A f, g \in calling \cup Out : f = g) /\ calling \cap Out = {}
  BY <1>1, <1>3 DEF CallInv, Going, Out
<1> QED BY <1>1, <1>2, <1>4, <1>5, OutIsBounded

\* Whoever is allowed finds the count below the cap.
LEMMA NextBudget ==
  WorkerTypeOK /\ GateInv /\ CallInv /\ BudgetInv /\ [Next]_vars => BudgetInv'
<1> SUFFICES ASSUME WorkerTypeOK, GateInv, CallInv, BudgetInv, [Next]_vars PROVE BudgetInv'
  OBVIOUS
<1> DEFINE InFlight == Cardinality(calling) + Discovering + 2 * Cardinality(Out)
<1>0. /\ IsFiniteSet(calling) /\ Cardinality(calling) \in Nat
      /\ IsFiniteSet(Out) /\ Cardinality(Out) \in Nat
      /\ Discovering \in {0, 1} /\ OutAtOnce(env) \in Nat /\ spent \in Nat /\ Cap \in Nat \ {0}
  BY OutCounted
<1>1. WorkerTypeOK' /\ GateInv' /\ CallInv'
  BY NextTypes, NextGates, NextCalls
<1>2. /\ Cardinality(calling') \in Nat /\ Cardinality(Out') \in Nat /\ Discovering' \in {0, 1}
      /\ OutAtOnce(env') \in Nat /\ spent' \in Nat /\ InFlight' <= OutAtOnce(env')
  <2>1. /\ env' \in Environments /\ calling' \in SUBSET Fixtures /\ Out' \in SUBSET Fixtures
        /\ Discovering' \in {0, 1} /\ spent' \in Nat
    BY <1>1 DEF WorkerTypeOK, Out, Discovering
  <2>2. env'.auto => Out' = {}
    BY <1>1 DEF CallInv, Out
  <2>3. \A f \in calling' : poll'[f] # "off"
    BY <1>1 DEF CallInv, Polling, Contexts
  <2>4. ~env'.auto => Discovering' = 0 /\ calling' \subseteq env'.spec /\ Out' \subseteq env'.ids
    BY <1>1, <2>1, <2>3 DEF CallInv, GateInv, Discovering
  <2>5. ~env'.auto /\ env'.loop # "async" =>
          (\A f, g \in calling' \cup Out' : f = g) /\ calling' \cap Out' = {}
    BY <1>1, <2>1, <2>3 DEF CallInv, Going, Out
  <2> QED BY <2>1, <2>2, <2>4, <2>5, OutIsBounded
<1>3. env' = env
  BY DEF Next, Start, ReadKeys, Schedule, PollAsks, PollEnds, SportsSteps, SportsBegins, SportsOfFeed,
     SportsRaises, SportsAsk, SportsLeft, SportsEnds, SportsExpire, SportsRest, FixtureMoves, HourTurns,
     Refresh, RefreshBegins, FetchAsks, FetchRefused, SkipsSlot, FetchAnswered, FetchMissed, FetchRaises,
     FetchEnds, SetKeys, SetContexts, RefreshDue, RefreshRest, vars
<1>4. CASE spent' < Cap
  BY <1>0, <1>2, <1>3, <1>4 DEF BudgetInv
<1>5. CASE spent' + InFlight' <= spent + InFlight
  BY <1>0, <1>2, <1>3, <1>5 DEF BudgetInv
<1> HIDE DEF InFlight
<1>6. CASE FetchAsks
  <2>1. CASE source = "api"
    BY <1>4, <1>6, <2>1 DEF FetchAsks
  <2>2. CASE source # "api"
    <3>1. UNCHANGED <<spent, calling, Out>> /\ Discovering' = 0 /\ Discovering = 0
      BY <1>6, <2>2 DEF FetchAsks, RefreshRest, loopVars, sportsVars, Out, Discovering
    <3> QED BY <1>0, <1>2, <1>5, <3>1 DEF InFlight
  <2> QED BY <2>1, <2>2
<1>7. CASE FetchAnswered \/ FetchMissed \/ FetchRaises
  <2>1. /\ UNCHANGED <<calling, Out>> /\ Discovering' = 0 /\ rpc = "asked"
        /\ spent' = spent \/ (source = "api" /\ spent' = spent + 1)
    BY <1>7 DEF FetchAnswered, FetchMissed, FetchRaises, SkipsSlot, Recorded, RefreshRest, loopVars,
       sportsVars, Out, Discovering
  <2>2. spent' <= spent + Discovering
    BY <1>0, <2>1 DEF Discovering
  <2> QED BY <1>0, <1>2, <1>5, <2>1, <2>2 DEF InFlight
<1>8. ASSUME NEW f \in Fixtures, PollAsks(f) PROVE BudgetInv'
  BY <1>4, <1>8 DEF PollAsks
<1>9. ASSUME NEW f \in Fixtures, PollEnds(f) PROVE BudgetInv'
  <2>1. /\ UNCHANGED <<Out, Discovering>> /\ calling' = calling \ {f}
        /\ (f \in calling /\ spent' = spent + 1) \/ spent' = spent
    BY <1>9 DEF PollEnds, refreshVars, sportsVars, Out, Discovering
  <2>2. f \in calling => Cardinality(calling') = Cardinality(calling) - 1
    BY <1>0, <2>1, FS_RemoveElement
  <2>3. f \notin calling => calling' = calling
    BY <2>1
  <2>4. spent' + Cardinality(calling') <= spent + Cardinality(calling)
    <3>1. Cardinality(calling) \in Nat /\ spent \in Nat
      BY <1>0
    <3>2. CASE f \in calling
      <4>1. Cardinality(calling') = Cardinality(calling) - 1
        BY <3>2, <2>2
      <4>2. spent' = spent + 1 \/ spent' = spent
        BY <2>1
      <4> QED BY <3>1, <4>1, <4>2
    <3>3. CASE f \notin calling
      <4>1. calling' = calling /\ spent' = spent
        BY <3>3, <2>1, <2>3
      <4> QED BY <3>1, <4>1
    <3> QED BY <3>2, <3>3
  <2>5. InFlight' = Cardinality(calling') + Discovering + 2 * Cardinality(Out)
    BY <2>1 DEF InFlight
  <2>6. spent' + InFlight' <= spent + InFlight
    BY <1>0, <1>2, <2>4, <2>5 DEF InFlight
  <2> QED BY <1>5, <2>6
<1>10. ASSUME NEW f \in Fixtures, SportsAsk(f) PROVE BudgetInv'
  BY <1>4, <1>10 DEF SportsAsk, MayAsk
<1>11. ASSUME NEW f \in Fixtures, SportsEnds(f) PROVE BudgetInv'
  <2>1. /\ sports[f] /\ sports' = [sports EXCEPT ![f] = FALSE] /\ UNCHANGED <<calling, Discovering>>
        /\ spent' = spent + 2 \/ spent' = spent
    BY <1>11 DEF SportsEnds, SportsRest, refreshVars, Discovering
  <2>2. Out' = Out \ {f} /\ f \in Out
    BY <2>1 DEF Out, WorkerTypeOK
  <2>3. Cardinality(Out') = Cardinality(Out) - 1
    BY <1>0, <2>2, FS_RemoveElement
  <2> QED BY <1>0, <1>2, <1>5, <2>1, <2>3 DEF InFlight
<1>12. CASE HourTurns
  BY <1>0, <1>4, <1>12 DEF HourTurns
<1>13. CASE UNCHANGED <<spent, calling, sports, Discovering>>
  <2>1. Out' = Out
    BY <1>13 DEF Out
  <2> QED BY <1>0, <1>2, <1>5, <1>13, <2>1 DEF InFlight
<1>14. CASE RefreshBegins \/ FetchRefused \/ FetchEnds \/ SetKeys \/ SetContexts \/ RefreshDue
  <2>1. UNCHANGED <<spent, calling, sports>>
    BY <1>14 DEF RefreshBegins, FetchRefused, SkipsSlot, FetchEnds, SetKeys, SetContexts, RefreshDue,
       RefreshRest, loopVars, sportsVars
  <2>2. Discovering = 0 /\ Discovering' = 0
    BY <1>14 DEF RefreshBegins, FetchRefused, SkipsSlot, FetchEnds, SetKeys, SetContexts, RefreshDue,
       Discovering
  <2> QED BY <1>13, <2>1, <2>2
<1>15. CASE Start
  <2>1. UNCHANGED <<spent, calling, sports>> /\ rpc = "off" /\ rpc' # "asked"
    BY <1>15 DEF Start, sportsVars, GateInv, Nothing
  <2> QED BY <1>13, <2>1 DEF Discovering
<1>16. CASE ReadKeys \/ (\E due \in SUBSET Fixtures : Schedule(due)) \/ UNCHANGED vars
  BY <1>13, <1>16 DEF ReadKeys, Schedule, vars, refreshVars, loopVars, sportsVars, Discovering
<1>17. ASSUME NEW f \in Fixtures,
              SportsOfFeed(f) \/ SportsRaises(f) \/ SportsLeft(f) \/ SportsExpire(f) \/ FixtureMoves(f)
       PROVE  BudgetInv'
  BY <1>13, <1>17 DEF SportsOfFeed, SportsRaises, SportsLeft, SportsExpire, FixtureMoves, SportsRest,
     refreshVars, loopVars, sportsVars, Discovering
<1> QED BY <1>6, <1>7, <1>8, <1>9, <1>10, <1>11, <1>12, <1>14, <1>15, <1>16, <1>17
        DEF Next, Refresh, SportsSteps, SportsBegins

-----------------------------------------------------------------------------
(* The list *)

LEMMA NextOneList == WorkerTypeOK /\ GateInv /\ OneList /\ [Next]_vars => OneList'
<1> SUFFICES ASSUME WorkerTypeOK, GateInv, OneList, [Next]_vars PROVE OneList'
  OBVIOUS
<1>1. CASE Start
  <2>1. env \in Environments /\ rpc = "off"
    BY <1>1 DEF WorkerTypeOK, Start, GateInv, Nothing
  <2>2. DOMAIN SpecContexts(env) = env.spec
    BY <2>1, EnvironmentLists
  <2> QED BY <1>1, <2>1, <2>2 DEF Start, OneList
<1>2. CASE SetKeys
  BY <1>2 DEF SetKeys, OneList
<1>3. CASE SetContexts
  BY <1>3 DEF SetContexts, OneList
<1>4. CASE RefreshBegins \/ FetchAsks \/ FetchRefused \/ FetchAnswered \/ FetchMissed \/ FetchRaises
           \/ FetchEnds \/ RefreshDue
  <2>1. rpc # "contexts" /\ rpc' # "contexts" /\ UNCHANGED <<keys, contexts>>
    BY <1>4 DEF RefreshBegins, FetchAsks, FetchRefused, SkipsSlot, Recorded, FetchAnswered,
       FetchMissed, FetchRaises, FetchEnds, RefreshDue, RefreshRest, listVars
  <2> QED BY <2>1 DEF OneList
<1>5. CASE UNCHANGED <<rpc, found, keys, contexts>>
  BY <1>5 DEF OneList
<1>6. \/ Start \/ Refresh \/ UNCHANGED <<rpc, found, keys, contexts>>
  BY DEF Next, ReadKeys, Schedule, PollAsks, PollEnds, SportsSteps, SportsBegins, SportsOfFeed,
     SportsRaises, SportsAsk, SportsLeft, SportsEnds, SportsExpire, FixtureMoves, HourTurns,
     SportsRest, vars, refreshVars, listVars
<1> QED BY <1>1, <1>2, <1>3, <1>4, <1>5, <1>6 DEF Refresh

\* The slot of an answered, missed or refused request is past, and what it lists is found.
LEMMA FetchingKeepsList ==
  ASSUME WorkerTypeOK, GateInv, ListInv,
         FetchAsks \/ FetchRefused \/ FetchAnswered \/ FetchMissed \/ FetchRaises
  PROVE  ListInv'
<1>0. /\ Fetching /\ ~env.arbOnly /\ slot \in 1 .. Slots /\ Slots \in Nat
      /\ SlotOf \in [{"fotmob", "api"} -> [Fixtures -> 0 .. Slots]] /\ source \in {"fotmob", "api"}
      /\ UNCHANGED <<env, status, keys, contexts, source>>
      /\ contexts \in Lists /\ found \in Lists
      /\ contexts # SpecContexts(env) => Known(contexts) /\ \A f \in DOMAIN contexts : Settling(f)
      /\ Known(found)
  <2>1. Fetching /\ slot <= Slots /\ UNCHANGED <<env, status, keys, contexts, source>>
    BY DEF FetchAsks, FetchRefused, SkipsSlot, FetchAnswered, FetchMissed, FetchRaises, Fetching,
       WorkerTypeOK, RefreshRest, listVars
  <2>2. ~env.arbOnly /\ rpc # "off"
    BY <2>1 DEF GateInv, Fetching
  <2>3. slot \in 1 .. Slots + 1 /\ Slots \in Nat
    BY IngestAssumption DEF WorkerTypeOK
  <2> QED BY <2>1, <2>2, <2>3, IngestAssumption DEF WorkerTypeOK, ListInv
<1>1. DOMAIN contexts \subseteq Fixtures /\ DOMAIN found \subseteq Fixtures
  BY <1>0, ListShape
<1>2. status \in [Fixtures -> {"far", "upcoming", "started"}]
  BY DEF WorkerTypeOK
<1>3. Known(contexts)' <=> Known(contexts)
  BY <1>0 DEF Known
<1>4. \A f \in Fixtures : SlotOf[source][f] \in Nat
  BY <1>0
<1>5. CASE FetchAsks
  <2>1. rpc' = "asked" /\ UNCHANGED <<slot, found, missed>>
    BY <1>5 DEF FetchAsks
  <2>2. \A f \in DOMAIN contexts : Settling(f) => Settling(f)'
    BY <1>0, <2>1 DEF Settling, Fetching
  <2>3. Known(found)'
    BY <1>0, <2>1 DEF Known
  <2> QED BY <1>0, <1>3, <2>1, <2>2, <2>3 DEF ListInv
<1>6. CASE FetchAnswered
  <2>1. /\ rpc' = "fetch" /\ slot' = slot + 1 /\ missed' = missed
        /\ found' = [f \in DOMAIN found \cup DOMAIN Listed |->
                       IF f \in DOMAIN found THEN found[f] ELSE Listed[f]]
    BY <1>6 DEF FetchAnswered
  <2>2. /\ DOMAIN Listed = {f \in Fixtures : SlotOf[source][f] = slot /\ status[f] = "upcoming"}
        /\ \A f \in DOMAIN Listed : Listed[f] = As(source)
    BY ListedTypes
  <2>3. ASSUME contexts # SpecContexts(env), NEW f \in DOMAIN contexts PROVE Settling(f)'
    <3>1. status[f] # "far" /\ Settling(f) /\ f \in Fixtures
      BY <1>0, <1>1, <2>3 DEF Known
    <3>2. CASE SlotOf[source][f] = slot /\ status[f] = "upcoming"
      BY <2>1, <2>2, <3>1, <3>2 DEF Settling
    <3>3. CASE SlotOf[source][f] # slot
      <4>1. SlotOf[source][f] >= slot => SlotOf[source][f] >= slot + 1
        BY <1>0, <1>4, <3>1, <3>3
      <4> QED BY <1>0, <2>1, <3>1, <4>1 DEF Settling, Fetching
    <3>4. CASE status[f] = "started"
      BY <1>0, <3>4 DEF Settling
    <3> QED BY <1>2, <3>1, <3>2, <3>3, <3>4
  <2>4. ASSUME NEW f \in DOMAIN found', NEW s \in {"fotmob", "api"}
        PROVE  status[f] # "far" /\ (found'[f] = As(s) => SlotOf[s][f] # 0)
    <3>1. CASE f \in DOMAIN found
      BY <1>0, <2>1, <3>1 DEF Known
    <3>2. CASE f \notin DOMAIN found
      <4>1. f \in DOMAIN Listed /\ found'[f] = As(source)
        BY <2>1, <2>2, <3>2
      <4>2. As(s) = As(source) => s = source
        BY <1>0 DEF As
      <4> QED BY <1>0, <2>2, <4>1, <4>2
    <3> QED BY <3>1, <3>2
  <2>5. Known(found)'
    BY <1>0, <2>4 DEF Known
  <2> QED BY <1>0, <1>3, <2>1, <2>3, <2>5 DEF ListInv
<1>7. CASE FetchMissed \/ FetchRefused
  <2>1. rpc' = "fetch" /\ slot' = slot + 1 /\ missed' = missed \cup {slot} /\ found' = found
    BY <1>7 DEF FetchMissed, FetchRefused, SkipsSlot
  <2>2. ASSUME contexts # SpecContexts(env), NEW f \in DOMAIN contexts PROVE Settling(f)'
    <3>1. Settling(f) /\ f \in Fixtures
      BY <1>0, <1>1, <2>2
    <3>2. SlotOf[source][f] >= slot => SlotOf[source][f] >= slot + 1 \/ SlotOf[source][f] = slot
      BY <1>0, <1>4, <3>1
    <3> QED BY <1>0, <2>1, <3>1, <3>2 DEF Settling, Fetching
  <2>3. Known(found)'
    BY <1>0, <2>1 DEF Known
  <2> QED BY <1>0, <1>3, <2>1, <2>2, <2>3 DEF ListInv
<1>8. CASE FetchRaises
  <2>1. rpc' \in {"off", "asleep"}
    BY <1>8 DEF FetchRaises
  <2> QED BY <1>0, <1>3, <2>1 DEF ListInv, Settling, Fetching
<1> QED BY <1>5, <1>6, <1>7, <1>8

\* The other steps of a refresh.
LEMMA RefreshKeepsList ==
  ASSUME WorkerTypeOK, GateInv, OneList, ListInv,
         RefreshBegins \/ FetchEnds \/ SetKeys \/ SetContexts \/ RefreshDue
  PROVE  ListInv'
<1>0. /\ slot \in 1 .. Slots + 1 /\ Slots \in Nat
      /\ SlotOf \in [{"fotmob", "api"} -> [Fixtures -> 0 .. Slots]]
      /\ contexts \in Lists /\ found \in Lists /\ env \in Environments
      /\ source \in {"fotmob", "api"} /\ source' \in {"fotmob", "api"}
  <2>1. source' \in {"fotmob", "api"}
    BY DEF WorkerTypeOK, RefreshBegins, FetchEnds, SetKeys, SetContexts, RefreshDue
  <2> QED BY <2>1, IngestAssumption DEF WorkerTypeOK
<1>1. DOMAIN contexts \subseteq Fixtures
  BY <1>0, ListShape
<1>2. rpc # "off" /\ rpc' # "asked" /\ UNCHANGED <<env, status>>
  BY DEF RefreshBegins, FetchEnds, SetKeys, SetContexts, RefreshDue, RefreshRest
<1>3. /\ DOMAIN MatchbookContexts(env) = MatchbookList(env) /\ DOMAIN NoContexts = {}
  BY <1>0, EnvironmentLists
<1>4. Known(contexts) => \A f \in DOMAIN contexts : contexts[f] # As(source') \/ SlotOf[source'][f] >= 1
  BY <1>0, <1>1 DEF Known
<1>5. CASE RefreshBegins
  <2>1. /\ slot' = 1 /\ UNCHANGED <<keys, contexts>>
        /\ env.arbOnly => rpc' = "keys" /\ found' = MatchbookContexts(env)
        /\ ~env.arbOnly => rpc' = "fetch" /\ found' = NoContexts
    BY <1>5 DEF RefreshBegins, RefreshRest, listVars
  <2>2. CASE env.arbOnly
    BY <1>2, <1>3, <2>1, <2>2 DEF ListInv
  <2>3. CASE ~env.arbOnly
    <3>1. Known(contexts)' <=> Known(contexts)
      BY <1>2, <2>1 DEF Known
    <3>2. Known(found)'
      BY <1>3, <2>1, <2>3 DEF Known
    <3>3. Known(contexts) => \A f \in DOMAIN contexts : Settling(f)'
      BY <1>4, <2>1, <2>3 DEF Settling, Fetching
    <3>4. contexts # SpecContexts(env) => Known(contexts)
      BY <1>2, <2>3 DEF ListInv
    <3> QED BY <1>2, <2>1, <2>3, <3>1, <3>2, <3>3, <3>4 DEF ListInv
  <2> QED BY <2>2, <2>3
<1>6. CASE FetchEnds
  <2>1. /\ rpc = "fetch" /\ slot > Slots /\ slot' = 1 /\ UNCHANGED <<keys, contexts>> /\ ~env.arbOnly
        /\ \/ rpc' = "fetch" /\ found' = found
           \/ /\ rpc' = "keys" /\ missed' = missed /\ source' = source
              /\ found' = IF DOMAIN found = {} THEN SpecContexts(env) ELSE found
    BY <1>6 DEF FetchEnds, RefreshRest, listVars, GateInv
  <2>2. /\ contexts # SpecContexts(env) => Known(contexts) /\ \A f \in DOMAIN contexts : Settling(f)
        /\ Known(found)
    BY <2>1 DEF ListInv, Fetching
  <2>3. Known(contexts)' <=> Known(contexts)
    BY <1>2, <2>1 DEF Known
  <2>4. CASE rpc' = "fetch"
    <3>1. Known(contexts) => \A f \in DOMAIN contexts : Settling(f)'
      BY <1>4, <2>1, <2>4 DEF Settling, Fetching
    <3>2. Known(found)'
      BY <1>2, <2>1, <2>2, <2>4 DEF Known
    <3> QED BY <1>2, <2>1, <2>2, <2>3, <2>4, <3>1, <3>2 DEF ListInv
  <2>5. CASE rpc' = "keys"
    <3>1. \A f \in DOMAIN contexts : ~(SlotOf[source][f] >= slot)
      <4>1. \A f \in Fixtures : SlotOf[source][f] \in 0 .. Slots
        BY <1>0
      <4> QED BY <1>0, <1>1, <2>1, <4>1
    <3>2. ASSUME NEW f \in DOMAIN contexts, Settling(f) PROVE Settling(f)'
      <4>1. CASE f \in DOMAIN found
        BY <2>1, <2>5, <4>1 DEF Settling
      <4> QED BY <1>2, <2>1, <2>5, <3>1, <3>2, <4>1 DEF Settling, Fetching
    <3>3. found' = found => Known(found)'
      BY <1>2, <2>2 DEF Known
    <3> QED BY <1>2, <2>1, <2>2, <2>3, <2>5, <3>2, <3>3 DEF ListInv, Fetching
  <2> QED BY <2>1, <2>4, <2>5
<1>7. CASE SetKeys
  <2>1. rpc = "keys" /\ rpc' = "contexts" /\ keys' = DOMAIN found /\ UNCHANGED <<source, slot, found, missed, contexts>>
    BY <1>7 DEF SetKeys
  <2>2. (Known(contexts)' <=> Known(contexts)) /\ (Known(found)' <=> Known(found))
    BY <1>2, <2>1 DEF Known
  <2>3. \A f \in DOMAIN contexts : Settling(f)'
    BY <2>1 DEF Settling, Fetching
  <2> QED BY <1>2, <2>1, <2>2, <2>3 DEF ListInv, Fetching
<1>8. CASE SetContexts
  <2>1. /\ rpc = "contexts" /\ contexts' = found /\ keys' = keys /\ rpc' \in {"begin", "asleep"}
    BY <1>8 DEF SetContexts
  <2>2. Known(contexts)' <=> Known(found)
    BY <1>2, <2>1 DEF Known
  <2>3. \A f \in DOMAIN contexts' : Settling(f)'
    BY <2>1 DEF Settling, Fetching
  <2> QED BY <1>2, <2>1, <2>2, <2>3 DEF ListInv, Fetching
<1>9. CASE RefreshDue
  <2>1. rpc' = "begin" /\ UNCHANGED <<keys, contexts>>
    BY <1>9 DEF RefreshDue, listVars
  <2>2. Known(contexts)' <=> Known(contexts)
    BY <1>2, <2>1 DEF Known
  <2>3. \A f \in DOMAIN contexts : Settling(f)'
    BY <2>1 DEF Settling, Fetching
  <2> QED BY <1>2, <2>1, <2>2, <2>3 DEF ListInv, Fetching
<1> QED BY <1>5, <1>6, <1>7, <1>8, <1>9

LEMMA NextList == WorkerTypeOK /\ GateInv /\ OneList /\ ListInv /\ [Next]_vars => ListInv'
<1> SUFFICES ASSUME WorkerTypeOK, GateInv, OneList, ListInv, [Next]_vars PROVE ListInv'
  OBVIOUS
<1>1. CASE Start
  <2>1. /\ stage = "gates" /\ rpc = "off" /\ keys = {} /\ contexts = NoContexts /\ DOMAIN NoContexts = {}
    BY <1>1, EnvironmentLists DEF Start, GateInv, Nothing, WorkerTypeOK
  <2>2. rpc' = "off" \/ (rpc' = "begin" /\ UNCHANGED <<keys, contexts>>)
    BY <1>1 DEF Start
  <2>3. rpc' = "off" \/ (Known(contexts)' /\ \A f \in DOMAIN contexts' : Settling(f)')
    BY <2>1, <2>2 DEF Known
  <2> QED BY <1>1, <2>1, <2>2, <2>3 DEF Start, ListInv, Fetching
<1>2. ASSUME NEW f \in Fixtures, FixtureMoves(f) PROVE ListInv'
  <2>1. /\ status \in [Fixtures -> {"far", "upcoming", "started"}]
        /\ status' = [status EXCEPT ![f] = IF @ = "far" THEN "upcoming" ELSE "started"]
        /\ UNCHANGED <<env, rpc, source, slot, found, missed, keys, contexts>>
    BY <1>2 DEF FixtureMoves, WorkerTypeOK, refreshVars, listVars
  <2>2. \A g \in Fixtures : /\ status[g] # "far" => status'[g] # "far"
                            /\ status[g] = "started" => status'[g] = "started"
    BY <2>1
  <2>3. DOMAIN contexts \subseteq Fixtures /\ DOMAIN found \subseteq Fixtures
    BY ListShape DEF WorkerTypeOK
  <2>4. \A g \in Fixtures : Settling(g) => Settling(g)'
    BY <2>1, <2>2 DEF Settling, Fetching
  <2>5. (Known(contexts) => Known(contexts)') /\ (Known(found) => Known(found)')
    BY <2>1, <2>2, <2>3 DEF Known
  <2> QED BY <2>1, <2>3, <2>4, <2>5 DEF ListInv, Fetching
<1>3. CASE UNCHANGED <<env, status, rpc, source, slot, found, missed, keys, contexts>>
  BY <1>3 DEF ListInv, Settling, Known, Fetching
<1>4. \/ Start \/ Refresh \/ \E f \in Fixtures : FixtureMoves(f)
      \/ UNCHANGED <<env, status, rpc, source, slot, found, missed, keys, contexts>>
  BY DEF Next, ReadKeys, Schedule, PollAsks, PollEnds, SportsSteps, SportsBegins, SportsOfFeed,
     SportsRaises, SportsAsk, SportsLeft, SportsEnds, SportsExpire, HourTurns, SportsRest, vars,
     refreshVars, listVars
<1> QED BY <1>1, <1>2, <1>3, <1>4, FetchingKeepsList, RefreshKeepsList DEF Refresh

-----------------------------------------------------------------------------
(* Every step *)

LEMMA InitWorkerInv == Init => WorkerInv
<1> SUFFICES ASSUME Init PROVE WorkerInv
  OBVIOUS
<1>1. WorkerTypeOK
  BY InitTypes
<1>2. /\ Out = {} /\ spent = 0 /\ rpc = "off" /\ lpc = "off" /\ stage = "gates" /\ keys = {}
      /\ contexts = NoContexts /\ DOMAIN NoContexts = {}
      /\ \A f \in Fixtures : poll[f] = "off" /\ ~sports[f]
  BY EnvironmentLists DEF Init, Out
<1>3. calling = {} /\ snap = {}
  BY DEF Init
<1>4. GateInv /\ CallInv
  BY <1>2, <1>3 DEF GateInv, Nothing, CallInv, Going
<1>5. BudgetInv
  <2>1. /\ Cardinality(calling) + Discovering + 2 * Cardinality(Out) <= OutAtOnce(env)
        /\ Cardinality(calling) \in Nat /\ Cardinality(Out) \in Nat /\ Discovering \in {0, 1}
        /\ OutAtOnce(env) \in Nat /\ Cap \in Nat \ {0}
    BY <1>1, <1>4, OutCounted
  <2> QED BY <1>2, <2>1 DEF BudgetInv
<1> QED BY <1>1, <1>2, <1>4, <1>5 DEF WorkerInv, OneList, ListInv, Fetching

LEMMA WorkerInvariant == Spec => []WorkerInv
<1>1. WorkerInv /\ [Next]_vars => WorkerInv'
  BY NextTypes, NextGates, NextCalls, NextBudget, NextOneList, NextList DEF WorkerInv
<1> QED BY <1>1, InitWorkerInv, PTL DEF Spec

-----------------------------------------------------------------------------
(* What the worker promises *)

\* Whoever is allowed before others have recorded, the hour's count passes the cap by
\* one call less than can be out at once: of the discovery, of each fixture's poll and
\* of its sports (rate_limits.py, ingest.py, watchlist.py).
THEOREM WorkerHourlyOverrun == Spec => []HourlyOverrun
<1>1. WorkerInv => HourlyOverrun
  <2> SUFFICES ASSUME WorkerInv PROVE HourlyOverrun
    OBVIOUS
  <2>1. WorkerTypeOK /\ GateInv /\ CallInv /\ BudgetInv
    BY DEF WorkerInv
  <2>2. /\ Cardinality(calling) \in Nat /\ Cardinality(Out) \in Nat /\ Discovering \in {0, 1}
        /\ OutAtOnce(env) \in Nat /\ spent \in Nat /\ Cap \in Nat
    BY <2>1, OutCounted
  <2>3. spent <= Cap - 1 + OutAtOnce(env)
    BY <2>1, <2>2 DEF BudgetInv
  <2> QED BY <2>1, <2>3 DEF HourlyOverrun
<1> QED BY <1>1, WorkerInvariant, PTL

\* A poll goes without the context of its fixture only when the fixture has left the
\* list, or is being brought in, since the loop took its snapshot of the keys.
THEOREM WorkerContext == Spec => ContextUnlessRefreshed
<1> DEFINE Step(f) == poll[f] = "off" /\ poll'[f] = "bare" => f \notin keys \/ rpc = "contexts"
<1>1. ASSUME WorkerInv, Next, NEW f \in Fixtures PROVE Step(f)
  <2>1. WorkerTypeOK /\ OneList
    BY <1>1 DEF WorkerInv
  <2>2. \A g \in DOMAIN contexts : contexts[g] \in Contexts
    BY <2>1, ListShape DEF WorkerTypeOK
  <2>3. ASSUME NEW due \in SUBSET Fixtures, Schedule(due) PROVE Step(f)
    BY <2>1, <2>2, <2>3 DEF Schedule, OneList, Contexts
  <2>4. ASSUME NEW g \in Fixtures, PollEnds(g) \/ SportsBegins(g) PROVE Step(f)
    BY <2>1, <2>4 DEF PollEnds, SportsBegins, SportsOfFeed, SportsRaises, SportsAsk, SportsLeft,
       PollOver, WorkerTypeOK
  <2>5. CASE poll' = poll
    BY <2>5
  <2>6. \/ poll' = poll \/ \E due \in SUBSET Fixtures : Schedule(due)
        \/ \E g \in Fixtures : PollEnds(g) \/ SportsBegins(g)
    BY <1>1, RefreshLeaves DEF Next, Start, ReadKeys, PollAsks, SportsSteps, SportsEnds, SportsExpire,
       FixtureMoves, HourTurns, SportsRest, loopVars
  <2> QED BY <2>3, <2>4, <2>5, <2>6
<1>2. WorkerInv /\ Next => \A f \in Fixtures : Step(f)
  BY <1>1
<1>3. WorkerInv /\ [Next]_vars =>
        [\A f \in Fixtures : poll[f] = "off" /\ poll'[f] = "bare" => f \notin keys \/ rpc = "contexts"]_vars
  BY <1>2
<1> QED BY <1>3, WorkerInvariant, PTL DEF Spec, ContextUnlessRefreshed

\* A refresh takes a fixture that its own source listed before, and that has not kicked
\* off, from the list only when it had no answer about the fixture's slot.
THEOREM WorkerDropsMissed == Spec => DroppedOnlyIfMissed
<1>1. ASSUME WorkerInv, Next, NEW f \in keys, f \notin keys', contexts # SpecContexts(env),
             contexts[f] = As(source), status[f] = "upcoming"
      PROVE  SlotOf[source][f] \in missed
  <2>1. keys = {} \/ SetKeys
    BY <1>1 DEF WorkerInv, GateInv, Next, Start, ReadKeys, Schedule, Refresh, RefreshBegins, FetchAsks,
       FetchRefused, SkipsSlot, FetchAnswered, FetchMissed, FetchRaises, FetchEnds, SetContexts,
       RefreshDue, RefreshRest, PollAsks, PollEnds, SportsSteps, SportsBegins, SportsOfFeed,
       SportsRaises, SportsAsk, SportsLeft, SportsEnds, SportsExpire, FixtureMoves, HourTurns,
       SportsRest, listVars
  <2>2. rpc = "keys" /\ f \notin DOMAIN found
    BY <1>1, <2>1 DEF SetKeys
  <2>3. f \in DOMAIN contexts /\ ~env.arbOnly
    BY <1>1, <2>2 DEF WorkerInv, OneList, ListInv
  <2>4. Settling(f)
    BY <1>1, <2>2, <2>3 DEF WorkerInv, ListInv
  <2> QED BY <1>1, <2>2, <2>4 DEF Settling, Fetching
<1>2. WorkerInv /\ [Next]_vars =>
        [\A f \in keys \ keys' :
           contexts # SpecContexts(env) /\ contexts[f] = As(source) /\ status[f] = "upcoming" =>
             SlotOf[source][f] \in missed]_vars
  BY <1>1
<1> QED BY <1>2, WorkerInvariant, PTL DEF Spec, DroppedOnlyIfMissed

\* A paused worker spends none of API-Football's budget unless it is arb-only too, and
\* an arb-only one spends only on the sports of a fixture listed with its id.
THEOREM WorkerFrozenSpares == Spec => FrozenSpares
<1>1. ASSUME WorkerInv, Next, env.paused \/ env.arbOnly, spent' > spent
      PROVE  env.arbOnly /\ \E f \in env.ids : sports[f] /\ ~sports'[f]
  <2>0. WorkerTypeOK /\ GateInv /\ CallInv /\ spent \in Nat
    BY <1>1 DEF WorkerInv, WorkerTypeOK
  <2>1. EnforceGates(env) = "go" => env.arbOnly /\ IsMatchbookOnly(env)
    BY <1>1, GatesAnswer
  <2>2. CASE FetchAnswered \/ FetchMissed \/ FetchRaises
    BY <2>0, <2>1, <2>2 DEF FetchAnswered, FetchMissed, FetchRaises, GateInv, Nothing
  <2>3. ASSUME NEW f \in Fixtures, PollEnds(f) PROVE FALSE
    <3>1. EnforceGates(env) = "go"
      BY <2>0, <2>3 DEF PollEnds, Polling, GateInv, Nothing, Contexts
    <3>2. PollsSpend(env)
      BY <1>1, <2>0, <2>3 DEF PollEnds, CallInv
    <3>3. Enabled(env) = {"matchbook"}
      BY <2>1, <3>1 DEF IsMatchbookOnly
    <3>4. env.feedMode = "separate" => Registry(env) = {"composite"}
      BY DEF Registry
    <3>5. "matchbook" \in Registry(env)
      BY <3>3 DEF Enabled
    <3> QED BY <3>2, <3>3, <3>4, <3>5 DEF PollsSpend
  <2>4. ASSUME NEW f \in Fixtures, SportsEnds(f)
        PROVE  env.arbOnly /\ \E g \in env.ids : sports[g] /\ ~sports'[g]
    <3>1. sports[f] /\ ~sports'[f]
      BY <2>0, <2>4 DEF SportsEnds, WorkerTypeOK
    <3>2. f \in env.ids /\ EnforceGates(env) = "go"
      BY <2>0, <3>1 DEF CallInv, Out, GateInv, Nothing
    <3> QED BY <2>1, <3>1, <3>2
  <2>5. CASE spent' = spent \/ spent' = 0
    BY <1>1, <2>0, <2>5
  <2>6. \/ FetchAnswered \/ FetchMissed \/ FetchRaises \/ spent' = spent \/ spent' = 0
        \/ \E f \in Fixtures : PollEnds(f) \/ SportsEnds(f)
    BY <1>1 DEF Next, Start, ReadKeys, Schedule, PollAsks, Refresh, RefreshBegins, FetchAsks,
       FetchRefused, SkipsSlot, FetchEnds, SetKeys, SetContexts, RefreshDue, SportsSteps,
       SportsBegins, SportsOfFeed, SportsRaises, SportsAsk, SportsLeft, SportsExpire, FixtureMoves,
       HourTurns
  <2> QED BY <2>2, <2>3, <2>4, <2>5, <2>6
<1>2. WorkerInv /\ [Next]_vars =>
        [(env.paused \/ env.arbOnly) /\ spent' > spent =>
           env.arbOnly /\ \E f \in env.ids : sports[f] /\ ~sports'[f]]_vars
  BY <1>1
<1> QED BY <1>2, WorkerInvariant, PTL DEF Spec, FrozenSpares
=============================================================================
