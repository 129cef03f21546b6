------------------------- MODULE PredictionLogProofs ------------------------
(***************************************************************************)
(* Proofs about the prediction log, for any threads, ids, offers, closing  *)
(* odds and bounds: whose result a row carries, how far apart the rows of  *)
(* a fixture are, what of a settled row may still change, that the         *)
(* backtest's forecast of a match does not move once the match has begun,  *)
(* and where the reports on the log agree.                                 *)
(***************************************************************************)
EXTENDS ProductionGates, FiniteSetTheorems, WellFoundedInduction, TLAPS

-----------------------------------------------------------------------------
(* What is assumed of the constants, in parts *)

LEMMA Bounds ==
  /\ MinInterval \in Nat /\ Grace \in Nat /\ Lock \in Nat /\ FtAfter \in Nat
  /\ Retain \in Nat /\ MaxRows \in Nat /\ MaxTime \in Nat /\ MaxDeaths \in Nat
BY LogAssumption

LEMMA Matches ==
  /\ Unset \notin Sides \cup Nat
  /\ Resolve \in [Ids -> Ids] /\ \A i \in Ids : Resolve[Resolve[i]] = Resolve[i]
  /\ Kickoff \in [Ids -> Nat] /\ Final \in [Ids -> Sides \cup {NotFT}]
  /\ \A i \in Ids : Kickoff[Resolve[i]] = Kickoff[i] /\ Final[Resolve[i]] = Final[i]
BY LogAssumption

-----------------------------------------------------------------------------
(* Closing line value *)

Triplets == [Sides -> Nat]
Priced(odds) == odds = NoOdds \/ odds > Evens

\* The price a row's best bet was taken at.
Stake(c) == IF c.odds = NoOdds /\ c.best \in Sides THEN c.opening[c.best] ELSE c.odds
BetPriced(c) == c.best \in Sides /\ Stake(c) # NoOdds

\* A closing line value is measured of a bet that has a price, unless the closing odds
\* lack the pick, and the fair one of a pick on the match with three opening prices.
Sound(c) ==
  /\ c \in ClvBlock
  /\ Priced(c.odds) /\ \A s \in Sides : Priced(c.opening[s])
  /\ c.pp # NoPp => BetPriced(c)
  /\ (c.pp = NoPp /\ BetPriced(c)) => c.closing[c.best] = NoOdds
  /\ c.fair # NoTriplet => c.best \in Sides /\ TripletComplete(TripletFromMapping(c.opening))

\* The prices are ones that fair closing odds are measured between.
Measurable(c) ==
  /\ c.best \in Sides
  /\ TripletComplete(TripletFromMapping(c.opening))
  /\ TripletComplete(TripletFromMapping(c.closing))

\* What is stored has been enriched: fair closing odds that can be had are there.
Block(c) == Sound(c) /\ (Measurable(c) => c.fair # NoTriplet)

SameBet(c, d) == c.best = d.best /\ c.odds = d.odds /\ c.opening = d.opening

LEMMA PriceTypes ==
  ASSUME NEW a \in Nat, NEW b \in Nat, NEW c \in Nat
  PROVE  /\ DecimalOddsSide(a) \in Nat /\ Priced(DecimalOddsSide(a))
         /\ FirstPrice(a, b, c) \in Nat /\ Priced(FirstPrice(a, b, c))
BY DEF DecimalOddsSide, FirstPrice, Priced, NoOdds, Evens

LEMMA EnrichBlock ==
  ASSUME NEW c, Sound(c)
  PROVE  /\ Block(EnrichPriceTruth(c)) /\ SameBet(EnrichPriceTruth(c), c)
         /\ EnrichPriceTruth(c).pp = c.pp /\ EnrichPriceTruth(c).closing = c.closing
<1> DEFINE opening == TripletFromMapping(c.opening)
           closing == TripletFromMapping(c.closing)
           stake == IF c.odds # NoOdds \/ c.best \notin Sides THEN c.odds ELSE opening[c.best]
           fair == IF c.best \in Sides /\ TripletComplete(opening) /\ TripletComplete(closing)
                   THEN closing ELSE c.fair
           edge == IF c.best \in Sides /\ TripletComplete(closing) /\ stake # NoOdds
                   THEN closing ELSE c.edge
           e == EnrichPriceTruth(c)
<1>1. c \in ClvBlock
  BY DEF Sound
<1>2. closing \in Triplets
  BY <1>1, PriceTypes DEF ClvBlock, TripletFromMapping, Triplets
<1>3. fair \in Triplets /\ edge \in Triplets
  <2> HIDE DEF opening, closing, stake
  <2> QED BY <1>1, <1>2 DEF ClvBlock, Triplets
<1>4. e = [c EXCEPT !.fair = fair, !.edge = edge]
  <2> HIDE DEF opening, closing, stake
  <2> QED BY <1>1 DEF EnrichPriceTruth, ClvBlock, opening, closing, stake
<1> HIDE DEF opening, closing, stake, fair, edge, e
<1>5. /\ e \in ClvBlock /\ e.best = c.best /\ e.odds = c.odds /\ e.opening = c.opening
      /\ e.pp = c.pp /\ e.closing = c.closing /\ e.fair = fair
  BY <1>1, <1>3, <1>4 DEF ClvBlock, Triplets
<1>6. Sound(e) /\ SameBet(e, c)
  <2>1. e.fair # NoTriplet => c.best \in Sides /\ TripletComplete(opening)
    BY <1>5 DEF Sound, fair, opening
  <2> QED BY <1>5, <2>1 DEF Sound, SameBet, BetPriced, Stake, opening
<1>7. ASSUME Measurable(e) PROVE e.fair # NoTriplet
  <2>1. e.fair = fair /\ e.closing = c.closing
    BY <1>1, <1>4 DEF ClvBlock
  <2>2. c.best \in Sides /\ TripletComplete(opening) /\ TripletComplete(closing)
    BY <1>5, <1>7, <2>1 DEF Measurable, opening, closing
  <2>3. fair = closing
    BY <2>2 DEF fair
  <2>4. DecimalOddsSide(closing["home"]) # NoOdds /\ closing["home"] # NoTriplet["home"]
    BY <1>2, <2>2 DEF TripletComplete, DecimalOddsSide, NoTriplet, NoOdds, Sides, Evens, Triplets
  <2> QED BY <2>1, <2>3, <2>4
<1> QED BY <1>5, <1>6, <1>7 DEF Block, e

\* A price above evens against any closing price is a number of its own.
LEMMA ClvPpMeasured ==
  ASSUME NEW open \in Nat, NEW close \in Nat, Priced(open)
  PROVE  /\ ClvPp(open, close) \in Int
         /\ ClvPp(open, close) = NoPp <=> open = NoOdds \/ close = NoOdds
<1>1. CASE open = NoOdds \/ close = NoOdds
  BY <1>1 DEF ClvPp, NoPp
<1>2. CASE open # NoOdds /\ close # NoOdds
  <2> DEFINE den == open * close
             num == 1000000 * (open - close)
             d == 2 * den
             n == 2 * num + den
             q == n \div d
  <2>1. open > 100 /\ close > 0
    BY <1>2 DEF Priced, NoOdds, Evens
  <2>2. den \in Nat /\ den >= 100 * close /\ den > 0
    BY <2>1
  <2>3. num \in Int /\ num >= (-1000000) * close
    BY <2>1
  <2>4. num >= (-10000) * den
    <3> HIDE DEF num, den
    <3> QED BY <2>2, <2>3
  <2>5. n \in Int /\ d \in Nat /\ d > 0 /\ n >= (-10000) * d
    <3> HIDE DEF num, den
    <3> QED BY <2>2, <2>3, <2>4
  <2> HIDE DEF num, den, n, d
  <2>6. q \in Int /\ n < d * q + d
    BY <2>5
  <2>7. q # -999999
    <3> SUFFICES ASSUME q = -999999 PROVE FALSE
      OBVIOUS
    <3> HIDE DEF q
    <3> QED BY <2>5, <2>6
  <2>8. ClvPp(open, close) = q
    BY <1>2 DEF ClvPp, q, n, d, num, den
  <2> QED BY <1>2, <2>6, <2>7, <2>8 DEF NoPp
<1> QED BY <1>1, <1>2

LEMMA ApplyBlock ==
  ASSUME NEW c, Block(c), NEW closing \in Triplets
  PROVE  /\ Block(ApplyClv(c, closing)) /\ SameBet(ApplyClv(c, closing), c)
         /\ BetPriced(c) /\ ApplyClv(c, closing).pp = NoPp => closing[c.best] = NoOdds
<1> DEFINE close == IF c.best \in Sides THEN closing[c.best] ELSE NoOdds
           pp == ClvPp(Stake(c), close)
           a == [c EXCEPT !.closing = closing, !.pp = pp]
<1>1. c \in ClvBlock /\ Stake(c) \in Nat /\ Priced(Stake(c))
  BY DEF Block, Sound, ClvBlock, Stake
<1>2. close \in Nat
  BY DEF NoOdds, Triplets
<1> HIDE DEF close
<1>3. pp \in Int /\ (pp = NoPp <=> Stake(c) = NoOdds \/ close = NoOdds)
  BY <1>1, <1>2, ClvPpMeasured
<1> HIDE DEF pp
<1>4. /\ a \in ClvBlock /\ SameBet(a, c) /\ a.pp = pp
      /\ a.closing = closing /\ a.fair = c.fair
  BY <1>1, <1>3 DEF ClvBlock, Triplets, SameBet
<1>5. Sound(a)
  BY <1>3, <1>4 DEF Block, Sound, SameBet, BetPriced, Stake, close
<1>6. ApplyClv(c, closing) = EnrichPriceTruth(a)
  BY DEF ApplyClv, Stake, close, pp
<1> HIDE DEF a
<1>7. /\ Block(EnrichPriceTruth(a)) /\ SameBet(EnrichPriceTruth(a), a)
      /\ EnrichPriceTruth(a).pp = pp
  BY <1>4, <1>5, EnrichBlock
<1> QED BY <1>3, <1>4, <1>6, <1>7 DEF SameBet, BetPriced, close

\* What a forecast is stored with, whatever odds the fixture brings.
LEMMA StoredForecast ==
  ASSUME NEW p, IsForecast(p), NEW fixture \in Triplets, NEW fetched \in Triplets
  PROVE  IsForecast(EnsureSnapshotOdds(fixture, fetched, p))
<1>1. ASSUME NEW g, IsForecast(g), NEW odds \in Triplets PROVE IsForecast(ApplyFixture1x2(odds, g))
  <2> DEFINE b == [s \in Sides |-> FirstPrice(g.bookmaker[s], odds[s], NoOdds)]
  <2>1. b \in [Sides -> Nat]
    BY <1>1, PriceTypes DEF IsForecast, Triplets, NoOdds
  <2> HIDE DEF b
  <2>2. ApplyFixture1x2(odds, g) = [g EXCEPT !.bookmaker = b]
    BY DEF ApplyFixture1x2, b
  <2>3. [g EXCEPT !.bookmaker = b] =
          [pick |-> g.pick, bookmaker |-> b, line |-> g.line,
           best |-> g.best, values |-> g.values]
    BY <1>1 DEF IsForecast
  <2> QED BY <1>1, <2>1, <2>2, <2>3 DEF IsForecast
<1> QED BY <1>1 DEF EnsureSnapshotOdds

LEMMA CaptureBlock ==
  ASSUME NEW p, IsForecast(p), NEW fixture \in Triplets
  PROVE  Block(ClvOpeningCapture(fixture, p))
<1> DEFINE opening == Opening1x2(fixture, p)
           odds == IF p.best \in DOMAIN p.values THEN DecimalOddsSide(p.values[p.best].odds) ELSE NoOdds
           c == [opening |-> opening, best |-> p.best, odds |-> odds,
                 closing |-> NoTriplet, pp |-> NoPp, fair |-> NoTriplet, edge |-> NoTriplet]
<1>1. opening \in Triplets /\ \A s \in Sides : Priced(opening[s])
  BY PriceTypes DEF IsForecast, Triplets, Opening1x2
<1>2. odds \in Nat /\ Priced(odds)
  BY PriceTypes DEF IsForecast, NoOdds, Priced
<1>3. NoTriplet \in Triplets /\ NoPp \in Int /\ p.best \in STRING
  BY DEF NoTriplet, Triplets, NoOdds, NoPp, IsForecast
<1>4. ClvOpeningCapture(fixture, p) = EnrichPriceTruth(c)
  BY DEF ClvOpeningCapture
<1> HIDE DEF opening, odds
<1>5. Sound(c)
  <2>1. c \in ClvBlock
    BY <1>1, <1>2, <1>3 DEF ClvBlock, Triplets
  <2>2. /\ c.pp = NoPp /\ c.fair = NoTriplet /\ c.closing = NoTriplet /\ c.opening = opening
        /\ c.odds = odds
    OBVIOUS
  <2> HIDE DEF c
  <2>3. \A s \in Sides : NoTriplet[s] = NoOdds
    BY DEF NoTriplet
  <2> QED BY <1>1, <1>2, <2>1, <2>2, <2>3 DEF Sound, BetPriced
<1> HIDE DEF c
<1> QED BY <1>4, <1>5, EnrichBlock

-----------------------------------------------------------------------------
(* The inductive invariant.  Its parts are predicates of a set of rows R,   *)
(* the next id n and the irregular ids irr, so that what a step does to a   *)
(* part is a fact about sets.                                               *)

Forecasts ==
  {EnsureSnapshotOdds(o.fixture, o.fetched, o.forecast) : o \in Offers} \cup Replays
    \cup UNION {{old[n].forecast : n \in DOMAIN old} : old \in Histories}

Row == [id : Nat \ {0}, fixture : Ids, logged : Ids, captured : Int, live : BOOLEAN,
        forecast : Forecasts, panel : BOOLEAN, clv : ClvBlock,
        outcome : Sides \cup {Unset}, recorded : Nat \cup {Unset}]

\* A row with a result has it from its own match, and stands under the API's id; one
\* without stands where it was logged.
Good(r, n) ==
  /\ r \in Row /\ Block(r.clv) /\ r.id < n
  /\ r.captured \in -Lock..MaxTime /\ r.recorded \in 0..MaxTime \cup {Unset}
  /\ Scored(r) <=> ~ Unrecorded(r)
  /\ Scored(r) => r.outcome = Final[r.logged] /\ r.fixture = Resolve[r.logged]
  /\ ~ Scored(r) => r.fixture = r.logged /\ r.live

UniqueIds(R) == \A r, s \in R : r.id = s.id => r = s
GoodRows(R, n) == UniqueIds(R) /\ \A r \in R : Good(r, n)

Apart(r, s, irr) ==
  (r.id < s.id /\ r.fixture = s.fixture /\ irr \cap r.id..s.id = {})
    => s.captured - r.captured >= MinInterval
Spaced(R, irr) == \A r, s \in R : Apart(r, s, irr)

\* The row a logger has still to insert is spaced from those it has seen.
InsertOK(j, R, n, irr) ==
  /\ j.fixture \in Ids /\ j.captured \in 0..MaxTime
  /\ j.forecast \in Forecasts /\ Block(j.clv) /\ j.known \subseteq 1..n - 1
  /\ \A r \in R : (r.fixture = j.fixture /\ r.id \in j.known /\ irr \cap r.id..n - 1 = {})
                  => j.captured - r.captured >= MinInterval

\* A replay is of a match that is over, under the API's id.
ReplayOK(j) ==
  /\ j.fixture \in Ids /\ j.forecast \in Replays
  /\ Final[j.fixture] # NotFT /\ Resolve[j.fixture] = j.fixture /\ Kickoff[j.fixture] <= MaxTime

\* The row it chose stays a row of that match, settled or not.
TargetOK(j, R, n) ==
  /\ j.target \in Nat /\ j.target < n
  /\ \A r \in R : r.id = j.target => r.fixture = j.fixture

\* What a sync computed of a row is of the bet the row still has, and measures its
\* closing line value unless the odds it fetched lack the pick.
MeasuresOK(j, R, n) ==
  /\ j.closing \in Triplets
  /\ \A c \in j.computed :
       /\ Block(c.clv) /\ c.id \in Nat /\ c.id < n
       /\ \A r \in R : (r.id = c.id /\ r.live) =>
            /\ SameBet(c.clv, r.clv)
            /\ BetPriced(r.clv) /\ c.clv.pp = NoPp => j.closing[r.clv.best] = NoOdds

\* What the command line recomputed of a row is of the bet the row still has.
MineOK(j, R, n) ==
  \A c \in j.computed :
    /\ Block(c.clv) /\ c.forecast \in Forecasts /\ c.id \in Nat /\ c.id < n
    /\ \A r \in R : (r.id = c.id /\ r.live) => SameBet(c.clv, r.clv)

JobOK(j, R, n, irr) ==
  /\ j.at \in {"idle", "insert", "pick", "import", "sync", "odds", "clv", "mine"}
  /\ j.at = "insert" => InsertOK(j, R, n, irr)
  /\ j.at \in {"pick", "import"} => ReplayOK(j)
  /\ j.at = "import" => TargetOK(j, R, n)
  /\ j.at \in {"sync", "odds", "clv"} => j.todo \subseteq Ids
  /\ j.at \in {"odds", "clv"} => j.fixture \in Ids
  /\ j.at = "clv" => MeasuresOK(j, R, n)
  /\ j.at = "mine" => MineOK(j, R, n)

Inserting == {"insert", "pick", "import"}
Waiting == {t \in Threads : job[t].at \in Inserting}

Counters ==
  /\ now \in 0..MaxTime /\ deaths \in 0..MaxDeaths /\ nextId \in Nat \ {0}
  /\ irregular \subseteq 1..nextId - 1
  /\ DOMAIN job = Threads /\ nextId + Cardinality(Waiting) <= MaxRows + 1

LogInv ==
  /\ Counters
  /\ GoodRows(rows, nextId)
  /\ Spaced(rows, irregular)
  /\ \A t \in Threads : JobOK(job[t], rows, nextId, irregular)

-----------------------------------------------------------------------------
(* What a step does to the rows *)

\* A row after a step, and the row it was: still live, it has its bet and its capture
\* time, and if it is not marked irregular, its place among its fixture's rows.
Follows(s, r, irr) ==
  /\ s.id = r.id
  /\ s.live => r.live /\ SameBet(s.clv, r.clv) /\ s.captured = r.captured
  /\ s.fixture \in {r.fixture, Resolve[r.fixture]}
  /\ s.id \in irr \/ (s.captured = r.captured /\ s.fixture = r.fixture)

\* Rows are edited, deleted, or new.
Evolved(R, n, S, irr) == \A s \in S : s.id >= n \/ \E r \in R : Follows(s, r, irr)

LEMMA FollowsItself == ASSUME NEW r, NEW irr PROVE Follows(r, r, irr)
BY DEF Follows, SameBet

LEMMA FollowsApart ==
  ASSUME NEW r, NEW q, NEW irr, NEW s, NEW u, NEW more,
         Apart(r, q, irr), irr \subseteq more, Follows(s, r, more), Follows(u, q, more),
         r.id \in Nat, q.id \in Nat
  PROVE  Apart(s, u, more)
<1> SUFFICES ASSUME s.id < u.id, s.fixture = u.fixture, more \cap s.id..u.id = {}
             PROVE  u.captured - s.captured >= MinInterval
  BY DEF Apart
<1>1. s.id = r.id /\ u.id = q.id
  BY DEF Follows
<1>2. s.id \in s.id..u.id /\ u.id \in s.id..u.id
  BY <1>1
<1>3. s.id \notin more /\ u.id \notin more
  BY <1>2
<1>4. /\ s.captured = r.captured /\ s.fixture = r.fixture
      /\ u.captured = q.captured /\ u.fixture = q.fixture
  BY <1>3 DEF Follows
<1> QED BY <1>1, <1>4 DEF Apart

LEMMA FollowsSpaced ==
  ASSUME NEW R, NEW S, NEW irr, NEW more, NEW n,
         \A r \in R : r.id \in Nat, Spaced(R, irr), irr \subseteq more,
         \A s \in S : \E r \in R : Follows(s, r, more)
  PROVE  Spaced(S, more)
<1> SUFFICES ASSUME NEW s \in S, NEW u \in S PROVE Apart(s, u, more)
  BY DEF Spaced
<1>1. PICK r \in R : Follows(s, r, more)
  OBVIOUS
<1>2. PICK q \in R : Follows(u, q, more)
  OBVIOUS
<1>3. Apart(r, q, irr)
  BY DEF Spaced
<1> QED BY <1>1, <1>2, <1>3, FollowsApart

LEMMA SameBetKeeps ==
  ASSUME NEW c, NEW d, SameBet(c, d)
  PROVE  BetPriced(c) <=> BetPriced(d)
BY DEF SameBet, BetPriced, Stake

\* What a thread has in hand stays true of the rows as others change them.
LEMMA EvolvedJob ==
  ASSUME NEW j, NEW R, NEW n \in Nat, NEW irr, NEW S, NEW m \in Nat, NEW more,
         \A r \in R : r.id \in Nat /\ r.id < n, \A s \in S : s.id \in Nat,
         n <= m, irr \subseteq more, Evolved(R, n, S, more), JobOK(j, R, n, irr)
  PROVE  JobOK(j, S, m, more)
<1>1. ASSUME NEW s \in S, s.id < n PROVE \E r \in R : Follows(s, r, more)
  BY <1>1 DEF Evolved
<1>2. ASSUME j.at = "insert" PROVE InsertOK(j, S, m, more)
  <2>1. InsertOK(j, R, n, irr)
    BY <1>2 DEF JobOK
  <2>2. j.known \subseteq 1..m - 1
    BY <2>1 DEF InsertOK
  <2>3. ASSUME NEW s \in S, s.fixture = j.fixture, s.id \in j.known, more \cap s.id..m - 1 = {}
        PROVE  j.captured - s.captured >= MinInterval
    <3>1. s.id \in 1..n - 1
      BY <2>1, <2>3 DEF InsertOK
    <3>2. PICK r \in R : Follows(s, r, more)
      BY <1>1, <3>1
    <3>3. s.id \in s.id..m - 1 /\ s.id..n - 1 \subseteq s.id..m - 1
      BY <3>1
    <3>4. s.id \notin more /\ irr \cap s.id..n - 1 = {}
      BY <2>3, <3>3
    <3>5. r.id = s.id /\ s.captured = r.captured /\ s.fixture = r.fixture
      BY <3>2, <3>4 DEF Follows
    <3> QED BY <2>1, <2>3, <3>4, <3>5 DEF InsertOK
  <2> QED BY <2>1, <2>2, <2>3 DEF InsertOK
<1>3. ASSUME j.at = "import" PROVE TargetOK(j, S, m)
  <2>1. TargetOK(j, R, n) /\ ReplayOK(j)
    BY <1>3 DEF JobOK
  <2>2. ASSUME NEW s \in S, s.id = j.target PROVE s.fixture = j.fixture
    <3>1. PICK r \in R : Follows(s, r, more)
      BY <1>1, <2>1, <2>2 DEF TargetOK
    <3>2. r.fixture = j.fixture
      BY <2>1, <2>2, <3>1 DEF TargetOK, Follows
    <3> QED BY <2>1, <3>1, <3>2 DEF ReplayOK, Follows
  <2> QED BY <2>1, <2>2 DEF TargetOK
<1>4. ASSUME j.at = "clv" PROVE MeasuresOK(j, S, m)
  <2>1. MeasuresOK(j, R, n)
    BY <1>4 DEF JobOK
  <2>2. ASSUME NEW c \in j.computed, NEW s \in S, s.id = c.id, s.live
        PROVE  /\ SameBet(c.clv, s.clv)
               /\ BetPriced(s.clv) /\ c.clv.pp = NoPp => j.closing[s.clv.best] = NoOdds
    <3>1. PICK r \in R : Follows(s, r, more)
      BY <1>1, <2>1, <2>2 DEF MeasuresOK
    <3>2. r.id = c.id /\ r.live /\ SameBet(s.clv, r.clv)
      BY <2>2, <3>1 DEF Follows
    <3>3. /\ SameBet(c.clv, r.clv)
          /\ BetPriced(r.clv) /\ c.clv.pp = NoPp => j.closing[r.clv.best] = NoOdds
      BY <2>1, <3>2 DEF MeasuresOK
    <3>4. BetPriced(s.clv) <=> BetPriced(r.clv)
      BY <3>2, SameBetKeeps
    <3> QED BY <3>2, <3>3, <3>4 DEF SameBet
  <2>3. ASSUME NEW c \in j.computed PROVE Block(c.clv) /\ c.id \in Nat /\ c.id < m
    BY <2>1 DEF MeasuresOK
  <2> QED BY <2>1, <2>2, <2>3 DEF MeasuresOK
<1>5. ASSUME j.at = "mine" PROVE MineOK(j, S, m)
  <2>1. MineOK(j, R, n)
    BY <1>5 DEF JobOK
  <2>2. ASSUME NEW c \in j.computed, NEW s \in S, s.id = c.id, s.live
        PROVE  SameBet(c.clv, s.clv)
    <3>1. PICK r \in R : Follows(s, r, more)
      BY <1>1, <2>1, <2>2 DEF MineOK
    <3>2. r.id = c.id /\ r.live /\ SameBet(s.clv, r.clv)
      BY <2>2, <3>1 DEF Follows
    <3>3. SameBet(c.clv, r.clv)
      BY <2>1, <3>2 DEF MineOK
    <3> QED BY <3>2, <3>3 DEF SameBet
  <2>3. ASSUME NEW c \in j.computed
        PROVE  Block(c.clv) /\ c.forecast \in Forecasts /\ c.id \in Nat /\ c.id < m
    BY <2>1 DEF MineOK
  <2> QED BY <2>2, <2>3 DEF MineOK
<1> QED BY <1>2, <1>3, <1>4, <1>5 DEF JobOK

\* Rows edited one by one, each by what follows it.
LEMMA EditedRows ==
  ASSUME NEW R, NEW n \in Nat, GoodRows(R, n), NEW irr, Spaced(R, irr),
         NEW more, irr \subseteq more,
         NEW f, \A r \in R : Good(f[r], n) /\ Follows(f[r], r, more)
  PROVE  LET S == {f[r] : r \in R}
         IN GoodRows(S, n) /\ Spaced(S, more) /\ Evolved(R, n, S, more)
<1> DEFINE S == {f[r] : r \in R}
<1>1. \A r \in R : f[r].id = r.id
  BY DEF Follows
<1>2. GoodRows(S, n)
  BY <1>1 DEF GoodRows, UniqueIds
<1>3. \A s \in S : \E r \in R : Follows(s, r, more)
  OBVIOUS
<1>4. \A r \in R : r.id \in Nat
  BY DEF GoodRows, Good, Row
<1> HIDE DEF S
<1>5. Spaced(S, more)
  BY <1>3, <1>4, FollowsSpaced
<1> QED BY <1>2, <1>3, <1>5 DEF Evolved, S

LEMMA FewerRows ==
  ASSUME NEW R, NEW n \in Nat, GoodRows(R, n), NEW irr, Spaced(R, irr), NEW S, S \subseteq R
  PROVE  GoodRows(S, n) /\ Spaced(S, irr) /\ Evolved(R, n, S, irr)
<1>1. Evolved(R, n, S, irr)
  BY FollowsItself DEF Evolved
<1> QED BY <1>1 DEF GoodRows, UniqueIds, Spaced

\* A new row, marked irregular or spaced from the older ones of its fixture.
LEMMA OneMoreRow ==
  ASSUME NEW R, NEW n \in Nat, GoodRows(R, n), NEW irr, Spaced(R, irr),
         NEW more, irr \subseteq more,
         NEW s, s.id = n, Good(s, n + 1), \A r \in R : Apart(r, s, more)
  PROVE  /\ GoodRows(R \cup {s}, n + 1) /\ Spaced(R \cup {s}, more)
         /\ Evolved(R, n, R \cup {s}, more)
<1>1. \A r \in R : r.id \in Nat /\ r.id < n
  BY DEF GoodRows, Good, Row
<1>2. \A r \in R : Good(r, n + 1)
  <2> TAKE r \in R
  <2>1. r.id < n + 1
    BY <1>1
  <2> QED BY <2>1 DEF GoodRows, Good
<1>3. UniqueIds(R \cup {s})
  BY <1>1 DEF GoodRows, UniqueIds
<1>4. Spaced(R \cup {s}, more)
  <2> SUFFICES ASSUME NEW r \in R \cup {s}, NEW q \in R \cup {s} PROVE Apart(r, q, more)
    BY DEF Spaced
  <2>1. CASE r \in R /\ q \in R
    BY <2>1, FollowsItself, FollowsApart, <1>1 DEF Spaced
  <2>2. CASE r = s
    <3>1. ~ (r.id < q.id)
      BY <1>1, <2>2
    <3> QED BY <3>1 DEF Apart
  <2>3. CASE r \in R /\ q = s
    BY <2>3
  <2> QED BY <2>1, <2>2, <2>3
<1>5. Evolved(R, n, R \cup {s}, more)
  BY FollowsItself DEF Evolved
<1> QED BY <1>2, <1>3, <1>4, <1>5 DEF GoodRows

\* The row with the highest id.
LEMMA LatestRow ==
  ASSUME NEW R, NEW n \in Nat, GoodRows(R, n), NEW S \in SUBSET R, S # {}
  PROVE  Latest(S) \in S /\ \A s \in S : s.id <= Latest(S).id
<1> DEFINE Gaps == {n - r.id : r \in S}
<1>1. \A r \in S : r.id \in Nat /\ r.id < n
  BY DEF GoodRows, Good, Row
<1>2. Gaps \subseteq Nat /\ Gaps # {}
  BY <1>1
<1> HIDE DEF Gaps
<1>3. PICK g \in Gaps : \A k \in Gaps : ~ (<<k, g>> \in OpToRel(<, Nat))
  BY <1>2, WFMin, NatLessThanWellFounded
<1>4. PICK r \in S : g = n - r.id
  BY DEF Gaps
<1>5. ASSUME NEW s \in S PROVE s.id <= r.id
  <2>1. n - s.id \in Gaps
    BY DEF Gaps
  <2>2. ~ (n - s.id < g)
    BY <1>2, <1>3, <2>1 DEF OpToRel
  <2> QED BY <1>1, <1>4, <2>2
<1> QED BY <1>5 DEF Latest

-----------------------------------------------------------------------------
(* What a step does to the threads *)

Others(t) == DOMAIN job' = Threads /\ \A u \in Threads \ {t} : job'[u] = job[u]

LEMMA BecomeOthers ==
  ASSUME LogInv, NEW t \in Threads, NEW STATE j, Become(t, j)
  PROVE  Others(t) /\ job'[t] = j
BY DEF LogInv, Counters, Become, Others

LEMMA WaitingChange ==
  ASSUME LogInv, NEW t \in Threads, Others(t)
  PROVE  /\ Cardinality(Waiting) \in Nat /\ Cardinality(Waiting') \in Nat
         /\ Cardinality(Waiting') <= Cardinality(Waiting) + 1
         /\ job[t].at \in Inserting \/ job'[t].at \notin Inserting
              => Cardinality(Waiting') <= Cardinality(Waiting)
         /\ job[t].at \in Inserting /\ job'[t].at \notin Inserting
              => Cardinality(Waiting') = Cardinality(Waiting) - 1
<1>1. IsFiniteSet(Waiting) /\ IsFiniteSet(Waiting')
  BY LogAssumption, FS_Subset DEF Waiting, Threads
<1>2. Cardinality(Waiting) \in Nat /\ Cardinality(Waiting') \in Nat
  BY <1>1, FS_CardinalityType
<1>3. Waiting' \subseteq Waiting \cup {t}
  BY DEF Waiting, Others
<1>4. IsFiniteSet(Waiting \cup {t}) /\ Cardinality(Waiting \cup {t}) <= Cardinality(Waiting) + 1
  <2>1. Cardinality(Waiting \cup {t}) = IF t \in Waiting THEN Cardinality(Waiting)
                                        ELSE Cardinality(Waiting) + 1
    BY <1>1, FS_AddElement
  <2> QED BY <1>1, <1>2, <2>1, FS_AddElement
<1>5. Cardinality(Waiting') <= Cardinality(Waiting \cup {t}) /\ Cardinality(Waiting \cup {t}) \in Nat
  BY <1>3, <1>4, FS_Subset, FS_CardinalityType
<1>6. job[t].at \in Inserting \/ job'[t].at \notin Inserting
        => Cardinality(Waiting') <= Cardinality(Waiting)
  <2> SUFFICES ASSUME job[t].at \in Inserting \/ job'[t].at \notin Inserting
               PROVE  Waiting' \subseteq Waiting
    BY <1>1, FS_Subset
  <2> QED BY DEF Waiting, Others
<1>7. job[t].at \in Inserting /\ job'[t].at \notin Inserting
        => Cardinality(Waiting') = Cardinality(Waiting) - 1
  <2> SUFFICES ASSUME job[t].at \in Inserting, job'[t].at \notin Inserting
               PROVE  Waiting' = Waiting \ {t} /\ t \in Waiting
    BY <1>1, FS_RemoveElement
  <2> QED BY DEF Waiting, Others
<1> QED BY <1>2, <1>4, <1>5, <1>6, <1>7

\* What is in hand of every thread, given what is of the one that moves.
LEMMA JobsKept ==
  ASSUME LogInv, NEW t \in Threads, Others(t), nextId' \in Nat, nextId <= nextId',
         irregular \subseteq irregular', GoodRows(rows', nextId'),
         Evolved(rows, nextId, rows', irregular'),
         JobOK(job'[t], rows', nextId', irregular')
  PROVE  \A u \in Threads : JobOK(job'[u], rows', nextId', irregular')
<1>1. nextId \in Nat /\ \A r \in rows : r.id \in Nat /\ r.id < nextId
  BY DEF LogInv, Counters, GoodRows, Good, Row
<1>2. \A s \in rows' : s.id \in Nat
  BY DEF GoodRows, Good, Row
<1>3. ASSUME NEW u \in Threads \ {t} PROVE JobOK(job'[u], rows', nextId', irregular')
  <2>1. JobOK(job[u], rows, nextId, irregular)
    BY DEF LogInv
  <2>2. JobOK(job[u], rows', nextId', irregular')
    BY <1>1, <1>2, <2>1, EvolvedJob
  <2> QED BY <2>2 DEF Others
<1> QED BY <1>3

-----------------------------------------------------------------------------
(* Steps of three kinds *)

\* What every step keeps.
RowsEvolved == Evolved(rows, nextId, rows', irregular')
Keeps == LogInv' /\ RowsEvolved

\* A thread reads and goes on.
LEMMA WorkingStep ==
  ASSUME LogInv, NEW t \in Threads, NEW STATE j, Become(t, j),
         UNCHANGED <<now, rows, nextId, irregular, deaths>>,
         JobOK(j, rows, nextId, irregular),
         Room \/ job[t].at \in Inserting \/ j.at \notin Inserting
  PROVE  Keeps
<1>1. Others(t) /\ job'[t] = j
  BY BecomeOthers
<1>2. /\ Cardinality(Waiting) \in Nat /\ Cardinality(Waiting') \in Nat
      /\ Cardinality(Waiting') <= Cardinality(Waiting) + 1
      /\ job[t].at \in Inserting \/ j.at \notin Inserting
           => Cardinality(Waiting') <= Cardinality(Waiting)
  BY <1>1, WaitingChange
<1>3. Room => nextId + Cardinality(Waiting) <= MaxRows
  BY DEF Room, Waiting, Inserting
<1>4. Counters'
  BY <1>1, <1>2, <1>3, Bounds DEF LogInv, Counters, Others
<1>5. GoodRows(rows', nextId') /\ Spaced(rows', irregular') /\ nextId \in Nat
  BY DEF LogInv, Counters
<1>6. Evolved(rows, nextId, rows', irregular')
  BY FollowsItself DEF Evolved
<1>7. \A u \in Threads : JobOK(job'[u], rows', nextId', irregular')
  BY <1>1, <1>5, <1>6, JobsKept
<1> QED BY <1>4, <1>5, <1>6, <1>7 DEF LogInv, Keeps, RowsEvolved

\* A thread edits or deletes rows.
LEMMA WritingStep ==
  ASSUME LogInv, NEW t \in Threads, Others(t), UNCHANGED <<now, nextId, deaths>>,
         irregular \subseteq irregular', irregular' \subseteq 1..nextId - 1,
         GoodRows(rows', nextId), Spaced(rows', irregular'),
         Evolved(rows, nextId, rows', irregular'),
         job[t].at \in Inserting \/ job'[t].at \notin Inserting,
         JobOK(job'[t], rows', nextId, irregular')
  PROVE  Keeps
<1>1. /\ Cardinality(Waiting) \in Nat /\ Cardinality(Waiting') \in Nat
      /\ Cardinality(Waiting') <= Cardinality(Waiting)
  BY WaitingChange
<1>2. Counters'
  BY <1>1, Bounds DEF LogInv, Counters, Others
<1>3. \A u \in Threads : JobOK(job'[u], rows', nextId', irregular')
  <2>1. nextId' = nextId /\ nextId \in Nat
    BY DEF LogInv, Counters
  <2> QED BY <2>1, JobsKept
<1> QED BY <1>2, <1>3 DEF LogInv, Keeps, RowsEvolved

\* A thread inserts a row.
LEMMA InsertingStep ==
  ASSUME LogInv, NEW t \in Threads, Become(t, Idle), UNCHANGED <<now, deaths>>,
         job[t].at \in Inserting, NEW s, s.id = nextId, Good(s, nextId + 1),
         rows' = rows \cup {s}, nextId' = nextId + 1,
         irregular' \in {irregular, irregular \cup {nextId}},
         \A r \in rows : Apart(r, s, irregular')
  PROVE  Keeps
<1>1. Others(t) /\ job'[t] = Idle
  BY BecomeOthers
<1>2. /\ Cardinality(Waiting) \in Nat /\ Cardinality(Waiting') \in Nat
      /\ Cardinality(Waiting') = Cardinality(Waiting) - 1
  <2>1. job'[t].at \notin Inserting
    BY <1>1 DEF Idle, Inserting
  <2> QED BY <1>1, <2>1, WaitingChange
<1>3. irregular' \subseteq 1..nextId' - 1
  <2>1. irregular \subseteq 1..nextId - 1 /\ nextId \in Nat \ {0}
    BY DEF LogInv, Counters
  <2>2. nextId \in 1..nextId' - 1 /\ 1..nextId - 1 \subseteq 1..nextId' - 1
    BY <2>1
  <2> QED BY <2>1, <2>2
<1>4. Counters'
  BY <1>1, <1>2, <1>3, Bounds DEF LogInv, Counters, Others
<1>5. /\ GoodRows(rows', nextId') /\ Spaced(rows', irregular')
      /\ Evolved(rows, nextId, rows', irregular')
  BY OneMoreRow DEF LogInv, Counters
<1>6. nextId' \in Nat /\ nextId <= nextId' /\ irregular \subseteq irregular'
  BY DEF LogInv, Counters
<1>7. JobOK(job'[t], rows', nextId', irregular')
  BY <1>1 DEF JobOK, Idle
<1>8. \A u \in Threads : JobOK(job'[u], rows', nextId', irregular')
  BY <1>1, <1>5, <1>6, <1>7, JobsKept
<1> QED BY <1>4, <1>5, <1>8 DEF LogInv, Keeps, RowsEvolved

-----------------------------------------------------------------------------
(* Logging *)

LEMMA StoredForecasts ==
  /\ \A p \in Forecasts : IsForecast(p)
  /\ Replays \subseteq Forecasts
  /\ \A o \in Offers : EnsureSnapshotOdds(o.fixture, o.fetched, o.forecast) \in Forecasts
  /\ \A old \in Histories, n \in 1..MaxRows : n \in DOMAIN old => old[n].forecast \in Forecasts
<1>1. ASSUME NEW o \in Offers
      PROVE  IsForecast(EnsureSnapshotOdds(o.fixture, o.fetched, o.forecast))
  BY LogAssumption, StoredForecast DEF Triplets
<1> QED BY <1>1, LogAssumption DEF Forecasts

LEMMA LogLookKeeps ==
  ASSUME LogInv, NEW t \in Threads, NEW i \in Ids, NEW o \in Offers, LogLook(t, i, o)
  PROVE  Keeps
<1> DEFINE p == EnsureSnapshotOdds(o.fixture, o.fetched, o.forecast)
           clv == ClvOpeningCapture(o.fixture, p)
           known == {r.id : r \in Of(i)}
           j == [at |-> "insert", fixture |-> i, captured |-> now, forecast |-> p,
                 clv |-> clv, known |-> known]
<1>1. p \in Forecasts /\ Block(clv)
  <2>1. p \in Forecasts /\ IsForecast(p) /\ o.fixture \in Triplets
    BY StoredForecasts, LogAssumption DEF Triplets
  <2> HIDE DEF p
  <2> QED BY <2>1, CaptureBlock
<1>2. /\ Become(t, j) /\ Due(i) /\ Room
      /\ UNCHANGED <<now, rows, nextId, irregular, deaths>>
  BY DEF LogLook
<1> HIDE DEF p, clv
<1>3. GoodRows(rows, nextId) /\ Spaced(rows, irregular) /\ now \in 0..MaxTime /\ nextId \in Nat
  BY DEF LogInv, Counters
<1>4. \A r \in rows : r.id \in Nat \ {0} /\ r.id < nextId /\ r.captured \in Int
  BY <1>3 DEF GoodRows, Good, Row
<1>5. known \subseteq 1..nextId - 1
  BY <1>3, <1>4 DEF Of
<1>6. ASSUME NEW r \in rows, r.fixture = i, irregular \cap r.id..nextId - 1 = {}
      PROVE  now - r.captured >= MinInterval
  <2> DEFINE last == Latest(Of(i))
  <2>1. last \in Of(i) /\ r.id <= last.id
    BY <1>3, <1>6, LatestRow DEF Of
  <2> HIDE DEF last
  <2>2. now - last.captured >= MinInterval /\ last \in rows /\ last.fixture = i
    BY <1>2, <2>1 DEF Due, Of, last
  <2>3. CASE r.id = last.id
    <3>1. r = last
      BY <1>3, <2>2, <2>3 DEF GoodRows, UniqueIds
    <3> QED BY <2>2, <3>1
  <2>4. CASE r.id < last.id
    <3>1. r.id..last.id \subseteq r.id..nextId - 1
      BY <1>3, <1>4, <2>2
    <3>2. irregular \cap r.id..last.id = {}
      BY <1>6, <3>1
    <3>3. last.captured - r.captured >= MinInterval
      BY <1>3, <1>6, <2>2, <2>4, <3>2 DEF Spaced, Apart
    <3> QED BY <1>3, <1>4, <2>2, <3>3, Bounds
  <2> QED BY <1>4, <2>1, <2>2, <2>3, <2>4
<1>7. InsertOK(j, rows, nextId, irregular)
  BY <1>1, <1>3, <1>5, <1>6 DEF InsertOK
<1>8. JobOK(j, rows, nextId, irregular)
  BY <1>7 DEF JobOK
<1> HIDE DEF j
<1> QED BY <1>2, <1>8, WorkingStep

LEMMA LogWriteKeeps ==
  ASSUME LogInv, NEW t \in Threads, LogWrite(t)
  PROVE  Keeps
<1> DEFINE s == NewRow(job[t])
           seen == {r.id : r \in Of(job[t].fixture)}
<1>1. /\ job[t].at = "insert" /\ rows' = rows \cup {s} /\ nextId' = nextId + 1
      /\ irregular' = IF seen \subseteq job[t].known THEN irregular ELSE irregular \cup {nextId}
      /\ Become(t, Idle) /\ UNCHANGED <<now, deaths>>
  BY DEF LogWrite
<1>2. InsertOK(job[t], rows, nextId, irregular) /\ nextId \in Nat \ {0}
  BY <1>1 DEF LogInv, JobOK, Counters
<1>3. /\ s.id = nextId /\ s.fixture = job[t].fixture /\ s.captured = job[t].captured
      /\ Good(s, nextId + 1)
  <2>1. job[t].clv \in ClvBlock /\ job[t].captured \in Int
    BY <1>2 DEF InsertOK, Block, Sound
  <2>2. s \in Row
    <3>1. TripletComplete(job[t].forecast.bookmaker) \in BOOLEAN
      BY DEF TripletComplete
    <3> QED BY <1>2, <2>1, <3>1 DEF Row, NewRow, InsertOK
  <2>3. /\ s.clv = job[t].clv /\ s.recorded = Unset /\ s.outcome = Unset /\ s.id = nextId
        /\ s.captured = job[t].captured /\ s.fixture = job[t].fixture
        /\ s.logged = job[t].fixture /\ s.live
    BY DEF NewRow
  <2> HIDE DEF s
  <2>4. s.captured \in -Lock..MaxTime
    BY <1>2, <2>3, Bounds DEF InsertOK
  <2> QED BY <1>2, <2>2, <2>3, <2>4 DEF Good, InsertOK, Scored, Unrecorded
<1> HIDE DEF s
<1>4. ASSUME NEW r \in rows PROVE Apart(r, s, irregular')
  <2> SUFFICES ASSUME r.fixture = s.fixture, irregular' \cap r.id..s.id = {}, r.id < s.id
               PROVE  s.captured - r.captured >= MinInterval
    BY DEF Apart
  <2>1. r.id \in Nat /\ r.id <= nextId
    BY <1>2 DEF LogInv, GoodRows, Good, Row
  <2>2. nextId \in r.id..s.id /\ r.id..nextId - 1 \subseteq r.id..s.id
    BY <1>2, <1>3, <2>1
  <2>3. seen \subseteq job[t].known /\ irregular' = irregular
    <3> HIDE DEF seen
    <3> QED BY <1>1, <2>2
  <2>4. r.id \in job[t].known
    BY <1>3, <2>3 DEF Of
  <2>5. irregular \cap r.id..nextId - 1 = {}
    BY <2>2, <2>3
  <2> QED BY <1>2, <1>3, <2>4, <2>5 DEF InsertOK
<1>5. job[t].at \in Inserting
  BY <1>1 DEF Inserting
<1>6. irregular' \in {irregular, irregular \cup {nextId}}
  <2> HIDE DEF seen
  <2> QED BY <1>1
<1> QED BY <1>1, <1>3, <1>4, <1>5, <1>6, InsertingStep

-----------------------------------------------------------------------------
(* Historic replays *)

LEMMA ImportCheckKeeps ==
  ASSUME LogInv, NEW t \in Threads, NEW i \in Ids, NEW p \in Replays, ImportCheck(t, i, p)
  PROVE  Keeps
<1> DEFINE j == [at |-> "pick", fixture |-> i, forecast |-> p]
<1>1. /\ Become(t, j) /\ Room /\ Final[i] # NotFT /\ Resolve[i] = i /\ now >= Kickoff[i] + FtAfter
      /\ UNCHANGED <<now, rows, nextId, irregular, deaths>>
  BY DEF ImportCheck
<1>2. now \in 0..MaxTime
  BY DEF LogInv, Counters
<1>3. Kickoff[i] <= MaxTime
  BY <1>1, <1>2, Bounds, Matches
<1>4. JobOK(j, rows, nextId, irregular)
  BY <1>1, <1>3 DEF JobOK, ReplayOK
<1> HIDE DEF j
<1> QED BY <1>1, <1>4, WorkingStep

LEMMA ImportLookKeeps ==
  ASSUME LogInv, NEW t \in Threads, ImportLook(t)
  PROVE  Keeps
<1> DEFINE open == {r \in Of(job[t].fixture) : ~ Scored(r)}
           target == IF open = {} THEN 0 ELSE Latest(open).id
           j == [at |-> "import", fixture |-> job[t].fixture, forecast |-> job[t].forecast,
                 target |-> target]
<1>1. job[t].at = "pick" /\ Become(t, j) /\ UNCHANGED <<now, rows, nextId, irregular, deaths>>
  BY DEF ImportLook
<1>2. ReplayOK(job[t]) /\ GoodRows(rows, nextId) /\ nextId \in Nat \ {0}
  BY <1>1 DEF LogInv, JobOK, Counters
<1>3. /\ target \in Nat /\ target < nextId
      /\ \A r \in rows : r.id = target => r.fixture = job[t].fixture
  <2> HIDE DEF open
  <2>1. CASE open = {}
    BY <1>2, <2>1 DEF GoodRows, Good, Row
  <2>2. CASE open # {}
    <3>1. open \subseteq rows
      BY DEF open, Of
    <3>2. Latest(open) \in open /\ Latest(open) \in rows
      BY <1>2, <2>2, <3>1, LatestRow
    <3>3. Latest(open).fixture = job[t].fixture
      BY <3>2 DEF open, Of
    <3> QED BY <1>2, <2>2, <3>2, <3>3 DEF GoodRows, UniqueIds, Good, Row
  <2> QED BY <2>1, <2>2
<1> HIDE DEF target
<1>4. JobOK(j, rows, nextId, irregular)
  BY <1>2, <1>3 DEF JobOK, ReplayOK, TargetOK
<1>5. job[t].at \in Inserting
  BY <1>1 DEF Inserting
<1> HIDE DEF j
<1> QED BY <1>1, <1>4, <1>5, WorkingStep

\* A replay makes of a row of its match, or of a blank one, a settled row.
LEMMA ReplayedRow ==
  ASSUME LogInv, NEW j, ReplayOK(j), NEW n, NEW r,
         r \in Row, r.id < n, r.fixture = j.fixture, Resolve[r.logged] = r.fixture
  PROVE  Good(Replayed(r, j), n)
<1> DEFINE s == Replayed(r, j)
           at == Kickoff[j.fixture] - Lock
           clv == ClvOpeningCapture(NoTriplet, j.forecast)
<1>1. Block(clv) /\ clv \in ClvBlock /\ j.forecast \in Forecasts
  <2>1. j.forecast \in Forecasts /\ IsForecast(j.forecast) /\ NoTriplet \in Triplets
    BY StoredForecasts DEF ReplayOK, NoTriplet, Triplets, NoOdds
  <2> QED BY <2>1, CaptureBlock DEF Block, Sound
<1>2. at \in Int /\ at \in -Lock..MaxTime
  BY Bounds, Matches DEF ReplayOK
<1>3. now \in Nat /\ now \in 0..MaxTime
  BY DEF LogInv, Counters
<1>4. Final[j.fixture] \in Sides /\ Final[r.logged] = Final[j.fixture]
  <2>1. r.logged \in Ids
    BY DEF Row
  <2> QED BY <2>1, Matches DEF ReplayOK
<1> HIDE DEF at, clv
<1>5. s = [r EXCEPT !.captured = at, !.live = FALSE, !.panel = FALSE, !.forecast = j.forecast,
                    !.clv = clv, !.outcome = Final[j.fixture], !.recorded = now]
  BY DEF Replayed, at, clv
<1> HIDE DEF s
<1>6. /\ s \in Row /\ s.id = r.id /\ s.fixture = r.fixture /\ s.logged = r.logged
      /\ s.captured = at /\ s.live = FALSE /\ s.clv = clv
      /\ s.outcome = Final[j.fixture] /\ s.recorded = now
  <2>1. \A f \in {"id", "fixture", "logged"} : s[f] = r[f]
    BY <1>5 DEF Row
  <2> QED BY <1>1, <1>2, <1>3, <1>4, <1>5 DEF Row
<1> QED BY <1>1, <1>2, <1>3, <1>4, <1>6, Bounds, Matches DEF Good, Scored, Unrecorded, s

LEMMA GoodMatch ==
  ASSUME NEW r, NEW n, Good(r, n), Resolve[r.fixture] = r.fixture
  PROVE  Resolve[r.logged] = r.fixture
BY DEF Good

LEMMA ImportUpdateKeeps ==
  ASSUME LogInv, NEW t \in Threads, ImportUpdate(t)
  PROVE  Keeps
<1> DEFINE j == job[t]
           f == [r \in rows |-> IF r.id = j.target THEN Replayed(r, j) ELSE r]
<1>1. /\ j.at = "import" /\ j.target # 0 /\ irregular' = irregular \cup {j.target}
      /\ Become(t, Idle) /\ UNCHANGED <<now, nextId, deaths>>
  BY DEF ImportUpdate
<1>2. rows' = {f[r] : r \in rows}
  BY DEF ImportUpdate
<1>3. ReplayOK(j) /\ TargetOK(j, rows, nextId) /\ GoodRows(rows, nextId)
  BY <1>1 DEF LogInv, JobOK
<1>4. /\ nextId \in Nat /\ Spaced(rows, irregular) /\ irregular \subseteq 1..nextId - 1
  BY DEF LogInv, Counters
<1>5. ASSUME NEW r \in rows PROVE Good(f[r], nextId) /\ Follows(f[r], r, irregular')
  <2>1. Good(r, nextId)
    BY <1>3 DEF GoodRows
  <2>2. CASE r.id = j.target
    <3>1. r \in Row /\ r.fixture = j.fixture /\ Resolve[r.logged] = r.fixture
      BY <1>3, <2>1, <2>2, GoodMatch DEF TargetOK, ReplayOK, Good
    <3>2. Good(Replayed(r, j), nextId)
      BY <1>3, <2>1, <3>1, ReplayedRow DEF Good
    <3>3. /\ Replayed(r, j).id = r.id /\ ~ Replayed(r, j).live
          /\ Replayed(r, j).fixture = r.fixture
      BY <3>1 DEF Replayed, Row
    <3>4. Follows(Replayed(r, j), r, irregular')
      BY <1>1, <2>2, <3>3 DEF Follows
    <3> QED BY <2>2, <3>2, <3>4
  <2>3. CASE r.id # j.target
    BY <2>1, <2>3, FollowsItself
  <2> QED BY <2>2, <2>3
<1>6. irregular \subseteq irregular' /\ irregular' \subseteq 1..nextId - 1
  <2>1. j.target \in 1..nextId - 1
    BY <1>1, <1>3, <1>4 DEF TargetOK
  <2> QED BY <1>1, <1>4, <2>1
<1> HIDE DEF f
<1>7. /\ GoodRows(rows', nextId) /\ Spaced(rows', irregular')
      /\ Evolved(rows, nextId, rows', irregular')
  <2> DEFINE S == {f[r] : r \in rows}
  <2>1. GoodRows(S, nextId) /\ Spaced(S, irregular') /\ Evolved(rows, nextId, S, irregular')
    BY <1>3, <1>4, <1>5, <1>6, EditedRows
  <2> QED BY <1>2, <2>1
<1>8. Others(t) /\ job'[t] = Idle
  BY <1>1, BecomeOthers
<1>9. job'[t].at \notin Inserting /\ JobOK(job'[t], rows', nextId, irregular')
  BY <1>8 DEF Idle, Inserting, JobOK
<1> QED BY <1>1, <1>6, <1>7, <1>8, <1>9, WritingStep

LEMMA ImportInsertKeeps ==
  ASSUME LogInv, NEW t \in Threads, ImportInsert(t)
  PROVE  Keeps
<1> DEFINE j == job[t]
           blank == [id |-> nextId, fixture |-> j.fixture, logged |-> j.fixture, captured |-> 0,
                     live |-> FALSE, forecast |-> j.forecast, panel |-> FALSE,
                     clv |-> ClvOpeningCapture(NoTriplet, j.forecast),
                     outcome |-> Unset, recorded |-> Unset]
           s == Replayed(blank, j)
<1>1. /\ j.at = "import" /\ rows' = rows \cup {s} /\ irregular' = irregular \cup {nextId}
      /\ nextId' = nextId + 1 /\ Become(t, Idle) /\ UNCHANGED <<now, deaths>>
  BY DEF ImportInsert
<1>2. ReplayOK(j) /\ nextId \in Nat \ {0}
  BY <1>1 DEF LogInv, JobOK, Counters
<1>3. ClvOpeningCapture(NoTriplet, j.forecast) \in ClvBlock /\ j.forecast \in Forecasts
  <2>1. j.forecast \in Forecasts /\ IsForecast(j.forecast) /\ NoTriplet \in Triplets
    BY <1>2, StoredForecasts DEF ReplayOK, NoTriplet, Triplets, NoOdds
  <2> QED BY <2>1, CaptureBlock DEF Block, Sound
<1>4. blank \in Row /\ blank.id = nextId /\ blank.fixture = j.fixture /\ blank.logged = j.fixture
  BY <1>2, <1>3 DEF Row, ReplayOK
<1> HIDE DEF blank
<1>5. Good(s, nextId + 1)
  <2>1. blank.id < nextId + 1 /\ Resolve[blank.logged] = blank.fixture
    BY <1>2, <1>4 DEF ReplayOK
  <2> QED BY <1>2, <1>4, <2>1, ReplayedRow
<1>6. s.id = nextId
  BY <1>4 DEF Replayed, Row
<1> HIDE DEF s
<1>7. ASSUME NEW r \in rows PROVE Apart(r, s, irregular')
  <2>1. r.id < s.id => s.id \in irregular' \cap r.id..s.id
    BY <1>1, <1>2, <1>6 DEF LogInv, GoodRows, Good, Row
  <2> QED BY <2>1 DEF Apart
<1>8. job[t].at \in Inserting
  BY <1>1 DEF Inserting
<1> QED BY <1>1, <1>5, <1>6, <1>7, <1>8, InsertingStep

-----------------------------------------------------------------------------
(* Settlement *)

\* What rewrites rows one by one and moves a thread that has no row to insert.
LEMMA EditingStep ==
  ASSUME LogInv, NEW t \in Threads, NEW STATE j, Become(t, j), UNCHANGED <<now, nextId, deaths>>,
         irregular \subseteq irregular', irregular' \subseteq 1..nextId - 1,
         NEW STATE f, rows' = {f[r] : r \in rows},
         \A r \in rows : Good(f[r], nextId) /\ Follows(f[r], r, irregular'),
         j.at \notin Inserting, \A R, irr : JobOK(j, R, nextId, irr)
  PROVE  Keeps
<1>1. Others(t) /\ job'[t] = j
  BY BecomeOthers
<1>2. GoodRows(rows, nextId) /\ Spaced(rows, irregular) /\ nextId \in Nat
  BY DEF LogInv, Counters
<1>3. /\ GoodRows(rows', nextId) /\ Spaced(rows', irregular')
      /\ Evolved(rows, nextId, rows', irregular')
  <2> DEFINE S == {f[r] : r \in rows}
  <2>1. GoodRows(S, nextId) /\ Spaced(S, irregular') /\ Evolved(rows, nextId, S, irregular')
    BY <1>2, EditedRows
  <2> QED BY <2>1
<1> QED BY <1>1, <1>3, WritingStep

LEMMA SyncBeginKeeps ==
  ASSUME LogInv, NEW t \in Threads, SyncBegin(t)
  PROVE  Keeps
<1>1. PICK B \in SUBSET {r.fixture : r \in rows} :
        LET todo == {i \in B : Finished(i, now)} IN Become(t, [at |-> "sync", todo |-> todo])
  BY DEF SyncBegin
<1> DEFINE todo == {i \in B : Finished(i, now)}
           j == [at |-> "sync", todo |-> todo]
<1>2. Become(t, j) /\ UNCHANGED <<now, rows, nextId, irregular, deaths>>
  BY <1>1 DEF SyncBegin
<1>3. B \subseteq Ids
  BY DEF LogInv, GoodRows, Good, Row
<1>4. JobOK(j, rows, nextId, irregular) /\ j.at \notin Inserting
  BY <1>3 DEF JobOK, Inserting
<1> HIDE DEF j
<1> QED BY <1>2, <1>4, WorkingStep

LEMMA RestOK ==
  ASSUME NEW todo, todo \subseteq Ids, NEW i
  PROVE  /\ Rest(todo, i).at \notin Inserting
         /\ \A R, n, irr : JobOK(Rest(todo, i), R, n, irr)
BY DEF Rest, Idle, JobOK, Inserting

LEMMA SyncSkipKeeps ==
  ASSUME LogInv, NEW t \in Threads, NEW i \in Ids, SyncSkip(t, i)
  PROVE  Keeps
<1> DEFINE j == Rest(job[t].todo, i)
<1>1. /\ job[t].at = "sync" /\ Become(t, j)
      /\ UNCHANGED <<now, rows, nextId, irregular, deaths>>
  BY DEF SyncSkip, Turn
<1>2. job[t].todo \subseteq Ids
  BY <1>1 DEF LogInv, JobOK
<1>3. JobOK(j, rows, nextId, irregular) /\ j.at \notin Inserting
  BY <1>2, RestOK
<1> HIDE DEF j
<1> QED BY <1>1, <1>3, WorkingStep

LEMMA SyncSettleKeeps ==
  ASSUME LogInv, NEW t \in Threads, NEW i \in Ids, SyncSettle(t, i)
  PROVE  Keeps
<1> DEFINE j == [at |-> "odds", fixture |-> i, todo |-> job[t].todo]
           ft(r) == [r EXCEPT !.outcome = Final[i], !.recorded = now, !.fixture = Resolve[i]]
           moved == {r.id : r \in {x \in Of(i) : Unrecorded(x) /\ i # Resolve[i]}}
           f == [r \in rows |-> IF r.fixture = i /\ Unrecorded(r) THEN ft(r) ELSE r]
<1>1. /\ job[t].at = "sync" /\ Final[i] # NotFT /\ irregular' = irregular \cup moved
      /\ Become(t, j) /\ UNCHANGED <<now, nextId, deaths>>
  BY DEF SyncSettle, Turn
<1>2. rows' = {f[r] : r \in rows}
  BY DEF SyncSettle, Settled
<1>3. /\ GoodRows(rows, nextId) /\ irregular \subseteq 1..nextId - 1
      /\ now \in 0..MaxTime /\ now \in Nat /\ nextId \in Nat
  BY DEF LogInv, Counters
<1>4. /\ Final[i] \in Sides /\ Resolve[i] \in Ids
      /\ Final[i] \in Sides \cup {Unset} /\ now \in Nat \cup {Unset}
      /\ Final[i] # Unset /\ now # Unset
  BY <1>1, <1>3, Matches
<1>5. ASSUME NEW r \in rows PROVE Good(f[r], nextId) /\ Follows(f[r], r, irregular')
  <2>1. Good(r, nextId)
    BY <1>3 DEF GoodRows
  <2>2. CASE r.fixture = i /\ Unrecorded(r)
    <3>1. r.logged = i /\ r \in Row
      BY <2>1, <2>2 DEF Good
    <3>2. /\ ft(r).outcome = Final[i] /\ ft(r).recorded = now /\ ft(r).fixture = Resolve[i]
          /\ ft(r).id = r.id /\ ft(r).captured = r.captured /\ ft(r).logged = r.logged
          /\ ft(r).live = r.live /\ ft(r).panel = r.panel /\ ft(r).clv = r.clv
      BY <3>1 DEF Row
    <3>3. ft(r) \in Row
      BY <3>1, <1>4 DEF Row
    <3> HIDE DEF ft
    <3>4. Good(ft(r), nextId)
      BY <1>3, <1>4, <2>1, <3>1, <3>2, <3>3 DEF Good, Scored, Unrecorded
    <3>5. Resolve[i] # i => r.id \in irregular'
      BY <1>1, <2>2 DEF Of
    <3>6. Follows(ft(r), r, irregular')
      BY <2>2, <3>2, <3>5 DEF Follows, SameBet
    <3> QED BY <2>2, <3>4, <3>6
  <2>3. CASE ~ (r.fixture = i /\ Unrecorded(r))
    <3>1. f[r] = r
      BY <2>3
    <3> QED BY <2>1, <3>1, FollowsItself
  <2> QED BY <2>2, <2>3
<1>6. irregular \subseteq irregular' /\ irregular' \subseteq 1..nextId - 1
  <2>1. \A r \in rows : r.id \in 1..nextId - 1
    BY <1>3 DEF GoodRows, Good, Row
  <2>2. moved \subseteq 1..nextId - 1
    BY <2>1 DEF Of
  <2> HIDE DEF moved
  <2> QED BY <1>1, <1>3, <2>2
<1>7. j.at \notin Inserting /\ \A R, irr : JobOK(j, R, nextId, irr)
  <2>1. job[t].todo \subseteq Ids
    BY <1>1 DEF LogInv, JobOK
  <2> QED BY <2>1 DEF JobOK, Inserting
<1> HIDE DEF f, j
<1> QED BY <1>1, <1>2, <1>5, <1>6, <1>7, EditingStep

LEMMA SyncReadKeeps ==
  ASSUME LogInv, NEW t \in Threads, NEW closing \in Closings, SyncRead(t, closing)
  PROVE  Keeps
<1> DEFINE seen == Of(job[t].fixture) \cup Of(Resolve[job[t].fixture])
           computed == {[id |-> r.id, clv |-> ApplyClv(r.clv, closing)] : r \in seen}
           j == [at |-> "clv", fixture |-> job[t].fixture, todo |-> job[t].todo,
                 closing |-> closing, computed |-> computed]
<1>1. /\ job[t].at = "odds" /\ Become(t, j) /\ UNCHANGED <<now, rows, nextId, irregular, deaths>>
  BY DEF SyncRead
<1>2. job[t].fixture \in Ids /\ job[t].todo \subseteq Ids /\ GoodRows(rows, nextId)
  BY <1>1 DEF LogInv, JobOK
<1>3. closing \in Triplets
  BY LogAssumption DEF Triplets
<1>4. ASSUME NEW c \in computed
      PROVE  /\ Block(c.clv) /\ c.id \in Nat /\ c.id < nextId
             /\ \A r \in rows : (r.id = c.id /\ r.live) =>
                  /\ SameBet(c.clv, r.clv)
                  /\ BetPriced(r.clv) /\ c.clv.pp = NoPp => closing[r.clv.best] = NoOdds
  <2>1. PICK r \in seen : c = [id |-> r.id, clv |-> ApplyClv(r.clv, closing)]
    OBVIOUS
  <2>2. r \in rows
    BY DEF Of
  <2>3. Block(r.clv) /\ r.id \in Nat /\ r.id < nextId
    BY <1>2, <2>2 DEF GoodRows, Good, Row
  <2>4. /\ Block(c.clv) /\ SameBet(c.clv, r.clv)
        /\ BetPriced(r.clv) /\ c.clv.pp = NoPp => closing[r.clv.best] = NoOdds
    BY <1>3, <2>1, <2>3, ApplyBlock
  <2>5. ASSUME NEW q \in rows, q.id = c.id PROVE q = r
    BY <1>2, <2>1, <2>2, <2>5 DEF GoodRows, UniqueIds
  <2> QED BY <2>1, <2>3, <2>4, <2>5
<1> HIDE DEF computed
<1>5. MeasuresOK(j, rows, nextId)
  BY <1>3, <1>4 DEF MeasuresOK
<1>6. JobOK(j, rows, nextId, irregular) /\ j.at \notin Inserting
  BY <1>2, <1>5 DEF JobOK, Inserting
<1> HIDE DEF j
<1> QED BY <1>1, <1>6, WorkingStep

\* A row whose closing line value is replaced by a computed one, and what becomes of
\* the rest.
Measured(r, computed) ==
  IF \E c \in computed : c.id = r.id
  THEN [r EXCEPT !.clv = (CHOOSE c \in computed : c.id = r.id).clv] ELSE r

LEMMA MeasuredRow ==
  ASSUME NEW r, NEW n, Good(r, n), NEW computed, \A c \in computed : Block(c.clv)
  PROVE  LET s == Measured(r, computed) IN
         /\ Good(s, n)
         /\ \A f \in {"id", "fixture", "logged", "captured", "live", "forecast", "panel",
                       "outcome", "recorded"} : s[f] = r[f]
         /\ s # r => \E c \in computed : c.id = r.id /\ s.clv = c.clv
<1> DEFINE s == Measured(r, computed)
<1>1. CASE ~ \E c \in computed : c.id = r.id
  <2>1. s = r
    BY <1>1 DEF Measured
  <2> QED BY <2>1
<1>2. CASE \E c \in computed : c.id = r.id
  <2> DEFINE c == CHOOSE x \in computed : x.id = r.id
  <2>1. c \in computed /\ c.id = r.id
    BY <1>2
  <2> HIDE DEF c
  <2>2. s = [r EXCEPT !.clv = c.clv] /\ r \in Row /\ c.clv \in ClvBlock
    BY <1>2, <2>1 DEF Measured, c, Good, Block, Sound
  <2> HIDE DEF s
  <2>3. /\ s \in Row /\ s.clv = c.clv
        /\ \A f \in {"id", "fixture", "logged", "captured", "live", "forecast", "panel",
                      "outcome", "recorded"} : s[f] = r[f]
    BY <2>2 DEF Row
  <2>4. Good(s, n)
    <3>1. /\ s.id = r.id /\ s.fixture = r.fixture /\ s.logged = r.logged
          /\ s.captured = r.captured /\ s.live = r.live
          /\ s.outcome = r.outcome /\ s.recorded = r.recorded
      BY <2>3
    <3> QED BY <2>1, <2>3, <3>1 DEF Good, Scored, Unrecorded
  <2> QED BY <2>1, <2>3, <2>4 DEF s
<1> QED BY <1>1, <1>2

LEMMA SyncWriteKeeps ==
  ASSUME LogInv, NEW t \in Threads, SyncWrite(t)
  PROVE  Keeps
<1> DEFINE computed == job[t].computed
           j == Rest(job[t].todo, job[t].fixture)
           f == [r \in rows |-> Measured(r, computed)]
<1>1. job[t].at = "clv" /\ Become(t, j) /\ UNCHANGED <<now, nextId, irregular, deaths>>
  BY DEF SyncWrite
<1>2. rows' = {f[r] : r \in rows}
  BY DEF SyncWrite, Rewritten, Measured
<1>3. /\ MeasuresOK(job[t], rows, nextId) /\ job[t].todo \subseteq Ids
      /\ GoodRows(rows, nextId) /\ irregular \subseteq 1..nextId - 1
  BY <1>1 DEF LogInv, JobOK, Counters
<1>4. ASSUME NEW r \in rows PROVE Good(f[r], nextId) /\ Follows(f[r], r, irregular')
  <2> DEFINE s == Measured(r, computed)
  <2>1. Good(r, nextId) /\ \A c \in computed : Block(c.clv)
    BY <1>3 DEF GoodRows, MeasuresOK
  <2>2. /\ Good(s, nextId)
        /\ \A x \in {"id", "fixture", "logged", "captured", "live", "forecast", "panel",
                      "outcome", "recorded"} : s[x] = r[x]
        /\ s # r => \E c \in computed : c.id = r.id /\ s.clv = c.clv
    BY <2>1, MeasuredRow
  <2> HIDE DEF s
  <2>3. s.live => SameBet(s.clv, r.clv)
    <3>1. CASE s = r
      BY <3>1 DEF SameBet
    <3>2. CASE s # r
      BY <1>3, <2>2, <3>2 DEF MeasuresOK
    <3> QED BY <3>1, <3>2
  <2>4. Follows(s, r, irregular')
    BY <2>2, <2>3 DEF Follows
  <2> QED BY <2>2, <2>4 DEF s
<1>5. j.at \notin Inserting /\ \A R, irr : JobOK(j, R, nextId, irr)
  BY <1>3, RestOK
<1> HIDE DEF f, j
<1> QED BY <1>1, <1>2, <1>3, <1>4, <1>5, EditingStep

-----------------------------------------------------------------------------
(* Maintenance *)

LEMMA MineReadKeeps ==
  ASSUME LogInv, NEW t \in Threads, MineRead(t)
  PROVE  Keeps
<1> DEFINE stale == {r \in rows : ~ r.panel /\ TripletComplete(r.forecast.bookmaker)}
           computed == {[id |-> r.id, forecast |-> r.forecast,
                         clv |-> EnrichPriceTruth(r.clv)] : r \in stale}
           j == [at |-> "mine", computed |-> computed]
<1>1. Become(t, j) /\ UNCHANGED <<now, rows, nextId, irregular, deaths>>
  BY DEF MineRead
<1>2. GoodRows(rows, nextId)
  BY DEF LogInv
<1>3. ASSUME NEW c \in computed
      PROVE  /\ Block(c.clv) /\ c.forecast \in Forecasts /\ c.id \in Nat /\ c.id < nextId
             /\ \A r \in rows : (r.id = c.id /\ r.live) => SameBet(c.clv, r.clv)
  <2>1. PICK r \in stale : c = [id |-> r.id, forecast |-> r.forecast,
                                clv |-> EnrichPriceTruth(r.clv)]
    OBVIOUS
  <2>2. Block(r.clv) /\ r.forecast \in Forecasts /\ r.id \in Nat /\ r.id < nextId
    BY <1>2 DEF GoodRows, Good, Row
  <2>3. Block(EnrichPriceTruth(r.clv)) /\ SameBet(EnrichPriceTruth(r.clv), r.clv)
    BY <2>2, EnrichBlock DEF Block
  <2>4. ASSUME NEW q \in rows, q.id = c.id PROVE q = r
    BY <1>2, <2>1, <2>4 DEF GoodRows, UniqueIds
  <2> QED BY <2>1, <2>2, <2>3, <2>4
<1> HIDE DEF computed
<1>4. JobOK(j, rows, nextId, irregular) /\ j.at \notin Inserting
  BY <1>3 DEF JobOK, MineOK, Inserting
<1> HIDE DEF j
<1> QED BY <1>1, <1>4, WorkingStep

\* A row as the command line leaves it, out of what it computed.
MinedOf(r, computed) ==
  IF \E c \in computed : c.id = r.id
  THEN Mined(r, CHOOSE c \in computed : c.id = r.id) ELSE r

LEMMA MinedRow ==
  ASSUME NEW r, NEW n, Good(r, n), NEW c, Block(c.clv), c.forecast \in Forecasts
  PROVE  LET s == Mined(r, c) IN
         /\ Good(s, n) /\ s.clv = c.clv /\ s.forecast = c.forecast
         /\ s.id = r.id /\ s.fixture = r.fixture /\ s.logged = r.logged
         /\ s.captured = r.captured /\ s.live = r.live
         /\ s.outcome = r.outcome /\ s.recorded = r.recorded
<1> DEFINE s == Mined(r, c)
<1>1. s = [r EXCEPT !.clv = c.clv, !.forecast = c.forecast, !.panel = TRUE]
  BY DEF Mined
<1>2. r \in Row /\ c.clv \in ClvBlock
  BY DEF Good, Block, Sound
<1> HIDE DEF s
<1>3. /\ s \in Row /\ s.clv = c.clv /\ s.forecast = c.forecast
      /\ s.id = r.id /\ s.fixture = r.fixture /\ s.logged = r.logged
      /\ s.captured = r.captured /\ s.live = r.live
      /\ s.outcome = r.outcome /\ s.recorded = r.recorded
  BY <1>1, <1>2 DEF Row
<1>4. Good(s, n)
  BY <1>3 DEF Good, Scored, Unrecorded
<1> QED BY <1>3, <1>4 DEF s

LEMMA MineWriteKeeps ==
  ASSUME LogInv, NEW t \in Threads, MineWrite(t)
  PROVE  Keeps
<1> DEFINE computed == job[t].computed
           f == [r \in rows |-> MinedOf(r, computed)]
<1>1. job[t].at = "mine" /\ Become(t, Idle) /\ UNCHANGED <<now, nextId, irregular, deaths>>
  BY DEF MineWrite
<1>2. rows' = {f[r] : r \in rows}
  BY DEF MineWrite, MinedOf
<1>3. /\ MineOK(job[t], rows, nextId)
      /\ GoodRows(rows, nextId) /\ irregular \subseteq 1..nextId - 1
  BY <1>1 DEF LogInv, JobOK, Counters
<1>4. ASSUME NEW r \in rows PROVE Good(f[r], nextId) /\ Follows(f[r], r, irregular')
  <2>1. Good(r, nextId)
    BY <1>3 DEF GoodRows
  <2>2. CASE ~ \E c \in computed : c.id = r.id
    <3>1. f[r] = r
      BY <2>2 DEF MinedOf
    <3> QED BY <2>1, <3>1, FollowsItself
  <2>3. CASE \E c \in computed : c.id = r.id
    <3> DEFINE c == CHOOSE x \in computed : x.id = r.id
               s == Mined(r, c)
    <3>1. c \in computed /\ c.id = r.id
      BY <2>3
    <3>2. f[r] = s
      BY <2>3 DEF MinedOf
    <3> HIDE DEF c
    <3>3. /\ Block(c.clv) /\ c.forecast \in Forecasts
          /\ r.live => SameBet(c.clv, r.clv)
      BY <1>3, <3>1 DEF MineOK
    <3>4. /\ Good(s, nextId) /\ s.clv = c.clv /\ s.id = r.id /\ s.fixture = r.fixture
          /\ s.captured = r.captured /\ s.live = r.live
      BY <2>1, <3>3, MinedRow
    <3> HIDE DEF s
    <3>5. Follows(s, r, irregular')
      BY <3>3, <3>4 DEF Follows
    <3> QED BY <3>2, <3>4, <3>5
  <2> QED BY <2>2, <2>3
<1>5. Idle.at \notin Inserting /\ \A R, irr : JobOK(Idle, R, nextId, irr)
  BY DEF JobOK, Idle, Inserting
<1> HIDE DEF f
<1> QED BY <1>1, <1>2, <1>3, <1>4, <1>5, EditingStep

LEMMA DeleteKeeps ==
  ASSUME LogInv, NEW t \in Threads, NEW STATE S, Delete(t, S)
  PROVE  Keeps
<1>1. /\ job[t] = Idle /\ rows' \subseteq rows
      /\ UNCHANGED <<now, nextId, job, irregular, deaths>>
  BY DEF Delete
<1>2. GoodRows(rows, nextId) /\ Spaced(rows, irregular) /\ nextId \in Nat /\ Others(t)
  BY <1>1 DEF LogInv, Counters, Others
<1>3. /\ GoodRows(rows', nextId) /\ Spaced(rows', irregular)
      /\ Evolved(rows, nextId, rows', irregular)
  BY <1>1, <1>2, FewerRows
<1>4. job'[t].at \notin Inserting /\ JobOK(job'[t], rows', nextId, irregular')
  BY <1>1 DEF Idle, Inserting, JobOK
<1> QED BY <1>1, <1>2, <1>3, <1>4, WritingStep DEF LogInv, Counters

LEMMA TickKeeps == ASSUME LogInv, Tick PROVE Keeps
<1>1. now' = now + 1 /\ now < MaxTime /\ UNCHANGED <<rows, nextId, job, irregular, deaths>>
  BY DEF Tick
<1>2. Counters'
  <2>1. Waiting' = Waiting
    BY <1>1 DEF Waiting
  <2> QED BY <1>1, <2>1, Bounds DEF LogInv, Counters
<1> QED BY <1>1, <1>2, FollowsItself DEF LogInv, Keeps, RowsEvolved, Evolved

LEMMA DieKeeps == ASSUME LogInv, NEW P, Die(P) PROVE Keeps
<1>1. /\ deaths < MaxDeaths /\ deaths' = deaths + 1 /\ UNCHANGED <<now, rows, nextId, irregular>>
      /\ job' = [t \in Threads |-> IF t \in P THEN Idle ELSE job[t]]
  BY DEF Die
<1>2. Cardinality(Waiting') <= Cardinality(Waiting)
      /\ Cardinality(Waiting) \in Nat /\ Cardinality(Waiting') \in Nat
  <2>1. Waiting' \subseteq Waiting
    BY <1>1 DEF Waiting, Inserting, Idle
  <2>2. IsFiniteSet(Waiting) /\ IsFiniteSet(Waiting')
    BY LogAssumption, FS_Subset DEF Waiting, Threads
  <2> QED BY <2>1, <2>2, FS_Subset, FS_CardinalityType
<1>3. Counters'
  BY <1>1, <1>2, Bounds DEF LogInv, Counters
<1>4. \A t \in Threads : JobOK(job'[t], rows', nextId', irregular')
  <2> TAKE t \in Threads
  <2>1. CASE t \in P
    <3>1. job'[t] = Idle
      BY <1>1, <2>1
    <3> QED BY <3>1 DEF JobOK, Idle
  <2>2. CASE t \notin P
    BY <1>1, <2>2 DEF LogInv
  <2> QED BY <2>1, <2>2
<1> QED BY <1>1, <1>3, <1>4, FollowsItself DEF LogInv, Keeps, RowsEvolved, Evolved

-----------------------------------------------------------------------------
(* The invariant *)

\* What the table may start with: rows of an older version, every id irregular.
LEMMA OldRows ==
  ASSUME NEW old \in Histories
  PROVE  LET R == {OldRow(n, old[n]) : n \in DOMAIN old} IN
         GoodRows(R, Len(old) + 1) /\ Spaced(R, DOMAIN old)
<1> DEFINE R == {OldRow(n, old[n]) : n \in DOMAIN old}
<1>1. Len(old) \in 0..MaxRows /\ DOMAIN old = 1..Len(old) /\ MaxRows \in Nat
  BY LogAssumption
<1>2. ASSUME NEW n \in DOMAIN old
      PROVE  Good(OldRow(n, old[n]), Len(old) + 1) /\ OldRow(n, old[n]).id = n
  <2> DEFINE p == old[n].forecast
             s == OldRow(n, old[n])
  <2>1. old[n].fixture \in Ids /\ IsForecast(p) /\ n \in 1..MaxRows /\ n < Len(old) + 1
    BY <1>1, LogAssumption
  <2>2. p \in Forecasts
    BY <2>1, StoredForecasts
  <2>3. NoTriplet \in Triplets
    BY DEF NoTriplet, Triplets, NoOdds
  <2> HIDE DEF p
  <2>4. Block(ClvOpeningCapture(NoTriplet, p))
    BY <2>1, <2>3, CaptureBlock
  <2>5. ClvOpeningCapture(NoTriplet, p) \in ClvBlock
    BY <2>4 DEF Block, Sound
  <2>6. /\ s.id = n /\ s.fixture = old[n].fixture /\ s.logged = old[n].fixture
        /\ s.captured = 0 /\ s.live /\ s.clv = ClvOpeningCapture(NoTriplet, p)
        /\ s.outcome = Unset /\ s.recorded = Unset
    BY DEF OldRow, p
  <2>7. s \in Row
    BY <2>1, <2>2, <2>5 DEF Row, OldRow, p
  <2> HIDE DEF s
  <2>8. 0 \in -Lock..MaxTime
    BY Bounds
  <2>9. Good(s, Len(old) + 1)
    BY <2>1, <2>4, <2>6, <2>7, <2>8 DEF Good, Scored, Unrecorded
  <2> QED BY <2>6, <2>9 DEF s
<1>3. GoodRows(R, Len(old) + 1)
  BY <1>2 DEF GoodRows, UniqueIds
<1>4. ASSUME NEW r \in R, NEW s \in R, r.id < s.id PROVE DOMAIN old \cap r.id..s.id # {}
  <2>1. r.id \in 1..Len(old) /\ s.id \in 1..Len(old)
    BY <1>1, <1>2
  <2>2. r.id \in r.id..s.id
    BY <1>4, <2>1
  <2> QED BY <1>1, <2>1, <2>2
<1> HIDE DEF R
<1>5. Spaced(R, DOMAIN old)
  BY <1>4 DEF Spaced, Apart
<1> QED BY <1>3, <1>5 DEF R

LEMMA InitInv == Init => LogInv
<1> SUFFICES ASSUME Init PROVE LogInv
  OBVIOUS
<1>1. /\ now = 0 /\ deaths = 0
      /\ job = [t \in Threads |-> Idle]
  BY DEF Init
<1>2. PICK old \in Histories :
        /\ rows = {OldRow(n, old[n]) : n \in DOMAIN old}
        /\ nextId = Len(old) + 1 /\ irregular = DOMAIN old
  BY DEF Init
<1>3. Len(old) \in 0..MaxRows /\ DOMAIN old = 1..Len(old)
  BY LogAssumption
<1>4. Waiting = {}
  BY <1>1 DEF Waiting, Inserting, Idle
<1>5. Counters
  <2>1. Cardinality(Waiting) = 0
    BY <1>4, FS_EmptySet
  <2>2. nextId \in Nat \ {0} /\ nextId <= MaxRows + 1 /\ irregular \subseteq 1..nextId - 1
    BY <1>2, <1>3, Bounds
  <2> QED BY <1>1, <2>1, <2>2, Bounds DEF Counters
<1>6. GoodRows(rows, nextId) /\ Spaced(rows, irregular)
  BY <1>2, OldRows
<1>7. \A t \in Threads : JobOK(job[t], rows, nextId, irregular)
  BY <1>1 DEF JobOK, Idle
<1> QED BY <1>5, <1>6, <1>7 DEF LogInv

\* The steps of a thread, one by one.
Steps(t) ==
  \/ \E i \in Ids, o \in Offers : LogLook(t, i, o)
  \/ LogWrite(t)
  \/ \E i \in Ids, p \in Replays : ImportCheck(t, i, p)
  \/ ImportLook(t) \/ ImportUpdate(t) \/ ImportInsert(t)
  \/ SyncBegin(t)
  \/ \E i \in Ids : SyncSkip(t, i)
  \/ \E i \in Ids : SyncSettle(t, i)
  \/ \E c \in Closings : SyncRead(t, c)
  \/ SyncWrite(t) \/ MineRead(t) \/ MineWrite(t)
  \/ \E S \in SUBSET rows : Delete(t, S)

LEMMA NextSteps ==
  ASSUME Next
  PROVE  (\E t \in Threads : Steps(t)) \/ Tick \/ (\E P : Die(P))
<1>1. ASSUME NEW t \in Threads, Resume(t) PROVE Steps(t)
  BY <1>1 DEF Resume, Import, SyncFetch, SyncOdds, Steps
<1>2. ASSUME NEW t \in Threads, Maintain(t) PROVE Steps(t)
  <2>1. ASSUME Prune(t) PROVE \E S \in SUBSET rows : Delete(t, S)
    BY <2>1 DEF Prune
  <2>2. ASSUME PurgeExcluded(t) PROVE \E S \in SUBSET rows : Delete(t, S)
    BY <2>2 DEF PurgeExcluded
  <2>3. ASSUME NEW from, NEW to, PurgeWindow(t, from, to)
        PROVE  \E S \in SUBSET rows : Delete(t, S)
    BY <2>3 DEF PurgeWindow
  <2> QED BY <1>2, <2>1, <2>2, <2>3 DEF Maintain, Steps
<1>3. ASSUME NEW t \in Threads, Begin(t) PROVE Steps(t)
  BY <1>2, <1>3 DEF Begin, LogBundle, AutoSync, PredLogSync, Steps
<1> QED BY <1>1, <1>3 DEF Next

LEMMA NextInv == LogInv /\ [Next]_vars => Keeps
<1> SUFFICES ASSUME LogInv, [Next]_vars PROVE Keeps
  OBVIOUS
<1>1. ASSUME NEW t \in Threads, Steps(t) PROVE Keeps
  <2>1. ASSUME NEW S \in SUBSET rows, Delete(t, S) PROVE Keeps
    BY <2>1, DeleteKeeps
  <2> QED BY <1>1, <2>1, LogLookKeeps, LogWriteKeeps, ImportCheckKeeps, ImportLookKeeps,
             ImportUpdateKeeps, ImportInsertKeeps, SyncBeginKeeps, SyncSkipKeeps,
             SyncSettleKeeps, SyncReadKeeps, SyncWriteKeeps, MineReadKeeps, MineWriteKeeps
          DEF Steps
<1>2. ASSUME UNCHANGED vars PROVE Keeps
  BY <1>2, FollowsItself DEF vars, LogInv, Counters, Waiting, Keeps, RowsEvolved, Evolved
<1> QED BY <1>1, <1>2, TickKeeps, DieKeeps, NextSteps

LEMMA SpecInv == Spec => []LogInv
<1>1. LogInv /\ [Next]_vars => LogInv'
  BY NextInv DEF Keeps
<1> QED BY <1>1, InitInv, PTL DEF Spec

LEMMA InvTypes == LogInv => LogTypeOK
<1> SUFFICES ASSUME LogInv PROVE LogTypeOK
  OBVIOUS
<1>1. /\ now \in 0..MaxTime /\ deaths \in 0..MaxDeaths /\ nextId \in 1..MaxRows + 1
      /\ irregular \subseteq 1..MaxRows
  <2>1. Cardinality(Waiting) \in Nat
    BY LogAssumption, FS_Subset, FS_CardinalityType DEF Waiting, Threads
  <2>2. nextId \in 1..MaxRows + 1
    BY <2>1, Bounds DEF LogInv, Counters
  <2> QED BY <2>2, Bounds DEF LogInv, Counters
<1>2. \A r \in rows :
        /\ r.id < nextId /\ {r.fixture, r.logged} \subseteq Ids /\ r.clv \in ClvBlock
        /\ {r.live, r.panel} \subseteq BOOLEAN /\ r.captured \in -Lock..MaxTime
        /\ r.outcome \in Sides \cup {Unset} /\ r.recorded \in 0..MaxTime \cup {Unset}
  BY DEF LogInv, GoodRows, Good, Row
<1>3. \A t \in Threads :
        job[t].at \in {"idle", "insert", "pick", "import", "sync", "odds", "clv", "mine"}
  BY DEF LogInv, JobOK
<1> QED BY <1>1, <1>2, <1>3 DEF LogTypeOK

\* A row carries the result of the match it was logged for, and stands under that
\* match's API id (ResultOfItsMatch), whoever settled it: syncs that overlap, replays
\* that chose the row before, and moves between ids.
THEOREM LogResults == Spec => []ResultOfItsMatch
<1>1. LogInv => ResultOfItsMatch
  BY InvTypes DEF LogInv, GoodRows, Good, ResultOfItsMatch
<1> QED BY <1>1, SpecInv, PTL

\* Rows of one fixture are the interval apart unless one of the rows between was
\* logged blindly, replayed or moved in (SpacedUnlessOverlapped).
THEOREM LogSpacing == Spec => []SpacedUnlessOverlapped
<1>1. LogInv => SpacedUnlessOverlapped
  BY DEF LogInv, Spaced, Apart, SpacedUnlessOverlapped
<1> QED BY <1>1, SpecInv, PTL

-----------------------------------------------------------------------------
(* What of a settled row may change *)

\* The action of SettledKept, of a row before and after.
Kept(r, s) ==
  \/ \E t \in Threads : job[t].at = "import" /\ job[t].target = r.id
  \/ \E t \in Threads :
       /\ job[t].at = "mine"
       /\ [s EXCEPT !.clv = r.clv, !.panel = r.panel, !.forecast = r.forecast] = r
       /\ \E c \in job[t].computed : c.id = r.id /\ (c.clv.pp = NoPp \/ c.forecast # r.forecast)
  \/ /\ [s EXCEPT !.clv = r.clv, !.panel = r.panel] = r
     /\ \/ r.clv.pp = NoPp \/ s.clv.pp # NoPp \/ ~ r.live
        \/ \E t \in Threads : job[t].at = "clv" /\ job[t].closing[r.clv.best] = NoOdds

LEMMA KeptItself == ASSUME NEW r \in Row PROVE Kept(r, r)
BY DEF Kept, Row

\* Old rows that a step leaves as they are, among new ones.
LEMMA KeptOld ==
  ASSUME LogInv, NEW r \in rows, NEW s, s.id = r.id, s \in rows \/ s.id = nextId
  PROVE  Kept(r, s)
<1>1. r.id \in Nat /\ r.id < nextId /\ r \in Row
  BY DEF LogInv, GoodRows, Good, Row
<1>2. s = r
  BY <1>1 DEF LogInv, GoodRows, UniqueIds, Counters
<1> QED BY <1>1, <1>2, KeptItself

\* The row that an edited row was.
LEMMA EditedFrom ==
  ASSUME LogInv, NEW STATE f, rows' = {f[r] : r \in rows}, \A r \in rows : f[r].id = r.id,
         NEW r \in rows, NEW s \in rows', s.id = r.id
  PROVE  s = f[r]
BY DEF LogInv, GoodRows, UniqueIds

\* A closing line value that was measured is measured again, unless the closing odds
\* lack the pick.
LEMMA MeasuredKept ==
  ASSUME LogInv, NEW t \in Threads, job[t].at = "clv", NEW r \in rows
  PROVE  Kept(r, Measured(r, job[t].computed))
<1> DEFINE computed == job[t].computed
           s == Measured(r, computed)
<1>1. Good(r, nextId) /\ r \in Row
  BY DEF LogInv, GoodRows, Good
<1>2. MeasuresOK(job[t], rows, nextId)
  BY DEF LogInv, JobOK
<1>3. \A c \in computed : Block(c.clv)
  BY <1>2 DEF MeasuresOK
<1>4. /\ Good(s, nextId)
      /\ \A x \in {"id", "fixture", "logged", "captured", "live", "forecast", "panel",
                    "outcome", "recorded"} : s[x] = r[x]
      /\ s # r => \E c \in computed : c.id = r.id /\ s.clv = c.clv
  BY <1>1, <1>3, MeasuredRow
<1> HIDE DEF s
<1>5. CASE s = r
  BY <1>1, <1>5, KeptItself DEF s
<1>6. CASE s # r
  <2>1. PICK c \in computed : c.id = r.id /\ s.clv = c.clv
    BY <1>4, <1>6
  <2>2. [s EXCEPT !.clv = r.clv, !.panel = r.panel] = r
    <3>1. s \in Row
      BY <1>4 DEF Good
    <3> QED BY <1>1, <1>4, <3>1 DEF Row
  <2>3. \/ r.clv.pp = NoPp \/ s.clv.pp # NoPp \/ ~ r.live
        \/ job[t].closing[r.clv.best] = NoOdds
    <3>1. r.clv.pp # NoPp => BetPriced(r.clv)
      BY <1>1 DEF Good, Block, Sound
    <3>2. r.live => (BetPriced(r.clv) /\ c.clv.pp = NoPp => job[t].closing[r.clv.best] = NoOdds)
      BY <1>2, <2>1 DEF MeasuresOK
    <3> QED BY <2>1, <3>1, <3>2
  <2> QED BY <2>2, <2>3 DEF Kept, s
<1> QED BY <1>5, <1>6

\* A row with its result changes only by a replay that chose it before, by closing
\* odds, and by a backfill that read it before it was replayed or measured
\* (SettledKept): whatever a thread had read when it was settled.
THEOREM LogSettledKept == Spec => SettledKept
<1>1. ASSUME LogInv, [Next]_vars, NEW r \in rows, NEW s \in rows', r.id = s.id, Scored(r)
      PROVE  Kept(r, s)
  <2>1. ASSUME rows' \subseteq rows PROVE Kept(r, s)
    BY <1>1, <2>1, KeptOld
  <2>2. ASSUME NEW n, n.id = nextId, rows' = rows \cup {n} PROVE Kept(r, s)
    BY <1>1, <2>2, KeptOld
  <2>3. ASSUME NEW t \in Threads, ImportUpdate(t) PROVE Kept(r, s)
    <3> DEFINE f == [q \in rows |-> IF q.id = job[t].target THEN Replayed(q, job[t]) ELSE q]
    <3>1. rows' = {f[q] : q \in rows} /\ job[t].at = "import"
      BY <2>3 DEF ImportUpdate
    <3>2. \A q \in rows : f[q].id = q.id
      BY <1>1 DEF LogInv, GoodRows, Good, Row, Replayed
    <3>3. s = f[r]
      <4> HIDE DEF f
      <4> QED BY <1>1, <3>1, <3>2, EditedFrom
    <3>4. CASE r.id = job[t].target
      BY <3>1, <3>4 DEF Kept
    <3>5. CASE r.id # job[t].target
      BY <1>1, <3>3, <3>5, KeptOld
    <3> QED BY <3>4, <3>5
  <2>4. ASSUME NEW t \in Threads, NEW i \in Ids, SyncSettle(t, i) PROVE Kept(r, s)
    <3> DEFINE f == [q \in rows |->
                      IF q.fixture = i /\ Unrecorded(q)
                      THEN [q EXCEPT !.outcome = Final[i], !.recorded = now, !.fixture = Resolve[i]]
                      ELSE q]
    <3>1. rows' = {f[q] : q \in rows}
      BY <2>4 DEF SyncSettle, Settled
    <3>2. \A q \in rows : f[q].id = q.id
      BY <1>1 DEF LogInv, GoodRows, Good, Row
    <3>3. s = f[r]
      <4> HIDE DEF f
      <4> QED BY <1>1, <3>1, <3>2, EditedFrom
    <3>4. ~ Unrecorded(r)
      BY <1>1 DEF LogInv, GoodRows, Good
    <3> QED BY <1>1, <3>3, <3>4, KeptOld
  <2>5. ASSUME NEW t \in Threads, SyncWrite(t) PROVE Kept(r, s)
    <3> DEFINE f == [q \in rows |-> Measured(q, job[t].computed)]
    <3>1. rows' = {f[q] : q \in rows} /\ job[t].at = "clv"
      BY <2>5 DEF SyncWrite, Rewritten, Measured
    <3>2. \A q \in rows : f[q].id = q.id
      BY <1>1 DEF LogInv, GoodRows, Good, Row, Measured
    <3>3. s = f[r]
      <4> HIDE DEF f
      <4> QED BY <1>1, <3>1, <3>2, EditedFrom
    <3> QED BY <1>1, <3>1, <3>3, MeasuredKept
  <2>6. ASSUME NEW t \in Threads, MineWrite(t) PROVE Kept(r, s)
    <3> DEFINE computed == job[t].computed
               f == [q \in rows |-> MinedOf(q, computed)]
    <3>1. rows' = {f[q] : q \in rows} /\ job[t].at = "mine"
      BY <2>6 DEF MineWrite, MinedOf
    <3>2. \A q \in rows : f[q].id = q.id
      BY <1>1 DEF LogInv, GoodRows, Good, Row, MinedOf, Mined
    <3>3. s = f[r]
      <4> HIDE DEF f
      <4> QED BY <1>1, <3>1, <3>2, EditedFrom
    <3>4. CASE ~ \E c \in computed : c.id = r.id
      <4>1. s = r
        BY <3>3, <3>4 DEF MinedOf
      <4> QED BY <1>1, <4>1, KeptOld
    <3>5. CASE \E c \in computed : c.id = r.id
      <4> DEFINE c == CHOOSE x \in computed : x.id = r.id
      <4>1. c \in computed /\ c.id = r.id
        BY <3>5
      <4>2. s = Mined(r, c)
        BY <3>3, <3>5 DEF MinedOf
      <4> HIDE DEF c
      <4>3. r \in Row
        BY <1>1 DEF LogInv, GoodRows, Good
      <4>4. CASE c.clv.pp = NoPp \/ c.forecast # r.forecast
        <5>1. [s EXCEPT !.clv = r.clv, !.panel = r.panel, !.forecast = r.forecast] = r
          BY <4>2, <4>3 DEF Mined, Row
        <5> QED BY <3>1, <4>1, <4>4, <5>1 DEF Kept
      <4>5. CASE c.clv.pp # NoPp /\ c.forecast = r.forecast
        <5>1. s = [r EXCEPT !.clv = c.clv, !.forecast = r.forecast, !.panel = TRUE]
          BY <4>2, <4>5 DEF Mined
        <5>2. [s EXCEPT !.clv = r.clv, !.panel = r.panel] = r /\ s.clv = c.clv
          BY <4>3, <5>1 DEF Row
        <5> QED BY <4>5, <5>2 DEF Kept
      <4> QED BY <4>4, <4>5
    <3> QED BY <3>4, <3>5
  <2>7. ASSUME NEW t \in Threads, Steps(t) PROVE Kept(r, s)
    <3>1. ASSUME LogWrite(t) PROVE Kept(r, s)
      BY <2>2, <3>1 DEF LogWrite, NewRow
    <3>2. ASSUME ImportInsert(t) PROVE Kept(r, s)
      BY <2>2, <3>2 DEF ImportInsert, Replayed
    <3>3. ASSUME NEW S \in SUBSET rows, Delete(t, S) PROVE Kept(r, s)
      BY <2>1, <3>3 DEF Delete
    <3>4. ASSUME UNCHANGED rows PROVE Kept(r, s)
      BY <2>1, <3>4
    <3>5. ASSUME NEW i \in Ids, NEW o \in Offers, LogLook(t, i, o) PROVE UNCHANGED rows
      BY <3>5 DEF LogLook
    <3>6. ASSUME NEW i \in Ids, NEW p \in Replays, ImportCheck(t, i, p) PROVE UNCHANGED rows
      BY <3>6 DEF ImportCheck
    <3>7. ASSUME NEW i \in Ids, SyncSkip(t, i) PROVE UNCHANGED rows
      BY <3>7 DEF SyncSkip
    <3>8. ASSUME NEW c \in Closings, SyncRead(t, c) PROVE UNCHANGED rows
      BY <3>8 DEF SyncRead
    <3>9. ASSUME ImportLook(t) \/ SyncBegin(t) \/ MineRead(t) PROVE UNCHANGED rows
      BY <3>9 DEF ImportLook, SyncBegin, MineRead
    <3> QED BY <2>3, <2>4, <2>5, <2>6, <2>7, <3>1, <3>2, <3>3, <3>4, <3>5, <3>6, <3>7, <3>8, <3>9
            DEF Steps
  <2>8. ASSUME UNCHANGED rows PROVE Kept(r, s)
    BY <2>1, <2>8
  <2> QED BY <1>1, <2>7, <2>8, NextSteps DEF Tick, Die, vars
<1>2. LogInv /\ [Next]_vars =>
        [\A r \in rows, s \in rows' : (r.id = s.id /\ Scored(r)) => Kept(r, s)]_vars
  BY <1>1
<1>3. Spec => [][\A r \in rows, s \in rows' : (r.id = s.id /\ Scored(r)) => Kept(r, s)]_vars
  BY <1>2, SpecInv, PTL DEF Spec
<1> QED BY <1>3 DEF SettledKept, Kept

-----------------------------------------------------------------------------
(* The forecast a match is judged by *)

IsNewest(r, S, column) ==
  \A s \in S : s[column] < r[column] \/ (s[column] = r[column] /\ s.id <= r.id)

LEMMA NewestRow ==
  ASSUME NEW R, NEW n \in Nat, GoodRows(R, n), NEW S \in SUBSET R, S # {}, NEW column,
         \A r \in S : r[column] \in Int /\ r[column] <= MaxTime
  PROVE  Newest(S, column) \in S /\ IsNewest(Newest(S, column), S, column)
<1> DEFINE Gaps == {MaxTime - r[column] : r \in S}
<1>2. Gaps \subseteq Nat /\ Gaps # {}
  BY Bounds
<1> HIDE DEF Gaps
<1>3. PICK g \in Gaps : \A k \in Gaps : ~ (<<k, g>> \in OpToRel(<, Nat))
  BY <1>2, WFMin, NatLessThanWellFounded
<1>4. PICK r \in S : g = MaxTime - r[column]
  BY DEF Gaps
<1>5. ASSUME NEW s \in S PROVE s[column] <= r[column]
  <2>1. MaxTime - s[column] \in Gaps
    BY DEF Gaps
  <2>2. ~ (MaxTime - s[column] < g)
    BY <1>2, <1>3, <2>1 DEF OpToRel
  <2> QED BY <1>4, <2>2, Bounds
<1> DEFINE T == {s \in S : s[column] = r[column]}
           top == Latest(T)
<1>6. top \in T /\ \A s \in T : s.id <= top.id
  BY LatestRow
<1> HIDE DEF top
<1>7. top \in S /\ IsNewest(top, S, column)
  <2>1. ASSUME NEW s \in S
        PROVE  s[column] < top[column] \/ (s[column] = top[column] /\ s.id <= top.id)
    BY <1>5, <1>6
  <2> QED BY <1>6, <2>1 DEF IsNewest
<1> QED BY <1>7 DEF Newest, IsNewest

\* The rows of a fixture that the backtest may judge it by.
Early(S, i) == {r \in S : r.captured <= Kickoff[i] + Grace}

LEMMA BacktestPick ==
  ASSUME NEW S, NEW i, \A r \in S : r.fixture = i
  PROVE  {r.id : r \in DedupeLatestPreKickoff(S)}
           = IF Early(S, i) = {} THEN {} ELSE {Newest(Early(S, i), "captured").id}
<1> DEFINE T == {r \in S : InTime(r)}
<1>1. T = Early(S, i)
  BY DEF InTime, Early
<1>2. \A r \in T : r.fixture = i
  OBVIOUS
<1>3. DedupeLatestPreKickoff(S) = PerFixture(T, "captured")
  BY DEF DedupeLatestPreKickoff
<1> HIDE DEF T
<1>4. {r \in T : r.fixture = i} = T
  BY <1>2
<1>5. {r.fixture : r \in T} = IF T = {} THEN {} ELSE {i}
  BY <1>2
<1>6. PerFixture(T, "captured") = IF T = {} THEN {} ELSE {Newest(T, "captured")}
  BY <1>4, <1>5 DEF PerFixture
<1> QED BY <1>1, <1>3, <1>6

\* Once a match has begun, its forecast moves only when it is deleted or replayed, or
\* when one made in time arrives late (PickFrozen).
THEOREM BacktestPickFrozen == Spec => PickFrozen
<1> DEFINE before(i) == {r.id : r \in Of(i)}
<1>1. ASSUME LogInv, [Next]_vars, NEW i \in Ids, PickOf(i) # {}, PickOf(i)' # PickOf(i),
             PickOf(i) \cap before(i)' # {}, \A r \in Of(i)' : r.live,
             \A r \in Of(i)' : r.id \notin before(i) => ~ (r.captured <= Kickoff[i] + Grace)
      PROVE  FALSE
  <2>1. LogInv' /\ Evolved(rows, nextId, rows', irregular')
    BY <1>1, NextInv DEF Keeps, RowsEvolved
  <2>2. /\ GoodRows(rows, nextId) /\ nextId \in Nat
        /\ GoodRows(rows', nextId') /\ nextId' \in Nat
    BY <1>1, <2>1 DEF LogInv, Counters
  <2> DEFINE T == Early(Of(i), i)
             U == Early(Of(i)', i)
             p == Newest(T, "captured")
             w == Newest(U, "captured")
  <2>3. /\ PickOf(i) = IF T = {} THEN {} ELSE {p.id}
        /\ PickOf(i)' = IF U = {} THEN {} ELSE {w.id}
    <3>1. /\ PickOf(i) = {r.id : r \in DedupeLatestPreKickoff(Of(i))}
          /\ PickOf(i)' = {r.id : r \in DedupeLatestPreKickoff(Of(i)')}
      BY DEF PickOf
    <3>2. (\A r \in Of(i) : r.fixture = i) /\ (\A r \in Of(i)' : r.fixture = i)
      BY DEF Of
    <3> QED BY <3>1, <3>2, BacktestPick
  <2>4. T \subseteq rows /\ U \subseteq rows' /\ T # {}
    BY <1>1, <2>3 DEF Early, Of
  <2>t. /\ \A r \in rows : r.captured \in Int /\ r.captured <= MaxTime
        /\ \A r \in rows' : r.captured \in Int /\ r.captured <= MaxTime
    BY <2>2, Bounds DEF GoodRows, Good
  <2>5. p \in T /\ IsNewest(p, T, "captured")
    BY <2>2, <2>4, <2>t, NewestRow
  <2>6. ASSUME NEW s \in Of(i)', s.id \in before(i)
        PROVE  \E r \in Of(i) : r.id = s.id /\ r.captured = s.captured
    <3>1. PICK q \in Of(i) : q.id = s.id
      BY <2>6
    <3>2. q \in rows /\ q.id \in Nat /\ q.id < nextId /\ s \in rows'
      BY <2>2 DEF Of, GoodRows, Good, Row
    <3>3. PICK r \in rows : Follows(s, r, irregular')
      BY <2>1, <2>2, <3>1, <3>2 DEF Evolved
    <3>4. r = q
      BY <2>2, <3>1, <3>2, <3>3 DEF GoodRows, UniqueIds, Follows
    <3> QED BY <1>1, <3>1, <3>3, <3>4 DEF Follows
  <2>7. PICK q \in Of(i)' : q.id = p.id
    BY <1>1, <2>3, <2>4
  <2>8. q \in U /\ q.captured = p.captured
    <3>1. p \in Of(i) /\ p.captured <= Kickoff[i] + Grace
      BY <2>5 DEF Early
    <3>2. PICK r \in Of(i) : r.id = q.id /\ r.captured = q.captured
      BY <2>6, <2>7, <3>1
    <3>3. r = p
      BY <2>2, <2>7, <3>1, <3>2 DEF GoodRows, UniqueIds, Of
    <3> QED BY <3>1, <3>2, <3>3 DEF Early
  <2>9. w \in U /\ IsNewest(w, U, "captured")
    BY <2>2, <2>4, <2>8, <2>t, NewestRow
  <2>10. PICK r \in T : r.id = w.id /\ r.captured = w.captured
    <3>1. w \in Of(i)' /\ w.captured <= Kickoff[i] + Grace
      BY <2>9 DEF Early
    <3>2. w.id \in before(i)
      BY <1>1, <3>1
    <3> QED BY <2>6, <3>1, <3>2 DEF Early
  <2>11. w.id = p.id
    <3>1. r.captured < p.captured \/ (r.captured = p.captured /\ r.id <= p.id)
      BY <2>5 DEF IsNewest
    <3>2. q.captured < w.captured \/ (q.captured = w.captured /\ q.id <= w.id)
      BY <2>8, <2>9 DEF IsNewest
    <3>3. /\ p.id \in Nat /\ w.id \in Nat /\ p.captured \in Int /\ w.captured \in Int
      <4>1. p \in rows /\ w \in rows'
        BY <2>4, <2>5, <2>9
      <4> QED BY <2>2, <4>1 DEF GoodRows, Good, Row
    <3> HIDE DEF p, w
    <3> QED BY <2>7, <2>8, <2>10, <3>1, <3>2, <3>3
  <2> QED BY <1>1, <2>3, <2>4, <2>8, <2>11
<1>2. LogInv /\ [Next]_vars =>
        [\A i \in Ids : (now > Kickoff[i] + Grace /\ PickOf(i) # {} /\ PickOf(i)' # PickOf(i)) =>
           \/ PickOf(i) \cap before(i)' = {}
           \/ \E r \in Of(i)' : ~ r.live
           \/ \E r \in Of(i)' : r.id \in before(i)' \ before(i) /\ r.captured <= Kickoff[i] + Grace]_vars
  <2> SUFFICES ASSUME LogInv, [Next]_vars, NEW i \in Ids, PickOf(i) # {}, PickOf(i)' # PickOf(i)
      PROVE  \/ PickOf(i) \cap before(i)' = {}
             \/ \E r \in Of(i)' : ~ r.live
             \/ \E r \in Of(i)' : r.id \in before(i)' \ before(i) /\ r.captured <= Kickoff[i] + Grace
    OBVIOUS
  <2>1. \A r \in Of(i)' : r.id \in before(i)'
    OBVIOUS
  <2> HIDE DEF before
  <2> QED BY <1>1, <2>1
<1>3. Spec => PickFrozen
  <2>1. LogInv /\ [Next]_vars =>
          [\A i \in Ids : (now > Kickoff[i] + Grace /\ PickOf(i) # {} /\ PickOf(i)' # PickOf(i)) =>
             LET old == {r.id : r \in Of(i)} after == {r.id : r \in Of(i)'} IN
             \/ PickOf(i) \cap after = {}
             \/ \E r \in Of(i)' : ~ r.live
             \/ \E r \in Of(i)' : r.id \in after \ old /\ r.captured <= Kickoff[i] + Grace]_vars
    BY <1>2
  <2> QED BY <2>1, SpecInv, PTL DEF Spec, PickFrozen
<1> QED BY <1>3

-----------------------------------------------------------------------------
(* The reports *)

LEMMA RowsFinite ==
  ASSUME LogInv
  PROVE  IsFiniteSet(rows) /\ Cardinality(rows) \in Nat /\ Cardinality(rows) <= MaxRows
<1> DEFINE ids == 1 .. MaxRows
           f == [r \in rows |-> r.id]
<1>1. \A r \in rows : r.id \in ids
  <2>1. nextId \in 1 .. MaxRows + 1
    BY InvTypes DEF LogTypeOK
  <2> QED BY <2>1, Bounds DEF LogInv, GoodRows, Good, Row
<1>2. f \in Injection(rows, ids)
  <2>1. \A r, s \in rows : r.id = s.id => r = s
    BY DEF LogInv, GoodRows, UniqueIds
  <2>2. f \in [rows -> ids]
    BY <1>1
  <2>3. \A r, s \in rows : f[r] = f[s] => r = s
    BY <2>1
  <2> HIDE DEF f, ids
  <2> QED BY <2>2, <2>3 DEF Injection, IsInjective
<1>3. IsFiniteSet(ids) /\ Cardinality(ids) = MaxRows
  <2>1. MaxRows \in Nat
    BY Bounds
  <2>2. IsFiniteSet(ids)
    BY <2>1, FS_Interval
  <2>3. Cardinality(ids) = IF 1 > MaxRows THEN 0 ELSE MaxRows - 1 + 1
    BY <2>1, FS_Interval
  <2> QED BY <2>1, <2>2, <2>3
<1> HIDE DEF f, ids
<1>4. IsFiniteSet(rows) /\ Cardinality(rows) <= Cardinality(ids)
  BY <1>2, <1>3, FS_Injection
<1> QED BY <1>3, <1>4, FS_CardinalityType

LEMMA Counts ==
  ASSUME NEW S, IsFiniteSet(S), NEW T, T \subseteq S
  PROVE  /\ IsFiniteSet(T) /\ Cardinality(T) \in Nat /\ Cardinality(S) \in Nat
         /\ Cardinality(T) <= Cardinality(S)
BY FS_Subset, FS_CardinalityType

\* One row per fixture, of those there are.
LEMMA OnePerFixture ==
  ASSUME LogInv, NEW S \in SUBSET rows, NEW column,
         \A r \in S : r[column] \in Int /\ r[column] <= MaxTime
  PROVE  /\ PerFixture(S, column) \subseteq S
         /\ \A r, s \in PerFixture(S, column) : r.fixture = s.fixture => r = s
         /\ \A r \in PerFixture(S, column), s \in S : s.fixture = r.fixture =>
              s[column] < r[column] \/ (s[column] = r[column] /\ s.id <= r.id)
<1> DEFINE At(i) == {r \in S : r.fixture = i}
<1>1. ASSUME NEW i \in {r.fixture : r \in S}
      PROVE  Newest(At(i), column) \in At(i) /\ IsNewest(Newest(At(i), column), At(i), column)
  <2>1. At(i) # {} /\ At(i) \in SUBSET rows
    OBVIOUS
  <2>2. \A r \in At(i) : r[column] \in Int /\ r[column] <= MaxTime
    OBVIOUS
  <2>3. GoodRows(rows, nextId) /\ nextId \in Nat
    BY DEF LogInv, Counters
  <2> HIDE DEF At
  <2> QED BY <2>1, <2>2, <2>3, NewestRow
<1>2. PerFixture(S, column) = {Newest(At(i), column) : i \in {r.fixture : r \in S}}
  BY DEF PerFixture
<1>3. \A r \in PerFixture(S, column) :
        /\ r = Newest(At(r.fixture), column) /\ r \in S
        /\ IsNewest(r, At(r.fixture), column)
  <2>1. TAKE r \in PerFixture(S, column)
  <2>2. PICK i \in {x.fixture : x \in S} : r = Newest(At(i), column)
    BY <1>2
  <2>3. r \in At(i) /\ IsNewest(r, At(i), column)
    BY <1>1, <2>2
  <2>4. r.fixture = i /\ r \in S
    BY <2>3
  <2> HIDE DEF At
  <2> QED BY <2>2, <2>3, <2>4
<1>4. ASSUME NEW r \in PerFixture(S, column), NEW s \in S, s.fixture = r.fixture
      PROVE  s[column] < r[column] \/ (s[column] = r[column] /\ s.id <= r.id)
  BY <1>3, <1>4 DEF IsNewest
<1>5. ASSUME NEW r \in PerFixture(S, column), NEW s \in PerFixture(S, column),
             r.fixture = s.fixture
      PROVE  r = s
  <2> HIDE DEF At
  <2> QED BY <1>3, <1>5
<1> QED BY <1>3, <1>4, <1>5

\* The rows as the reports read them.
LEMMA ReportRows ==
  ASSUME LogInv, NEW r \in rows
  PROVE  /\ Good(r, nextId) /\ r.id \in Nat /\ r.captured \in -Lock..MaxTime
         /\ r.fixture \in Ids /\ r.logged \in Ids /\ Kickoff[r.fixture] \in Nat
         /\ Scored(r) => r.recorded \in 0..MaxTime
  <1>1. Good(r, nextId)
    BY DEF LogInv, GoodRows
  <1>2. r.fixture \in Ids /\ r.logged \in Ids /\ r.id \in Nat
    BY <1>1 DEF Good, Row
  <1>3. Scored(r) => r.recorded \in 0..MaxTime
    BY <1>1 DEF Good, Unrecorded
  <1> QED BY <1>1, <1>2, <1>3, Bounds, Matches DEF Good

\* What the backtest counts has its result, is in its window, was made in time, and is
\* the last such row of its fixture.
LEMMA BacktestScored ==
  ASSUME LogInv, NEW days, NEW r \in BacktestReport(days).scored
  PROVE  /\ r \in rows /\ Scored(r)
         /\ \A s \in BacktestReport(days).scored : s.fixture = r.fixture => s = r
         /\ \A s \in rows : (s.fixture = r.fixture /\ InTime(s)) => s.captured <= r.captured
<1> DEFINE S == {x \in KickedOffSince(now - days) : InTime(x)}
           D == PerFixture(S, "captured")
<1>1. S \in SUBSET rows /\ \A x \in S : x.captured \in Int /\ x.captured <= MaxTime
  BY ReportRows, Bounds DEF KickedOffSince
<1>2. D = DedupeLatestPreKickoff(KickedOffSince(now - days))
  BY DEF DedupeLatestPreKickoff
<1>3. BacktestReport(days).scored \subseteq {x \in D : Scored(x)}
  BY <1>2 DEF BacktestReport, ScoredOf
<1> HIDE DEF D
<1>4. /\ D \subseteq S /\ \A x, y \in D : x.fixture = y.fixture => x = y
      /\ \A x \in D, y \in S : y.fixture = x.fixture =>
           y.captured < x.captured \/ (y.captured = x.captured /\ y.id <= x.id)
  <2> HIDE DEF S
  <2> QED BY <1>1, OnePerFixture DEF D
<1>5. r \in D /\ r \in S /\ Scored(r) /\ r \in rows
  BY <1>1, <1>3, <1>4
<1>6. ASSUME NEW s \in rows, s.fixture = r.fixture, InTime(s) PROVE s.captured <= r.captured
  <2>1. s \in S
    BY <1>5, <1>6 DEF KickedOffSince
  <2>2. s.captured \in Int /\ r.captured \in Int
    BY <1>1, <1>5, <2>1
  <2> QED BY <1>4, <1>5, <1>6, <2>1, <2>2
<1> QED BY <1>3, <1>4, <1>5, <1>6

\* The backtest judges a match once (JudgedOnce): rows with a result stand under their
\* match's id, whoever moved them there, and of a fixture's rows one is kept.
THEOREM LogJudgedOnce == Spec => []JudgedOnce
<1>1. ASSUME LogInv PROVE JudgedOnce
  <2> SUFFICES ASSUME NEW days \in 0..MaxTime, NEW r \in BacktestReport(days).scored,
                      NEW s \in BacktestReport(days).scored, Resolve[r.logged] = Resolve[s.logged]
               PROVE  r = s
    BY DEF JudgedOnce
  <2>1. r \in rows /\ s \in rows /\ Scored(r) /\ Scored(s)
    BY <1>1, BacktestScored
  <2>2. r.fixture = Resolve[r.logged] /\ s.fixture = Resolve[s.logged]
    BY <1>1, <2>1, ReportRows DEF Good
  <2> QED BY <1>1, <2>2, BacktestScored
<1> QED BY <1>1, SpecInv, PTL

\* Of a fixture's rows that were recorded together, only the last is among the recent
\* results: it is asked for whenever an older one is.
LEMMA RecentIsLast ==
  ASSUME LogInv, NEW n, NEW r \in RecentResults(n), NEW w \in rows,
         w.fixture = r.fixture, Scored(w), w.recorded = r.recorded, n \in Nat
  PROVE  w.id <= r.id
<1> DEFINE S == ScoredOf(rows)
           asked == {x \in S : Cardinality(Before(x, S)) < Fetched * n}
<1>1. S \subseteq rows /\ IsFiniteSet(S) /\ asked \in SUBSET rows
  BY RowsFinite, FS_Subset DEF ScoredOf
<1>2. \A x \in asked : x.recorded \in Int /\ x.recorded <= MaxTime
  BY ReportRows, Bounds DEF ScoredOf
<1>3. RecentResults(n) \subseteq PerFixture(asked, "recorded")
  BY DEF RecentResults
<1>4. /\ PerFixture(asked, "recorded") \subseteq asked
      /\ \A x \in PerFixture(asked, "recorded"), y \in asked : y.fixture = x.fixture =>
           y.recorded < x.recorded \/ (y.recorded = x.recorded /\ y.id <= x.id)
  <2> HIDE DEF asked
  <2> QED BY <1>1, <1>2, OnePerFixture
<1>5. r \in asked /\ r \in rows /\ w \in S
  BY <1>1, <1>3, <1>4 DEF ScoredOf
<1>6. r.id \in Nat /\ w.id \in Nat /\ r.recorded \in Nat
  BY <1>2, <1>5, ReportRows DEF ScoredOf
<1>7. CASE w.id <= r.id
  BY <1>7
<1>8. CASE ~ (w.id <= r.id)
  <2> DEFINE A == Before(w, S)
             B == Before(r, S)
  <2>1. \A x \in S : x.id \in Nat /\ x.recorded \in Nat
    BY ReportRows DEF ScoredOf
  <2>2. A \subseteq B
    BY <1>6, <1>8, <2>1 DEF Before
  <2>3. IsFiniteSet(B)
    BY <1>1, FS_Subset DEF Before
  <2> HIDE DEF A, B
  <2>4. Cardinality(A) <= Cardinality(B) /\ Cardinality(A) \in Nat /\ Cardinality(B) \in Nat
    BY <2>2, <2>3, Counts
  <2>5. Cardinality(B) < Fetched * n
    BY <1>5 DEF B
  <2>6. Fetched * n \in Nat
    BY ReportAssumption
  <2>7. Cardinality(A) < Fetched * n
    <3> DEFINE k == Fetched * n
    <3> HIDE DEF k
    <3> QED BY <2>4, <2>5, <2>6 DEF k
  <2>8. w \in asked
    BY <1>5, <2>7 DEF A
  <2>9. r \in PerFixture(asked, "recorded")
    BY <1>3
  <2> HIDE DEF asked
  <2> QED BY <1>4, <1>6, <2>8, <2>9
<1> QED BY <1>7, <1>8

\* A fixture logged in order and settled at once is judged by its last forecast on
\* every page (VerdictsAgree), because the interval makes the last row the one with
\* the latest capture time.
THEOREM LogVerdictsAgree == Spec => []VerdictsAgree
<1>1. ASSUME LogInv PROVE VerdictsAgree
  <2> SUFFICES ASSUME NEW i \in Ids, MinInterval > 0, Regular(i), NEW r \in Of(i),
                      r # Latest(Of(i))
               PROVE  /\ r \notin KickoffToday
                      /\ \A n \in 1..MaxRows : r \notin RecentResults(n)
                      /\ \A days \in 0..MaxTime : r \notin BacktestReport(days).scored
    BY DEF VerdictsAgree
  <2> DEFINE w == Latest(Of(i))
  <2>1. w \in Of(i) /\ r.id <= w.id
    <3>1. Of(i) \in SUBSET rows /\ Of(i) # {}
      BY DEF Of
    <3>2. GoodRows(rows, nextId) /\ nextId \in Nat
      BY <1>1 DEF LogInv, Counters
    <3> QED BY <3>1, <3>2, LatestRow
  <2>2. w # r
    OBVIOUS
  <2> HIDE DEF w
  <2>3. w \in rows /\ r \in rows /\ w.fixture = i /\ r.fixture = i
    BY <2>1 DEF Of
  <2>4. /\ r.id \in Nat /\ w.id \in Nat /\ r.captured \in Int /\ w.captured \in Int
    BY <1>1, <2>3, ReportRows, Bounds
  <2>5. r.id < w.id
    <3>1. r.id # w.id
      BY <1>1, <2>2, <2>3 DEF LogInv, GoodRows, UniqueIds
    <3> QED BY <2>1, <2>4, <3>1
  <2>6. /\ irregular \cap r.id..w.id = {} /\ Scored(r) /\ Scored(w) /\ w.recorded = r.recorded
        /\ w.captured <= Kickoff[i] + Grace
    BY <2>1 DEF Regular
  <2>7. r.captured < w.captured
    <3>1. w.captured - r.captured >= MinInterval
      BY <1>1, <2>3, <2>5, <2>6 DEF LogInv, Spaced, Apart
    <3> QED BY <2>4, <3>1, Bounds
  <2>8. r \notin KickoffToday
    BY <2>3, <2>4, <2>7 DEF KickoffToday, AnyGreatest
  <2>9. ASSUME NEW n \in 1..MaxRows, r \in RecentResults(n) PROVE FALSE
    <3>1. w.id <= r.id
      BY <1>1, <2>3, <2>6, <2>9, RecentIsLast
    <3> QED BY <2>4, <2>5, <3>1
  <2>10. ASSUME NEW days \in 0..MaxTime, r \in BacktestReport(days).scored PROVE FALSE
    <3>1. InTime(w)
      BY <2>3, <2>6 DEF InTime
    <3>2. w.captured <= r.captured
      BY <1>1, <2>3, <2>10, <3>1, BacktestScored
    <3> QED BY <2>4, <2>7, <3>2
  <2> QED BY <2>8, <2>9, <2>10
<1> QED BY <1>1, SpecInv, PTL

\* What the fair figure is recomputed to, and why it is there.
LEMMA FairOfRow ==
  ASSUME LogInv, NEW r \in rows
  PROVE  /\ (r.clv.pp # NoPp /\ EnrichPriceTruth(r.clv).fair = NoTriplet) =>
              ~ (TripletComplete(r.clv.opening) /\ TripletComplete(r.clv.closing))
         /\ (r.clv.pp = NoPp /\ EnrichPriceTruth(r.clv).fair # NoTriplet) =>
              r.clv.closing[r.clv.best] = NoOdds
<1> DEFINE c == r.clv
           e == EnrichPriceTruth(c)
<1>1. Block(c) /\ Sound(c) /\ c \in ClvBlock
  BY ReportRows DEF Good, Block, Sound
<1>2. Block(e) /\ Sound(e) /\ SameBet(e, c) /\ e.pp = c.pp /\ e.closing = c.closing
  BY <1>1, EnrichBlock DEF Block
<1> HIDE DEF c, e
<1>3. ASSUME c.pp # NoPp, TripletComplete(c.opening), TripletComplete(c.closing)
      PROVE  e.fair # NoTriplet
  <2>1. c.best \in Sides
    BY <1>1, <1>3 DEF Sound, BetPriced
  <2>2. \A s \in Sides : DecimalOddsSide(DecimalOddsSide(c.opening[s])) = DecimalOddsSide(c.opening[s])
    BY DEF DecimalOddsSide, NoOdds, Evens
  <2>3. \A s \in Sides : DecimalOddsSide(DecimalOddsSide(c.closing[s])) = DecimalOddsSide(c.closing[s])
    BY DEF DecimalOddsSide, NoOdds, Evens
  <2>4. Measurable(e)
    BY <1>2, <1>3, <2>1, <2>2, <2>3 DEF Measurable, SameBet, TripletComplete, TripletFromMapping
  <2> QED BY <1>2, <2>4 DEF Block
<1>4. ASSUME c.pp = NoPp, e.fair # NoTriplet PROVE c.closing[c.best] = NoOdds
  <2>1. e.best \in Sides /\ TripletComplete(TripletFromMapping(e.opening))
    BY <1>2, <1>4 DEF Sound
  <2>2. e.opening[e.best] # NoOdds
    BY <2>1 DEF TripletComplete, TripletFromMapping, DecimalOddsSide, NoOdds, Evens
  <2>3. BetPriced(e)
    BY <2>1, <2>2 DEF BetPriced, Stake
  <2> QED BY <1>2, <1>4, <2>3 DEF Sound, SameBet
<1> QED BY <1>3, <1>4 DEF c, e

\* The stored and the recomputed headline count the same rows of every window, but for
\* missing prices (HeadlinesAgree).
THEOREM LogHeadlinesAgree == Spec => []HeadlinesAgree
<1>1. ASSUME LogInv PROVE HeadlinesAgree
  <2> SUFFICES ASSUME ClvOn, NEW days \in 0..MaxTime, NEW since \in {Unset} \cup 0..MaxTime
               PROVE  LET raw == ClvSummary(days, since, FALSE).rows
                          fair == ClvFairSummary(days, since)
                      IN /\ \A r \in raw \ fair :
                              ~ (TripletComplete(r.clv.opening) /\ TripletComplete(r.clv.closing))
                         /\ \A r \in fair \ raw : r.clv.closing[r.clv.best] = NoOdds
    BY DEF HeadlinesAgree
  <2> DEFINE S == ScoredOf(KickedOffSince(Cutoff(days, since)))
  <2>1. S \subseteq rows
    BY DEF ScoredOf, KickedOffSince
  <2>2. ClvSummary(days, since, FALSE).rows = {r \in S : r.clv.pp # NoPp}
    BY DEF ClvSummary, ClvCounted
  <2>3. ClvFairSummary(days, since) = {r \in S : EnrichPriceTruth(r.clv).fair # NoTriplet}
    BY DEF ClvFairSummary
  <2> HIDE DEF S
  <2> QED BY <1>1, <2>1, <2>2, <2>3, FairOfRow
<1> QED BY <1>1, SpecInv, PTL

-----------------------------------------------------------------------------
(* The gates *)

LEMMA Ranks ==
  /\ Rank("D") = 1 /\ Rank("C") = 2 /\ Rank("C+") = 3 /\ Rank("B") = 4 /\ Rank("B+") = 5
  /\ Rank("A") = 6
<1>1. DOMAIN Grades = 1..6
  BY DEF Grades
<1>2. /\ Grades[1] = "D" /\ Grades[2] = "C" /\ Grades[3] = "C+" /\ Grades[4] = "B"
      /\ Grades[5] = "B+" /\ Grades[6] = "A"
  BY DEF Grades
<1>3. ASSUME NEW n \in 1..6, NEW m \in 1..6, Grades[n] = Grades[m] PROVE n = m
  BY <1>2, <1>3
<1>4. ASSUME NEW n \in 1..6 PROVE Rank(Grades[n]) = n
  BY <1>1, <1>3 DEF Rank
<1> QED BY <1>2, <1>4

\* A gate more never costs the evidence grade a rank.
LEMMA EvidenceMonotone == GradeMonotone
<1> SUFFICES ASSUME NEW gates \in [GateIds -> BOOLEAN], NEW g \in GateIds
             PROVE  Rank(EvidenceGrade(gates))
                      <= Rank(EvidenceGrade([gates EXCEPT ![g] = TRUE]))
  BY DEF GradeMonotone
<1> DEFINE more == [gates EXCEPT ![g] = TRUE]
           Passed(x) == {y \in GateIds : x[y]}
           All == \A y \in Evidence : gates[y]
           AllMore == \A y \in Evidence : more[y]
           n == Cardinality(GateIds)
           p == Cardinality(Passed(gates))
           q == Cardinality(Passed(more))
<1>1. \A y \in GateIds : gates[y] => more[y]
  OBVIOUS
<1>2. Critical \subseteq GateIds /\ Evidence \subseteq GateIds
  BY DEF GateIds
<1>3. CriticalPass(gates) => CriticalPass(more)
  BY <1>1, <1>2 DEF CriticalPass
<1>4. All => AllMore
  BY <1>1, <1>2
<1>5. IsFiniteSet(GateIds)
  <2>1. GateIds = {"F1"} \cup {"F2"} \cup {"F3"} \cup {"F7"} \cup {"F7b"} \cup {"F8"} \cup {"F9"}
                    \cup {"F9b"} \cup {"F9c"} \cup {"F9d"}
    BY DEF GateIds, Critical, Evidence, Informational
  <2>2. \A b : IsFiniteSet({b})
    BY FS_Singleton
  <2> QED BY <2>1, <2>2, FS_Union
<1>6. p \in Nat /\ q \in Nat /\ p <= q /\ n \in Nat
  <2>1. Passed(gates) \subseteq Passed(more) /\ Passed(more) \subseteq GateIds
    BY <1>1
  <2> DEFINE P == Passed(gates)
             Q == Passed(more)
  <2>2. IsFiniteSet(Q)
    BY <1>5, <2>1, FS_Subset
  <2> HIDE DEF P, Q
  <2>3. Cardinality(P) \in Nat /\ Cardinality(Q) \in Nat /\ Cardinality(P) <= Cardinality(Q)
    BY <2>1, <2>2, Counts DEF P, Q
  <2> QED BY <1>5, <2>3, FS_CardinalityType DEF P, Q
<1>7. EvidenceGrade(gates)
        = IF ~ CriticalPass(gates) THEN "D" ELSE IF All THEN "A"
          ELSE IF 100 * p >= 85 * n THEN "B+" ELSE IF 100 * p >= 70 * n THEN "B"
          ELSE IF 100 * p >= 55 * n THEN "C+" ELSE "C"
  BY DEF EvidenceGrade
<1>8. EvidenceGrade(more)
        = IF ~ CriticalPass(more) THEN "D" ELSE IF AllMore THEN "A"
          ELSE IF 100 * q >= 85 * n THEN "B+" ELSE IF 100 * q >= 70 * n THEN "B"
          ELSE IF 100 * q >= 55 * n THEN "C+" ELSE "C"
  BY DEF EvidenceGrade
<1>9. Rank(EvidenceGrade(gates)) <= Rank(EvidenceGrade(more))
  <2> HIDE DEF All, AllMore, n, p, q, more
  <2> DEFINE R(crit, all, k) ==
               IF ~ crit THEN 1 ELSE IF all THEN 6 ELSE IF 100 * k >= 85 * n THEN 5
               ELSE IF 100 * k >= 70 * n THEN 4 ELSE IF 100 * k >= 55 * n THEN 3 ELSE 2
  <2>1. Rank(EvidenceGrade(gates)) = R(CriticalPass(gates), All, p)
    BY <1>7, Ranks
  <2>2. Rank(EvidenceGrade(more)) = R(CriticalPass(more), AllMore, q)
    BY <1>8, Ranks
  <2>3. R(CriticalPass(gates), All, p) <= R(CriticalPass(more), AllMore, q)
    BY <1>3, <1>4, <1>6
  <2> QED BY <2>1, <2>2, <2>3
<1> QED BY <1>9

\* No closing line gate passes on fewer rows than the sample gate asks for, nor with
\* closing line values switched off.
LEMMA NestedGates ==
  ASSUME LogInv
  PROVE  GatesNested
<1> DEFINE g == Gates
           clv == ClvSummary(LongWindow, Since, FALSE)
           value == ClvSummary(LongWindow, Since, TRUE)
           Enough(h) == Cardinality(h.rows) >= ClvMinRows
<1>1. /\ g["F8"] <=> Enough(clv)
      /\ g["F9"] => Enough(clv)
      /\ g["F9c"] => Enough(value)
      /\ g["F9d"] => Enough(value)
  <2>1. {"F8", "F9", "F9c", "F9d"} \subseteq GateIds
    BY DEF GateIds, Evidence, Informational
  <2>2. g["F8"] = Enough(clv)
    BY <2>1 DEF Gates, Informational
  <2>3. g["F9"] = BeatsClose(clv, BeatPct)
    BY <2>1 DEF Gates, Informational
  <2>4. g["F9c"] = BeatsClose(value, ValueBeatPct)
    BY <2>1 DEF Gates, Informational, InformationalGates
  <2>5. g["F9d"] = (/\ value.priced # {} /\ MuPositive(value.priced)
                    /\ Cardinality(value.rows) >= ClvMinRows)
    BY <2>1 DEF Gates, Informational, InformationalGates
  <2> QED BY <2>2, <2>3, <2>4, <2>5 DEF BeatsClose
<1>2. Enough(value) => Enough(clv)
  <2> DEFINE P == value.rows
             Q == clv.rows
  <2>1. P \subseteq Q /\ Q \subseteq rows
    BY DEF ClvSummary, ClvCounted, ScoredOf, KickedOffSince
  <2>2. IsFiniteSet(Q)
    BY <2>1, RowsFinite, FS_Subset
  <2> HIDE DEF P, Q
  <2>3. Cardinality(P) \in Nat /\ Cardinality(Q) \in Nat /\ Cardinality(P) <= Cardinality(Q)
    BY <2>1, <2>2, Counts
  <2>4. Cardinality(P) >= ClvMinRows => Cardinality(Q) >= ClvMinRows
    BY <2>3, EvidenceAssumption
  <2> QED BY <2>4 DEF P, Q
<1>3. (g["F9"] \/ g["F9c"] \/ g["F9d"]) => g["F8"]
  BY <1>1, <1>2
<1>4. ASSUME ClvMinRows > 0, g["F8"] PROVE g["F1"] /\ g["F2"]
  <2> DEFINE R == clv.rows
  <2>1. ~ ClvOn => R = {}
    BY DEF ClvSummary, ClvCounted, ScoredOf
  <2> HIDE DEF R
  <2>2. Cardinality(R) >= ClvMinRows
    BY <1>1, <1>4 DEF R
  <2>3. R # {}
    <3>1. Cardinality({}) = 0
      BY FS_EmptySet
    <3> QED BY <1>4, <2>2, <3>1, EvidenceAssumption
  <2>4. {"F1", "F2"} \subseteq GateIds
    BY DEF GateIds, Critical
  <2>5. g["F1"] = AuditOn /\ g["F2"] = ClvOn
    BY <2>4 DEF Gates, Informational
  <2> QED BY <2>1, <2>3, <2>5, ReportAssumption
<1> HIDE DEF g
<1> QED BY <1>3, <1>4 DEF GatesNested, g

LEMMA ContractFinite == IsFiniteSet(ContractIssues) /\ IsFiniteSet(ContractWarnings)
<1>1. IsFiniteSet(ContractIssues)
  <2> DEFINE of(c) == {<<c, f>> : f \in BadFields[c]}
             all == {of(c) : c \in Codes}
  <2>1. ASSUME NEW c \in Codes PROVE IsFiniteSet(of(c))
    <3> DEFINE onto == [f \in BadFields[c] |-> <<c, f>>]
    <3>1. onto \in Surjection(BadFields[c], of(c))
      BY DEF Surjection
    <3> HIDE DEF onto, of
    <3> QED BY <3>1, ContractAssumption, FS_Surjection
  <2>2. IsFiniteSet(all)
    <3> DEFINE onto == [c \in Codes |-> of(c)]
    <3>1. onto \in Surjection(Codes, all)
      BY DEF Surjection
    <3> HIDE DEF onto, all
    <3> QED BY <3>1, ContractAssumption, FS_Surjection
  <2>3. ContractIssues = UNION all
    BY DEF ContractIssues
  <2>4. \A s \in all : IsFiniteSet(s)
    BY <2>1
  <2> HIDE DEF all
  <2> QED BY <2>2, <2>3, <2>4, FS_UNION
<1>2. IsFiniteSet(ContractWarnings)
  <2> DEFINE A == {<<"not excluded", c>> : c \in (Codes \cap TierC) \ Excluded}
             B == {<<"elite excluded", c>> : c \in TierA \cap Excluded}
             C == {<<"no profiles", c>> : c \in IF Codes = {} THEN {"all"} ELSE {}}
  <2>1. IsFiniteSet(A)
    <3> DEFINE from == (Codes \cap TierC) \ Excluded
               onto == [c \in from |-> <<"not excluded", c>>]
    <3>1. onto \in Surjection(from, A)
      BY DEF Surjection
    <3>2. IsFiniteSet(from)
      BY ContractAssumption, FS_Subset
    <3> HIDE DEF onto, from, A
    <3> QED BY <3>1, <3>2, FS_Surjection
  <2>2. IsFiniteSet(B)
    <3> DEFINE from == TierA \cap Excluded
               onto == [c \in from |-> <<"elite excluded", c>>]
    <3>1. onto \in Surjection(from, B)
      BY DEF Surjection
    <3>2. IsFiniteSet(from)
      BY ContractAssumption, FS_Subset
    <3> HIDE DEF onto, from, B
    <3> QED BY <3>1, <3>2, FS_Surjection
  <2>3. IsFiniteSet(C)
    <3>1. C \subseteq {<<"no profiles", "all">>}
      OBVIOUS
    <3> HIDE DEF C
    <3> QED BY <3>1, FS_Singleton, FS_Subset
  <2>4. ContractWarnings = A \cup B \cup C
    BY DEF ContractWarnings
  <2> HIDE DEF A, B, C
  <2> QED BY <2>1, <2>2, <2>3, <2>4, FS_Union
<1> QED BY <1>1, <1>2

LEMMA NamedFinite == \A found, name : IsFiniteSet(Named(found, name))
BY FS_Singleton, FS_EmptySet DEF Named

LEMMA ConfigFinite ==
  ASSUME NEW e
  PROVE  IsFiniteSet(ConfigIssues(e)) /\ IsFiniteSet(ConfigWarnings(e))
<1>1. \A S, T : IsFiniteSet(S) /\ IsFiniteSet(T) => IsFiniteSet(S \cup T)
  BY FS_Union
<1>2. IsFiniteSet(ConfigIssues(e))
  <2> DEFINE A == Named(e.production /\ e.devDq, "dev data quality")
             B == Named(e.auth \in {"no secret", "neither"}, "secret key")
             C == Named(e.auth \in {"no password", "neither"}, "password")
             D == Named(e.production /\ ~ e.audit, "audit log")
             E == Named(Offline(e), "line shop offline")
  <2>1. /\ IsFiniteSet(A) /\ IsFiniteSet(B) /\ IsFiniteSet(C) /\ IsFiniteSet(D)
        /\ IsFiniteSet(E)
    BY NamedFinite
  <2>2. ConfigIssues(e) = A \cup B \cup C \cup D \cup E \cup ContractIssues
    BY DEF ConfigIssues
  <2> HIDE DEF A, B, C, D, E
  <2> QED BY <1>1, <2>1, <2>2, ContractFinite
<1>3. IsFiniteSet(ConfigWarnings(e))
  <2> DEFINE A == Named(e.production /\ e.fetchAll, "fetches all leagues")
             B == Named(e.production /\ e.auth = "off", "dashboard is public")
             C == Named(~ e.production /\ ~ e.audit, "audit log")
             D == Named(e.production /\ e.audit /\ e.clv # "on", "closing line value")
             E == Named(e.production /\ e.leagues = "unset", "value leagues")
             F == Named(e.production /\ e.leagues \in {"extra", "both"}, "leagues beyond the trial")
             G == Named(e.production /\ e.leagues \in {"missing", "both"}, "leagues missing")
             H == Named(e.production /\ ~ e.calibrated, "calibration cache")
             I == Named(e.production /\ ~ e.sharpen, "sharpen gates")
  <2>1. /\ IsFiniteSet(A) /\ IsFiniteSet(B) /\ IsFiniteSet(C) /\ IsFiniteSet(D)
        /\ IsFiniteSet(E) /\ IsFiniteSet(F) /\ IsFiniteSet(G) /\ IsFiniteSet(H)
        /\ IsFiniteSet(I)
    BY NamedFinite
  <2>2. ConfigWarnings(e) = A \cup B \cup C \cup D \cup E \cup F \cup G \cup H \cup I
                              \cup ContractWarnings
    BY DEF ConfigWarnings
  <2> HIDE DEF A, B, C, D, E, F, G, H, I
  <2> DEFINE P == A \cup B \cup C \cup D
             Q == E \cup F \cup G
             R == H \cup I \cup ContractWarnings
  <2>3. IsFiniteSet(P)
    BY <1>1, <2>1
  <2>4. IsFiniteSet(Q)
    BY <1>1, <2>1
  <2>5. IsFiniteSet(R)
    BY <1>1, <2>1, ContractFinite
  <2>6. ConfigWarnings(e) = P \cup Q \cup R
    BY <2>2
  <2> HIDE DEF P, Q, R
  <2> QED BY <1>1, <2>3, <2>4, <2>5, <2>6
<1> QED BY <1>2, <1>3

\* The engineering grade by what there is of issues and warnings: no more issues, and
\* no more warnings unless there were issues, is no worse.
LEMMA GradeOfFewer ==
  ASSUME NEW e, NEW f, ConfigIssues(f) \subseteq ConfigIssues(e),
         ConfigIssues(e) # {} \/ ConfigWarnings(f) \subseteq ConfigWarnings(e)
  PROVE  GradeRank(EngineeringGrade(e)) <= GradeRank(EngineeringGrade(f))
<1> DEFINE i == Cardinality(ConfigIssues(e))
           w == Cardinality(ConfigWarnings(e))
           j == Cardinality(ConfigIssues(f))
           v == Cardinality(ConfigWarnings(f))
           R(m, n) == IF m > 2 THEN 0 ELSE IF m > 0 THEN 1 ELSE IF n > 4 THEN 2
                      ELSE IF n > 0 THEN 3 ELSE 4
<1>1. i \in Nat /\ w \in Nat /\ j \in Nat /\ v \in Nat /\ j <= i
  BY ConfigFinite, Counts
<1>2. i > 0 \/ v <= w
  <2>1. CASE ConfigIssues(e) # {}
    <3>1. i # 0
      BY <2>1, ConfigFinite, FS_EmptySet
    <3> QED BY <1>1, <3>1
  <2>2. CASE ConfigWarnings(f) \subseteq ConfigWarnings(e)
    BY <2>2, ConfigFinite, Counts
  <2> QED BY <2>1, <2>2
<1>3. EngineeringGrade(e) = IF i > 2 THEN "D" ELSE IF i > 0 THEN "C" ELSE IF w > 4 THEN "B"
                            ELSE IF w > 0 THEN "B+" ELSE "A"
  BY DEF EngineeringGrade
<1>4. EngineeringGrade(f) = IF j > 2 THEN "D" ELSE IF j > 0 THEN "C" ELSE IF v > 4 THEN "B"
                            ELSE IF v > 0 THEN "B+" ELSE "A"
  BY DEF EngineeringGrade
<1> HIDE DEF i, w, j, v
<1>5. /\ GradeRank("D") = 0 /\ GradeRank("C") = 1 /\ GradeRank("B") = 2 /\ GradeRank("B+") = 3
      /\ GradeRank("A") = 4
  BY DEF GradeRank
<1>6. GradeRank(EngineeringGrade(e)) = R(i, w) /\ GradeRank(EngineeringGrade(f)) = R(j, v)
  BY <1>3, <1>4, <1>5
<1>7. R(i, w) <= R(j, v)
  BY <1>1, <1>2
<1> QED BY <1>6, <1>7

\* Correcting one setting of a production environment never lowers the grade: every
\* correction takes away from the issues or the warnings and adds to neither, but for
\* the audit log's, whose own issue hid the warning that may come.
LEMMA CorrectionHelps == CorrectionNeverHurts
<1> SUFFICES ASSUME NEW e \in Settings, e.production, NEW k \in DOMAIN Recommended
             PROVE  GradeRank(EngineeringGrade(e))
                      <= GradeRank(EngineeringGrade([e EXCEPT ![k] = Recommended[k]]))
  BY DEF CorrectionNeverHurts
<1> DEFINE f == [e EXCEPT ![k] = Recommended[k]]
           Fields == {"production", "devDq", "fetchAll", "auth", "audit", "clv", "leagues",
                      "calibrated", "sharpen", "fve", "paused"}
<1>1. /\ k \in {"production", "devDq", "fetchAll", "auth", "audit", "clv", "leagues",
                "calibrated", "sharpen", "paused"}
      /\ f[k] = Recommended[k] /\ \A x \in Fields \ {k} : f[x] = e[x]
  BY DEF Recommended, Settings
<1>2. /\ f.production = e.production \/ (k = "production" /\ f.production = TRUE)
      /\ f.devDq = e.devDq \/ (k = "devDq" /\ f.devDq = FALSE)
      /\ f.fetchAll = e.fetchAll \/ (k = "fetchAll" /\ f.fetchAll = FALSE)
      /\ f.auth = e.auth \/ (k = "auth" /\ f.auth = "ok")
      /\ f.audit = e.audit \/ (k = "audit" /\ f.audit = TRUE)
      /\ f.clv = e.clv \/ (k = "clv" /\ f.clv = "on")
      /\ f.leagues = e.leagues \/ (k = "leagues" /\ f.leagues = "trial")
      /\ f.calibrated = e.calibrated \/ (k = "calibrated" /\ f.calibrated = TRUE)
      /\ f.sharpen = e.sharpen \/ (k = "sharpen" /\ f.sharpen = TRUE)
      /\ f.paused = e.paused \/ (k = "paused" /\ f.paused = FALSE)
      /\ f.fve = e.fve
  <2>1. f.production = e.production \/ (k = "production" /\ f.production = TRUE)
    <3>1. CASE k = "production"
      <4>1. f["production"] = TRUE
        BY <1>1, <3>1 DEF Recommended
      <4> QED BY <3>1, <4>1
    <3>2. CASE k # "production"
      <4>1. f["production"] = e["production"]
        BY <1>1, <3>2
      <4> QED BY <4>1
    <3> QED BY <3>1, <3>2
  <2>2. f.devDq = e.devDq \/ (k = "devDq" /\ f.devDq = FALSE)
    BY <1>1 DEF Recommended
  <2>3. f.fetchAll = e.fetchAll \/ (k = "fetchAll" /\ f.fetchAll = FALSE)
    BY <1>1 DEF Recommended
  <2>4. f.auth = e.auth \/ (k = "auth" /\ f.auth = "ok")
    BY <1>1 DEF Recommended
  <2>5. f.audit = e.audit \/ (k = "audit" /\ f.audit = TRUE)
    BY <1>1 DEF Recommended
  <2>6. f.clv = e.clv \/ (k = "clv" /\ f.clv = "on")
    BY <1>1 DEF Recommended
  <2>7. f.leagues = e.leagues \/ (k = "leagues" /\ f.leagues = "trial")
    BY <1>1 DEF Recommended
  <2>8. f.calibrated = e.calibrated \/ (k = "calibrated" /\ f.calibrated = TRUE)
    BY <1>1 DEF Recommended
  <2>9. f.sharpen = e.sharpen \/ (k = "sharpen" /\ f.sharpen = TRUE)
    BY <1>1 DEF Recommended
  <2>10. f.paused = e.paused \/ (k = "paused" /\ f.paused = FALSE)
    BY <1>1 DEF Recommended
  <2>11. f.fve = e.fve
    BY <1>1
  <2> QED BY <2>1, <2>2, <2>3, <2>4, <2>5, <2>6, <2>7, <2>8, <2>9, <2>10, <2>11
<1> HIDE DEF f
<1>3. ConfigIssues(f) \subseteq ConfigIssues(e)
  BY <1>2 DEF ConfigIssues, Named, Offline
<1>4. CASE k = "audit" /\ ~ e.audit
  <2>1. ConfigIssues(e) # {}
    BY <1>4 DEF ConfigIssues, Named
  <2> QED BY <1>3, <2>1, GradeOfFewer DEF f
<1>5. CASE f.audit = e.audit
  <2>1. ConfigWarnings(f) \subseteq ConfigWarnings(e)
    <3> DEFINE A(x) == Named(x.production /\ x.fetchAll, "fetches all leagues")
               B(x) == Named(x.production /\ x.auth = "off", "dashboard is public")
               C(x) == Named(~ x.production /\ ~ x.audit, "audit log")
               D(x) == Named(x.production /\ x.audit /\ x.clv # "on", "closing line value")
               E(x) == Named(x.production /\ x.leagues = "unset", "value leagues")
               F(x) == Named(x.production /\ x.leagues \in {"extra", "both"}, "leagues beyond the trial")
               G(x) == Named(x.production /\ x.leagues \in {"missing", "both"}, "leagues missing")
               H(x) == Named(x.production /\ ~ x.calibrated, "calibration cache")
               I(x) == Named(x.production /\ ~ x.sharpen, "sharpen gates")
    <3>1. A(f) \subseteq A(e)
      BY <1>2, <1>5 DEF Named
    <3>2. B(f) \subseteq B(e)
      BY <1>2, <1>5 DEF Named
    <3>3. C(f) \subseteq C(e)
      BY <1>2, <1>5 DEF Named
    <3>4. D(f) \subseteq D(e)
      BY <1>2, <1>5 DEF Named
    <3>5. E(f) \subseteq E(e)
      BY <1>2, <1>5 DEF Named
    <3>6. F(f) \subseteq F(e)
      BY <1>2, <1>5 DEF Named
    <3>7. G(f) \subseteq G(e)
      BY <1>2, <1>5 DEF Named
    <3>8. H(f) \subseteq H(e)
      BY <1>2, <1>5 DEF Named
    <3>9. I(f) \subseteq I(e)
      BY <1>2, <1>5 DEF Named
    <3>10. \A x : ConfigWarnings(x) = A(x) \cup B(x) \cup C(x) \cup D(x) \cup E(x)
                   \cup F(x) \cup G(x) \cup H(x) \cup I(x) \cup ContractWarnings
      BY DEF ConfigWarnings
    <3> HIDE DEF A, B, C, D, E, F, G, H, I
    <3> QED BY <3>1, <3>2, <3>3, <3>4, <3>5, <3>6, <3>7, <3>8, <3>9, <3>10
  <2> QED BY <1>3, <2>1, GradeOfFewer DEF f
<1>6. f.audit = e.audit \/ (k = "audit" /\ ~ e.audit)
  BY <1>2 DEF Settings
<1> QED BY <1>4, <1>5, <1>6

\* What production_secure calls secure, institutional_readiness grades B or better.
LEMMA SecureIsGraded == SecureMeansGraded
<1> SUFFICES ASSUME NEW e \in Settings
             PROVE  /\ EngineeringSecure(e) <=>
                         /\ EngineeringGrade(e) \notin {"C", "D"}
                         /\ ~ (e.production /\ e.needCalibration /\ ~ e.calibrated)
                    /\ \A healthy \in BOOLEAN : Secure(e, TRUE, healthy) => ~ Offline(e)
                    /\ (e.production /\ EngineeringSecure(e)) => BootsStrict(e)
  BY DEF SecureMeansGraded
<1>1. EngineeringGrade(e) \notin {"C", "D"} <=> ConfigIssues(e) = {}
  <2> DEFINE i == Cardinality(ConfigIssues(e))
             w == Cardinality(ConfigWarnings(e))
  <2>1. i \in Nat /\ (i = 0 <=> ConfigIssues(e) = {})
    BY ConfigFinite, FS_EmptySet, FS_CardinalityType
  <2>2. EngineeringGrade(e) = IF i > 2 THEN "D" ELSE IF i > 0 THEN "C" ELSE IF w > 4 THEN "B"
                              ELSE IF w > 0 THEN "B+" ELSE "A"
    BY DEF EngineeringGrade
  <2> HIDE DEF i, w
  <2> QED BY <2>1, <2>2
<1>2. EngineeringSecure(e) <=>
        ConfigIssues(e) = {} /\ ~ (e.production /\ e.needCalibration /\ ~ e.calibrated)
  BY DEF EngineeringSecure, Blocking, ConfigIssues, Named
<1>3. ConfigIssues(e) = {} => ~ Offline(e)
  BY DEF ConfigIssues, Named
<1>4. ASSUME e.production PROVE [e EXCEPT !.production = TRUE] = e
  BY <1>4 DEF Settings
<1> QED BY <1>1, <1>2, <1>3, <1>4 DEF Secure, BootsStrict

\* What the operator is shown is of one mind (GradesAgree): the evidence grade with its
\* gates, the engineering grade with its issues and warnings, and the verdict of
\* production_secure with both, in every environment.
THEOREM LogGradesAgree == Spec => []GradesAgree
<1>1. LogInv => GradesAgree
  BY EvidenceMonotone, NestedGates, CorrectionHelps, SecureIsGraded DEF GradesAgree
<1> QED BY <1>1, SpecInv, PTL
=============================================================================
