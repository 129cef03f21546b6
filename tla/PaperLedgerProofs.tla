-------------------------- MODULE PaperLedgerProofs --------------------------
(***************************************************************************)
(* Proofs about the paper ledger, for every number of threads, fixtures,   *)
(* markets, quotes and results: what concurrent scans and settlements can  *)
(* do to a pick, and that the reconciliation file accounts for the ledger. *)
(***************************************************************************)
EXTENDS PaperLedger, WellFoundedInduction, TLAPS

-----------------------------------------------------------------------------
(* The invariant *)

Change == [id : PickIds, old : Row \cup {Unset}, new : Row]

Sessions ==
  /\ plan \in [Threads -> SUBSET Change]
  /\ expected \in [Threads -> SUBSET Keys]

\* What a session does to a pick it has read.
Changes(old, new) ==
  \/ \E q \in Quotes : new = Requoted(old, q)
  \/ \E res \in Results : new = Settled(old, res)

\* A planned change is of a stored open pick, or adds an open pick under an id that
\* nothing is stored under.
Sound(w) ==
  /\ w.old = Unset =>
       /\ w.id \notin DOMAIN rows
       /\ \E k \in Keys, q \in Quotes : w.new = NewRow(k, q)
  /\ w.old # Unset =>
       /\ w.id \in DOMAIN rows /\ rows[w.id].key = w.new.key
       /\ w.old.status = "open" /\ w.old.outcome = Unset
       /\ Changes(w.old, w.new)

\* What the session read of the key is still so.
Current(w) ==
  IF w.old = Unset THEN Existing(w.new.key) = {} ELSE rows[w.id] = w.old

PlanOK(s) ==
  /\ plan[s] # {} => pc[s] = "open"
  /\ \A v, w \in plan[s] : v.id = w.id => v = w
  /\ \A w \in plan[s] :
       /\ Sound(w)
       /\ w.new.key \in late[s] \/ Current(w)
       /\ w.new.status = "open" \/ expected[s] # {} => w.new.key \in expected[s]
  /\ \A v, w \in plan[s] :
       v.new.key = w.new.key /\ v.new.status = "open" /\ w.new.status = "open" => v = w

\* Two sessions do not add a pick under the same id.
OwnIds ==
  \A s, t \in Threads : \A v \in plan[s], w \in plan[t] :
    v.id = w.id /\ w.old = Unset => s = t

\* What a scan expects is in its plan, then in the ledger, then in the file.
Covered(keys) == \A k \in keys : \E id \in DOMAIN rows : rows[id].key = k

Expects(s) ==
  /\ pc[s] = "open" => expected[s] \subseteq KeysOf(s)
  /\ pc[s] \in {"truncate", "dump"} => Covered(expected[s])

LedgerInv ==
  /\ LedgerTypeOK /\ Sessions /\ OwnIds
  /\ \A s \in Threads : PlanOK(s) /\ Expects(s)
  /\ OneOpenPick /\ PicksAddUp /\ ReconCovered

-----------------------------------------------------------------------------
(* Closing prices *)

LEMMA FairOddsTypes ==
  ASSUME NEW t \in [Sides -> Nat], TripletComplete(t), NEW side \in Sides
  PROVE  SharpSyntheticFairOdds(t)[side] \in Int
<1>1. \A v \in Sides : t[v] \in Nat /\ t[v] > 100
  BY DEF TripletComplete, ValidDecimal, EvenOdds
<1>2. \A n \in Nat : n > 100 => 1000000 \div n \in Int
  OBVIOUS
<1>3. BookSum(t) \in Int
  BY <1>1, <1>2 DEF BookSum, Sides
<1>4. \A a, b \in Int : a * b \in Int
  OBVIOUS
<1>5. \A a \in Int : a \div 10000 \in Int
  OBVIOUS
<1>6. (t[side] * BookSum(t)) \div 10000 \in Int
  BY <1>1, <1>3, <1>4, <1>5
<1> QED BY <1>1, <1>6 DEF SharpSyntheticFairOdds

\* A tier offers a price or none.
LEMMA MarketPriceTypes ==
  ASSUME NEW t, \A side \in Sides : t[side] \in Int, NEW market
  PROVE  ClosingForMarket(t, market) \in Nat
BY DEF ClosingForMarket, ValidDecimal, EvenOdds, NoOdds

LEMMA LadderTypes ==
  ASSUME NEW market \in Markets, NEW close \in Closes
  PROVE  ResolveClvClosing(market, close) \in [odds : Nat, tier : Tiers]
<1> DEFINE offers(tier) ==
        CASE tier = "pinnacle" ->
               IF TripletComplete(close.pinnacle)
               THEN ClosingForMarket(close.pinnacle, market) ELSE NoOdds
          [] tier = "exchange" ->
               IF TripletComplete(close.exchange)
               THEN ClosingForMarket(close.exchange, market) ELSE NoOdds
          [] tier = "sharp_synthetic" ->
               IF TripletComplete(close.apiFootball)
               THEN ClosingForMarket(SharpSyntheticFairOdds(close.apiFootball), market)
               ELSE NoOdds
          [] tier = "api_football" ->
               IF ValidDecimal(close.legacy[market]) THEN close.legacy[market] ELSE NoOdds
          [] OTHER -> NoOdds
     ladder == <<"pinnacle", "exchange", "sharp_synthetic", "api_football">>
     priced == {i \in DOMAIN ladder : offers(ladder[i]) # NoOdds}
     first == CHOOSE i \in priced : \A j \in priced : i <= j
<1>1. /\ close.pinnacle \in [Sides -> Nat] /\ close.exchange \in [Sides -> Nat]
      /\ close.apiFootball \in [Sides -> Nat] /\ close.legacy[market] \in Nat
  BY DEF Closes
<1>2. offers("pinnacle") \in Nat /\ offers("exchange") \in Nat
  BY <1>1, MarketPriceTypes DEF NoOdds
<1>3. offers("sharp_synthetic") \in Nat
  <2>1. CASE TripletComplete(close.apiFootball)
    BY <1>1, <2>1, FairOddsTypes, MarketPriceTypes
  <2>2. CASE ~TripletComplete(close.apiFootball)
    BY <2>2 DEF NoOdds
  <2> QED BY <2>1, <2>2
<1>4. offers("api_football") \in Nat
  BY <1>1 DEF NoOdds
<1> HIDE DEF offers
<1>5. DOMAIN ladder = {1, 2, 3, 4} /\ \A i \in {1, 2, 3, 4} : ladder[i] \in Tiers
  BY DEF Tiers
<1>6. \A i \in {1, 2, 3, 4} : offers(ladder[i]) \in Nat
  BY <1>2, <1>3, <1>4
<1>7. priced # {} => first \in priced
  <2> SUFFICES ASSUME priced # {} PROVE \E i \in priced : \A j \in priced : i <= j
    OBVIOUS
  <2>1. priced \subseteq {1, 2, 3, 4}
    BY <1>5
  <2> HIDE DEF priced
  <2>2. CASE 1 \in priced
    BY <2>1, <2>2
  <2>3. CASE 1 \notin priced /\ 2 \in priced
    BY <2>1, <2>3
  <2>4. CASE priced \cap {1, 2} = {} /\ 3 \in priced
    BY <2>1, <2>4
  <2>5. CASE priced \cap {1, 2, 3} = {} /\ 4 \in priced
    BY <2>1, <2>5
  <2> QED BY <2>1, <2>2, <2>3, <2>4, <2>5
<1>8. ResolveClvClosing(market, close) =
        IF priced = {} THEN [odds |-> NoOdds, tier |-> "unavailable"]
        ELSE [odds |-> offers(ladder[first]), tier |-> ladder[first]]
  BY DEF ResolveClvClosing, offers
<1>9. CASE priced = {}
  BY <1>8, <1>9 DEF NoOdds, Tiers
<1>10. CASE priced # {}
  <2>1. first \in {1, 2, 3, 4}
    BY <1>5, <1>7, <1>10
  <2> HIDE DEF first
  <2>2. offers(ladder[first]) \in Nat /\ ladder[first] \in Tiers
    BY <1>5, <1>6, <2>1
  <2> QED BY <1>8, <1>10, <2>2
<1> QED BY <1>9, <1>10

-----------------------------------------------------------------------------
(* Rows *)

LEMMA RowFields ==
  ASSUME NEW row \in Row
  PROVE  /\ row.key \in Keys /\ row.key[2] \in Markets /\ row.odds \in Nat /\ row.stake \in Nat
         /\ row.hashed \in Quotes /\ row.status \in {"open", "settled"}
         /\ row.outcome \in Sides \cup {Unset} /\ row.won \in BOOLEAN \cup {Unset}
         /\ row.pnl \in Int \cup {Unset} /\ row.closing \in Nat \cup {Unset}
         /\ row.beat \in BOOLEAN \cup {Unset} /\ row.tier \in Tiers \cup {Unset}
BY DEF Row, Keys

LEMMA NewRowTypes ==
  ASSUME NEW k \in Keys, NEW q \in Quotes
  PROVE  /\ NewRow(k, q) \in Row /\ NewRow(k, q).key = k
         /\ NewRow(k, q).status = "open" /\ NewRow(k, q).outcome = Unset
         /\ RowAddsUp(NewRow(k, q))
<1>1. q[1] \in Nat /\ q[2] \in Nat /\ q = <<q[1], q[2]>>
  BY LedgerAssumption
<1> QED BY <1>1 DEF NewRow, Row, RowAddsUp

LEMMA RequotedTypes ==
  ASSUME NEW row \in Row, NEW q \in Quotes
  PROVE  /\ Requoted(row, q) \in Row /\ Requoted(row, q).key = row.key
         /\ Requoted(row, q).status = row.status /\ Requoted(row, q).outcome = row.outcome
         /\ Requoted(row, q).hashed = <<Requoted(row, q).odds, Requoted(row, q).stake>>
<1>1. q[1] \in Nat /\ q[2] \in Nat /\ q = <<q[1], q[2]>>
  BY LedgerAssumption
<1> QED BY <1>1 DEF Requoted, Row

LEMMA SettledTypes ==
  ASSUME NEW row \in Row, NEW res \in Results
  PROVE  /\ Settled(row, res) \in Row /\ Settled(row, res).key = row.key
         /\ Settled(row, res).status = "settled" /\ Settled(row, res).outcome \in Sides
         /\ row.hashed = <<row.odds, row.stake>> => RowAddsUp(Settled(row, res))
<1> DEFINE market == row.key[2]
           won == market = res.outcome
           line == ResolveClvClosing(market, res.close)
           pnl == Pnl(row, won)
           closing == IF line.odds = NoOdds THEN Unset ELSE line.odds
           beat == IF line.odds = NoOdds THEN Unset ELSE row.odds >= line.odds
           new == Settled(row, res)
<1>1. market \in Markets /\ row.odds \in Nat /\ row.stake \in Nat
  BY RowFields
<1>2. res.outcome \in Sides /\ res.close \in Closes
  BY LedgerAssumption
<1>3. line.odds \in Nat /\ line.tier \in Tiers
  BY <1>1, <1>2, LadderTypes
<1>4. won \in BOOLEAN \cup {Unset}
  OBVIOUS
<1>5. pnl \in Int \cup {Unset}
  <2>1. \A a \in Nat, b \in Int : a * b \in Int
    OBVIOUS
  <2>2. row.odds - 100 \in Int
    BY <1>1
  <2> HIDE DEF won
  <2> QED BY <1>1, <2>1, <2>2 DEF Pnl, EvenOdds
<1>6. closing \in Nat \cup {Unset} /\ beat \in BOOLEAN \cup {Unset}
  <2>1. CASE line.odds = NoOdds
    BY <2>1
  <2>2. CASE line.odds # NoOdds
    <3>1. closing = line.odds /\ beat = (row.odds >= line.odds)
      BY <2>2
    <3>2. (row.odds >= line.odds) \in BOOLEAN
      OBVIOUS
    <3> QED BY <1>3, <3>1, <3>2
  <2> QED BY <2>1, <2>2
<1>7. new = [row EXCEPT !.status = "settled", !.outcome = res.outcome, !.won = won, !.pnl = pnl,
                        !.closing = closing, !.beat = beat, !.tier = line.tier]
  BY DEF Settled
<1>8. closing # Unset => closing = line.odds /\ beat = (row.odds >= line.odds)
  BY <1>3
<1> HIDE DEF won, line, pnl, closing, beat, new
<1>9. /\ new \in Row /\ new.key = row.key /\ new.odds = row.odds /\ new.stake = row.stake
      /\ new.hashed = row.hashed /\ new.status = "settled" /\ new.outcome = res.outcome
      /\ new.won = won /\ new.pnl = pnl /\ new.closing = closing /\ new.beat = beat
  <2>1. row = [key |-> row.key, odds |-> row.odds, stake |-> row.stake, hashed |-> row.hashed,
               status |-> row.status, outcome |-> row.outcome, won |-> row.won, pnl |-> row.pnl,
               closing |-> row.closing, beat |-> row.beat, tier |-> row.tier]
    BY DEF Row
  <2>2. new = [key |-> row.key, odds |-> row.odds, stake |-> row.stake, hashed |-> row.hashed,
               status |-> "settled", outcome |-> res.outcome, won |-> won, pnl |-> pnl,
               closing |-> closing, beat |-> beat, tier |-> line.tier]
    BY <1>7, <2>1
  <2>3. /\ row.key \in Keys /\ row.odds \in Nat /\ row.stake \in Nat /\ row.hashed \in Quotes
    BY RowFields
  <2>4. new \in Row
    BY <1>2, <1>3, <1>4, <1>5, <1>6, <2>2, <2>3 DEF Row
  <2> QED BY <2>2, <2>4
<1>10. ASSUME row.hashed = <<row.odds, row.stake>> PROVE RowAddsUp(new)
  <2>1. new.pnl = Pnl(new, new.won)
    BY <1>9 DEF Pnl, pnl
  <2>2. new.won = (new.key[2] = new.outcome)
    BY <1>9 DEF won
  <2>3. new.closing # Unset => new.beat = (new.odds >= new.closing)
    BY <1>8, <1>9
  <2> QED BY <1>9, <1>10, <2>1, <2>2, <2>3 DEF RowAddsUp
<1> QED BY <1>2, <1>9, <1>10 DEF new

\* A change of an open pick: what it leaves alone, and that it adds up.
LEMMA ChangeTypes ==
  ASSUME NEW old \in Row, old.status = "open", old.outcome = Unset, NEW new, Changes(old, new)
  PROVE  /\ new \in Row /\ new.key = old.key
         /\ \/ new.status = "open" /\ new.outcome = Unset
            \/ new.status = "settled" /\ new.outcome # Unset
         /\ RowAddsUp(old) => RowAddsUp(new)
<1>1. ASSUME NEW q \in Quotes, new = Requoted(old, q)
      PROVE  /\ new \in Row /\ new.key = old.key /\ new.status = "open" /\ new.outcome = Unset
             /\ RowAddsUp(new)
  BY <1>1, RequotedTypes DEF RowAddsUp
<1>2. ASSUME NEW res \in Results, new = Settled(old, res)
      PROVE  /\ new \in Row /\ new.key = old.key /\ new.status = "settled" /\ new.outcome # Unset
             /\ RowAddsUp(old) => RowAddsUp(new)
  BY <1>2, SettledTypes, LedgerAssumption DEF RowAddsUp
<1> QED BY <1>1, <1>2 DEF Changes

\* The columns of a stored pick.
Columns == {"key", "odds", "stake", "hashed", "status", "outcome", "won", "pnl", "closing",
            "beat", "tier"}

LEMMA MergedFields ==
  ASSUME NEW row \in Row, NEW old \in Row, NEW new \in Row
  PROVE  /\ Merged(row, old, new) \in Row
         /\ row.key = old.key /\ new.key = old.key => Merged(row, old, new).key = row.key
         /\ Merged(row, old, new).status = IF new.status # old.status THEN new.status ELSE row.status
         /\ Merged(row, old, new).outcome =
              IF new.outcome # old.outcome THEN new.outcome ELSE row.outcome
         /\ row = old => Merged(row, old, new) = new
<1> DEFINE m == Merged(row, old, new)
           c(f) == IF Rewrites(f, old, new) THEN new[f] ELSE row[f]
<1>1. DOMAIN new = Columns
  BY DEF Row, Columns
<1>2. m = [f \in Columns |-> c(f)]
  BY <1>1 DEF Merged
<1>3. m = [key |-> c("key"), odds |-> c("odds"), stake |-> c("stake"), hashed |-> c("hashed"),
           status |-> c("status"), outcome |-> c("outcome"), won |-> c("won"), pnl |-> c("pnl"),
           closing |-> c("closing"), beat |-> c("beat"), tier |-> c("tier")]
  <2> HIDE DEF c
  <2> QED BY <1>2 DEF Columns
<1>4. c("key") \in Keys /\ c("odds") \in Nat /\ c("stake") \in Nat /\ c("hashed") \in Quotes
  BY RowFields
<1>5. /\ c("status") \in {"open", "settled"} /\ c("outcome") \in Sides \cup {Unset}
      /\ c("pnl") \in Int \cup {Unset} /\ c("closing") \in Nat \cup {Unset}
      /\ c("tier") \in Tiers \cup {Unset}
  BY RowFields
<1>6. c("won") \in BOOLEAN \cup {Unset} /\ c("beat") \in BOOLEAN \cup {Unset}
  BY RowFields
<1>7. m \in Row
  <2> HIDE DEF c, m
  <2> QED BY <1>3, <1>4, <1>5, <1>6 DEF Row
<1>8. ASSUME row = old PROVE m = new
  <2>1. new = [f \in Columns |-> new[f]]
    BY <1>1 DEF Row
  <2>2. \A f \in Columns : c(f) = new[f]
    BY <1>8 DEF Rewrites
  <2> HIDE DEF c, m
  <2> QED BY <1>2, <2>1, <2>2
<1>9. m.key = c("key") /\ m.status = c("status") /\ m.outcome = c("outcome")
  <2> HIDE DEF c, m
  <2> QED BY <1>3
<1>10. /\ c("key") = IF new.key # old.key THEN new.key ELSE row.key
       /\ c("status") = IF new.status # old.status THEN new.status ELSE row.status
       /\ c("outcome") = IF new.outcome # old.outcome THEN new.outcome ELSE row.outcome
  BY DEF Rewrites
<1> HIDE DEF c, m
<1>11. row.key = old.key /\ new.key = old.key => m.key = row.key
  BY <1>9, <1>10
<1> QED BY <1>7, <1>8, <1>9, <1>10, <1>11 DEF m

\* What a commit makes of a pick another session may have changed meanwhile.
LEMMA MergedRow ==
  ASSUME NEW row \in Row, row.status = "settled" <=> row.outcome # Unset,
         NEW old \in Row, old.status = "open", old.outcome = Unset, NEW new, Changes(old, new),
         row.key = new.key
  PROVE  /\ Merged(row, old, new) \in Row /\ Merged(row, old, new).key = row.key
         /\ Merged(row, old, new).status = "settled" <=> Merged(row, old, new).outcome # Unset
         /\ row = old => Merged(row, old, new) = new
<1>1. /\ new \in Row /\ new.key = old.key
      /\ \/ new.status = "open" /\ new.outcome = Unset
         \/ new.status = "settled" /\ new.outcome # Unset
  BY ChangeTypes
<1>2. /\ Merged(row, old, new) \in Row /\ Merged(row, old, new).key = row.key
      /\ Merged(row, old, new).status = IF new.status # old.status THEN new.status ELSE row.status
      /\ Merged(row, old, new).outcome = IF new.outcome # old.outcome THEN new.outcome ELSE row.outcome
      /\ row = old => Merged(row, old, new) = new
  BY <1>1, MergedFields
<1> QED BY <1>1, <1>2

\* A new pick gets an id nobody has.
LEMMA FreshIdUnused == UnusedIds # {} => FreshId \in UnusedIds
<1> SUFFICES ASSUME UnusedIds # {}
    PROVE  \E id \in UnusedIds : \A i \in UnusedIds : id <= i
  BY DEF FreshId
<1> DEFINE Ids == UnusedIds
<1>1. Ids \subseteq Nat
  BY DEF UnusedIds, PickIds
<1> HIDE DEF Ids
<1>2. Ids # {}
  BY DEF Ids
<1>3. PICK n \in Ids : \A k \in Ids : ~ (<<k, n>> \in OpToRel(<, Nat))
  BY <1>1, <1>2, WFMin, NatLessThanWellFounded
<1>4. ASSUME NEW k \in Ids PROVE n <= k
  <2>1. ~ (k < n)
    BY <1>1, <1>3 DEF OpToRel
  <2> QED BY <1>1, <2>1
<1> QED BY <1>4 DEF Ids

-----------------------------------------------------------------------------
(* A commit *)

LEMMA StoredRows ==
  ASSUME LedgerInv, NEW s \in Threads, rows' = Stored(s)
  PROVE  /\ DOMAIN rows' = DOMAIN rows \cup {w.id : w \in plan[s]}
         /\ \A id \in DOMAIN rows : (\A w \in plan[s] : w.id # id) => rows'[id] = rows[id]
         /\ \A w \in plan[s] :
              rows'[w.id] = IF w.old = Unset THEN w.new ELSE Merged(rows[w.id], w.old, w.new)
<1>1. \A v, w \in plan[s] : v.id = w.id => v = w
  BY DEF LedgerInv, LedgerTypeOK
<1>2. \A w \in plan[s] : (CHOOSE v \in plan[s] : v.id = w.id) = w
  BY <1>1
<1> QED BY <1>2 DEF Stored

\* The picks after a commit: their keys stay, and a session that was not late
\* for a key stores what it planned.
LEMMA CommittedRows ==
  ASSUME LedgerInv, NEW s \in Threads, rows' = Stored(s)
  PROVE  /\ \A id \in DOMAIN rows : id \in DOMAIN rows' /\ rows'[id].key = rows[id].key
         /\ \A id \in DOMAIN rows' : rows'[id] \in Row
         /\ \A id \in DOMAIN rows' : rows'[id].status = "settled" <=> rows'[id].outcome # Unset
         /\ \A w \in plan[s] : /\ w.id \in DOMAIN rows' /\ rows'[w.id].key = w.new.key
                               /\ w.new.key \notin late[s] => rows'[w.id] = w.new
<1>0. /\ DOMAIN rows' = DOMAIN rows \cup {w.id : w \in plan[s]}
      /\ \A id \in DOMAIN rows : (\A w \in plan[s] : w.id # id) => rows'[id] = rows[id]
      /\ \A w \in plan[s] :
           rows'[w.id] = IF w.old = Unset THEN w.new ELSE Merged(rows[w.id], w.old, w.new)
  BY StoredRows
<1>1. ASSUME NEW w \in plan[s]
      PROVE  /\ rows'[w.id] \in Row /\ rows'[w.id].key = w.new.key
             /\ w.id \in DOMAIN rows => rows'[w.id].key = rows[w.id].key
             /\ rows'[w.id].status = "settled" <=> rows'[w.id].outcome # Unset
             /\ w.new.key \notin late[s] => rows'[w.id] = w.new
  <2>0. /\ w \in Change /\ Sound(w) /\ (w.new.key \in late[s] \/ Current(w))
    BY DEF LedgerInv, PlanOK, Sessions
  <2>1. CASE w.old = Unset
    <3>1. rows'[w.id] = w.new /\ w.id \notin DOMAIN rows
      BY <1>0, <2>0, <2>1 DEF Sound
    <3>2. w.new \in Row /\ w.new.status = "open" /\ w.new.outcome = Unset
      BY <2>0, <2>1, NewRowTypes DEF Sound
    <3> QED BY <3>1, <3>2
  <2>2. CASE w.old # Unset
    <3>1. /\ w.id \in DOMAIN rows /\ rows[w.id] \in Row /\ rows[w.id].key = w.new.key
          /\ rows[w.id].status = "settled" <=> rows[w.id].outcome # Unset
          /\ w.old \in Row /\ w.old.status = "open" /\ w.old.outcome = Unset
          /\ Changes(w.old, w.new)
      BY <2>0, <2>2 DEF Sound, Change, LedgerInv, LedgerTypeOK
    <3>2. rows'[w.id] = Merged(rows[w.id], w.old, w.new)
      BY <1>0, <2>2
    <3>3. w.new.key \notin late[s] => rows[w.id] = w.old
      BY <2>0, <2>2 DEF Current
    <3> QED BY <3>1, <3>2, <3>3, MergedRow
  <2> QED BY <2>1, <2>2
<1>2. ASSUME NEW id \in DOMAIN rows, \A w \in plan[s] : w.id # id
      PROVE  /\ rows'[id] = rows[id] /\ rows[id] \in Row
             /\ rows[id].status = "settled" <=> rows[id].outcome # Unset
  BY <1>0, <1>2 DEF LedgerInv, LedgerTypeOK
<1> QED BY <1>0, <1>1, <1>2

\* After a commit there is still one open pick for a key that nobody was late for.
LEMMA CommitOnePick ==
  ASSUME LedgerInv, NEW s \in Threads, Commit(s)
  PROVE  OneOpenPick'
<1> SUFFICES ASSUME NEW i \in DOMAIN rows', NEW j \in DOMAIN rows',
                    rows'[i].status = "open", rows'[j].status = "open",
                    rows'[i].key = rows'[j].key, rows'[i].key \notin raced', i # j
             PROVE  FALSE
  BY DEF OneOpenPick
<1>0. /\ rows' = Stored(s) /\ raced' = raced \cup (late[s] \cap KeysOf(s))
  BY DEF Commit
<1> DEFINE key == rows'[i].key
           Changed(id) == \E w \in plan[s] : w.id = id
<1>1. /\ DOMAIN rows' = DOMAIN rows \cup {w.id : w \in plan[s]}
      /\ \A id \in DOMAIN rows : ~Changed(id) => rows'[id] = rows[id]
  BY <1>0, StoredRows
<1>2. \A w \in plan[s] : /\ rows'[w.id].key = w.new.key
                         /\ w.new.key \notin late[s] => rows'[w.id] = w.new
  BY <1>0, CommittedRows
<1>3. key \notin raced /\ \A w \in plan[s] : w.new.key = key => key \notin late[s]
  BY <1>0 DEF KeysOf
<1>4. \A id \in {i, j} : Changed(id) =>
        \E w \in plan[s] : /\ w.id = id /\ w.new.key = key /\ w.new.status = "open"
                           /\ Sound(w) /\ Current(w)
  <2> SUFFICES ASSUME NEW id \in {i, j}, NEW w \in plan[s], w.id = id
               PROVE  /\ w.new.key = key /\ w.new.status = "open" /\ Sound(w) /\ Current(w)
    OBVIOUS
  <2>1. w.new.key = key
    BY <1>2
  <2>2. rows'[w.id] = w.new
    BY <1>2, <1>3, <2>1
  <2>3. Sound(w) /\ (w.new.key \in late[s] \/ Current(w))
    BY DEF LedgerInv, PlanOK
  <2> QED BY <1>3, <2>1, <2>2, <2>3
<1> HIDE DEF key, Changed
\* a changed pick is the only open one of its key there was
<1>5. \A a, b \in {i, j} : Changed(a) /\ b \in DOMAIN rows /\ ~Changed(b) => a = b
  <2> SUFFICES ASSUME NEW a \in {i, j}, NEW b \in {i, j}, Changed(a), b \in DOMAIN rows, ~Changed(b)
               PROVE  a = b
    OBVIOUS
  <2>1. PICK w \in plan[s] : /\ w.id = a /\ w.new.key = key /\ w.new.status = "open"
                             /\ Sound(w) /\ Current(w)
    BY <1>4
  <2>2. rows[b].status = "open" /\ rows[b].key = key
    BY <1>1 DEF key
  <2>3. CASE w.old = Unset
    BY <2>1, <2>2, <2>3 DEF Current, Existing
  <2>4. CASE w.old # Unset
    <3>1. rows[a] = w.old /\ a \in DOMAIN rows /\ rows[a].key = key /\ rows[a].status = "open"
      BY <2>1, <2>4 DEF Current, Sound
    <3> QED BY <1>3, <2>2, <3>1 DEF LedgerInv, OneOpenPick
  <2> QED BY <2>3, <2>4
<1>6. CASE Changed(i) /\ Changed(j)
  <2>1. PICK v \in plan[s] : v.id = i /\ v.new.key = key /\ v.new.status = "open"
    BY <1>4, <1>6
  <2>2. PICK w \in plan[s] : w.id = j /\ w.new.key = key /\ w.new.status = "open"
    BY <1>4, <1>6
  <2>3. v = w
    BY <2>1, <2>2 DEF LedgerInv, PlanOK
  <2> QED BY <2>1, <2>2, <2>3
<1>7. CASE ~Changed(i) /\ ~Changed(j)
  <2>1. i \in DOMAIN rows /\ j \in DOMAIN rows
    BY <1>1, <1>7 DEF Changed
  <2>2. rows'[i] = rows[i] /\ rows'[j] = rows[j]
    BY <1>1, <1>7, <2>1
  <2> QED BY <1>3, <2>1, <2>2 DEF LedgerInv, OneOpenPick, key
<1>8. CASE Changed(i) /\ ~Changed(j)
  <2>1. j \in DOMAIN rows
    BY <1>1, <1>8 DEF Changed
  <2> QED BY <1>5, <1>8, <2>1
<1>9. CASE ~Changed(i) /\ Changed(j)
  <2>1. i \in DOMAIN rows
    BY <1>1, <1>9 DEF Changed
  <2> QED BY <1>5, <1>9, <2>1
<1> QED BY <1>6, <1>7, <1>8, <1>9

LEMMA CommitAddsUp ==
  ASSUME LedgerInv, NEW s \in Threads, Commit(s), NEW id \in DOMAIN rows'
  PROVE  rows'[id].key \in raced' \/ RowAddsUp(rows'[id])
<1>0. rows' = Stored(s) /\ raced' = raced \cup (late[s] \cap KeysOf(s))
  BY DEF Commit
<1>1. CASE \A w \in plan[s] : w.id # id
  <2>1. id \in DOMAIN rows /\ rows'[id] = rows[id]
    <3>1. /\ DOMAIN rows' = DOMAIN rows \cup {w.id : w \in plan[s]}
          /\ \A i \in DOMAIN rows : (\A w \in plan[s] : w.id # i) => rows'[i] = rows[i]
      BY <1>0, StoredRows
    <3> QED BY <1>1, <3>1
  <2> QED BY <1>0, <2>1 DEF LedgerInv, PicksAddUp
<1>2. ASSUME NEW w \in plan[s], w.id = id, w.new.key \notin late[s], w.new.key \notin raced
      PROVE  RowAddsUp(rows'[id])
  <2>1. rows'[id] = w.new
    BY <1>0, <1>2, CommittedRows
  <2>2. Sound(w) /\ Current(w) /\ w \in Change
    BY <1>2 DEF LedgerInv, PlanOK, Sessions
  <2>3. CASE w.old = Unset
    BY <2>1, <2>2, <2>3, NewRowTypes DEF Sound
  <2>4. CASE w.old # Unset
    <3>1. /\ w.old \in Row /\ w.old.status = "open" /\ w.old.outcome = Unset
          /\ Changes(w.old, w.new) /\ rows[w.id] = w.old /\ w.id \in DOMAIN rows
      BY <2>2, <2>4 DEF Sound, Current, Change
    <3>2. w.old.key = w.new.key
      BY <3>1, ChangeTypes
    <3>3. RowAddsUp(w.old)
      BY <1>2, <3>1, <3>2 DEF LedgerInv, PicksAddUp
    <3> QED BY <2>1, <3>1, <3>3, ChangeTypes
  <2> QED BY <2>3, <2>4
<1>3. ASSUME NEW w \in plan[s], w.id = id
      PROVE  rows'[id].key \in raced' \/ RowAddsUp(rows'[id])
  <2>1. rows'[id].key = w.new.key /\ w.new.key \in KeysOf(s)
    BY <1>0, <1>3, CommittedRows DEF KeysOf
  <2> QED BY <1>0, <1>2, <1>3, <2>1
<1> QED BY <1>1, <1>3

\* The keys of a plan are keys.
LEMMA PlanKeys ==
  ASSUME Sessions, NEW s \in Threads
  PROVE  KeysOf(s) \subseteq Keys
BY RowFields DEF Sessions, Change, KeysOf

\* The plans of the others after a commit: what is no longer as they read it they
\* are late for.
LEMMA CommitKeepsPlans ==
  ASSUME LedgerInv, NEW s \in Threads, Commit(s), NEW t \in Threads
  PROVE  PlanOK(t)'
<1>0. /\ rows' = Stored(s) /\ late' = Overtaken(s) /\ plan' = [plan EXCEPT ![s] = {}]
      /\ pc' = [pc EXCEPT ![s] = IF expected[s] = {} THEN "idle" ELSE "truncate"]
      /\ expected' = expected
  BY DEF Commit
<1>1. /\ pc \in [Threads -> {"idle", "open", "truncate", "dump"}]
      /\ plan \in [Threads -> SUBSET Change] /\ PlanOK(t)
  BY DEF LedgerInv, LedgerTypeOK, Sessions
<1>2. CASE t = s
  <2>1. plan'[t] = {}
    BY <1>0, <1>1, <1>2
  <2> QED BY <2>1 DEF PlanOK
<1>3. CASE t # s
  <2>1. plan'[t] = plan[t] /\ pc'[t] = pc[t] /\ expected'[t] = expected[t]
    BY <1>0, <1>1, <1>3
  <2>2. ASSUME NEW w \in plan[t] PROVE Sound(w)' /\ (w.new.key \in late'[t] \/ Current(w)')
    <3>0. /\ Sound(w) /\ (w.new.key \in late[t] \/ Current(w)) /\ w \in Change
          /\ pc[t] = "open"
      BY <1>1 DEF PlanOK
    <3>1. late'[t] = late[t] \cup (KeysOf(t) \cap KeysOf(s))
      BY <1>0, <1>3, <3>0 DEF Overtaken
    <3>2. /\ DOMAIN rows' = DOMAIN rows \cup {v.id : v \in plan[s]}
          /\ \A id \in DOMAIN rows : (\A v \in plan[s] : v.id # id) => rows'[id] = rows[id]
          /\ \A id \in DOMAIN rows : rows'[id].key = rows[id].key
          /\ \A v \in plan[s] : rows'[v.id].key = v.new.key
      BY <1>0, StoredRows, CommittedRows
    <3>3. Sound(w)'
      <4>1. CASE w.old = Unset
        <5>1. w.id \notin DOMAIN rows'
          BY <1>3, <3>0, <3>2, <4>1 DEF Sound, LedgerInv, OwnIds
        <5> QED BY <3>0, <4>1, <5>1 DEF Sound
      <4>2. CASE w.old # Unset
        <5>1. w.id \in DOMAIN rows' /\ rows'[w.id].key = w.new.key
          BY <3>0, <3>2, <4>2 DEF Sound
        <5> QED BY <3>0, <4>2, <5>1 DEF Sound
      <4> QED BY <4>1, <4>2
    <3>4. ASSUME w.new.key \notin late'[t] PROVE Current(w)'
      <4>1. w.new.key \notin KeysOf(s) /\ Current(w)
        BY <3>0, <3>1, <3>4 DEF KeysOf
      <4>2. \A id \in DOMAIN rows' : rows'[id].key = w.new.key =>
              id \in DOMAIN rows /\ rows'[id] = rows[id]
        BY <3>2, <4>1 DEF KeysOf
      <4>3. CASE w.old = Unset
        BY <4>1, <4>2, <4>3 DEF Current, Existing
      <4>4. CASE w.old # Unset
        <5>1. w.id \in DOMAIN rows' /\ rows'[w.id].key = w.new.key
          BY <3>3, <4>4 DEF Sound
        <5> QED BY <4>1, <4>2, <4>4, <5>1 DEF Current
      <4> QED BY <4>3, <4>4
    <3> QED BY <3>3, <3>4
  <2> QED BY <1>1, <2>1, <2>2 DEF PlanOK
<1> QED BY <1>2, <1>3

LEMMA CommitKeeps ==
  ASSUME LedgerInv, NEW s \in Threads, Commit(s)
  PROVE  LedgerInv'
<1>0. /\ rows' = Stored(s) /\ late' = Overtaken(s) /\ plan' = [plan EXCEPT ![s] = {}]
      /\ pc' = [pc EXCEPT ![s] = IF expected[s] = {} THEN "idle" ELSE "truncate"]
      /\ expected' = expected /\ recon' = recon /\ pc[s] = "open"
      /\ raced' = raced \cup (late[s] \cap KeysOf(s))
  BY DEF Commit
<1>1. /\ pc \in [Threads -> {"idle", "open", "truncate", "dump"}]
      /\ plan \in [Threads -> SUBSET Change] /\ late \in [Threads -> SUBSET Keys]
      /\ Sessions /\ LedgerTypeOK
  BY DEF LedgerInv, LedgerTypeOK, Sessions
<1>2. /\ \A id \in DOMAIN rows : id \in DOMAIN rows' /\ rows'[id].key = rows[id].key
      /\ \A id \in DOMAIN rows' : rows'[id] \in Row
      /\ \A id \in DOMAIN rows' : rows'[id].status = "settled" <=> rows'[id].outcome # Unset
      /\ \A w \in plan[s] : w.id \in DOMAIN rows' /\ rows'[w.id].key = w.new.key
  BY <1>0, CommittedRows
<1>3. LedgerTypeOK'
  <2>1. DOMAIN rows' \subseteq PickIds
    <3>1. DOMAIN rows' = DOMAIN rows \cup {w.id : w \in plan[s]}
      BY <1>0, StoredRows
    <3>2. \A w \in plan[s] : w.id \in PickIds
      BY <1>1 DEF Change
    <3> QED BY <1>1, <3>1, <3>2 DEF LedgerTypeOK
  <2>2. late' \in [Threads -> SUBSET Keys]
    <3>1. \A t \in Threads : KeysOf(t) \subseteq Keys
      BY <1>1, PlanKeys
    <3> QED BY <1>0, <1>1, <3>1 DEF Overtaken
  <2>3. raced' \subseteq Keys
    BY <1>0, <1>1 DEF LedgerTypeOK
  <2>4. pc' \in [Threads -> {"idle", "open", "truncate", "dump"}]
    BY <1>0, <1>1
  <2>5. ASSUME NEW t \in Threads
        PROVE  /\ \A v, w \in plan'[t] : v.id = w.id => v = w
               /\ pc'[t] = "idle" => plan'[t] = {} /\ expected'[t] = {}
    BY <1>0, <1>1 DEF LedgerTypeOK
  <2> QED BY <1>0, <1>1, <1>2, <2>1, <2>2, <2>3, <2>4, <2>5 DEF LedgerTypeOK
<1>4. Sessions'
  BY <1>0, <1>1 DEF Sessions
<1>5. OwnIds'
  BY <1>0, <1>1 DEF LedgerInv, OwnIds
<1>6. ASSUME NEW t \in Threads PROVE PlanOK(t)' /\ Expects(t)'
  <2>1. PlanOK(t)'
    BY CommitKeepsPlans
  <2>2. \A keys : Covered(keys) => Covered(keys)'
    BY <1>2 DEF Covered
  <2>3. CASE t = s
    <3>1. expected[s] \subseteq KeysOf(s)
      BY <1>0 DEF LedgerInv, Expects
    <3>2. Covered(expected[s])'
      BY <1>0, <1>2, <3>1 DEF Covered, KeysOf
    <3> QED BY <1>0, <1>1, <2>1, <2>3, <3>2 DEF Expects
  <2>4. CASE t # s
    <3>1. plan'[t] = plan[t] /\ pc'[t] = pc[t] /\ expected'[t] = expected[t]
      BY <1>0, <1>1, <2>4
    <3>2. Expects(t)
      BY DEF LedgerInv
    <3>3. Covered(expected[t]) => Covered(expected[t])'
      BY <1>0, <1>2 DEF Covered
    <3> QED BY <1>0, <2>1, <3>1, <3>2, <3>3 DEF Expects, KeysOf
  <2> QED BY <2>3, <2>4
<1>7. OneOpenPick' /\ PicksAddUp'
  BY <1>3, CommitOnePick, CommitAddsUp DEF PicksAddUp
<1>8. ReconCovered'
  BY <1>0, <1>2 DEF LedgerInv, ReconCovered
<1> QED BY <1>3, <1>4, <1>5, <1>6, <1>7, <1>8 DEF LedgerInv

-----------------------------------------------------------------------------
(* The steps that commit nothing *)

\* Of a thread that a step leaves alone, everything still holds.
LEMMA ThreadKept ==
  ASSUME NEW t, PlanOK(t), Expects(t), rows' = rows,
         plan'[t] = plan[t], expected'[t] = expected[t], late'[t] = late[t], pc'[t] = pc[t]
  PROVE  PlanOK(t)' /\ Expects(t)'
<1>1. \A w : /\ Sound(w) => Sound(w)'
             /\ Current(w) => Current(w)'
  BY DEF Sound, Current, Existing
<1>2. \A keys : Covered(keys) => Covered(keys)'
  BY DEF Covered
<1>3. PlanOK(t)'
  BY <1>1 DEF PlanOK
<1>4. Covered(expected[t]) => Covered(expected[t])'
  BY DEF Covered
<1> QED BY <1>3, <1>4 DEF Expects, KeysOf

\* A session that is over has nothing.
LEMMA ThreadLeft ==
  ASSUME NEW t, plan'[t] = {}, expected'[t] = {}
  PROVE  PlanOK(t)' /\ Expects(t)'
BY DEF PlanOK, Expects, Covered

LEMMA RowsKept ==
  ASSUME LedgerInv, LedgerTypeOK', UNCHANGED <<rows, raced>>
  PROVE  OneOpenPick' /\ PicksAddUp'
BY DEF LedgerInv, OneOpenPick, PicksAddUp

\* The types that such a step can disturb.
LEMMA TypesKept ==
  ASSUME LedgerInv, UNCHANGED <<rows, raced>>, recon'.state \in {"absent", "empty", "torn", "written"},
         pc' \in [Threads -> {"idle", "open", "truncate", "dump"}],
         \A t \in Threads : PlanOK(t)',
         \A t \in Threads : pc'[t] = "idle" => plan'[t] = {} /\ expected'[t] = {},
         late' \in [Threads -> SUBSET Keys]
  PROVE  LedgerTypeOK'
BY DEF LedgerInv, LedgerTypeOK, PlanOK

\* A session is over, or has its file written next.
LEMMA LeavesKeeps ==
  ASSUME LedgerInv, NEW s \in Threads, Leave(s), UNCHANGED <<rows, raced>>,
         recon'.state \in {"absent", "empty", "torn", "written"}, ReconCovered'
  PROVE  LedgerInv'
<1>1. /\ pc \in [Threads -> {"idle", "open", "truncate", "dump"}]
      /\ plan \in [Threads -> SUBSET Change] /\ expected \in [Threads -> SUBSET Keys]
      /\ late \in [Threads -> SUBSET Keys] /\ LedgerTypeOK
  BY DEF LedgerInv, LedgerTypeOK, Sessions
<1>2. /\ pc' = [pc EXCEPT ![s] = "idle"] /\ expected' = [expected EXCEPT ![s] = {}]
      /\ plan' = [plan EXCEPT ![s] = {}] /\ late' = [late EXCEPT ![s] = {}]
  BY DEF Leave
<1>3. ASSUME NEW t \in Threads PROVE PlanOK(t)' /\ Expects(t)'
  <2>1. CASE t = s
    BY <1>1, <1>2, <2>1, ThreadLeft
  <2>2. CASE t # s
    <3>1. plan'[t] = plan[t] /\ expected'[t] = expected[t] /\ late'[t] = late[t] /\ pc'[t] = pc[t]
      BY <1>1, <1>2, <2>2
    <3> QED BY <3>1, ThreadKept DEF LedgerInv
  <2> QED BY <2>1, <2>2
<1>4. Sessions' /\ OwnIds'
  BY <1>1, <1>2 DEF Sessions, OwnIds, LedgerInv
<1>5. LedgerTypeOK'
  <2>1. \A t \in Threads : pc'[t] = "idle" => plan'[t] = {} /\ expected'[t] = {}
    BY <1>1, <1>2 DEF LedgerTypeOK
  <2>2. pc' \in [Threads -> {"idle", "open", "truncate", "dump"}] /\ late' \in [Threads -> SUBSET Keys]
    BY <1>1, <1>2
  <2> QED BY <1>3, <2>1, <2>2, TypesKept
<1>6. OneOpenPick' /\ PicksAddUp'
  BY <1>5, RowsKept
<1> QED BY <1>3, <1>4, <1>5, <1>6 DEF LedgerInv

LEMMA FilesKeep ==
  ASSUME LedgerInv, NEW s \in Threads, TruncateRecon(s) \/ DumpRecon(s) \/ Fail(s)
  PROVE  LedgerInv'
<1>1. CASE TruncateRecon(s)
  <2>1. /\ pc \in [Threads -> {"idle", "open", "truncate", "dump"}]
        /\ late \in [Threads -> SUBSET Keys] /\ LedgerTypeOK
    BY DEF LedgerInv, LedgerTypeOK
  <2>2. /\ pc[s] = "truncate" /\ recon' = EmptyRecon /\ pc' = [pc EXCEPT ![s] = "dump"]
        /\ UNCHANGED <<rows, expected, plan, late, raced>>
    BY <1>1 DEF TruncateRecon
  <2>3. ASSUME NEW t \in Threads PROVE PlanOK(t)' /\ Expects(t)'
    <3>1. CASE t = s
      <4>1. /\ plan'[s] = plan[s] /\ plan[s] = {} /\ pc'[s] = "dump" /\ expected'[s] = expected[s]
            /\ Covered(expected[s])
        BY <2>1, <2>2 DEF LedgerInv, PlanOK, Expects
      <4>2. Covered(expected[s])'
        BY <2>2, <4>1 DEF Covered
      <4> QED BY <2>2, <3>1, <4>1, <4>2 DEF PlanOK, Expects
    <3>2. CASE t # s
      BY <2>1, <2>2, <3>2, ThreadKept DEF LedgerInv
    <3> QED BY <3>1, <3>2
  <2>4. recon'.state = "empty"
    BY <2>2 DEF EmptyRecon
  <2>5. LedgerTypeOK'
    <3>1. \A t \in Threads : pc'[t] = "idle" => plan'[t] = {} /\ expected'[t] = {}
      BY <2>1, <2>2 DEF LedgerTypeOK
    <3>2. pc' \in [Threads -> {"idle", "open", "truncate", "dump"}] /\ late' \in [Threads -> SUBSET Keys]
      BY <2>1, <2>2
    <3> QED BY <2>2, <2>3, <2>4, <3>1, <3>2, TypesKept
  <2>6. Sessions' /\ OwnIds'
    BY <2>2 DEF LedgerInv, Sessions, OwnIds
  <2>7. OneOpenPick' /\ PicksAddUp' /\ ReconCovered'
    BY <2>2, <2>4, <2>5, RowsKept DEF ReconCovered
  <2> QED BY <2>3, <2>5, <2>6, <2>7 DEF LedgerInv
<1>2. CASE DumpRecon(s)
  <2>1. /\ pc[s] = "dump" /\ Leave(s) /\ UNCHANGED <<rows, raced>>
        /\ \/ recon' = [state |-> "written", expected |-> expected[s]]
           \/ recon' = TornRecon
    BY <1>2 DEF DumpRecon
  <2>2. Covered(expected[s])
    BY <2>1 DEF LedgerInv, Expects
  <2>3. recon'.state \in {"written", "torn"}
        /\ (recon'.state = "written" => recon'.expected = expected[s])
    BY <2>1 DEF TornRecon
  <2>4. ReconCovered'
    BY <2>1, <2>2, <2>3 DEF ReconCovered, Covered
  <2> QED BY <2>1, <2>3, <2>4, LeavesKeeps
<1>3. CASE Fail(s)
  <2>1. Leave(s) /\ UNCHANGED <<rows, recon, raced>>
    BY <1>3 DEF Fail
  <2>2. recon'.state \in {"absent", "empty", "torn", "written"} /\ ReconCovered'
    BY <2>1 DEF LedgerInv, LedgerTypeOK, ReconCovered
  <2> QED BY <2>1, <2>2, LeavesKeeps
<1> QED BY <1>1, <1>2, <1>3

-----------------------------------------------------------------------------
(* The steps that plan a change *)

\* A scan's next pick is of a key it has no plan for, and of a pick no other session
\* is about to add.
LEMMA PlanGrows ==
  ASSUME LedgerInv, NEW s \in Threads, pc[s] = "idle" \/ (pc[s] = "open" /\ expected[s] # {}),
         NEW w0 \in Change, w0.new.key \notin expected[s], w0.new.status = "open",
         Sound(w0), Current(w0), w0.old = Unset => w0.id \in UnusedIds,
         plan' = [plan EXCEPT ![s] = @ \cup {w0}],
         expected' = [expected EXCEPT ![s] = @ \cup {w0.new.key}],
         pc' = [pc EXCEPT ![s] = "open"], UNCHANGED <<rows, recon, late, raced>>
  PROVE  LedgerInv'
<1>1. /\ pc \in [Threads -> {"idle", "open", "truncate", "dump"}]
      /\ plan \in [Threads -> SUBSET Change] /\ expected \in [Threads -> SUBSET Keys]
      /\ late \in [Threads -> SUBSET Keys] /\ LedgerTypeOK
  BY DEF LedgerInv, LedgerTypeOK, Sessions
<1>2. /\ plan'[s] = plan[s] \cup {w0} /\ expected'[s] = expected[s] \cup {w0.new.key}
      /\ pc'[s] = "open" /\ late'[s] = late[s] /\ rows' = rows
  BY <1>1
<1>3. ASSUME NEW t \in Threads, t # s
      PROVE  plan'[t] = plan[t] /\ expected'[t] = expected[t] /\ late'[t] = late[t] /\ pc'[t] = pc[t]
  BY <1>1, <1>3
<1>4. \A v \in plan[s] : v.new.key # w0.new.key
  <2>1. CASE pc[s] = "idle"
    BY <1>1, <2>1 DEF LedgerTypeOK
  <2>2. CASE expected[s] # {}
    BY <2>2 DEF LedgerInv, PlanOK
  <2> QED BY <2>1, <2>2
<1>5. w0.new.key \in Keys
  BY RowFields DEF Change
<1>6. ASSUME NEW t \in Threads, NEW v \in plan[t], v.id = w0.id
      PROVE  w0.old # Unset /\ v.old # Unset /\ v.new.key = w0.new.key
  <2>1. Sound(v)
    BY DEF LedgerInv, PlanOK
  <2>2. w0.id \notin UnusedIds
    BY <1>6 DEF UnusedIds
  <2>3. w0.old # Unset /\ w0.id \in DOMAIN rows /\ rows[w0.id].key = w0.new.key
    BY <2>2 DEF Sound
  <2> QED BY <1>6, <2>1, <2>3 DEF Sound
<1>7. \A w : (Sound(w) => Sound(w)') /\ (Current(w) => Current(w)')
  BY <1>2 DEF Sound, Current, Existing
<1>8. PlanOK(s)'
  <2>1. \A v, w \in plan[s] : v.id = w.id => v = w
    BY DEF LedgerInv, PlanOK
  <2>2. \A v, w \in plan'[s] : v.id = w.id => v = w
    BY <1>2, <1>4, <1>6, <2>1
  <2>3. \A v, w \in plan[s] :
          v.new.key = w.new.key /\ v.new.status = "open" /\ w.new.status = "open" => v = w
    BY DEF LedgerInv, PlanOK
  <2>4. \A v, w \in plan'[s] :
          v.new.key = w.new.key /\ v.new.status = "open" /\ w.new.status = "open" => v = w
    BY <1>2, <1>4, <2>3
  <2>5. ASSUME NEW w \in plan[s]
        PROVE  /\ Sound(w) /\ (w.new.key \in late[s] \/ Current(w))
               /\ w.new.key \in expected[s]
    <3>1. pc[s] = "open" /\ expected[s] # {}
      BY <1>1, <2>5 DEF LedgerTypeOK
    <3> QED BY <2>5, <3>1 DEF LedgerInv, PlanOK
  <2>6. \A w \in plan'[s] :
          /\ Sound(w)' /\ (w.new.key \in late'[s] \/ Current(w)')
          /\ w.new.key \in expected'[s]
    BY <1>2, <1>7, <2>5
  <2> QED BY <1>2, <2>2, <2>4, <2>6 DEF PlanOK
<1>9. Expects(s)'
  <2>1. expected[s] \subseteq KeysOf(s)
    BY <1>1 DEF LedgerInv, Expects, LedgerTypeOK
  <2>2. expected'[s] \subseteq {w.new.key : w \in plan'[s]}
    BY <1>2, <2>1 DEF KeysOf
  <2> QED BY <1>2, <2>2 DEF Expects, KeysOf
<1>10. ASSUME NEW t \in Threads PROVE PlanOK(t)' /\ Expects(t)'
  <2>1. CASE t = s
    BY <1>8, <1>9, <2>1
  <2>2. CASE t # s
    <3>1. PlanOK(t) /\ Expects(t)
      BY DEF LedgerInv
    <3> QED BY <1>2, <1>3, <2>2, <3>1, ThreadKept
  <2> QED BY <2>1, <2>2
<1>11. OwnIds'
  <2> SUFFICES ASSUME NEW t \in Threads, NEW u \in Threads, NEW v \in plan'[t], NEW w \in plan'[u],
                      v.id = w.id, w.old = Unset
      PROVE  t = u
    BY DEF OwnIds
  <2>1. (v \in plan[t] \/ (t = s /\ v = w0)) /\ (w \in plan[u] \/ (u = s /\ w = w0))
    BY <1>2, <1>3
  <2>2. CASE v \in plan[t] /\ w \in plan[u]
    BY <2>2 DEF LedgerInv, OwnIds
  <2> QED BY <1>6, <2>1, <2>2
<1>12. Sessions'
  BY <1>1, <1>5 DEF Sessions
<1>13. LedgerTypeOK'
  <2>1. \A t \in Threads : pc'[t] = "idle" => plan'[t] = {} /\ expected'[t] = {}
    BY <1>1, <1>2, <1>3 DEF LedgerTypeOK
  <2>2. pc' \in [Threads -> {"idle", "open", "truncate", "dump"}] /\ late' \in [Threads -> SUBSET Keys]
    BY <1>1
  <2>3. recon'.state \in {"absent", "empty", "torn", "written"}
    BY <1>1 DEF LedgerTypeOK
  <2> QED BY <1>10, <2>1, <2>2, <2>3, TypesKept
<1>14. OneOpenPick' /\ PicksAddUp'
  BY <1>13, RowsKept DEF LedgerInv
<1>15. ReconCovered'
  BY <1>1 DEF LedgerInv, ReconCovered
<1> QED BY <1>10, <1>11, <1>12, <1>13, <1>14, <1>15 DEF LedgerInv

LEMMA LookKeeps ==
  ASSUME LedgerInv, NEW s \in Threads, Look(s)
  PROVE  LedgerInv'
<1>1. PICK f \in Fixtures, m \in Markets, q \in Quotes :
        /\ <<f, m>> \notin expected[s]
        /\ expected' = [expected EXCEPT ![s] = @ \cup {<<f, m>>}]
        /\ \/ \E id \in Existing(<<f, m>>) :
                 plan' = [plan EXCEPT ![s] =
                   @ \cup {[id |-> id, old |-> rows[id], new |-> Requoted(rows[id], q)]}]
           \/ /\ Existing(<<f, m>>) = {} /\ UnusedIds # {}
              /\ plan' = [plan EXCEPT ![s] =
                   @ \cup {[id |-> FreshId, old |-> Unset, new |-> NewRow(<<f, m>>, q)]}]
  BY ZenonT(60) DEF Look
<1> DEFINE key == <<f, m>>
<1>2. /\ pc[s] = "idle" \/ (pc[s] = "open" /\ expected[s] # {})
      /\ pc' = [pc EXCEPT ![s] = "open"] /\ UNCHANGED <<rows, recon, late, raced>>
  BY DEF Look
<1>3. key \in Keys
  BY DEF Keys
<1>4. ASSUME NEW id \in Existing(key),
             plan' = [plan EXCEPT ![s] =
               @ \cup {[id |-> id, old |-> rows[id], new |-> Requoted(rows[id], q)]}]
      PROVE  LedgerInv'
  <2> DEFINE w0 == [id |-> id, old |-> rows[id], new |-> Requoted(rows[id], q)]
  <2>1. /\ id \in DOMAIN rows /\ rows[id].key = key /\ rows[id].status = "open"
        /\ id \in PickIds /\ rows[id] \in Row /\ rows[id].outcome = Unset
    BY DEF Existing, LedgerInv, LedgerTypeOK
  <2>2. /\ Requoted(rows[id], q) \in Row /\ Requoted(rows[id], q).key = key
        /\ Requoted(rows[id], q).status = "open"
    BY <2>1, RequotedTypes
  <2>3. rows[id] # Unset
    BY <2>1, UnsetAssumption
  <2>4. w0 \in Change
    BY <2>1, <2>2 DEF Change
  <2>5. Changes(rows[id], Requoted(rows[id], q))
    BY DEF Changes
  <2>6. /\ w0.id = id /\ w0.old = rows[id] /\ w0.new = Requoted(rows[id], q)
        /\ w0.new.key = key /\ w0.new.status = "open"
    BY <2>2
  <2>7. Sound(w0) /\ Current(w0)
    <3> HIDE DEF w0
    <3> QED BY <2>1, <2>3, <2>5, <2>6 DEF Sound, Current
  <2>8. plan' = [plan EXCEPT ![s] = @ \cup {w0}] /\ w0.new.key \notin expected[s]
        /\ expected' = [expected EXCEPT ![s] = @ \cup {w0.new.key}]
    BY <1>1, <1>4, <2>6
  <2>9. w0.old # Unset
    BY <2>3, <2>6
  <2> HIDE DEF w0
  <2> QED BY <1>2, <2>4, <2>6, <2>7, <2>8, <2>9, PlanGrows
<1>5. ASSUME Existing(key) = {}, UnusedIds # {},
             plan' = [plan EXCEPT ![s] =
               @ \cup {[id |-> FreshId, old |-> Unset, new |-> NewRow(key, q)]}]
      PROVE  LedgerInv'
  <2> DEFINE w0 == [id |-> FreshId, old |-> Unset, new |-> NewRow(key, q)]
  <2>1. FreshId \in UnusedIds /\ FreshId \in PickIds /\ FreshId \notin DOMAIN rows
    BY <1>5, FreshIdUnused DEF UnusedIds
  <2>2. NewRow(key, q) \in Row /\ NewRow(key, q).key = key /\ NewRow(key, q).status = "open"
    BY <1>3, NewRowTypes
  <2>3. w0 \in Change
    BY <2>1, <2>2 DEF Change
  <2>4. /\ w0.id = FreshId /\ w0.old = Unset /\ w0.new = NewRow(key, q)
        /\ w0.new.key = key /\ w0.new.status = "open"
    BY <2>2
  <2>5. Sound(w0) /\ Current(w0)
    <3> HIDE DEF w0, key
    <3> QED BY <1>3, <1>5, <2>1, <2>4 DEF Sound, Current
  <2>6. plan' = [plan EXCEPT ![s] = @ \cup {w0}] /\ w0.new.key \notin expected[s]
        /\ expected' = [expected EXCEPT ![s] = @ \cup {w0.new.key}]
    BY <1>1, <1>5, <2>4
  <2> HIDE DEF w0
  <2> QED BY <1>2, <2>1, <2>3, <2>4, <2>5, <2>6, PlanGrows
<1> QED BY <1>1, <1>4, <1>5

\* A settlement plans for every open pick it has a result for, as it is stored.
LEMMA SettlementPlans ==
  ASSUME LedgerInv, NEW fs \in SUBSET Fixtures, NEW results \in [fs -> Results],
         NEW id \in DOMAIN rows, rows[id].status = "open", rows[id].key[1] \in fs,
         NEW w, w = [id |-> id, old |-> rows[id], new |-> Settled(rows[id], results[rows[id].key[1]])]
  PROVE  /\ w \in Change /\ Sound(w) /\ Current(w) /\ w.old # Unset
         /\ w.id = id /\ w.new.status = "settled"
<1> DEFINE res == results[rows[id].key[1]]
<1>1. id \in PickIds /\ rows[id] \in Row /\ rows[id].outcome = Unset
  BY DEF LedgerInv, LedgerTypeOK
<1>2. res \in Results
  OBVIOUS
<1>3. w.id = id /\ w.old = rows[id] /\ w.new = Settled(rows[id], res)
  OBVIOUS
<1> HIDE DEF res
<1>4. Settled(rows[id], res) \in Row /\ Settled(rows[id], res).key = rows[id].key
      /\ Settled(rows[id], res).status = "settled"
  BY <1>1, <1>2, SettledTypes
<1>5. w \in Change
  BY <1>1, <1>4 DEF Change, res
<1>6. Changes(rows[id], Settled(rows[id], res))
  BY <1>2 DEF Changes
<1>7. w.old # Unset
  BY <1>1, <1>3, UnsetAssumption
<1> QED BY <1>1, <1>3, <1>4, <1>5, <1>6, <1>7 DEF Sound, Current

LEMMA SettleKeeps ==
  ASSUME LedgerInv, NEW s \in Threads, SettleBegins(s)
  PROVE  LedgerInv'
<1>1. PICK fs \in SUBSET Fixtures : \E results \in [fs -> Results] :
        plan' = [plan EXCEPT ![s] =
          {[id |-> id, old |-> rows[id], new |-> Settled(rows[id], results[rows[id].key[1]])] :
             id \in {i \in DOMAIN rows : rows[i].status = "open" /\ rows[i].key[1] \in fs}}]
  BY DEF SettleBegins
<1>2. PICK results \in [fs -> Results] :
        plan' = [plan EXCEPT ![s] =
          {[id |-> id, old |-> rows[id], new |-> Settled(rows[id], results[rows[id].key[1]])] :
             id \in {i \in DOMAIN rows : rows[i].status = "open" /\ rows[i].key[1] \in fs}}]
  BY <1>1
<1> DEFINE open == {i \in DOMAIN rows : rows[i].status = "open" /\ rows[i].key[1] \in fs}
           change(id) == [id |-> id, old |-> rows[id],
                          new |-> Settled(rows[id], results[rows[id].key[1]])]
<1>3. /\ pc[s] = "idle" /\ pc' = [pc EXCEPT ![s] = "open"]
      /\ UNCHANGED <<rows, recon, expected, late, raced>>
  BY DEF SettleBegins
<1>4. /\ pc \in [Threads -> {"idle", "open", "truncate", "dump"}]
      /\ plan \in [Threads -> SUBSET Change] /\ expected \in [Threads -> SUBSET Keys]
      /\ late \in [Threads -> SUBSET Keys] /\ LedgerTypeOK
  BY DEF LedgerInv, LedgerTypeOK, Sessions
<1>5. /\ plan'[s] = {change(id) : id \in open} /\ pc'[s] = "open" /\ expected'[s] = {}
      /\ late'[s] = late[s] /\ rows' = rows
  BY <1>2, <1>3, <1>4 DEF LedgerTypeOK
<1>6. ASSUME NEW w \in plan'[s]
      PROVE  /\ w \in Change /\ Sound(w) /\ Current(w) /\ w.old # Unset
             /\ w.new.status = "settled" /\ w = change(w.id)
  <2>1. PICK id \in open : w = change(id)
    BY <1>5
  <2> QED BY <2>1, SettlementPlans
<1>7. ASSUME NEW t \in Threads, t # s
      PROVE  plan'[t] = plan[t] /\ expected'[t] = expected[t] /\ late'[t] = late[t] /\ pc'[t] = pc[t]
  BY <1>2, <1>3, <1>4, <1>7
<1> HIDE DEF change, open
<1>8. ASSUME NEW t \in Threads PROVE PlanOK(t)' /\ Expects(t)'
  <2>1. CASE t = s
    <3>1. \A w \in plan'[s] : Sound(w)' /\ Current(w)'
      BY <1>5, <1>6 DEF Sound, Current, Existing
    <3>2. \A v, w \in plan'[s] : v.id = w.id => v = w
      BY <1>6
    <3>3. \A w \in plan'[s] : w.new.status # "open"
      BY <1>6
    <3>4. PlanOK(s)'
      BY <1>5, <3>1, <3>2, <3>3 DEF PlanOK
    <3>5. Expects(s)'
      BY <1>5 DEF Expects
    <3> QED BY <2>1, <3>4, <3>5
  <2>2. CASE t # s
    <3>1. PlanOK(t) /\ Expects(t)
      BY DEF LedgerInv
    <3> QED BY <1>5, <1>7, <2>2, <3>1, ThreadKept
  <2> QED BY <2>1, <2>2
<1>9. OwnIds'
  <2> SUFFICES ASSUME NEW t \in Threads, NEW u \in Threads, NEW v \in plan'[t], NEW w \in plan'[u],
                      v.id = w.id, w.old = Unset
      PROVE  t = u
    BY DEF OwnIds
  <2>1. u # s
    BY <1>6
  <2>2. w \in plan[u] /\ Sound(w)
    BY <1>7, <2>1 DEF LedgerInv, PlanOK
  <2>3. CASE t = s
    BY <1>6, <2>2, <2>3 DEF Sound
  <2>4. CASE t # s
    BY <1>7, <2>2, <2>4 DEF LedgerInv, OwnIds
  <2> QED BY <2>3, <2>4
<1>10. Sessions'
  <2>1. plan'[s] \in SUBSET Change
    BY <1>6
  <2> QED BY <1>2, <1>3, <1>4, <2>1 DEF Sessions
<1>11. LedgerTypeOK'
  <2>1. \A t \in Threads : pc'[t] = "idle" => plan'[t] = {} /\ expected'[t] = {}
    BY <1>4, <1>5, <1>7 DEF LedgerTypeOK
  <2>2. pc' \in [Threads -> {"idle", "open", "truncate", "dump"}] /\ late' \in [Threads -> SUBSET Keys]
    BY <1>3, <1>4
  <2>3. recon'.state \in {"absent", "empty", "torn", "written"}
    BY <1>3, <1>4 DEF LedgerTypeOK
  <2> QED BY <1>3, <1>8, <2>1, <2>2, <2>3, TypesKept
<1>12. OneOpenPick' /\ PicksAddUp' /\ ReconCovered'
  BY <1>3, <1>11, RowsKept DEF LedgerInv, ReconCovered
<1> QED BY <1>8, <1>9, <1>10, <1>11, <1>12 DEF LedgerInv

-----------------------------------------------------------------------------
(* Every step *)

LEMMA RestartKeeps ==
  ASSUME LedgerInv, Restart
  PROVE  LedgerInv'
<1>1. /\ pc' = [s \in Threads |-> "idle"] /\ plan' = [s \in Threads |-> {}]
      /\ expected' = [s \in Threads |-> {}] /\ late' = [s \in Threads |-> {}]
      /\ UNCHANGED <<rows, recon, raced>>
  BY DEF Restart
<1>2. \A t \in Threads : PlanOK(t)' /\ Expects(t)'
  BY <1>1, ThreadLeft
<1>3. Sessions' /\ OwnIds'
  BY <1>1 DEF Sessions, OwnIds
<1>4. recon'.state \in {"absent", "empty", "torn", "written"}
  BY <1>1 DEF LedgerInv, LedgerTypeOK
<1>5. LedgerTypeOK'
  BY <1>1, <1>2, <1>4, TypesKept
<1>6. OneOpenPick' /\ PicksAddUp' /\ ReconCovered'
  BY <1>1, <1>5, RowsKept DEF LedgerInv, ReconCovered
<1> QED BY <1>2, <1>3, <1>5, <1>6 DEF LedgerInv

LEMMA InitLedgerInv == Init => LedgerInv
<1> SUFFICES ASSUME Init PROVE LedgerInv
  OBVIOUS
<1>1. /\ DOMAIN rows = {} /\ recon = NoRecon /\ raced = {}
      /\ \A s \in Threads : pc[s] = "idle" /\ expected[s] = {} /\ plan[s] = {}
  BY DEF Init
<1>2. recon.state = "absent"
  BY <1>1 DEF NoRecon
<1>3. LedgerTypeOK
  BY <1>1, <1>2 DEF LedgerTypeOK, Init
<1>4. Sessions /\ OwnIds
  BY <1>1 DEF Sessions, OwnIds, Init
<1>5. \A s \in Threads : PlanOK(s) /\ Expects(s)
  BY <1>1 DEF PlanOK, Expects, Covered
<1> QED BY <1>1, <1>2, <1>3, <1>4, <1>5 DEF LedgerInv, OneOpenPick, PicksAddUp, ReconCovered

LEMMA NextLedgerInv == LedgerInv /\ [Next]_vars => LedgerInv'
<1> SUFFICES ASSUME LedgerInv, [Next]_vars PROVE LedgerInv'
  OBVIOUS
<1>1. ASSUME NEW s \in Threads, Look(s) PROVE LedgerInv'
  BY <1>1, LookKeeps
<1>2. ASSUME NEW s \in Threads, TruncateRecon(s) \/ DumpRecon(s) \/ Fail(s) PROVE LedgerInv'
  BY <1>2, FilesKeep
<1>3. ASSUME NEW s \in Threads, SettleBegins(s) PROVE LedgerInv'
  BY <1>3, SettleKeeps
<1>4. ASSUME NEW s \in Threads, Commit(s) PROVE LedgerInv'
  BY <1>4, CommitKeeps
<1>5. CASE Restart
  BY <1>5, RestartKeeps
<1>6. CASE UNCHANGED vars
  BY <1>6 DEF vars, LedgerInv, LedgerTypeOK, Sessions, OwnIds, PlanOK, Expects, KeysOf, Sound,
              Current, Existing, Covered, OneOpenPick, PicksAddUp, ReconCovered
<1> QED BY <1>1, <1>2, <1>3, <1>4, <1>5, <1>6 DEF Next

LEMMA LedgerInvariant == Spec => []LedgerInv
BY InitLedgerInv, NextLedgerInv, PTL DEF Spec

-----------------------------------------------------------------------------
(* What the ledger promises *)

\* However scans, settlements, failures and restarts follow each other, and however
\* many there are, a fixture has one open pick per market unless two requests looked
\* the key up before either committed (record_value_picks, settle_open_picks).
THEOREM LedgerOneOpenPick == Spec => []OneOpenPick
<1>1. LedgerInv => OneOpenPick
  BY DEF LedgerInv
<1> QED BY <1>1, LedgerInvariant, PTL

\* A pick's hash, its profit and loss and its verdict on the closing line are of the
\* odds and the stake stored beside them, unless two requests were late for its key.
THEOREM LedgerPicksAddUp == Spec => []PicksAddUp
<1>1. LedgerInv => PicksAddUp
  BY DEF LedgerInv
<1> QED BY <1>1, LedgerInvariant, PTL

\* A reconciliation file that can be read accounts for picks that are in the ledger,
\* whatever requests ran beside the scan that wrote it, and wherever one failed.
THEOREM LedgerReconCovered == Spec => []ReconCovered
<1>1. LedgerInv => ReconCovered
  BY DEF LedgerInv
<1> QED BY <1>1, LedgerInvariant, PTL
=============================================================================
