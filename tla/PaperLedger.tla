---------------------------- MODULE PaperLedger -----------------------------
(***************************************************************************)
(* The paper ledger of engine/paper_ledger.py.  POST /value-scan records   *)
(* its picks and POST /api/paper/settle settles what is open, each request *)
(* in a thread of the API and in a database session of its own: a session  *)
(* reads what others have committed, one query per pick, and writes its    *)
(* own changes in one commit, of a row it has read only the columns it     *)
(* changed.  Nothing in the schema keeps a second open pick out.  The      *)
(* reconciliation file is written after the commit, outside of it.         *)
(*                                                                         *)
(* The database may refuse a session at any point (a locked SQLite file, a *)
(* deadlock between two sessions' row locks) and the process may restart.  *)
(***************************************************************************)
EXTENDS Integers, FiniteSets, ClvBenchmark

CONSTANTS
  Threads,     \* of the API, each serving a scan or a settlement
  Fixtures,
  Markets,     \* the markets picks are made in, Sides among them
  Quotes,      \* what a scan may want of a market: <<odds, stake>>
  Results,     \* what a settlement may be told: [outcome, close]
  MaxPicks,    \* bound on the picks ever stored
  Unset        \* NULL

\* The closing prices of a result: three triplets, and a price per market.
Closes == [pinnacle : [Sides -> Nat], exchange : [Sides -> Nat],
           apiFootball : [Sides -> Nat], legacy : [Markets -> Nat]]

ASSUME LedgerAssumption ==
  /\ Quotes \subseteq Nat \X Nat
  /\ Results \subseteq [outcome : Sides, close : Closes]
  /\ MaxPicks \in Nat
  /\ Unset \notin Sides

VARIABLES
  rows,      \* paper_picks, by pick_id
  recon,     \* paper_recon.json
  pc,        \* where each request is
  expected,  \* expected_keys, the keys a scan has looked up
  plan,      \* the changes a session will commit: [id, old, new]
  late,      \* keys others have committed since a session read them
  raced      \* keys committed by a session that was late for them

vars == <<rows, recon, pc, expected, plan, late, raced>>

PickIds == 1..MaxPicks
Keys == Fixtures \X Markets
NoRecon == [state |-> "absent"]     \* no scan yet
EmptyRecon == [state |-> "empty"]   \* truncated by open()
TornRecon == [state |-> "torn"]     \* the rest of a longer dump behind a shorter one

Row == [key : Keys, odds : Nat, stake : Nat, hashed : Quotes,
        status : {"open", "settled"}, outcome : Sides \cup {Unset},
        won : BOOLEAN \cup {Unset}, pnl : Int \cup {Unset},
        closing : Nat \cup {Unset}, beat : BOOLEAN \cup {Unset},
        tier : Tiers \cup {Unset}]

\* NULL is not a row.
ASSUME UnsetAssumption == Unset \notin Row

\* The keys of what a session is about to commit.
KeysOf(s) == {w.new.key : w \in plan[s]}

Init ==
  /\ rows = <<>>
  /\ recon = NoRecon
  /\ pc = [s \in Threads |-> "idle"]
  /\ expected = [s \in Threads |-> {}]
  /\ plan = [s \in Threads |-> {}]
  /\ late = [s \in Threads |-> {}]
  /\ raced = {}

\* A session is over: nothing of it is left.
Leave(s) ==
  /\ pc' = [pc EXCEPT ![s] = "idle"]
  /\ expected' = [expected EXCEPT ![s] = {}]
  /\ plan' = [plan EXCEPT ![s] = {}]
  /\ late' = [late EXCEPT ![s] = {}]

-----------------------------------------------------------------------------
(* record_value_picks *)

\* Mutants of the query: by pick_id, which is new, and without the status.
ExistingById(key) == {id \in {} : rows[id].key = key}
ExistingAnyStatus(key) == {id \in DOMAIN rows : rows[id].key = key}

\* The open picks stored for a key; the query takes any one of them.
Existing(key) == {id \in DOMAIN rows : rows[id].key = key /\ rows[id].status = "open"}

\* uuid4: an id that no other pick has, stored or planned; the least will do.
UnusedIds == PickIds \ (DOMAIN rows \cup UNION {{w.id : w \in plan[s]} : s \in Threads})
FreshId == CHOOSE id \in UnusedIds : \A i \in UnusedIds : id <= i

NewRow(key, q) ==
  [key |-> key, odds |-> q[1], stake |-> q[2], hashed |-> q, status |-> "open",
   outcome |-> Unset, won |-> Unset, pnl |-> Unset, closing |-> Unset,
   beat |-> Unset, tier |-> Unset]

Requoted(row, q) == [row EXCEPT !.odds = q[1], !.stake = q[2], !.hashed = q]

\* A pick of the scan's list is looked up, and added or overwritten.  A scan is
\* of one fixture, has one pick per market and at least one (without any it
\* returns at once); the list is chosen as the loop goes through it.
Look(s) ==
  /\ pc[s] = "idle" \/ (pc[s] = "open" /\ expected[s] # {})
  /\ \E f \in Fixtures, m \in Markets, q \in Quotes :
       LET key == <<f, m>>
           Plans(w) == plan' = [plan EXCEPT ![s] = @ \cup {w}]
       IN  /\ key \notin expected[s] /\ \A k \in expected[s] : k[1] = f
           /\ expected' = [expected EXCEPT ![s] = @ \cup {key}]
           /\ \/ \E id \in Existing(key) :
                   Plans([id |-> id, old |-> rows[id], new |-> Requoted(rows[id], q)])
              \/ /\ Existing(key) = {} /\ UnusedIds # {}
                 /\ Plans([id |-> FreshId, old |-> Unset, new |-> NewRow(key, q)])
  /\ pc' = [pc EXCEPT ![s] = "open"]
  /\ UNCHANGED <<rows, recon, late, raced>>

\* The file is emptied by open() and filled by the dump, which overwrites what
\* another thread has dumped in between.  recorded counts the picks, and is the
\* number of expected keys, as a scan has one pick per market.
TruncateRecon(s) ==
  /\ pc[s] = "truncate"
  /\ recon' = EmptyRecon
  /\ pc' = [pc EXCEPT ![s] = "dump"]
  /\ UNCHANGED <<rows, expected, plan, late, raced>>

DumpRecon(s) ==
  /\ pc[s] = "dump"
  /\ \/ recon' = [state |-> "written", expected |-> expected[s]]
     \/ recon # EmptyRecon /\ recon' = TornRecon
  /\ Leave(s)
  /\ UNCHANGED <<rows, raced>>

-----------------------------------------------------------------------------
(* settle_open_picks *)

\* The stake at the odds, or the stake: pence at hundredths.
Pnl(row, won) == IF won THEN row.stake * (row.odds - EvenOdds) ELSE -(row.stake * EvenOdds)

Settled(row, res) ==
  LET market == row.key[2]
      won == market = res.outcome
      closing == ResolveClvClosing(market, res.close)
  IN  [row EXCEPT
        !.status = "settled", !.outcome = res.outcome, !.won = won,
        !.pnl = Pnl(row, won),
        !.closing = IF closing.odds = NoOdds THEN Unset ELSE closing.odds,
        !.beat = IF closing.odds = NoOdds THEN Unset ELSE row.odds >= closing.odds,
        !.tier = closing.tier]

\* Every open pick is read at once, and those with a result are settled.
SettleBegins(s) ==
  /\ pc[s] = "idle"
  /\ \E fs \in SUBSET Fixtures : \E results \in [fs -> Results] :
       LET open == {id \in DOMAIN rows : rows[id].status = "open" /\ rows[id].key[1] \in fs}
       IN  plan' = [plan EXCEPT ![s] =
             {[id |-> id, old |-> rows[id], new |-> Settled(rows[id], results[rows[id].key[1]])] :
                id \in open}]
  /\ pc' = [pc EXCEPT ![s] = "open"]
  /\ UNCHANGED <<rows, recon, expected, late, raced>>

-----------------------------------------------------------------------------
(* The database session *)

\* The columns a session changed.  A new quote changes the hash even if it is the
\* old one, since the hash also covers an id and a time.
Rewrites(c, old, new) == new[c] # old[c] \/ (c = "hashed" /\ new.status = "open")

\* A row as it is stored with the columns a session changed.
Merged(row, old, new) == [c \in DOMAIN new |-> IF Rewrites(c, old, new) THEN new[c] ELSE row[c]]

Stored(s) ==
  [id \in DOMAIN rows \cup {w.id : w \in plan[s]} |->
     IF \E w \in plan[s] : w.id = id
     THEN LET w == CHOOSE v \in plan[s] : v.id = id
          IN  IF w.old = Unset THEN w.new ELSE Merged(rows[id], w.old, w.new)
     ELSE rows[id]]

\* Threads that have read what s commits, and not committed yet, are late
\* for it.
Overtaken(s) ==
  [t \in Threads |->
     IF t = s THEN {}
     ELSE IF pc[t] = "open" THEN late[t] \cup (KeysOf(t) \cap KeysOf(s))
     ELSE late[t]]

Commit(s) ==
  /\ pc[s] = "open"
  /\ rows' = Stored(s)
  /\ raced' = raced \cup (late[s] \cap KeysOf(s))
  /\ late' = Overtaken(s)
  /\ plan' = [plan EXCEPT ![s] = {}]
  /\ pc' = [pc EXCEPT ![s] = IF expected[s] = {} THEN "idle" ELSE "truncate"]
  /\ UNCHANGED <<recon, expected>>

\* Mutant: the exception of the commit is swallowed before the file is written.
FailUnnoticed(s) ==
  /\ pc[s] = "open" /\ expected[s] # {}
  /\ pc' = [pc EXCEPT ![s] = "truncate"]
  /\ plan' = [plan EXCEPT ![s] = {}]
  /\ UNCHANGED <<rows, recon, expected, late, raced>>

\* The database, or the file system before the file is opened, raises: the
\* session is closed and with it whatever was not committed.
Fail(s) ==
  /\ pc[s] \in {"open", "truncate"}
  /\ Leave(s)
  /\ UNCHANGED <<rows, recon, raced>>

\* The API's process ends and starts again.
Restart ==
  /\ \E s \in Threads : pc[s] # "idle"
  /\ pc' = [s \in Threads |-> "idle"]
  /\ plan' = [s \in Threads |-> {}]
  /\ expected' = [s \in Threads |-> {}]
  /\ late' = [s \in Threads |-> {}]
  /\ UNCHANGED <<rows, recon, raced>>

Next ==
  \/ \E s \in Threads : \/ Look(s) \/ TruncateRecon(s) \/ DumpRecon(s)
                         \/ SettleBegins(s) \/ Commit(s) \/ Fail(s)
  \/ Restart

Spec == Init /\ [][Next]_vars

-----------------------------------------------------------------------------
(* Properties *)

\* The shape of a session's plan: its own ids, at most one change to a pick, and
\* a settled pick with everything a settlement sets.
LedgerTypeOK ==
  /\ DOMAIN rows \subseteq PickIds
  /\ \A id \in DOMAIN rows : rows[id] \in Row
  /\ \A id \in DOMAIN rows : rows[id].status = "settled" <=> rows[id].outcome # Unset
  /\ recon.state \in {"absent", "empty", "torn", "written"}
  /\ pc \in [Threads -> {"idle", "open", "truncate", "dump"}]
  /\ \A s \in Threads : \A v, w \in plan[s] : v.id = w.id => v = w
  /\ \A s \in Threads : pc[s] = "idle" => plan[s] = {} /\ expected[s] = {}
  /\ late \in [Threads -> SUBSET Keys]
  /\ raced \subseteq Keys

\* A fixture has one open pick per market, however scans, settlements, failures
\* and restarts follow each other: a second one needs two requests that
\* looked the key up before either committed.
OneOpenPick ==
  \A i, j \in DOMAIN rows :
    /\ rows[i].status = "open" /\ rows[j].status = "open"
    /\ rows[i].key = rows[j].key
    => i = j \/ rows[i].key \in raced

RowAddsUp(row) ==
  /\ row.hashed = <<row.odds, row.stake>>
  /\ row.status = "settled" =>
       /\ row.won = (row.key[2] = row.outcome)
       /\ row.pnl = Pnl(row, row.won)
       /\ row.closing # Unset => row.beat = (row.odds >= row.closing)

\* A pick's hash, its profit and loss and its verdict on the closing line are of
\* the odds and the stake stored beside them: the columns of two requests mix
\* only if both had read the pick before either committed.
PicksAddUp == LedgerTypeOK /\ \A id \in DOMAIN rows : rows[id].key \in raced \/ RowAddsUp(rows[id])

\* A reconciliation file that can be read accounts for picks that are in the
\* ledger, one for each expected key, across failures and restarts.
ReconCovered ==
  recon.state = "written" =>
    \A k \in recon.expected : \E id \in DOMAIN rows : rows[id].key = k
=============================================================================
