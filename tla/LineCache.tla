----------------------------- MODULE LineCache ------------------------------
(***************************************************************************)
(* pipeline/cache.py for one fixture: the snapshot of the last price per   *)
(* selection and the rings of recent price moves, in Redis or in memory,   *)
(* merged into by the threads that poll its feeds.  A selection here is a  *)
(* selection_key, one market at one bookmaker from one feed.  merge_ticks  *)
(* reads the snapshot, appends the moves to the rings and writes the       *)
(* snapshot back; each is a round trip of its own and nothing locks the    *)
(* fixture, while the scheduler keeps apart only polls of the same feed.   *)
(*                                                                         *)
(* A tick of the clock is one peak window.  Ttl windows without a write    *)
(* expire the snapshot.  The markets' rings are read in one step.  Odds    *)
(* are units further apart than the 0.001 by which merge_snapshot tells a  *)
(* move.                                                                   *)
(***************************************************************************)
EXTENDS Naturals, FiniteSets

CONSTANTS
  Mergers,   \* threads that merge into the fixture
  Sels,      \* selection keys
  SelOf,     \* the selection a thread's feed quotes
  Prices,    \* odds
  Ttl        \* ttl_sec, in windows

NoPrice == 0

ASSUME CacheAssumption ==
  /\ SelOf \in [Mergers -> Sels]
  /\ Prices \subseteq Nat \ {NoPrice} /\ IsFiniteSet(Prices)
  /\ Ttl \in Nat \ {0}

VARIABLES
  snap,      \* fve:ticks: the last price merged per selection
  age,       \* windows since the snapshot was written
  ring,      \* the rings: <<selection, price>> of moves inside the window
  mpc,       \* where each thread is in merge_ticks
  tick,      \* the price it fetched
  inTime,    \* ... and whether it was fetched inside the current window
  existing   \* the snapshot it read

cacheVars == <<snap, age, ring, mpc, tick, inTime, existing>>

Shown == [Sels -> Prices \cup {NoPrice}]

CachePc == {"idle", "read", "append", "write"}

CacheTypeOK ==
  /\ snap \in Shown
  /\ age \in 0 .. Ttl
  /\ ring \subseteq Sels \X Prices
  /\ mpc \in [Mergers -> CachePc]
  /\ tick \in [Mergers -> Prices \cup {NoPrice}]
  /\ inTime \in [Mergers -> BOOLEAN]
  /\ existing \in [Mergers -> Shown]

Empty == [s \in Sels |-> NoPrice]

CacheInit ==
  /\ snap = Empty
  /\ age = Ttl
  /\ ring = {}
  /\ mpc = [m \in Mergers |-> "idle"]
  /\ tick = [m \in Mergers |-> NoPrice]
  /\ inTime = [m \in Mergers |-> FALSE]
  /\ existing = [m \in Mergers |-> Empty]

Advance(m, from, to) ==
  /\ mpc[m] = from
  /\ mpc' = [mpc EXCEPT ![m] = to]

-----------------------------------------------------------------------------
(* merge_ticks *)

\* The feed answers with whatever its price now is.
Fetch(m) ==
  /\ Advance(m, "idle", "read")
  /\ \E p \in Prices : tick' = [tick EXCEPT ![m] = p]
  /\ inTime' = [inTime EXCEPT ![m] = TRUE]
  /\ UNCHANGED <<snap, age, ring, existing>>

ReadSnapshot(m) ==
  /\ Advance(m, "read", "append")
  /\ existing' = [existing EXCEPT ![m] = snap]
  /\ UNCHANGED <<snap, age, ring, tick, inTime>>

\* merge_snapshot: a price that differs from the one read goes to the rings.
Changed(m) == existing[m][SelOf[m]] # tick[m]

\* A reader of the rings leaves out ticks received before the window.
AppendTick(m) ==
  /\ Advance(m, "append", "write")
  /\ ring' = IF Changed(m) /\ inTime[m] THEN ring \cup {<<SelOf[m], tick[m]>>} ELSE ring
  /\ UNCHANGED <<snap, age, tick, inTime, existing>>

\* (mutant: the prices of the other feeds are left out)
WriteOwnPrice(m) ==
  /\ Advance(m, "write", "idle")
  /\ snap' = [Empty EXCEPT ![SelOf[m]] = tick[m]]
  /\ age' = 0
  /\ tick' = [tick EXCEPT ![m] = NoPrice]
  /\ inTime' = [inTime EXCEPT ![m] = FALSE]
  /\ existing' = [existing EXCEPT ![m] = Empty]
  /\ UNCHANGED ring

\* The whole snapshot is written, the other feeds' prices as they were read.
\* merge_ticks then returns, and reports whether the price had Changed.
WriteSnapshot(m) ==
  /\ Advance(m, "write", "idle")
  /\ snap' = [existing[m] EXCEPT ![SelOf[m]] = tick[m]]
  /\ age' = 0
  /\ tick' = [tick EXCEPT ![m] = NoPrice]
  /\ inTime' = [inTime EXCEPT ![m] = FALSE]
  /\ existing' = [existing EXCEPT ![m] = Empty]
  /\ UNCHANGED ring

-----------------------------------------------------------------------------
(* The clock.  The last window before Ttl takes the snapshot with it. *)

WindowPasses ==
  /\ age' = IF age < Ttl THEN age + 1 ELSE Ttl
  /\ snap' = IF age' = Ttl THEN Empty ELSE snap
  /\ ring' = {}
  /\ inTime' = [m \in Mergers |-> FALSE]
  /\ UNCHANGED <<mpc, tick, existing>>

-----------------------------------------------------------------------------
(* build_line_view: the best price of every selection with a move in the   *)
(* window (get_peak_ticks), the snapshot when nothing moved.               *)

Peaks(s) == {e[2] : e \in {f \in ring : f[1] = s}}

Best(ps) == IF ps = {} THEN NoPrice ELSE CHOOSE p \in ps : \A q \in ps : q <= p

ActiveOr(snapshot) == IF ring = {} THEN snapshot ELSE [s \in Sels |-> Best(Peaks(s))]

LineView == ActiveOr(snap)
=============================================================================
