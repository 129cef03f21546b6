---------------------------- MODULE RestFallback ----------------------------
(***************************************************************************)
(* The REST fallback of the market streams (rest_market_fallback.py of the *)
(* hibs-bet patches): a task that has a thread poll the latest trade of    *)
(* each lane, stores what it has not seen, and sleeps.  Cancelling the     *)
(* task leaves a poll under way to its thread.                             *)
(*                                                                         *)
(* A lane has one symbol, and its trades are numbered.  The exchange, the  *)
(* storage and the shutdown that cancels the task and closes the storage   *)
(* are the environment.                                                    *)
(***************************************************************************)
EXTENDS Integers, Sequences, SequencesExt

CONSTANTS
  MaxTrades,   \* bound on the trades of a lane
  NoPacket     \* nothing in the thread's hand

Lanes == {"equity", "crypto"}

VARIABLES
  task,      \* run_forever: alive, cancelled, or raised
  loop,      \* where it is: at its top, waiting for the thread, asleep
  poll,      \* the lane the thread is at
  hand,      \* the trade it is about to store
  seen,      \* _seen, oldest first
  latest,    \* the number of a lane's latest trade
  fetched,   \* trades that polls have been given
  stored,    \* trades in the storage
  open       \* the storage is

vars == <<task, loop, poll, hand, seen, latest, fetched, stored, open>>

Init ==
  /\ task = "alive" /\ loop = "top"
  /\ poll = "idle" /\ hand = NoPacket /\ seen = <<>>
  /\ latest = [l \in Lanes |-> 0]
  /\ fetched = {} /\ stored = {}
  /\ open = TRUE

TradeHappens(l) ==
  /\ latest[l] < MaxTrades
  /\ latest' = [latest EXCEPT ![l] = @ + 1]
  /\ UNCHANGED <<task, loop, poll, hand, seen, fetched, stored, open>>

-----------------------------------------------------------------------------
(* run_forever *)

PollBegins ==
  /\ task = "alive" /\ loop = "top"
  /\ loop' = "poll" /\ poll' = "equity"
  /\ UNCHANGED <<task, hand, seen, latest, fetched, stored, open>>

SleepEnds ==
  /\ task = "alive" /\ loop = "sleep"
  /\ loop' = "top"
  /\ UNCHANGED <<task, poll, hand, seen, latest, fetched, stored, open>>

\* graceful_shutdown stops and cancels the task, wherever it is.
Cancel ==
  /\ task = "alive"
  /\ task' = "cancelled"
  /\ UNCHANGED <<loop, poll, hand, seen, latest, fetched, stored, open>>

CloseStorage ==
  /\ task # "alive" /\ open
  /\ open' = FALSE
  /\ UNCHANGED <<task, loop, poll, hand, seen, latest, fetched, stored>>

-----------------------------------------------------------------------------
(* poll_once, in the thread *)

\* Mutant: the loop waits for a second answer of the thread.
LaneDoneDeaf ==
  /\ hand' = NoPacket
  /\ poll' = IF poll = "equity" THEN "crypto" ELSE "equity"
  /\ loop' = loop

\* The thread is through with a lane; after the last one the loop, if there is one
\* still, sleeps.
LaneDone ==
  /\ hand' = NoPacket
  /\ poll' = IF poll = "equity" THEN "crypto" ELSE "idle"
  /\ loop' = IF poll = "crypto" THEN "sleep" ELSE loop

\* Mutant: a key that does not tell the lanes apart.
TradeNumber(l, n) == <<"equity", n>>

SeenKey(l, n) == <<l, n>>

\* The lane is fresh or has no symbols, its request fails, or it has no trade.
NothingToTake ==
  /\ poll # "idle" /\ hand = NoPacket
  /\ LaneDone
  /\ UNCHANGED <<task, seen, latest, fetched, stored, open>>

\* The lane's latest trade is fetched.  Keys of the last five minutes are
\* remembered, whose oldest expire here; a trade that is not among them is marked
\* as seen before it is stored.
Fetch ==
  /\ poll # "idle" /\ hand = NoPacket /\ latest[poll] > 0
  /\ fetched' = fetched \cup {<<poll, latest[poll]>>}
  /\ \E old \in 0..Len(seen) :
       LET kept == SubSeq(seen, old + 1, Len(seen))
           key == SeenKey(poll, latest[poll])
       IN  IF key \in ToSet(kept)
           THEN seen' = kept /\ LaneDone
           ELSE /\ seen' = Append(kept, key)
                /\ hand' = <<poll, latest[poll]>>
                /\ UNCHANGED <<poll, loop>>
  /\ UNCHANGED <<task, latest, stored, open>>

Ingest ==
  /\ hand # NoPacket /\ open
  /\ stored' = stored \cup {hand}
  /\ LaneDone
  /\ UNCHANGED <<task, seen, latest, fetched, open>>

\* The storage raises, and the poll with it; the loop too, if it waits for it.
IngestRaises ==
  /\ hand # NoPacket
  /\ hand' = NoPacket /\ poll' = "idle"
  /\ task' = IF task = "alive" THEN "raised" ELSE task
  /\ UNCHANGED <<loop, seen, latest, fetched, stored, open>>

PollSteps == NothingToTake \/ Fetch \/ Ingest \/ IngestRaises

Next ==
  \/ \E l \in Lanes : TradeHappens(l)
  \/ PollBegins \/ SleepEnds \/ Cancel \/ CloseStorage
  \/ PollSteps

Safety == Init /\ [][Next]_vars

-----------------------------------------------------------------------------
(* Properties *)

\* The types; the thread holds a trade of the lane it polls, there is one poll at
\* a time, and the loop awaits it.
FallbackTypeOK ==
  /\ task \in {"alive", "cancelled", "raised"}
  /\ loop \in {"top", "poll", "sleep"} /\ poll \in Lanes \cup {"idle"}
  /\ hand # NoPacket => poll = hand[1]
  /\ seen \in Seq(Lanes \X (1..MaxTrades))
  /\ latest \in [Lanes -> 0..MaxTrades]
  /\ fetched \subseteq Lanes \X (1..MaxTrades) /\ stored \subseteq fetched
  /\ open \in BOOLEAN
  /\ task = "alive" => (loop = "poll" <=> poll # "idle")

\* What a poll was given is stored, while the fallback runs: a trade that counts
\* as seen is in the storage or in the thread's hand, whatever the other lane,
\* the expiry of keys and failed requests do.
TapeStored ==
  /\ FallbackTypeOK
  /\ task = "alive" => fetched \subseteq stored \cup {hand}
=============================================================================
