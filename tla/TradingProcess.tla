--------------------------- MODULE TradingProcess ---------------------------
(***************************************************************************)
(* The trading process: the orchestrator's tasks, and in one of them the   *)
(* REST fallback with its thread.  The fallback sees of the process when   *)
(* its task is cancelled and when the storage is closed; the process sees  *)
(* of the fallback when its task raises.                                   *)
(***************************************************************************)
EXTENDS TradingOrchestrator

CONSTANTS
  MaxTrades,   \* bound on the trades of a lane
  NoPacket     \* nothing in the fallback's hand

ASSUME FallbackAssumption == MaxTrades \in Nat /\ NoPacket \notin Lanes \X Nat

VARIABLES loop, poll, hand, seen, latest, fetched, stored

tapeVars == <<loop, poll, hand, seen, latest, fetched, stored>>
vars == <<processVars, tapeVars>>

\* The fallback's task: not cancelled as long as there may be one.
FallbackTask ==
  IF task["rest"] = "raised" THEN "raised"
  ELSE IF Runs("rest") \/ main \in {"init", "starting"} THEN "alive"
  ELSE "cancelled"

Fallback == INSTANCE RestFallback WITH task <- FallbackTask, open <- storage # "closed"

Init ==
  /\ ProcessInit
  /\ Fallback!Init

ProcessStep == ProcessSteps /\ UNCHANGED tapeVars

LoopSteps ==
  /\ Runs("rest") /\ UNCHANGED processVars
  /\ Fallback!PollBegins \/ Fallback!SleepEnds

\* What the storage raises ends the task that waits for the poll.
StorageRefuses ==
  /\ IF Runs("rest") THEN TaskRaises("rest") ELSE UNCHANGED processVars
  /\ Fallback!IngestRaises

ThreadSteps ==
  \/ /\ UNCHANGED processVars
     /\ Fallback!NothingToTake \/ Fallback!Fetch \/ Fallback!Ingest
  \/ StorageRefuses

Trades == UNCHANGED processVars /\ \E l \in Lanes : Fallback!TradeHappens(l)

Next == ProcessStep \/ LoopSteps \/ ThreadSteps \/ Trades

\* The event loop runs what is ready, stop() and the metrics server return, and a
\* backoff and the fallback's sleep end.  A thread is scheduled, and its requests
\* have a timeout.  Nothing is assumed of the streams, the trades or the signals.
Fairness ==
  /\ WF_vars(MainSteps /\ UNCHANGED tapeVars)
  /\ \A l \in Lanes :
       /\ WF_vars(LoopTop(l) /\ UNCHANGED tapeVars)
       /\ WF_vars(ConsumerStopped(l) /\ UNCHANGED tapeVars)
       /\ WF_vars(BackoffEnds(l) /\ UNCHANGED tapeVars)
       /\ WF_vars(LaneCancelled(l) /\ UNCHANGED tapeVars)
  /\ \A t \in Tasks : WF_vars(TaskCancelled(t) /\ UNCHANGED tapeVars)
  /\ WF_vars(LoopSteps) /\ WF_vars(ThreadSteps)

Spec == Init /\ [][Next]_vars /\ Fairness

-----------------------------------------------------------------------------
(* Properties *)

\* The process does to the fallback only what the fallback is written for: its
\* task is cancelled once, and the storage is closed behind it.
FallbackSafety == Fallback!Safety

\* What a poll of the fallback was given is stored, while the fallback runs.
TapeComplete == Fallback!TapeStored

\* A lane whose stream failed or ended connects again until the shutdown.
LanesReconnect ==
  \A l \in Lanes :
    task[l] = "alive" /\ where[l] \in {"stop", "backoff"} ~> where[l] = "connect" \/ shutdown

\* Whatever requests fail, the fallback polls again until it is cancelled or the
\* storage raises.
PollsAgain == Runs("rest") /\ loop # "top" ~> loop = "top" \/ ~Runs("rest")

\* A requested shutdown ends, with or without an exception.
ShutdownEnds == shutdown ~> main \in {"offline", "raised"}
=============================================================================
