------------------------ MODULE TradingOrchestrator -------------------------
(***************************************************************************)
(* The life of the trading process (orchestrator.py of the hibs-bet        *)
(* patches): arming, the tasks of run(), the supervised market streams,    *)
(* and the graceful shutdown that takes them down one after the other.     *)
(* The inside of the REST fallback's task is RestFallback, and             *)
(* TradingProcess composes the two.                                        *)
(*                                                                         *)
(* The tasks share an event loop.  Stream consumers, reconciliation,       *)
(* strategy scans and storage are not in the repository: they are what the *)
(* code calls and awaits, and any call that may raise does.                *)
(***************************************************************************)
EXTENDS Integers, Sequences

CONSTANT Streams   \* the lanes that may have a stream

ASSUME StreamsAssumption == Streams \subseteq {"equity", "crypto"}

Lanes == {"equity", "crypto"}
Tasks == Lanes \cup {"rest", "strategy", "recon"}

\* What graceful_shutdown takes down, in its order.
Steps == <<"rest", "equity", "crypto", "crypto consumer", "equity consumer",
           "strategy", "recon", "metrics", "storage">>
LaneOf(step) == IF step = "crypto consumer" THEN "crypto" ELSE "equity"

VARIABLES
  main,       \* run_orchestrator
  at,         \* the step of the shutdown it is at
  waiting,    \* it has cancelled the step's task and awaits it
  shutdown,   \* _shutdown_event
  storage,
  task,       \* the tasks of run()
  pending,    \* cancelled, and not resumed since
  where,      \* where a lane's supervisor is
  consumer    \* a lane's connection

mainVars == <<main, at, waiting, shutdown, storage>>
laneVars == <<where, consumer>>
processVars == <<mainVars, task, pending, laneVars>>

ProcessInit ==
  /\ main = "init" /\ at = 1 /\ waiting = FALSE /\ shutdown = FALSE
  /\ storage = "none"
  /\ task = [t \in Tasks |-> "absent"]
  /\ pending = {}
  /\ where = [l \in Lanes |-> "top"]
  /\ consumer = [l \in Lanes |-> "absent"]

-----------------------------------------------------------------------------
(* initialize_and_arm and run *)

Wired(streams) == [l \in Lanes |-> IF l \in streams THEN "closed" ELSE "absent"]

\* Every gate is passed: the components are wired, and run() starts with the
\* reconciliation.
Arm ==
  /\ main = "init"
  /\ main' = "starting"
  /\ storage' = "open"
  /\ \E streams \in SUBSET Streams : consumer' = Wired(streams)
  /\ task' = [task EXCEPT !["recon"] = "alive"]
  /\ UNCHANGED <<at, waiting, shutdown, pending, where>>

\* A gate refuses, or wiring raises, before or after the storage is open.
ArmFails ==
  /\ main = "init"
  /\ main' = "teardown"
  /\ \/ storage' = "none" /\ consumer' = consumer
     \/ storage' = "open" /\ \E streams \in SUBSET Streams : consumer' = Wired(streams)
  /\ UNCHANGED <<at, waiting, shutdown, task, pending, where>>

\* The metrics server is up, and the other tasks are created in one go.
StartTasks ==
  /\ main = "starting"
  /\ main' = "run"
  /\ \E extra \in SUBSET {"rest", "strategy"} :
       task' = [t \in Tasks |->
         IF t \in extra \/ (t \in Lanes /\ consumer[t] # "absent") THEN "alive" ELSE task[t]]
  /\ UNCHANGED <<at, waiting, shutdown, storage, pending, laneVars>>

DaemonFails ==
  /\ main = "starting"
  /\ main' = "teardown"
  /\ UNCHANGED <<at, waiting, shutdown, storage, task, pending, laneVars>>

RequestShutdown ==
  /\ ~shutdown
  /\ shutdown' = TRUE
  /\ UNCHANGED <<main, at, waiting, storage, task, pending, laneVars>>

RunEnds ==
  /\ main = "run" /\ shutdown
  /\ main' = "teardown"
  /\ UNCHANGED <<at, waiting, shutdown, storage, task, pending, laneVars>>

-----------------------------------------------------------------------------
(* graceful_shutdown *)

AtStep(step) == main = "teardown" /\ Steps[at] = step

StepDone == at' = at + 1 /\ waiting' = FALSE

\* There is no such task: the step is skipped.
SkipTask(t) ==
  /\ AtStep(t) /\ task[t] = "absent"
  /\ StepDone
  /\ UNCHANGED <<main, shutdown, storage, task, pending, laneVars>>

\* Mutant: the task is awaited and not cancelled.
AwaitOnly(t) ==
  /\ AtStep(t) /\ task[t] # "absent" /\ ~waiting
  /\ waiting' = TRUE
  /\ UNCHANGED <<main, at, shutdown, storage, task, pending, laneVars>>

CancelTask(t) ==
  /\ AtStep(t) /\ task[t] # "absent" /\ ~waiting
  /\ waiting' = TRUE
  /\ pending' = IF task[t] = "alive" THEN pending \cup {t} ELSE pending
  /\ UNCHANGED <<main, at, shutdown, storage, task, laneVars>>

\* Mutant: the task is cancelled and not awaited.
CancelOnly(t) ==
  /\ AtStep(t) /\ waiting
  /\ StepDone
  /\ UNCHANGED <<main, shutdown, storage, task, pending, laneVars>>

\* The task has ended, by itself or by its cancellation.
Awaited(t) ==
  /\ AtStep(t) /\ waiting /\ task[t] = "done"
  /\ StepDone
  /\ UNCHANGED <<main, shutdown, storage, task, pending, laneVars>>

\* The task had ended in an exception, which its await raises again.
AwaitRaises(t) ==
  /\ AtStep(t) /\ waiting /\ task[t] = "raised"
  /\ main' = "raised"
  /\ UNCHANGED <<at, waiting, shutdown, storage, task, pending, laneVars>>

StopConsumer ==
  /\ main = "teardown" /\ Steps[at] \in {"crypto consumer", "equity consumer"}
  /\ LET l == LaneOf(Steps[at])
     IN  \/ /\ StepDone
            /\ consumer' = [consumer EXCEPT ![l] = IF @ = "open" THEN "closed" ELSE @]
            /\ UNCHANGED main
         \/ /\ consumer[l] = "open"      \* stop() raises
            /\ main' = "raised"
            /\ UNCHANGED <<at, waiting, consumer>>
  /\ UNCHANGED <<shutdown, storage, task, pending, where>>

StopMetrics ==
  /\ AtStep("metrics")
  /\ StepDone
  /\ UNCHANGED <<main, shutdown, storage, task, pending, laneVars>>

CloseStorage ==
  /\ AtStep("storage")
  /\ main' = "offline"
  /\ storage' = IF storage = "open" THEN "closed" ELSE storage
  /\ UNCHANGED <<at, waiting, shutdown, task, pending, laneVars>>

TakeDown ==
  \/ \E t \in Tasks : SkipTask(t) \/ CancelTask(t) \/ Awaited(t) \/ AwaitRaises(t)
  \/ StopConsumer \/ StopMetrics \/ CloseStorage

-----------------------------------------------------------------------------
(* _supervise_market_stream *)

\* A task runs on from its await unless it has been cancelled.
Runs(t) == task[t] = "alive" /\ t \notin pending

LoopTop(l) ==
  /\ Runs(l) /\ where[l] = "top"
  /\ \/ shutdown /\ task' = [task EXCEPT ![l] = "done"] /\ UNCHANGED where
     \/ ~shutdown /\ where' = [where EXCEPT ![l] = "connect"] /\ UNCHANGED task
  /\ UNCHANGED <<mainVars, pending, consumer>>

Connected(l) ==
  /\ Runs(l) /\ where[l] = "connect"
  /\ where' = [where EXCEPT ![l] = "ingest"]
  /\ consumer' = [consumer EXCEPT ![l] = "open"]
  /\ UNCHANGED <<mainVars, task, pending>>

\* Connecting or ingesting raises, or the stream ends; with the shutdown under
\* way an ended stream leaves the loop.  The consumer is stopped either way.
StreamFails(l) ==
  /\ Runs(l) /\ where[l] \in {"connect", "ingest"}
  /\ where' = [where EXCEPT ![l] = "stop"]
  /\ UNCHANGED <<mainVars, task, pending, consumer>>

StreamEnds(l) ==
  /\ Runs(l) /\ where[l] = "ingest"
  /\ where' = [where EXCEPT ![l] = IF shutdown THEN "last stop" ELSE "stop"]
  /\ UNCHANGED <<mainVars, task, pending, consumer>>

\* stop() returns; what it raises is swallowed and leaves the connection as it is.
ConsumerStopped(l) ==
  /\ Runs(l) /\ where[l] \in {"stop", "last stop"}
  /\ consumer' \in {consumer, [consumer EXCEPT ![l] = "closed"]}
  /\ \/ where[l] = "stop" /\ where' = [where EXCEPT ![l] = "backoff"] /\ UNCHANGED task
     \/ where[l] = "last stop" /\ task' = [task EXCEPT ![l] = "done"] /\ UNCHANGED where
  /\ UNCHANGED <<mainVars, pending>>

\* Mutant: the timeout of the wait leaves the loop as the event does.
BackoffLeaves(l) ==
  /\ Runs(l) /\ where[l] = "backoff"
  /\ task' = [task EXCEPT ![l] = "done"]
  /\ UNCHANGED <<mainVars, pending, laneVars>>

BackoffEnds(l) ==
  /\ Runs(l) /\ where[l] = "backoff"
  /\ \/ shutdown /\ task' = [task EXCEPT ![l] = "done"] /\ UNCHANGED where
     \/ where' = [where EXCEPT ![l] = "top"] /\ UNCHANGED task
  /\ UNCHANGED <<mainVars, pending, consumer>>

\* The cancellation reaches a supervisor: it stops its consumer on the way out,
\* unless it had not begun, was stopping it already, or was between two tries.
LaneCancelled(l) ==
  /\ l \in pending
  /\ pending' = pending \ {l}
  /\ IF where[l] \in {"connect", "ingest"}
     THEN where' = [where EXCEPT ![l] = "last stop"] /\ UNCHANGED task
     ELSE task' = [task EXCEPT ![l] = "done"] /\ UNCHANGED where
  /\ UNCHANGED <<mainVars, consumer>>

-----------------------------------------------------------------------------
(* The other tasks *)

\* The strategy loop logs what it raises and ends; it ends at the shutdown too.
StrategyEnds ==
  /\ Runs("strategy")
  /\ task' = [task EXCEPT !["strategy"] = "done"]
  /\ UNCHANGED <<mainVars, pending, laneVars>>

\* The reconciliation service raises out of its loop; the REST fallback does when
\* the storage refuses a trade.
TaskRaises(t) ==
  /\ t \in {"rest", "recon"} /\ Runs(t)
  /\ task' = [task EXCEPT ![t] = "raised"]
  /\ UNCHANGED <<mainVars, pending, laneVars>>

\* Mutant: the loop catches its cancellation and goes on.
CancellationSwallowed(t) ==
  /\ t \in pending \ Lanes
  /\ pending' = pending \ {t}
  /\ UNCHANGED <<mainVars, task, laneVars>>

\* Cancelled, the other tasks end.
TaskCancelled(t) ==
  /\ t \in pending \ Lanes
  /\ pending' = pending \ {t}
  /\ task' = [task EXCEPT ![t] = "done"]
  /\ UNCHANGED <<mainVars, laneVars>>

LaneSteps(l) ==
  \/ LoopTop(l) \/ Connected(l) \/ StreamFails(l) \/ StreamEnds(l)
  \/ ConsumerStopped(l) \/ BackoffEnds(l) \/ LaneCancelled(l)

MainSteps == Arm \/ ArmFails \/ StartTasks \/ DaemonFails \/ RunEnds \/ TakeDown

\* What the process does beside the fallback's own steps.
ProcessSteps ==
  \/ MainSteps \/ RequestShutdown
  \/ \E l \in Lanes : LaneSteps(l)
  \/ StrategyEnds \/ TaskRaises("recon")
  \/ \E t \in Tasks : TaskCancelled(t)

-----------------------------------------------------------------------------
(* Properties *)

\* The types; only a task that is alive awaits its cancellation.
TradingTypeOK ==
  /\ main \in {"init", "starting", "run", "teardown", "offline", "raised"}
  /\ at \in DOMAIN Steps /\ waiting \in BOOLEAN /\ shutdown \in BOOLEAN
  /\ storage \in {"none", "open", "closed"}
  /\ task \in [Tasks -> {"absent", "alive", "done", "raised"}]
  /\ pending \subseteq {t \in Tasks : task[t] = "alive"}
  /\ where \in [Lanes -> {"top", "connect", "ingest", "stop", "last stop", "backoff"}]
  /\ consumer \in [Lanes -> {"absent", "closed", "open"}]

\* The storage is closed behind everything that uses it: no task of run() is
\* alive, and no stream open.
StorageClosedLast ==
  /\ TradingTypeOK
  /\ storage = "closed" =>
       /\ \A t \in Tasks : task[t] # "alive"
       /\ \A l \in Lanes : consumer[l] # "open"
=============================================================================
