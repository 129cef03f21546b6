---------------------------- MODULE TradingProofs ----------------------------
(***************************************************************************)
(* Proofs about the trading process: the shutdown closes the storage       *)
(* behind everything that uses it, the fallback meets only the environment *)
(* it is written for, and no trade it counts as seen is left out.          *)
(***************************************************************************)
EXTENDS TradingProcess, SequenceTheorems, TLAPS

-----------------------------------------------------------------------------
(* The order of the shutdown *)

Quiet(t) == task[t] # "alive"

\* What graceful_shutdown has left behind when it is at its n-th step.
TakenDown(n) ==
  /\ n > 1 => Quiet("rest")
  /\ n > 2 => Quiet("equity")
  /\ n > 3 => Quiet("crypto")
  /\ n > 4 => consumer["crypto"] # "open"
  /\ n > 5 => consumer["equity"] # "open"
  /\ n > 6 => Quiet("strategy")
  /\ n > 7 => Quiet("recon")

BeforeRun == main \in {"init", "starting"}

\* Only a shutdown takes anything down, it does so in its order, and the storage
\* is closed by its last step.
InOrder ==
  /\ main \in {"init", "starting", "run"} => at = 1
  /\ main = "teardown" => TakenDown(at)
  /\ main = "offline" => TakenDown(9)
  /\ storage = "closed" => main = "offline"

OrderInv == TradingTypeOK /\ InOrder

\* The steps that take a task down, by their place.
LEMMA StepOrder ==
  /\ DOMAIN Steps = 1 .. 9
  /\ \A n \in 1 .. 9 :
       /\ Steps[n] = "rest" <=> n = 1
       /\ Steps[n] = "equity" <=> n = 2
       /\ Steps[n] = "crypto" <=> n = 3
       /\ Steps[n] = "crypto consumer" <=> n = 4
       /\ Steps[n] = "equity consumer" <=> n = 5
       /\ Steps[n] = "strategy" <=> n = 6
       /\ Steps[n] = "recon" <=> n = 7
       /\ Steps[n] = "metrics" <=> n = 8
       /\ Steps[n] = "storage" <=> n = 9
<1>1. DOMAIN Steps = 1 .. 9
  BY DEF Steps
<1>2. /\ Steps[1] = "rest" /\ Steps[2] = "equity" /\ Steps[3] = "crypto"
      /\ Steps[4] = "crypto consumer" /\ Steps[5] = "equity consumer"
      /\ Steps[6] = "strategy" /\ Steps[7] = "recon" /\ Steps[8] = "metrics"
      /\ Steps[9] = "storage"
  BY DEF Steps
<1> SUFFICES ASSUME NEW n \in 1 .. 9
    PROVE  /\ Steps[n] = "rest" <=> n = 1
           /\ Steps[n] = "equity" <=> n = 2
           /\ Steps[n] = "crypto" <=> n = 3
           /\ Steps[n] = "crypto consumer" <=> n = 4
           /\ Steps[n] = "equity consumer" <=> n = 5
           /\ Steps[n] = "strategy" <=> n = 6
           /\ Steps[n] = "recon" <=> n = 7
           /\ Steps[n] = "metrics" <=> n = 8
           /\ Steps[n] = "storage" <=> n = 9
  BY <1>1
<1>3. n \in {1, 2, 3, 4, 5, 6, 7, 8, 9}
  OBVIOUS
<1> QED BY <1>2, <1>3

-----------------------------------------------------------------------------
(* Types *)

\* There is a step after each but the last.
LEMMA NextStep ==
  ASSUME at \in DOMAIN Steps, Steps[at] # "storage"
  PROVE  at + 1 \in DOMAIN Steps
<1>1. at \in 1 .. 9
  BY StepOrder
<1>2. Steps[at] = "storage" <=> at = 9
  BY <1>1, StepOrder
<1>3. DOMAIN Steps = 1 .. 9
  BY StepOrder
<1>4. at + 1 \in 1 .. 9
  BY <1>1, <1>2
<1> QED BY <1>3, <1>4

LEMMA TakeDownKeepsTypes == TradingTypeOK /\ TakeDown => TradingTypeOK'
<1> SUFFICES ASSUME TradingTypeOK, TakeDown PROVE TradingTypeOK'
  OBVIOUS
<1>0. at \in DOMAIN Steps
  BY DEF TradingTypeOK
<1>1. ASSUME NEW t \in Tasks, SkipTask(t) \/ Awaited(t) PROVE TradingTypeOK'
  <2>1. Steps[at] # "storage" /\ at' = at + 1
    BY <1>1 DEF SkipTask, Awaited, AtStep, StepDone, Tasks, Lanes
  <2>2. at' \in DOMAIN Steps
    BY <1>0, <2>1, NextStep
  <2> QED BY <1>1, <2>2 DEF SkipTask, Awaited, StepDone, TradingTypeOK, laneVars
<1>2. ASSUME NEW t \in Tasks, CancelTask(t) PROVE TradingTypeOK'
  BY <1>2 DEF CancelTask, TradingTypeOK, laneVars
<1>3. ASSUME NEW t \in Tasks, AwaitRaises(t) PROVE TradingTypeOK'
  BY <1>3 DEF AwaitRaises, TradingTypeOK, laneVars
<1>4. CASE StopConsumer
  <2>1. at' \in DOMAIN Steps
    <3>1. CASE at' = at
      BY <1>0, <3>1
    <3>2. CASE at' = at + 1
      <4>1. Steps[at] # "storage"
        BY <1>4 DEF StopConsumer
      <4> QED BY <1>0, <3>2, <4>1, NextStep
    <3> QED BY <1>4, <3>1, <3>2 DEF StopConsumer, StepDone
  <2>2. consumer' \in [Lanes -> {"absent", "closed", "open"}]
    BY <1>4 DEF StopConsumer, TradingTypeOK
  <2>3. waiting' \in BOOLEAN /\ main' \in {"teardown", "raised"}
    BY <1>4 DEF StopConsumer, StepDone, TradingTypeOK
  <2>4. UNCHANGED <<shutdown, storage, task, pending, where>>
    BY <1>4 DEF StopConsumer
  <2> QED BY <2>1, <2>2, <2>3, <2>4 DEF TradingTypeOK
<1>5. CASE StopMetrics
  <2>1. Steps[at] # "storage" /\ at' = at + 1
    BY <1>5 DEF StopMetrics, AtStep, StepDone
  <2>2. at' \in DOMAIN Steps
    BY <1>0, <2>1, NextStep
  <2> QED BY <1>5, <2>2 DEF StopMetrics, StepDone, TradingTypeOK, laneVars
<1>6. CASE CloseStorage
  BY <1>6 DEF CloseStorage, TradingTypeOK, laneVars
<1> QED BY <1>1, <1>2, <1>3, <1>4, <1>5, <1>6 DEF TakeDown

LEMMA MainKeepsTypes == TradingTypeOK /\ MainSteps => TradingTypeOK'
<1> SUFFICES ASSUME TradingTypeOK, MainSteps PROVE TradingTypeOK'
  OBVIOUS
<1>0. \A streams : Wired(streams) \in [Lanes -> {"absent", "closed", "open"}]
  BY DEF Wired
<1>1. CASE Arm
  <2>1. consumer' \in [Lanes -> {"absent", "closed", "open"}]
    BY <1>0, <1>1 DEF Arm
  <2>2. task' \in [Tasks -> {"absent", "alive", "done", "raised"}]
    BY <1>1 DEF Arm, TradingTypeOK
  <2>3. pending' \subseteq {t \in Tasks : task'[t] = "alive"}
    BY <1>1 DEF Arm, TradingTypeOK
  <2>4. main' = "starting" /\ storage' = "open" /\ UNCHANGED <<at, waiting, shutdown, where>>
    BY <1>1 DEF Arm
  <2> QED BY <2>1, <2>2, <2>3, <2>4 DEF TradingTypeOK
<1>2. CASE ArmFails
  <2>1. consumer' \in [Lanes -> {"absent", "closed", "open"}]
    <3>1. consumer' = consumer \/ \E streams \in SUBSET Streams : consumer' = Wired(streams)
      BY <1>2 DEF ArmFails
    <3>2. consumer \in [Lanes -> {"absent", "closed", "open"}]
      BY DEF TradingTypeOK
    <3> QED BY <1>0, <3>1, <3>2
  <2>2. main' = "teardown" /\ storage' \in {"none", "open"}
    BY <1>2 DEF ArmFails
  <2>3. UNCHANGED <<at, waiting, shutdown, task, pending, where>>
    BY <1>2 DEF ArmFails
  <2> QED BY <2>1, <2>2, <2>3 DEF TradingTypeOK
<1>3. CASE StartTasks
  BY <1>3 DEF StartTasks, TradingTypeOK, laneVars
<1>4. CASE DaemonFails \/ RunEnds
  BY <1>4 DEF DaemonFails, RunEnds, TradingTypeOK, laneVars
<1>5. CASE TakeDown
  BY <1>5, TakeDownKeepsTypes
<1> QED BY <1>1, <1>2, <1>3, <1>4, <1>5 DEF MainSteps

LEMMA LaneKeepsTypes ==
  ASSUME TradingTypeOK, NEW l \in Lanes, LaneSteps(l)
  PROVE  TradingTypeOK'
<1> USE DEF TradingTypeOK, mainVars
<1>0. l \in Tasks
  BY DEF Tasks
<1>1. CASE LoopTop(l)
  BY <1>0, <1>1 DEF LoopTop, Runs
<1>2. CASE Connected(l)
  BY <1>0, <1>2 DEF Connected, Runs
<1>3. CASE StreamFails(l) \/ StreamEnds(l)
  BY <1>0, <1>3 DEF StreamFails, StreamEnds
<1>4. CASE ConsumerStopped(l)
  BY <1>0, <1>4 DEF ConsumerStopped, Runs
<1>5. CASE BackoffEnds(l)
  BY <1>0, <1>5 DEF BackoffEnds, Runs
<1>6. CASE LaneCancelled(l)
  BY <1>0, <1>6 DEF LaneCancelled
<1> QED BY <1>1, <1>2, <1>3, <1>4, <1>5, <1>6 DEF LaneSteps

LEMMA TasksKeepTypes ==
  ASSUME TradingTypeOK,
         \/ RequestShutdown \/ StrategyEnds
         \/ \E t \in Tasks : TaskRaises(t) \/ TaskCancelled(t)
  PROVE  TradingTypeOK'
<1> USE DEF TradingTypeOK, mainVars, laneVars
<1>1. CASE RequestShutdown
  BY <1>1 DEF RequestShutdown
<1>2. CASE StrategyEnds
  BY <1>2 DEF StrategyEnds, Runs
<1>3. ASSUME NEW t \in Tasks, TaskRaises(t) PROVE TradingTypeOK'
  BY <1>3 DEF TaskRaises, Runs
<1>4. ASSUME NEW t \in Tasks, TaskCancelled(t) PROVE TradingTypeOK'
  BY <1>4 DEF TaskCancelled
<1> QED BY <1>1, <1>2, <1>3, <1>4

-----------------------------------------------------------------------------
(* What a step disturbs *)

\* No task comes to life and no stream opens but by a task that is alive.
Calm ==
  /\ \A t \in Tasks : Quiet(t) => task'[t] # "alive"
  /\ \A l \in Lanes : Quiet(l) /\ consumer[l] # "open" => consumer'[l] # "open"

LEMMA UnchangedIsCalm == UNCHANGED <<task, consumer>> => Calm
BY DEF Calm, Quiet

LEMMA LaneIsCalm ==
  ASSUME TradingTypeOK, NEW l \in Lanes, LaneSteps(l)
  PROVE  Calm
<1>0. /\ l \in pending => task[l] = "alive"
      /\ task \in [Tasks -> {"absent", "alive", "done", "raised"}]
      /\ consumer \in [Lanes -> {"absent", "closed", "open"}]
  BY DEF TradingTypeOK
<1>1. CASE LoopTop(l)
  BY <1>0, <1>1 DEF LoopTop, Calm, Quiet
<1>2. CASE Connected(l)
  BY <1>0, <1>2 DEF Connected, Runs, Calm, Quiet
<1>3. CASE StreamFails(l) \/ StreamEnds(l)
  BY <1>3, UnchangedIsCalm DEF StreamFails, StreamEnds
<1>4. CASE ConsumerStopped(l)
  BY <1>0, <1>4 DEF ConsumerStopped, Runs, Calm, Quiet
<1>5. CASE BackoffEnds(l)
  BY <1>0, <1>5 DEF BackoffEnds, Calm, Quiet
<1>6. CASE LaneCancelled(l)
  BY <1>0, <1>6 DEF LaneCancelled, Calm, Quiet
<1> QED BY <1>1, <1>2, <1>3, <1>4, <1>5, <1>6 DEF LaneSteps

LEMMA TaskIsCalm ==
  ASSUME TradingTypeOK,
         \/ RequestShutdown \/ StrategyEnds
         \/ \E t \in Tasks : TaskRaises(t) \/ TaskCancelled(t)
  PROVE  Calm
<1>0. task \in [Tasks -> {"absent", "alive", "done", "raised"}]
  BY DEF TradingTypeOK
<1>1. CASE RequestShutdown
  BY <1>1, UnchangedIsCalm DEF RequestShutdown, laneVars
<1>2. CASE StrategyEnds
  BY <1>0, <1>2 DEF StrategyEnds, Calm, Quiet, laneVars
<1>3. ASSUME NEW t \in Tasks, TaskRaises(t) \/ TaskCancelled(t) PROVE Calm
  BY <1>0, <1>3 DEF TaskRaises, TaskCancelled, Calm, Quiet, laneVars
<1> QED BY <1>1, <1>2, <1>3

\* What the shutdown has taken down stays down.
LEMMA StaysDown ==
  ASSUME NEW n \in 1 .. 9, TakenDown(n), Calm
  PROVE  TakenDown(n)'
<1>1. {"rest", "equity", "crypto", "strategy", "recon"} = Tasks
  BY DEF Tasks, Lanes
<1>2. "equity" \in Lanes /\ "crypto" \in Lanes
  BY DEF Lanes
<1> QED BY <1>1, <1>2 DEF TakenDown, Calm, Quiet

LEMMA CalmKeepsOrder ==
  ASSUME TradingTypeOK, InOrder, Calm, UNCHANGED <<main, at, storage>>
  PROVE  InOrder'
<1>1. at \in 1 .. 9
  BY StepOrder DEF TradingTypeOK
<1>2. \A n \in 1 .. 9 : TakenDown(n) => TakenDown(n)'
  BY StaysDown
<1>3. TakenDown(at)' <=> \E n \in 1 .. 9 : n = at /\ TakenDown(n)'
  BY <1>1 DEF TakenDown, Quiet
<1> QED BY <1>1, <1>2, <1>3 DEF InOrder

-----------------------------------------------------------------------------
(* The shutdown *)

LEMMA TakeDownKeepsOrder == OrderInv /\ TakeDown => InOrder'
<1> SUFFICES ASSUME OrderInv, TakeDown PROVE InOrder'
  OBVIOUS
<1>0. /\ TradingTypeOK /\ InOrder /\ main = "teardown" /\ storage # "closed"
      /\ at \in 1 .. 9 /\ TakenDown(at)
  <2>1. main = "teardown"
    BY DEF TakeDown, SkipTask, CancelTask, Awaited, AwaitRaises, StopConsumer, StopMetrics,
           CloseStorage, AtStep
  <2>2. at \in 1 .. 9
    BY StepOrder DEF OrderInv, TradingTypeOK
  <2> QED BY <2>1, <2>2 DEF OrderInv, InOrder
<1>n. /\ Steps[at] = "rest" <=> at = 1
      /\ Steps[at] = "equity" <=> at = 2
      /\ Steps[at] = "crypto" <=> at = 3
      /\ Steps[at] = "crypto consumer" <=> at = 4
      /\ Steps[at] = "equity consumer" <=> at = 5
      /\ Steps[at] = "strategy" <=> at = 6
      /\ Steps[at] = "recon" <=> at = 7
      /\ Steps[at] = "metrics" <=> at = 8
      /\ Steps[at] = "storage" <=> at = 9
  BY <1>0, StepOrder
<1>1. ASSUME NEW t \in Tasks, SkipTask(t) \/ Awaited(t) PROVE InOrder'
  <2>1. Steps[at] = t /\ Quiet(t)
    BY <1>1 DEF SkipTask, Awaited, AtStep, Quiet
  <2>2. UNCHANGED <<main, storage, task, consumer>> /\ at' = at + 1
    BY <1>1 DEF SkipTask, Awaited, StepDone, laneVars
  <2>3. t \in {"rest", "equity", "crypto", "strategy", "recon"}
    BY DEF Tasks, Lanes
  <2>4. TakenDown(at + 1)
    <3>1. \/ (at = 1 /\ Quiet("rest")) \/ (at = 2 /\ Quiet("equity"))
          \/ (at = 3 /\ Quiet("crypto")) \/ (at = 6 /\ Quiet("strategy"))
          \/ (at = 7 /\ Quiet("recon"))
      BY <1>n, <2>1, <2>3
    <3> QED BY <1>0, <3>1 DEF TakenDown
  <2>5. TakenDown(at)'
    BY <2>2, <2>4 DEF TakenDown, Quiet
  <2> QED BY <1>0, <2>2, <2>5 DEF InOrder
<1>2. ASSUME NEW t \in Tasks, CancelTask(t) PROVE InOrder'
  <2>1. UNCHANGED <<main, at, storage, task, consumer>>
    BY <1>2 DEF CancelTask, laneVars
  <2>2. Calm
    BY <2>1, UnchangedIsCalm
  <2> QED BY <1>0, <2>1, <2>2, CalmKeepsOrder
<1>3. ASSUME NEW t \in Tasks, AwaitRaises(t) PROVE InOrder'
  BY <1>0, <1>3 DEF AwaitRaises, InOrder
<1>4. CASE StopConsumer
  <2>1. CASE main' = "raised"
    BY <1>0, <1>4, <2>1 DEF StopConsumer, InOrder
  <2>2. CASE main' # "raised"
    <3> DEFINE l == LaneOf(Steps[at])
    <3>1. /\ at' = at + 1 /\ UNCHANGED <<main, storage, task>>
          /\ consumer' = [consumer EXCEPT ![l] = IF @ = "open" THEN "closed" ELSE @]
      BY <1>4, <2>2 DEF StopConsumer, StepDone
    <3>2. (at = 4 /\ l = "crypto") \/ (at = 5 /\ l = "equity")
      BY <1>4, <1>n DEF StopConsumer, LaneOf
    <3>3. consumer'[l] # "open" /\ \A k \in Lanes : consumer[k] # "open" => consumer'[k] # "open"
      <4>1. consumer \in [Lanes -> {"absent", "closed", "open"}]
        BY <1>0 DEF TradingTypeOK
      <4>2. l \in Lanes
        BY <3>2 DEF Lanes
      <4> HIDE DEF l
      <4> QED BY <3>1, <4>1, <4>2
    <3>4. TakenDown(at)'
      <4> HIDE DEF l
      <4>1. "crypto" \in Lanes /\ "equity" \in Lanes
        BY DEF Lanes
      <4> QED BY <1>0, <3>1, <3>2, <3>3, <4>1 DEF TakenDown, Quiet
    <3> QED BY <1>0, <3>1, <3>4 DEF InOrder
  <2> QED BY <2>1, <2>2
<1>5. CASE StopMetrics
  <2>1. UNCHANGED <<main, storage, task, consumer>> /\ at = 8 /\ at' = 9
    BY <1>5, <1>n DEF StopMetrics, AtStep, StepDone, laneVars
  <2>2. TakenDown(at)'
    BY <1>0, <2>1 DEF TakenDown, Quiet
  <2> QED BY <1>0, <2>1, <2>2 DEF InOrder
<1>6. CASE CloseStorage
  <2>1. main' = "offline" /\ at = 9 /\ UNCHANGED <<at, task, consumer>>
    BY <1>6, <1>n DEF CloseStorage, AtStep, laneVars
  <2>2. TakenDown(9)'
    BY <1>0, <2>1 DEF TakenDown, Quiet
  <2> QED BY <2>1, <2>2 DEF InOrder
<1> QED BY <1>1, <1>2, <1>3, <1>4, <1>5, <1>6 DEF TakeDown

LEMMA ProcessKeepsOrder == OrderInv /\ ProcessSteps => OrderInv'
<1> SUFFICES ASSUME OrderInv, ProcessSteps PROVE OrderInv'
  OBVIOUS
<1>0. TradingTypeOK /\ InOrder
  BY DEF OrderInv
<1>1. CASE MainSteps
  <2>1. TradingTypeOK'
    BY <1>0, <1>1, MainKeepsTypes
  <2> SUFFICES InOrder'
    BY <2>1 DEF OrderInv
  <2>2. CASE Arm \/ StartTasks
    <3>1. at' = 1 /\ main' \in {"starting", "run"} /\ storage' # "closed"
      BY <1>0, <2>2 DEF Arm, StartTasks, InOrder
    <3> QED BY <3>1 DEF InOrder
  <2>3. CASE ArmFails \/ DaemonFails \/ RunEnds
    <3>1. at' = 1 /\ main' = "teardown" /\ storage' # "closed"
      BY <1>0, <2>3 DEF ArmFails, DaemonFails, RunEnds, InOrder
    <3>2. TakenDown(at)'
      BY <3>1 DEF TakenDown
    <3> QED BY <3>1, <3>2 DEF InOrder
  <2>4. CASE TakeDown
    BY <2>4, TakeDownKeepsOrder
  <2> QED BY <1>1, <2>1, <2>2, <2>3, <2>4 DEF MainSteps
<1>2. ASSUME NEW l \in Lanes, LaneSteps(l) PROVE OrderInv'
  <2>1. UNCHANGED mainVars
    BY <1>2 DEF LaneSteps, LoopTop, Connected, StreamFails, StreamEnds, ConsumerStopped,
                BackoffEnds, LaneCancelled
  <2>2. TradingTypeOK'
    BY <1>0, <1>2, LaneKeepsTypes
  <2>3. Calm
    BY <1>0, <1>2, LaneIsCalm
  <2> QED BY <1>0, <2>1, <2>2, <2>3, CalmKeepsOrder DEF OrderInv, mainVars
<1>3. ASSUME \/ RequestShutdown \/ StrategyEnds
             \/ \E t \in Tasks : TaskRaises(t) \/ TaskCancelled(t)
      PROVE  OrderInv'
  <2>1. UNCHANGED <<main, at, storage>>
    BY <1>3 DEF RequestShutdown, StrategyEnds, TaskRaises, TaskCancelled, mainVars
  <2>2. TradingTypeOK'
    BY <1>0, <1>3, TasksKeepTypes
  <2>3. Calm
    BY <1>0, <1>3, TaskIsCalm
  <2> QED BY <1>0, <2>1, <2>2, <2>3, CalmKeepsOrder DEF OrderInv
<1>4. "recon" \in Tasks
  BY DEF Tasks
<1> QED BY <1>1, <1>2, <1>3, <1>4 DEF ProcessSteps

-----------------------------------------------------------------------------
(* What the fallback sees of the process *)

\* There is no fallback before run() creates its task.
ProcessInv ==
  /\ OrderInv
  /\ BeforeRun => task["rest"] = "absent"

Open == storage # "closed"

\* The orchestrator leaves the fallback alone, cancels its task, or closes the
\* storage when the task is alive no more.
Sees ==
  \/ FallbackTask' = FallbackTask /\ Open' = Open
  \/ FallbackTask = "alive" /\ FallbackTask' = "cancelled" /\ Open' = Open
  \/ FallbackTask' = FallbackTask /\ FallbackTask # "alive" /\ Open /\ ~Open'

\* A step that is none of the fallback's task's, and of no phase of run().
LEMMA NothingSeen ==
  ASSUME ProcessInv, task'["rest"] = task["rest"],
         "rest" \in pending' <=> "rest" \in pending,
         BeforeRun' <=> BeforeRun, Open' = Open
  PROVE  Sees /\ (BeforeRun' => task'["rest"] = "absent")
BY DEF ProcessInv, BeforeRun, Sees, FallbackTask, Runs

LEMMA ProcessIsSeen ==
  ASSUME ProcessInv, ProcessSteps
  PROVE  Sees /\ (BeforeRun' => task'["rest"] = "absent")
<1> DEFINE Goal == Sees /\ (BeforeRun' => task'["rest"] = "absent")
<1>0. /\ TradingTypeOK /\ InOrder /\ (BeforeRun => task["rest"] = "absent")
      /\ task \in [Tasks -> {"absent", "alive", "done", "raised"}]
      /\ \A t \in Tasks : t \in pending => task[t] = "alive"
      /\ "rest" \in Tasks /\ "rest" \notin Lanes
  BY DEF ProcessInv, OrderInv, TradingTypeOK, Tasks, Lanes
<1>1. CASE Arm
  <2>1. BeforeRun /\ BeforeRun' /\ task'["rest"] = task["rest"] /\ pending' = pending
    BY <1>0, <1>1 DEF Arm, BeforeRun
  <2>2. Open /\ Open'
    BY <1>0, <1>1 DEF Arm, Open, InOrder
  <2> QED BY <2>1, <2>2, NothingSeen
<1>2. CASE ArmFails \/ DaemonFails
  <2>1. BeforeRun /\ ~BeforeRun' /\ task' = task /\ pending' = pending
    BY <1>2 DEF ArmFails, DaemonFails, BeforeRun
  <2>2. Open /\ Open'
    BY <1>0, <1>2 DEF ArmFails, DaemonFails, Open, InOrder
  <2>3. FallbackTask = "alive" /\ FallbackTask' = "cancelled"
    BY <1>0, <2>1 DEF FallbackTask, Runs, BeforeRun
  <2> QED BY <2>1, <2>2, <2>3 DEF Sees
<1>3. CASE StartTasks
  <2>1. BeforeRun /\ ~BeforeRun' /\ pending' = pending
    BY <1>3 DEF StartTasks, BeforeRun
  <2>2. task'["rest"] \in {"absent", "alive"}
    BY <1>0, <1>3, <2>1 DEF StartTasks
  <2>3. Open' = Open
    BY <1>3 DEF StartTasks, Open
  <2>4. "rest" \notin pending
    BY <1>0, <2>1
  <2>5. FallbackTask = "alive" /\ FallbackTask' \in {"alive", "cancelled"}
    BY <1>0, <2>1, <2>2, <2>4 DEF FallbackTask, Runs, BeforeRun
  <2> QED BY <2>1, <2>3, <2>5 DEF Sees
<1>4. CASE RunEnds \/ RequestShutdown
  <2>1. task' = task /\ pending' = pending /\ (BeforeRun' <=> BeforeRun) /\ Open' = Open
    BY <1>4 DEF RunEnds, RequestShutdown, BeforeRun, Open
  <2> QED BY <2>1, NothingSeen
<1>5. CASE TakeDown
  <2>0. ~BeforeRun
    BY <1>5 DEF TakeDown, SkipTask, CancelTask, Awaited, AwaitRaises, StopConsumer, StopMetrics,
           CloseStorage, AtStep, BeforeRun
  <2>1. ASSUME NEW t \in Tasks, SkipTask(t) \/ Awaited(t) \/ AwaitRaises(t) PROVE Goal
    <3>1. task' = task /\ pending' = pending /\ ~BeforeRun' /\ Open' = Open
      BY <2>1 DEF SkipTask, Awaited, AwaitRaises, AtStep, BeforeRun, Open
    <3> QED BY <2>0, <3>1, NothingSeen
  <2>2. ASSUME NEW t \in Tasks, CancelTask(t) PROVE Goal
    <3>1. task' = task /\ ~BeforeRun' /\ Open' = Open
      BY <2>0, <2>2 DEF CancelTask, BeforeRun, Open
    <3>2. CASE "rest" \in pending' <=> "rest" \in pending
      BY <2>0, <3>1, <3>2, NothingSeen
    <3>3. CASE ~("rest" \in pending' <=> "rest" \in pending)
      <4>1. task["rest"] = "alive" /\ "rest" \in pending' /\ "rest" \notin pending
        BY <2>2, <3>3 DEF CancelTask
      <4>2. FallbackTask = "alive" /\ FallbackTask' = "cancelled"
        BY <3>1, <4>1 DEF FallbackTask, Runs, BeforeRun
      <4> QED BY <3>1, <4>2 DEF Sees
    <3> QED BY <3>2, <3>3
  <2>3. CASE StopConsumer \/ StopMetrics
    <3>1. task' = task /\ pending' = pending /\ Open' = Open
      BY <2>3 DEF StopConsumer, StopMetrics, Open
    <3>2. ~BeforeRun'
      BY <2>0, <2>3 DEF StopConsumer, StopMetrics, BeforeRun
    <3> QED BY <2>0, <3>1, <3>2, NothingSeen
  <2>4. CASE CloseStorage
    <3>1. task' = task /\ pending' = pending /\ ~BeforeRun'
      BY <2>4 DEF CloseStorage, BeforeRun
    <3>2. Quiet("rest")
      <4>1. at \in 1 .. 9
        BY <1>0, StepOrder DEF TradingTypeOK
      <4>2. at = 9
        BY <2>4, <4>1, StepOrder DEF CloseStorage, AtStep
      <4> QED BY <1>0, <2>4, <4>2 DEF CloseStorage, AtStep, InOrder, TakenDown
    <3>3. FallbackTask' = FallbackTask /\ FallbackTask # "alive"
      BY <2>0, <3>1, <3>2 DEF FallbackTask, Runs, BeforeRun, Quiet
    <3>4. Open /\ (Open' \/ ~Open')
      BY <1>0, <2>4 DEF CloseStorage, AtStep, InOrder, Open
    <3> QED BY <3>1, <3>3, <3>4 DEF Sees, Open
  <2> QED BY <1>5, <2>1, <2>2, <2>3, <2>4 DEF TakeDown
<1>6. ASSUME NEW l \in Lanes, LaneSteps(l) PROVE Goal
  <2>1. UNCHANGED mainVars
    BY <1>6 DEF LaneSteps, LoopTop, Connected, StreamFails, StreamEnds, ConsumerStopped,
                BackoffEnds, LaneCancelled
  <2>2. task'["rest"] = task["rest"]
    BY <1>0, <1>6 DEF LaneSteps, LoopTop, Connected, StreamFails, StreamEnds, ConsumerStopped,
                      BackoffEnds, LaneCancelled
  <2>3. "rest" \in pending' <=> "rest" \in pending
    BY <1>0, <1>6 DEF LaneSteps, LoopTop, Connected, StreamFails, StreamEnds, ConsumerStopped,
                      BackoffEnds, LaneCancelled
  <2>4. (BeforeRun' <=> BeforeRun) /\ Open' = Open
    BY <2>1 DEF mainVars, BeforeRun, Open
  <2> QED BY <2>2, <2>3, <2>4, NothingSeen
<1>7. CASE StrategyEnds \/ TaskRaises("recon")
  <2>1. task'["rest"] = task["rest"] /\ pending' = pending
    BY <1>0, <1>7 DEF StrategyEnds, TaskRaises
  <2>2. (BeforeRun' <=> BeforeRun) /\ Open' = Open
    BY <1>7 DEF StrategyEnds, TaskRaises, mainVars, BeforeRun, Open
  <2> QED BY <2>1, <2>2, NothingSeen
<1>8. ASSUME NEW t \in Tasks, TaskCancelled(t) PROVE Goal
  <2>1. (BeforeRun' <=> BeforeRun) /\ Open' = Open
    BY <1>8 DEF TaskCancelled, mainVars, BeforeRun, Open
  <2>2. CASE t # "rest"
    <3>1. task'["rest"] = task["rest"] /\ ("rest" \in pending' <=> "rest" \in pending)
      BY <1>0, <1>8, <2>2 DEF TaskCancelled
    <3> QED BY <2>1, <3>1, NothingSeen
  <2>3. CASE t = "rest"
    <3>1. task["rest"] = "alive" /\ "rest" \in pending /\ task'["rest"] = "done"
      BY <1>0, <1>8, <2>3 DEF TaskCancelled
    <3>2. FallbackTask = "cancelled" /\ FallbackTask' = "cancelled" /\ ~BeforeRun
      BY <1>0, <2>1, <3>1 DEF FallbackTask, Runs, BeforeRun
    <3> QED BY <2>1, <3>2 DEF Sees
  <2> QED BY <2>2, <2>3
<1> QED BY <1>1, <1>2, <1>3, <1>4, <1>5, <1>6, <1>7, <1>8 DEF ProcessSteps, MainSteps

-----------------------------------------------------------------------------
(* The process and the fallback together *)

\* What the composition adds to the process's own steps.
LEMMA NextIsProcessOrTape ==
  ASSUME Next
  PROVE  \/ ProcessSteps /\ UNCHANGED tapeVars
         \/ UNCHANGED processVars
         \/ TaskRaises("rest")
BY DEF Next, ProcessStep, LoopSteps, ThreadSteps, StorageRefuses, Trades

LEMMA InitProcessInv == Init => ProcessInv
<1> SUFFICES ASSUME Init PROVE ProcessInv
  OBVIOUS
<1>1. TradingTypeOK
  <2>1. at \in DOMAIN Steps
    <3>1. at = 1 /\ DOMAIN Steps = 1 .. 9
      BY StepOrder DEF Init, ProcessInit
    <3> QED BY <3>1
  <2>2. /\ task \in [Tasks -> {"absent", "alive", "done", "raised"}]
        /\ where \in [Lanes -> {"top", "connect", "ingest", "stop", "last stop", "backoff"}]
        /\ consumer \in [Lanes -> {"absent", "closed", "open"}]
    BY DEF Init, ProcessInit
  <2> QED BY <2>1, <2>2 DEF Init, ProcessInit, TradingTypeOK
<1>2. InOrder
  BY DEF Init, ProcessInit, InOrder
<1>3. task["rest"] = "absent"
  BY DEF Init, ProcessInit, Tasks
<1> QED BY <1>1, <1>2, <1>3 DEF ProcessInv, OrderInv

LEMMA NextProcessInv == ProcessInv /\ [Next]_vars => ProcessInv'
<1> SUFFICES ASSUME ProcessInv, [Next]_vars PROVE ProcessInv'
  OBVIOUS
<1>0. OrderInv /\ TradingTypeOK /\ InOrder
  BY DEF ProcessInv, OrderInv
<1>1. CASE ProcessSteps
  <2>1. OrderInv'
    BY <1>0, <1>1, ProcessKeepsOrder
  <2>2. BeforeRun' => task'["rest"] = "absent"
    BY <1>1, ProcessIsSeen
  <2> QED BY <2>1, <2>2 DEF ProcessInv
<1>2. CASE UNCHANGED processVars
  <2>1. UNCHANGED <<main, at, waiting, shutdown, storage, task, pending, where, consumer>>
    BY <1>2 DEF processVars, mainVars, laneVars
  <2>2. TradingTypeOK'
    BY <1>0, <2>1 DEF TradingTypeOK
  <2>3. InOrder'
    BY <1>0, <2>1, UnchangedIsCalm, CalmKeepsOrder
  <2>4. BeforeRun' => task'["rest"] = "absent"
    BY <2>1 DEF ProcessInv, BeforeRun
  <2> QED BY <2>2, <2>3, <2>4 DEF ProcessInv, OrderInv
<1>3. CASE TaskRaises("rest")
  <2>1. "rest" \in Tasks
    BY DEF Tasks
  <2>2. TradingTypeOK' /\ Calm
    BY <1>0, <1>3, <2>1, TasksKeepTypes, TaskIsCalm
  <2>3. UNCHANGED <<main, at, storage>>
    BY <1>3 DEF TaskRaises, mainVars
  <2>4. ~BeforeRun /\ ~BeforeRun'
    BY <1>3, <2>3 DEF ProcessInv, TaskRaises, Runs, BeforeRun
  <2> QED BY <1>0, <2>2, <2>3, <2>4, CalmKeepsOrder DEF ProcessInv, OrderInv
<1>4. CASE UNCHANGED vars
  BY <1>2, <1>4 DEF vars
<1> QED BY <1>1, <1>2, <1>3, <1>4, NextIsProcessOrTape

LEMMA ProcessInvariant == Spec => []ProcessInv
BY InitProcessInv, NextProcessInv, PTL DEF Spec

\* In the trading process, whatever the streams, the fallback and the storage do
\* and wherever the shutdown meets them, the storage is closed behind every task
\* and every stream that uses it.
THEOREM TradingStorageClosedLast == Spec => []StorageClosedLast
<1>1. ProcessInv => StorageClosedLast
  <2> SUFFICES ASSUME ProcessInv, storage = "closed"
      PROVE  /\ \A t \in Tasks : task[t] # "alive"
             /\ \A l \in Lanes : consumer[l] # "open"
    BY DEF StorageClosedLast, ProcessInv, OrderInv
  <2>1. TakenDown(9)
    BY DEF ProcessInv, OrderInv, InOrder
  <2> QED BY <2>1 DEF TakenDown, Quiet, Tasks, Lanes
<1> QED BY <1>1, ProcessInvariant, PTL

-----------------------------------------------------------------------------
(* The refinement: the process does to the fallback what it is written for *)

LEMMA InitIsFallbackInit == Init => Fallback!Init
BY DEF Init

LEMMA NextIsFallbackNext ==
  ASSUME ProcessInv, [Next]_vars
  PROVE  [Fallback!Next]_(Fallback!vars)
<1>0. "rest" \in Tasks
  BY DEF Tasks
<1>1. CASE ProcessStep
  <2>1. Sees /\ UNCHANGED tapeVars
    BY <1>1, ProcessIsSeen DEF ProcessStep
  <2>2. CASE FallbackTask' = FallbackTask /\ Open' = Open
    BY <2>1, <2>2 DEF tapeVars, Open, Fallback!vars
  <2>3. CASE FallbackTask = "alive" /\ FallbackTask' = "cancelled" /\ Open' = Open
    BY <2>1, <2>3 DEF tapeVars, Open, Fallback!Next, Fallback!Cancel
  <2>4. CASE FallbackTask' = FallbackTask /\ FallbackTask # "alive" /\ Open /\ ~Open'
    BY <2>1, <2>4 DEF tapeVars, Open, Fallback!Next, Fallback!CloseStorage
  <2> QED BY <2>1, <2>2, <2>3, <2>4 DEF Sees
<1>2. CASE LoopSteps
  BY <1>2 DEF LoopSteps, Fallback!Next
<1>3. CASE ThreadSteps
  BY <1>3 DEF ThreadSteps, StorageRefuses, Fallback!Next, Fallback!PollSteps
<1>4. CASE Trades
  BY <1>4 DEF Trades, Fallback!Next, Lanes, Fallback!Lanes
<1>5. CASE UNCHANGED vars
  BY <1>5 DEF vars, processVars, mainVars, tapeVars, Fallback!vars, FallbackTask, Runs
<1> QED BY <1>1, <1>2, <1>3, <1>4, <1>5 DEF Next

\* In the trading process the fallback meets only what it is written for: its task
\* is cancelled once and does not run again, and the storage is closed behind it.
THEOREM TradingFallbackSafety == Spec => FallbackSafety
<1>1. Init => Fallback!Init
  BY InitIsFallbackInit
<1>2. ProcessInv /\ [Next]_vars => [Fallback!Next]_(Fallback!vars)
  BY NextIsFallbackNext
<1> QED BY <1>1, <1>2, ProcessInvariant, PTL DEF Spec, FallbackSafety, Fallback!Safety

-----------------------------------------------------------------------------
(* The fallback's tape *)

Trade == Lanes \X (1 .. MaxTrades)

\* What counts as seen was fetched, and what was fetched is stored or in hand while
\* the fallback's task is alive.
TapeInv ==
  /\ Fallback!FallbackTypeOK
  /\ hand = NoPacket \/ hand \in fetched
  /\ \A i \in DOMAIN seen : seen[i] \in fetched
  /\ FallbackTask = "alive" => fetched \subseteq stored \cup {hand}

\* What the types of TapeInv come to for this process.
LEMMA TapeTypes ==
  ASSUME TapeInv
  PROVE  /\ FallbackTask \in {"alive", "cancelled", "raised"}
         /\ loop \in {"top", "poll", "sleep"} /\ poll \in Lanes \cup {"idle"}
         /\ hand # NoPacket => poll # "idle"
         /\ seen \in Seq(Trade)
         /\ latest \in [Lanes -> 0 .. MaxTrades]
         /\ fetched \subseteq Trade /\ stored \subseteq fetched
         /\ FallbackTask = "alive" => (loop = "poll" <=> poll # "idle")
<1>1. Fallback!Lanes = Lanes
  BY DEF Lanes, Fallback!Lanes
<1>2. ASSUME hand # NoPacket PROVE poll # "idle"
  <2>1. hand \in Trade /\ poll = hand[1]
    BY <1>1, <1>2 DEF TapeInv, Fallback!FallbackTypeOK, Trade
  <2> QED BY <2>1 DEF Trade, Lanes
<1> QED BY <1>1, <1>2 DEF TapeInv, Fallback!FallbackTypeOK, Trade

\* The oldest keys expire: what is left was there before.
LEMMA KeptSeen ==
  ASSUME NEW S, NEW s \in Seq(S), NEW old \in 0 .. Len(s)
  PROVE  /\ SubSeq(s, old + 1, Len(s)) \in Seq(S)
         /\ \A i \in DOMAIN SubSeq(s, old + 1, Len(s)) :
              \E j \in DOMAIN s : SubSeq(s, old + 1, Len(s))[i] = s[j]
<1> DEFINE kept == SubSeq(s, old + 1, Len(s))
<1>0. Len(s) \in Nat /\ DOMAIN s = 1 .. Len(s) /\ \A i \in (old + 1) .. Len(s) : s[i] \in S
  BY LenProperties, ElementOfSeq
<1>1. /\ kept \in Seq(S) /\ Len(kept) = Len(s) - old
      /\ \A i \in 1 .. Len(s) - old : kept[i] = s[old + i]
  <2> HIDE DEF kept
  <2>1. /\ kept \in Seq(S)
        /\ Len(kept) = IF old + 1 <= Len(s) THEN Len(s) - (old + 1) + 1 ELSE 0
        /\ \A i \in 1 .. Len(s) - (old + 1) + 1 : kept[i] = s[(old + 1) + i - 1]
    BY <1>0, SubSeqProperties DEF kept
  <2>2. Len(s) - (old + 1) + 1 = Len(s) - old
    BY <1>0
  <2>3. Len(kept) = Len(s) - old
    <3>1. CASE old + 1 <= Len(s)
      <4>1. Len(kept) = Len(s) - (old + 1) + 1
        BY <2>1, <3>1
      <4> QED BY <2>2, <4>1
    <3>2. CASE ~(old + 1 <= Len(s))
      <4>1. \A n \in Nat : \A k \in 0 .. n : ~(k + 1 <= n) => n - k = 0
        OBVIOUS
      <4>2. Len(s) - old = 0
        BY <1>0, <3>2, <4>1
      <4> QED BY <2>1, <3>2, <4>2
    <3> QED BY <3>1, <3>2
  <2>4. ASSUME NEW i \in 1 .. Len(s) - old PROVE kept[i] = s[old + i]
    <3>1. (old + 1) + i - 1 = old + i
      BY <1>0
    <3> QED BY <2>1, <2>2, <3>1
  <2> QED BY <2>1, <2>3, <2>4
<1>2. DOMAIN kept = 1 .. Len(s) - old
  <2> HIDE DEF kept
  <2> QED BY <1>1, LenProperties
<1> HIDE DEF kept
<1>3. \A i \in DOMAIN kept : old + i \in DOMAIN s /\ kept[i] = s[old + i]
  BY <1>0, <1>1, <1>2
<1> QED BY <1>1, <1>3 DEF kept

LEMMA InitTapeInv == Init => TapeInv
<1> SUFFICES ASSUME Init PROVE TapeInv
  OBVIOUS
<1>1. Fallback!Init
  BY DEF Init
<1>2. Fallback!FallbackTypeOK
  BY <1>1, EmptySeq, FallbackAssumption DEF Fallback!Init, Fallback!FallbackTypeOK
<1>3. seen = <<>> /\ hand = NoPacket /\ fetched = {}
  BY <1>1 DEF Fallback!Init
<1> QED BY <1>2, <1>3 DEF TapeInv

\* The thread is through with a lane; what it had in hand is stored, or it had nothing.
LEMMA LaneDoneKeepsTape ==
  ASSUME TapeInv, Fallback!LaneDone, poll # "idle", UNCHANGED <<FallbackTask, latest>>,
         seen' \in Seq(Trade), \A i \in DOMAIN seen' : seen'[i] \in fetched,
         fetched' = fetched, stored' \subseteq fetched, stored \subseteq stored',
         hand \in stored' \cup {NoPacket}, NoPacket \notin fetched,
         (storage # "closed")' \in BOOLEAN
  PROVE  TapeInv'
<1>1. Fallback!Lanes = Lanes
  BY DEF Lanes, Fallback!Lanes
<1>2. /\ hand' = NoPacket
      /\ poll' = IF poll = "equity" THEN "crypto" ELSE "idle"
      /\ loop' = IF poll = "crypto" THEN "sleep" ELSE loop
  BY DEF Fallback!LaneDone
<1>3. poll \in {"equity", "crypto"}
  BY TapeTypes DEF Lanes
<1>4. poll' \in Lanes \cup {"idle"} /\ loop' \in {"top", "poll", "sleep"}
  BY <1>2, <1>3, TapeTypes DEF Lanes
<1>5. FallbackTask' = "alive" => (loop' = "poll" <=> poll' # "idle")
  BY <1>2, <1>3, TapeTypes
<1>6. Fallback!FallbackTypeOK'
  BY <1>1, <1>2, <1>4, <1>5, TapeTypes DEF Fallback!FallbackTypeOK, Trade
<1>7. FallbackTask' = "alive" => fetched' \subseteq stored' \cup {hand'}
  BY <1>2 DEF TapeInv
<1> QED BY <1>2, <1>6, <1>7 DEF TapeInv

\* A poll is given the lane's latest trade.
LEMMA FetchKeepsTape == TapeInv /\ Fallback!Fetch => TapeInv'
<1> SUFFICES ASSUME TapeInv, Fallback!Fetch PROVE TapeInv'
  OBVIOUS
<1> DEFINE key == <<poll, latest[poll]>>
<1>1. Fallback!Lanes = Lanes
  BY DEF Lanes, Fallback!Lanes
<1>2. /\ poll # "idle" /\ hand = NoPacket /\ latest[poll] > 0
      /\ fetched' = fetched \cup {key}
      /\ UNCHANGED <<FallbackTask, latest, stored, storage # "closed">>
  BY DEF Fallback!Fetch
<1>3. poll \in Lanes /\ key \in Trade
  BY <1>2, TapeTypes DEF Lanes, Trade
<1>4. PICK old \in 0 .. Len(seen) :
        LET kept == SubSeq(seen, old + 1, Len(seen))
        IN  IF key \in Fallback!ToSet(kept)
            THEN seen' = kept /\ Fallback!LaneDone
            ELSE /\ seen' = Append(kept, key)
                 /\ hand' = key
                 /\ UNCHANGED <<poll, loop>>
  BY DEF Fallback!Fetch, Fallback!SeenKey
<1> DEFINE kept == SubSeq(seen, old + 1, Len(seen))
<1>5. kept \in Seq(Trade) /\ \A i \in DOMAIN kept : kept[i] \in fetched
  <2>1. \A i \in DOMAIN kept : \E j \in DOMAIN seen : kept[i] = seen[j]
    BY KeptSeen, TapeTypes
  <2>2. kept \in Seq(Trade)
    BY KeptSeen, TapeTypes
  <2> HIDE DEF kept
  <2> QED BY <2>1, <2>2 DEF TapeInv
<1>6. NoPacket \notin Trade
  BY FallbackAssumption DEF Trade
<1> HIDE DEF kept, key
<1>7. CASE key \in Fallback!ToSet(kept)
  <2>1. seen' = kept /\ Fallback!LaneDone
    BY <1>4, <1>7 DEF kept
  <2>2. key \in fetched
    BY <1>5, <1>7 DEF Fallback!ToSet
  <2>3. fetched' = fetched /\ NoPacket \notin fetched /\ stored \subseteq fetched
    BY <1>2, <1>6, <2>2, TapeTypes
  <2>4. seen' \in Seq(Trade) /\ \A i \in DOMAIN seen' : seen'[i] \in fetched
    BY <1>5, <2>1
  <2>5. (storage # "closed")' \in BOOLEAN
    OBVIOUS
  <2> QED BY <1>2, <2>1, <2>3, <2>4, <2>5, LaneDoneKeepsTape
<1>8. CASE key \notin Fallback!ToSet(kept)
  <2>1. seen' = Append(kept, key) /\ hand' = key /\ UNCHANGED <<poll, loop>>
    BY <1>4, <1>8 DEF kept
  <2>2. key \in fetched' /\ key[1] = poll
    BY <1>2 DEF key
  <2>3. seen' \in Seq(Trade)
    BY <1>3, <1>5, <2>1, AppendProperties
  <2>4. \A i \in DOMAIN seen' : seen'[i] \in fetched'
    <3>1. /\ Len(seen') = Len(kept) + 1 /\ Len(kept) \in Nat
          /\ \A i \in 1 .. Len(kept) : seen'[i] = kept[i]
          /\ seen'[Len(kept) + 1] = key
          /\ DOMAIN seen' = 1 .. Len(seen') /\ DOMAIN kept = 1 .. Len(kept)
      BY <1>3, <1>5, <2>1, <2>3, AppendProperties, LenProperties
    <3>2. \A i \in DOMAIN seen' : i \in DOMAIN kept \/ i = Len(kept) + 1
      BY <3>1
    <3> QED BY <1>2, <1>5, <2>2, <3>1, <3>2
  <2>5. fetched' \subseteq Trade /\ stored' \subseteq fetched'
    BY <1>2, <1>3, TapeTypes
  <2>6. Fallback!FallbackTypeOK'
    <3>1. hand' # NoPacket => poll' = hand'[1]
      BY <2>1, <2>2
    <3>2. /\ FallbackTask' \in {"alive", "cancelled", "raised"}
          /\ loop' \in {"top", "poll", "sleep"} /\ poll' \in Lanes \cup {"idle"}
          /\ latest' \in [Lanes -> 0 .. MaxTrades]
          /\ FallbackTask' = "alive" => (loop' = "poll" <=> poll' # "idle")
      BY <1>2, <2>1, TapeTypes
    <3>3. (storage # "closed")' \in BOOLEAN
      OBVIOUS
    <3> QED BY <1>1, <2>3, <2>5, <3>1, <3>2, <3>3 DEF Fallback!FallbackTypeOK, Trade
  <2>7. FallbackTask' = "alive" => fetched' \subseteq stored' \cup {hand'}
    <3>1. fetched \subseteq Trade
      BY TapeTypes
    <3> QED BY <1>2, <1>6, <2>1, <3>1 DEF TapeInv
  <2> QED BY <2>1, <2>2, <2>4, <2>6, <2>7 DEF TapeInv
<1> QED BY <1>7, <1>8

LEMMA NextTapeInv == TapeInv /\ [Fallback!Next]_(Fallback!vars) => TapeInv'
<1> SUFFICES ASSUME TapeInv, [Fallback!Next]_(Fallback!vars) PROVE TapeInv'
  OBVIOUS
<1> DEFINE open == storage # "closed"
<1>1. Fallback!Lanes = Lanes
  BY DEF Lanes, Fallback!Lanes
<1>2. open' \in BOOLEAN
  OBVIOUS
<1>3. NoPacket \notin Trade
  BY FallbackAssumption DEF Trade
<1> HIDE DEF open
<1>4. ASSUME NEW l \in Lanes, Fallback!TradeHappens(l) PROVE TapeInv'
  <2>1. latest' \in [Lanes -> 0 .. MaxTrades]
    <3>1. latest[l] < MaxTrades /\ latest' = [latest EXCEPT ![l] = latest[l] + 1]
      BY <1>4 DEF Fallback!TradeHappens
    <3>2. latest \in [Lanes -> 0 .. MaxTrades] /\ MaxTrades \in Nat
      BY TapeTypes, FallbackAssumption
    <3>3. latest[l] + 1 \in 0 .. MaxTrades
      BY <3>1, <3>2
    <3> QED BY <3>1, <3>2, <3>3
  <2>2. UNCHANGED <<FallbackTask, loop, poll, hand, seen, fetched, stored>>
    BY <1>4 DEF Fallback!TradeHappens
  <2> QED BY <1>1, <1>2, <2>1, <2>2 DEF TapeInv, Fallback!FallbackTypeOK, open
<1>5. CASE Fallback!PollBegins
  <2>1. hand = NoPacket
    BY <1>5, TapeTypes DEF Fallback!PollBegins
  <2>2. loop' = "poll" /\ poll' = "equity" /\ UNCHANGED <<FallbackTask, hand, seen, latest, fetched, stored>>
    BY <1>5 DEF Fallback!PollBegins
  <2> QED BY <1>1, <1>2, <2>1, <2>2 DEF TapeInv, Fallback!FallbackTypeOK, Lanes, open
<1>6. CASE Fallback!SleepEnds
  <2>1. loop = "sleep" /\ loop' = "top" /\ UNCHANGED <<FallbackTask, poll, hand, seen, latest, fetched, stored>>
    BY <1>6 DEF Fallback!SleepEnds
  <2> QED BY <1>1, <1>2, <2>1 DEF TapeInv, Fallback!FallbackTypeOK, open
<1>7. CASE Fallback!Cancel \/ Fallback!CloseStorage
  <2>1. /\ FallbackTask' \in {FallbackTask, "cancelled"}
        /\ UNCHANGED <<loop, poll, hand, seen, latest, fetched, stored>>
    BY <1>7 DEF Fallback!Cancel, Fallback!CloseStorage
  <2> QED BY <1>1, <1>2, <2>1 DEF TapeInv, Fallback!FallbackTypeOK, open
<1>8. CASE Fallback!NothingToTake
  <2>1. /\ Fallback!LaneDone /\ poll # "idle" /\ hand = NoPacket
        /\ UNCHANGED <<FallbackTask, seen, latest, fetched, stored>>
    BY <1>8 DEF Fallback!NothingToTake
  <2>2. NoPacket \notin fetched /\ stored \subseteq fetched /\ seen \in Seq(Trade)
    BY <1>3, TapeTypes
  <2> QED BY <1>2, <2>1, <2>2, LaneDoneKeepsTape DEF TapeInv, open
<1>9. CASE Fallback!Fetch
  BY <1>9, FetchKeepsTape
<1>10. CASE Fallback!Ingest
  <2>1. /\ Fallback!LaneDone /\ hand # NoPacket /\ stored' = stored \cup {hand}
        /\ UNCHANGED <<FallbackTask, seen, latest, fetched>>
    BY <1>10 DEF Fallback!Ingest
  <2>2. NoPacket \notin fetched /\ stored' \subseteq fetched /\ seen \in Seq(Trade) /\ poll # "idle"
    BY <1>3, <2>1, TapeTypes DEF TapeInv
  <2> QED BY <1>2, <2>1, <2>2, LaneDoneKeepsTape DEF TapeInv, open
<1>11. CASE Fallback!IngestRaises
  <2>1. /\ hand' = NoPacket /\ poll' = "idle" /\ FallbackTask' \in {"cancelled", "raised"}
        /\ UNCHANGED <<loop, seen, latest, fetched, stored>>
    BY <1>11, TapeTypes DEF Fallback!IngestRaises
  <2> QED BY <1>1, <1>2, <2>1 DEF TapeInv, Fallback!FallbackTypeOK, open
<1>12. CASE UNCHANGED Fallback!vars
  <2>1. UNCHANGED <<FallbackTask, loop, poll, hand, seen, latest, fetched, stored>>
    BY <1>12 DEF Fallback!vars
  <2> QED BY <1>1, <1>2, <2>1 DEF TapeInv, Fallback!FallbackTypeOK, open
<1> QED BY <1>1, <1>4, <1>5, <1>6, <1>7, <1>8, <1>9, <1>10, <1>11, <1>12
        DEF Fallback!Next, Fallback!PollSteps

\* In the trading process, what a poll of the REST fallback was given is in the
\* storage or on its way there for as long as the fallback's task lives, for every
\* number of trades, any expiry of the keys and any failure of the requests.
THEOREM TradingTapeComplete == Spec => []TapeComplete
<1>1. ProcessInv /\ [Next]_vars => [Fallback!Next]_(Fallback!vars)
  BY NextIsFallbackNext
<1>2. TapeInv => TapeComplete
  BY DEF TapeInv, TapeComplete, Fallback!TapeStored
<1> QED BY <1>1, <1>2, InitTapeInv, NextTapeInv, ProcessInvariant, PTL DEF Spec
=============================================================================
