------------------------------ MODULE FeedPoll ------------------------------
(***************************************************************************)
(* The polls of one feed by the worker process: the asynchronous scheduler *)
(* of pipeline/async_scheduler.py creates a poll per fixture, its guard    *)
(* lets at most one per fixture in, a pool thread runs _fetch_feed of      *)
(* pipeline/ingest.py through the feed's circuit breaker and its source's  *)
(* hourly budget, and the guard lets go of the fixture when the event loop *)
(* resumes the poll's coroutine.  The breaker and the budget are the       *)
(* modules of those names; every step here that touches one of them is one *)
(* of its steps.  Threads of other processes that spend from the same      *)
(* budget appear only through it.                                          *)
(***************************************************************************)
EXTENDS CircuitBreaker, ApiBudget, Sequences, Functions

CONSTANTS
  Fixtures,   \* fixture keys the scheduler polls
  NoJob       \* a pool thread's job when it has none

ASSUME PollAssumption ==
  /\ Callers \subseteq Spenders
  /\ NoJob \notin Fixtures

VARIABLES
  inFlight,   \* AsyncSchedulerGuard._in_flight, task ids as fixtures
  queue,      \* polls handed to the thread pool, not yet picked up
  job,        \* the fixture each pool thread is polling
  tpc,        \* where each pool thread is in ingest_feed
  finished    \* polls whose thread is done and whose coroutine is not resumed

guardVars == <<inFlight, queue, finished>>
pollVars == <<inFlight, queue, job, tpc, finished>>
vars == <<breakerVars, budgetVars, pollVars>>

PollPc == {"free", "gate", "budget", "start", "fetch", "answered", "failed", "merge", "status"}

PollTypeOK ==
  /\ BreakerTypeOK
  /\ BudgetTypeOK
  /\ inFlight \subseteq Fixtures
  /\ queue \in Seq(Fixtures)
  /\ job \in [Callers -> Fixtures \cup {NoJob}]
  /\ tpc \in [Callers -> PollPc]
  /\ finished \subseteq Fixtures

Init ==
  /\ BreakerInit
  /\ BudgetInit
  /\ inFlight = {}
  /\ queue = <<>>
  /\ job = [t \in Callers |-> NoJob]
  /\ tpc = [t \in Callers |-> "free"]
  /\ finished = {}

At(t, pc) == tpc[t] = pc

Move(t, pc) ==
  /\ tpc' = [tpc EXCEPT ![t] = pc]
  /\ UNCHANGED job

\* ingest_feed returns: the thread is free and its result waits for the loop.
Finish(t) ==
  /\ tpc' = [tpc EXCEPT ![t] = "free"]
  /\ job' = [job EXCEPT ![t] = NoJob]
  /\ finished' = finished \cup {job[t]}
  /\ UNCHANGED <<inFlight, queue>>

-----------------------------------------------------------------------------
(* The event loop: start_loop, execute_safely.  No await separates the test *)
(* of _in_flight from the insertion, nor the poll's return from discard.    *)

\* (mutant: the guard is not consulted)
SchedulePollUnguarded(f) ==
  /\ Len(queue) < 3
  /\ inFlight' = inFlight \cup {f}
  /\ queue' = Append(queue, f)
  /\ UNCHANGED <<breakerVars, budgetVars, job, tpc, finished>>

\* (mutant: the pool serves the newest poll first)
SchedulePollFirst(f) ==
  /\ f \notin inFlight
  /\ inFlight' = inFlight \cup {f}
  /\ queue' = <<f>> \o queue
  /\ UNCHANGED <<breakerVars, budgetVars, job, tpc, finished>>

\* A fixture is due; its poll is dropped when the last one still runs.
SchedulePoll(f) ==
  /\ f \notin inFlight
  /\ inFlight' = inFlight \cup {f}
  /\ queue' = Append(queue, f)
  /\ UNCHANGED <<breakerVars, budgetVars, job, tpc, finished>>

Release(f) ==
  /\ f \in finished
  /\ inFlight' = inFlight \ {f}
  /\ finished' = finished \ {f}
  /\ UNCHANGED <<breakerVars, budgetVars, queue, job, tpc>>

-----------------------------------------------------------------------------
(* A pool thread: ingest_feed and _fetch_feed. *)

TakeJob(t) ==
  /\ At(t, "free")
  /\ queue # <<>>
  /\ job' = [job EXCEPT ![t] = Head(queue)]
  /\ queue' = Tail(queue)
  /\ tpc' = [tpc EXCEPT ![t] = "gate"]
  /\ UNCHANGED <<breakerVars, budgetVars, inFlight, finished>>

\* allow_call; "circuit open ... skipping" ends the poll with no ticks.
BreakerGate(t) ==
  /\ At(t, "gate")
  /\ \/ AllowCall(t) \/ AllowCallExpiry(t)
  /\ \/ bpc'[t] = "allowRead" /\ UNCHANGED pollVars
     \/ bpc'[t] = "allowed" /\ Move(t, "budget") /\ UNCHANGED guardVars
     \/ bpc'[t] = "idle" /\ Finish(t)
  /\ UNCHANGED budgetVars

BreakerRefuses(t) ==
  /\ At(t, "gate")
  /\ bpc[t] = "idle"
  /\ RefusesNow
  /\ Finish(t)
  /\ UNCHANGED <<breakerVars, budgetVars>>

BudgetGate(t) ==
  /\ At(t, "budget")
  /\ BudgetAllow(t)
  /\ Move(t, "start")
  /\ UNCHANGED <<breakerVars, guardVars>>

\* (mutant: a refusal by the budget is reported as a failure of the feed)
BudgetRefusalFails(t) ==
  /\ At(t, "budget")
  /\ ~Allows(t)
  /\ failures' = Saturate(failures, FailureThreshold)
  /\ bpc' = [bpc EXCEPT ![t] = "idle"]
  /\ UNCHANGED <<state, halfCalls, openAge>>
  /\ Finish(t)
  /\ UNCHANGED budgetVars

\* "hourly API budget exhausted ... skipping", or the read of a Redis counter
\* raised, outside of any try, and the exception ends the poll.
BudgetRefuses(t) ==
  /\ At(t, "budget")
  /\ ~Allows(t) \/ StoreOf[t] \notin Volatile
  /\ GiveUp(t)
  /\ Finish(t)
  /\ UNCHANGED budgetVars

StartCall(t) ==
  /\ At(t, "start")
  /\ CallStarted(t) \/ CallStartedExpiry(t)
  /\ \/ bpc'[t] = "startRead" /\ UNCHANGED pollVars
     \/ bpc'[t] = "calling" /\ Move(t, "fetch") /\ UNCHANGED guardVars
  /\ UNCHANGED budgetVars

\* fetch_ticks returns and the call is recorded, before record_success.
FetchReturns(t) ==
  /\ At(t, "fetch")
  /\ BudgetRecord(t)
  /\ Move(t, "answered")
  /\ UNCHANGED <<breakerVars, guardVars>>

Answered(t) ==
  /\ At(t, "answered")
  /\ RecordSuccess(t)
  /\ Move(t, "merge")
  /\ UNCHANGED <<budgetVars, guardVars>>

\* fetch_ticks (or the recording) raises: a failure for the breaker, no call
\* for the budget.
FetchRaises(t) ==
  /\ At(t, "fetch")
  /\ RecordFailure(t)
  /\ BudgetAbandon(t)
  /\ \/ bpc'[t] = "stamp" /\ Move(t, "failed") /\ UNCHANGED guardVars
     \/ bpc'[t] = "idle" /\ Finish(t)

\* (mutant: the guard is not released when the breaker opened)
OpenedAtKept(t) ==
  /\ At(t, "failed")
  /\ StampOpenedAt(t)
  /\ tpc' = [tpc EXCEPT ![t] = "free"]
  /\ job' = [job EXCEPT ![t] = NoJob]
  /\ UNCHANGED <<inFlight, queue, finished>>
  /\ UNCHANGED budgetVars

OpenedAt(t) ==
  /\ At(t, "failed")
  /\ StampOpenedAt(t)
  /\ Finish(t)
  /\ UNCHANGED budgetVars

\* Ticks are merged; a price change builds a line view, which asks every
\* breaker for its status.
Merge(t) ==
  /\ At(t, "merge")
  /\ Finish(t)
  /\ UNCHANGED <<breakerVars, budgetVars>>

MergeWithStatus(t) ==
  /\ At(t, "merge")
  /\ Status(t)
  /\ Move(t, "status")
  /\ UNCHANGED <<budgetVars, guardVars>>

StatusRead(t) ==
  /\ At(t, "status")
  /\ StatusExpiry(t)
  /\ Finish(t)
  /\ UNCHANGED budgetVars

PollStep(t) ==
  \/ TakeJob(t)
  \/ BreakerGate(t)
  \/ BreakerRefuses(t)
  \/ BudgetGate(t)
  \/ BudgetRefuses(t)
  \/ StartCall(t)
  \/ FetchReturns(t)
  \/ Answered(t)
  \/ FetchRaises(t)
  \/ OpenedAt(t)
  \/ Merge(t)
  \/ MergeWithStatus(t)
  \/ StatusRead(t)

-----------------------------------------------------------------------------
(* The rest of the world. *)

Others == Spenders \ Callers

OtherSpends(o) ==
  /\ BudgetAllow(o) \/ BudgetRecord(o) \/ BudgetAbandon(o)
  /\ UNCHANGED <<breakerVars, pollVars>>

ClockTicks == Tick /\ UNCHANGED <<budgetVars, pollVars>>

NewHour == HourRollover /\ UNCHANGED <<breakerVars, pollVars>>

\* The worker dies and starts again: its threads, its guard, its breakers and
\* what it counted in memory are gone; a Redis counter is not.
WorkerRestart ==
  /\ BreakerRestart
  /\ BudgetRestart(Callers)
  /\ inFlight' = {}
  /\ queue' = <<>>
  /\ job' = [t \in Callers |-> NoJob]
  /\ tpc' = [t \in Callers |-> "free"]
  /\ finished' = {}

Next ==
  \/ \E f \in Fixtures : SchedulePoll(f) \/ Release(f)
  \/ \E t \in Callers : PollStep(t)
  \/ \E o \in Others : OtherSpends(o)
  \/ ClockTicks
  \/ NewHour
  \/ WorkerRestart

Safety == Init /\ [][Next]_vars

\* The event loop keeps running and every fixture comes due again; the pool's
\* threads run, and a feed call ends, one way or the other.
Fairness ==
  /\ \A f \in Fixtures : WF_vars(SchedulePoll(f)) /\ WF_vars(Release(f))
  /\ \A t \in Callers : WF_vars(PollStep(t))

Spec == Safety /\ Fairness

-----------------------------------------------------------------------------
(* Properties *)

\* The polls the worker has going, by where they are.
Queued == Range(queue)
Running == {job[t] : t \in {u \in Callers : tpc[u] # "free"}}

\* At most one poll of a fixture is anywhere between the guard's insertion and
\* its discard: no two threads merge into the fixture's lines for one feed.
OnePollPerFixture ==
  /\ IsInjective(queue)
  /\ \A t, u \in Callers : t # u /\ job[t] = job[u] => job[t] = NoJob
  /\ Queued \cap Running = {}
  /\ finished \cap (Queued \cup Running) = {}

\* The guard holds exactly the polls that are going: none is forgotten (it
\* could start twice) and none is kept after it ended (it could never start
\* again).
GuardHoldsWork == inFlight = Queued \cup Running \cup finished

\* A poll that takes part in the breaker and in the budget is where both think
\* it is: the budget counts a call out exactly between allow() and the answer.
PollAgrees ==
  \A t \in Callers :
    /\ tpc[t] = "free" <=> job[t] = NoJob
    /\ t \in spending <=> tpc[t] \in {"start", "fetch"}
    /\ CASE tpc[t] \in {"free", "merge"} -> bpc[t] = "idle"
         [] tpc[t] = "gate"     -> bpc[t] \in {"idle", "allowRead"}
         [] tpc[t] = "budget"   -> bpc[t] = "allowed"
         [] tpc[t] = "start"    -> bpc[t] \in {"allowed", "startRead"}
         [] tpc[t] \in {"fetch", "answered"} -> bpc[t] = "calling"
         [] tpc[t] = "failed"   -> bpc[t] = "stamp"
         [] tpc[t] = "status"   -> bpc[t] = "statusRead"

\* Every fixture is polled again and again once the worker stops restarting:
\* whatever the other fixtures, the breaker and the budget do, no fixture stays
\* locked in the guard or behind the others in the pool's queue.
EveryFixturePolled ==
  <>[][~WorkerRestart]_vars
    => \A f \in Fixtures : []<>(\E t \in Callers : job[t] = f)
=============================================================================
