--------------------------- MODULE CircuitBreaker ---------------------------
(***************************************************************************)
(* One CircuitBreaker of pipeline/circuit_breaker.py, shared by every      *)
(* pool thread that polls the same feed.  The class takes no lock, so the  *)
(* steps below are the stretches of a method during which the interpreter  *)
(* cannot hand over to another thread: a method gives the GIL up only at a *)
(* call, and the calls that matter are the two time.time() calls:          *)
(*                                                                         *)
(*   state            reads _state, calls time.time(), then reads          *)
(*                    _opened_at and moves OPEN to HALF_OPEN               *)
(*   record_failure   sets _state to OPEN, calls time.time(), then writes  *)
(*                    _opened_at                                           *)
(*                                                                         *)
(* Time is openAge, the time since _opened_at, saturated at                *)
(* RecoveryTimeout: nothing compares it with anything larger.  A thread    *)
(* that was switched out at time.time() is taken to get the time at which  *)
(* it runs on; the two differ by a thread switch, the timeout is a minute. *)
(***************************************************************************)
EXTENDS Naturals

CONSTANTS
  Callers,          \* threads of one process that call the feed
  FailureThreshold, \* failure_threshold
  RecoveryTimeout,  \* recovery_timeout_sec, in ticks
  HalfOpenMax       \* half_open_max_calls

ASSUME BreakerAssumption ==
  /\ FailureThreshold \in Nat \ {0}
  /\ RecoveryTimeout \in Nat \ {0}
  /\ HalfOpenMax \in Nat \ {0}

VARIABLES
  state,     \* _state
  failures,  \* _failures, saturated at FailureThreshold
  halfCalls, \* _half_open_calls, saturated at HalfOpenMax
  openAge,   \* now - _opened_at, saturated at RecoveryTimeout
  bpc        \* where each caller is in the breaker's protocol

breakerVars == <<state, failures, halfCalls, openAge, bpc>>

FeedState == {"closed", "open", "half_open"}

BreakerPc ==
  {"idle", "allowRead", "allowed", "startRead", "calling", "stamp", "statusRead"}

BreakerTypeOK ==
  /\ state \in FeedState
  /\ failures \in 0 .. FailureThreshold
  /\ halfCalls \in 0 .. HalfOpenMax
  /\ openAge \in 0 .. RecoveryTimeout
  /\ bpc \in [Callers -> BreakerPc]

\* A new breaker is closed and its _opened_at is 0.0, an age past any timeout.
BreakerInit ==
  /\ state = "closed"
  /\ failures = 0
  /\ halfCalls = 0
  /\ openAge = RecoveryTimeout
  /\ bpc = [c \in Callers |-> "idle"]

Goto(c, from, to) ==
  /\ bpc[c] = from
  /\ bpc' = [bpc EXCEPT ![c] = to]

Saturate(n, limit) == IF n < limit THEN n + 1 ELSE limit

Expired == openAge >= RecoveryTimeout

\* The verdict of allow_call on a state and a count of half-open calls.
Permits(st, calls) ==
  \/ st = "closed"
  \/ st = "half_open" /\ calls < HalfOpenMax

\* (mutant: an open breaker that timed out closes without a trial call)
ClosedAfterExpiry == IF Expired THEN "closed" ELSE state

\* The second half of the state property, after time.time(): the caller saw
\* OPEN before the call and decides on the _opened_at it reads after it, even
\* when another thread has changed _state in between.
StateAfterExpiry == IF Expired THEN "half_open" ELSE state

\* (mutant: the reset of _half_open_calls is missing)
CallsKeptOnExpiry == halfCalls

CallsAfterExpiry == IF Expired THEN 0 ELSE halfCalls

SettleExpiry ==
  /\ state' = StateAfterExpiry
  /\ halfCalls' = CallsAfterExpiry
  /\ UNCHANGED <<failures, openAge>>

-----------------------------------------------------------------------------
(* allow_call *)

\* (mutant: the permit is counted where it is granted, not in call_started)
AllowCallTakingPermit(c) ==
  \/ state = "open" /\ Goto(c, "idle", "allowRead") /\ UNCHANGED <<state, failures, halfCalls, openAge>>
  \/ /\ Permits(state, halfCalls)
     /\ Goto(c, "idle", "allowed")
     /\ halfCalls' = IF state = "half_open" THEN halfCalls + 1 ELSE halfCalls
     /\ UNCHANGED <<state, failures, openAge>>

AllowCall(c) ==
  /\ \/ state = "open" /\ Goto(c, "idle", "allowRead")
     \/ Permits(state, halfCalls) /\ Goto(c, "idle", "allowed")
  /\ UNCHANGED <<state, failures, halfCalls, openAge>>

\* allow_call answers False without having to look at the clock.
RefusesNow == state = "half_open" /\ ~Permits(state, halfCalls)

AllowCallExpiry(c) ==
  /\ \/ /\ Permits(StateAfterExpiry, CallsAfterExpiry)
        /\ Goto(c, "allowRead", "allowed")
     \/ /\ ~Permits(StateAfterExpiry, CallsAfterExpiry)
        /\ Goto(c, "allowRead", "idle")
  /\ SettleExpiry

\* The caller was let through but the hourly budget said no: it never reports
\* back to the breaker.
GiveUp(c) ==
  /\ Goto(c, "allowed", "idle")
  /\ UNCHANGED <<state, failures, halfCalls, openAge>>

-----------------------------------------------------------------------------
(* call_started, record_success, record_failure, status *)

CallStarted(c) ==
  /\ \/ /\ state = "open"
        /\ Goto(c, "allowed", "startRead")
        /\ UNCHANGED halfCalls
     \/ /\ state = "closed"
        /\ Goto(c, "allowed", "calling")
        /\ UNCHANGED halfCalls
     \/ /\ state = "half_open"
        /\ Goto(c, "allowed", "calling")
        /\ halfCalls' = Saturate(halfCalls, HalfOpenMax)
  /\ UNCHANGED <<state, failures, openAge>>

CallStartedExpiry(c) ==
  /\ Goto(c, "startRead", "calling")
  /\ state' = StateAfterExpiry
  /\ halfCalls' = IF StateAfterExpiry = "half_open"
                  THEN Saturate(CallsAfterExpiry, HalfOpenMax)
                  ELSE CallsAfterExpiry
  /\ UNCHANGED <<failures, openAge>>

RecordSuccess(c) ==
  /\ Goto(c, "calling", "idle")
  /\ failures' = 0
  /\ state' = "closed"
  /\ UNCHANGED <<halfCalls, openAge>>

\* Up to the time.time() call: a failure in HALF_OPEN opens the breaker at
\* once, any other one when the count reaches the threshold.
Opens == state = "half_open" \/ failures + 1 >= FailureThreshold

RecordFailure(c) ==
  /\ failures' = Saturate(failures, FailureThreshold)
  /\ \/ Opens /\ state' = "open" /\ Goto(c, "calling", "stamp")
     \/ ~Opens /\ Goto(c, "calling", "idle") /\ UNCHANGED state
  /\ UNCHANGED <<halfCalls, openAge>>

\* ... and the write of _opened_at after it.
StampOpenedAt(c) ==
  /\ Goto(c, "stamp", "idle")
  /\ openAge' = 0
  /\ UNCHANGED <<state, failures, halfCalls>>

\* status(), called for every breaker when a line view is built.
Status(c) ==
  /\ state = "open"
  /\ Goto(c, "idle", "statusRead")
  /\ UNCHANGED <<state, failures, halfCalls, openAge>>

StatusExpiry(c) ==
  /\ Goto(c, "statusRead", "idle")
  /\ SettleExpiry

-----------------------------------------------------------------------------
(* The environment: the clock, and a restart of the process. *)

Tick ==
  /\ openAge < RecoveryTimeout
  /\ openAge' = openAge + 1
  /\ UNCHANGED <<state, failures, halfCalls, bpc>>

BreakerRestart ==
  /\ state' = "closed"
  /\ failures' = 0
  /\ halfCalls' = 0
  /\ openAge' = RecoveryTimeout
  /\ bpc' = [c \in Callers |-> "idle"]

BreakerCall(c) ==
  \/ AllowCall(c)
  \/ AllowCallExpiry(c)
  \/ GiveUp(c)
  \/ CallStarted(c)
  \/ CallStartedExpiry(c)
  \/ RecordSuccess(c)
  \/ RecordFailure(c)
  \/ StampOpenedAt(c)
  \/ Status(c)
  \/ StatusExpiry(c)

BreakerNext ==
  \/ \E c \in Callers : BreakerCall(c)
  \/ Tick
  \/ BreakerRestart

\* What may happen to a breaker: any caller is held to this protocol.
BreakerSafety == BreakerInit /\ [][BreakerNext]_breakerVars

\* The clock runs, a thread inside a method runs on, every feed call ends
\* (the feeds' HTTP calls have timeouts), the scheduler keeps polling, and a
\* budget that refuses a call stops refusing at the next full hour, so a
\* caller let through again and again is not turned away every time.
BreakerFairness ==
  /\ WF_breakerVars(Tick)
  /\ \A c \in Callers :
       /\ WF_breakerVars(AllowCall(c))
       /\ WF_breakerVars(AllowCallExpiry(c) \/ StatusExpiry(c))
       /\ SF_breakerVars(CallStarted(c))
       /\ WF_breakerVars(CallStartedExpiry(c))
       /\ WF_breakerVars(RecordSuccess(c) \/ RecordFailure(c))
       /\ WF_breakerVars(StampOpenedAt(c))

BreakerSpec == BreakerSafety /\ BreakerFairness

-----------------------------------------------------------------------------
(* Properties *)

\* A closed breaker has seen fewer failures than the threshold since the last
\* success: however late answers of several threads are interleaved, the
\* failure that reaches the threshold is the one that opens the breaker.
ClosedBelowThreshold == state = "closed" => failures < FailureThreshold

\* The half-open breaker cannot wedge: allow_call refuses everybody in
\* HALF_OPEN only while some thread still has a call out, and the answer of
\* that call moves the breaker out of HALF_OPEN.  (The count is never reset
\* inside HALF_OPEN, so a permit that leaked would refuse the feed forever.)
NeverWedged ==
  (state = "half_open" /\ halfCalls >= HalfOpenMax)
    => \E c \in Callers : bpc[c] = "calling"

\* A feed that has stopped failing is taken back for good: if from some moment
\* on no call fails, the breaker ends up closed and stays closed.
RecoversWhenHealthy ==
  <>[][\A c \in Callers : ~RecordFailure(c)]_breakerVars
    => <>[](state = "closed")

\* A feed that only fails is shed: if from some moment on no call succeeds and
\* the process is not restarted, the breaker ends up out of CLOSED for good.
ShedsDeadFeed ==
  <>[][~BreakerRestart /\ \A c \in Callers : ~RecordSuccess(c)]_breakerVars
    => <>[](state # "closed")
=============================================================================
