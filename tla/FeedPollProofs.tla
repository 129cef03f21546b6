--------------------------- MODULE FeedPollProofs ---------------------------
(***************************************************************************)
(* Proofs about the asynchronous feeds: the circuit breaker and the hourly *)
(* budget, each for any threads and limits; that every behaviour of        *)
(* FeedPoll is one of the breaker and one of the budget, so that their     *)
(* theorems hold of it; and that its guard excludes.                       *)
(***************************************************************************)
EXTENDS FeedPoll, FiniteSetTheorems, TLAPS

-----------------------------------------------------------------------------
(* The circuit breaker *)

\* A saturating increment stays within its limit.
LEMMA SaturateType ==
  ASSUME NEW limit \in Nat, NEW n \in 0 .. limit
  PROVE  Saturate(n, limit) \in 0 .. limit
BY DEF Saturate

\* What the second half of the state property computes is of the right type.
LEMMA ExpiryType ==
  ASSUME BreakerTypeOK
  PROVE  StateAfterExpiry \in FeedState /\ CallsAfterExpiry \in 0 .. HalfOpenMax
BY BreakerAssumption DEF BreakerTypeOK, StateAfterExpiry, CallsAfterExpiry, FeedState

\* Type correctness of the breaker: every field keeps its range whatever the
\* threads, their interleaving and the clock do.
THEOREM BreakerTypeCorrect == BreakerSafety => []BreakerTypeOK
<1>1. BreakerInit => BreakerTypeOK
  BY BreakerAssumption DEF BreakerInit, BreakerTypeOK, FeedState, BreakerPc
<1>2. BreakerTypeOK /\ [BreakerNext]_breakerVars => BreakerTypeOK'
  <2> SUFFICES ASSUME BreakerTypeOK, [BreakerNext]_breakerVars
               PROVE  BreakerTypeOK'
    OBVIOUS
  <2> USE BreakerAssumption DEF BreakerTypeOK, FeedState, BreakerPc, Goto
  <2>1. ASSUME NEW c \in Callers, BreakerCall(c)
        PROVE  BreakerTypeOK'
    <3>1. CASE AllowCall(c)
      BY <3>1 DEF AllowCall
    <3>2. CASE AllowCallExpiry(c)
      BY <3>2, ExpiryType DEF AllowCallExpiry, SettleExpiry
    <3>3. CASE GiveUp(c)
      BY <3>3 DEF GiveUp
    <3>4. CASE CallStarted(c)
      BY <3>4, SaturateType DEF CallStarted
    <3>5. CASE CallStartedExpiry(c)
      BY <3>5, ExpiryType, SaturateType DEF CallStartedExpiry
    <3>6. CASE RecordSuccess(c)
      BY <3>6 DEF RecordSuccess
    <3>7. CASE RecordFailure(c)
      BY <3>7, SaturateType DEF RecordFailure
    <3>8. CASE StampOpenedAt(c)
      BY <3>8 DEF StampOpenedAt
    <3>9. CASE Status(c)
      BY <3>9 DEF Status
    <3>10. CASE StatusExpiry(c)
      BY <3>10, ExpiryType DEF StatusExpiry, SettleExpiry
    <3>11. QED
      BY <2>1, <3>1, <3>2, <3>3, <3>4, <3>5, <3>6, <3>7, <3>8, <3>9, <3>10
         DEF BreakerCall
  <2>2. CASE Tick
    BY <2>2 DEF Tick
  <2>3. CASE BreakerRestart
    BY <2>3 DEF BreakerRestart
  <2>4. CASE UNCHANGED breakerVars
    BY <2>4 DEF breakerVars
  <2>5. QED
    BY <2>1, <2>2, <2>3, <2>4 DEF BreakerNext
<1>3. QED
  BY <1>1, <1>2, PTL DEF BreakerSafety

\* A closed breaker is below its failure threshold, for any number of threads
\* and any threshold: the failure that reaches it opens the breaker in the
\* same step, and only a success, which zeroes the count, closes it.
THEOREM BreakerClosedBelowThreshold == BreakerSafety => []ClosedBelowThreshold
<1>1. BreakerInit => ClosedBelowThreshold
  BY BreakerAssumption DEF BreakerInit, ClosedBelowThreshold
<1>2. BreakerTypeOK /\ ClosedBelowThreshold /\ [BreakerNext]_breakerVars
        => ClosedBelowThreshold'
  <2> SUFFICES ASSUME BreakerTypeOK, ClosedBelowThreshold, [BreakerNext]_breakerVars
               PROVE  ClosedBelowThreshold'
    OBVIOUS
  <2> USE BreakerAssumption DEF ClosedBelowThreshold
  <2>1. ASSUME NEW c \in Callers, BreakerCall(c)
        PROVE  ClosedBelowThreshold'
    <3>1. CASE UNCHANGED <<state, failures>>
      BY <3>1
    <3>2. CASE SettleExpiry \/ CallStartedExpiry(c)
      BY <3>2 DEF SettleExpiry, CallStartedExpiry, StateAfterExpiry
    <3>3. CASE RecordSuccess(c)
      BY <3>3 DEF RecordSuccess
    <3>4. CASE RecordFailure(c)
      <4>1. failures \in 0 .. FailureThreshold
        BY DEF BreakerTypeOK
      <4>2. CASE Opens
        BY <3>4, <4>2 DEF RecordFailure
      <4>3. CASE ~Opens
        BY <3>4, <4>1, <4>3 DEF RecordFailure, Opens, Saturate
      <4>4. QED
        BY <4>2, <4>3
    <3>5. QED
      BY <2>1, <3>1, <3>2, <3>3, <3>4
         DEF BreakerCall, AllowCall, AllowCallExpiry, GiveUp, CallStarted,
             StampOpenedAt, Status, StatusExpiry
  <2>2. CASE Tick
    BY <2>2 DEF Tick
  <2>3. CASE BreakerRestart
    BY <2>3 DEF BreakerRestart
  <2>4. CASE UNCHANGED breakerVars
    BY <2>4 DEF breakerVars
  <2>5. QED
    BY <2>1, <2>2, <2>3, <2>4 DEF BreakerNext
<1>3. QED
  BY <1>1, <1>2, BreakerTypeCorrect, PTL DEF BreakerSafety

\* The half-open breaker never wedges, for any number of threads and permits:
\* the step that uses up the last permit is the one by which a call starts,
\* and a call that ends takes the breaker out of HALF_OPEN in the same step.
THEOREM BreakerNeverWedged == BreakerSafety => []NeverWedged
<1>1. BreakerInit => NeverWedged
  BY DEF BreakerInit, NeverWedged
<1>2. BreakerTypeOK /\ NeverWedged /\ [BreakerNext]_breakerVars => NeverWedged'
  <2> SUFFICES ASSUME BreakerTypeOK, NeverWedged, [BreakerNext]_breakerVars,
                      state' = "half_open", halfCalls' >= HalfOpenMax
               PROVE  \E c \in Callers : bpc'[c] = "calling"
    BY DEF NeverWedged
  <2> USE BreakerAssumption DEF Goto
  <2>0. bpc \in [Callers -> BreakerPc] /\ halfCalls \in Nat /\ HalfOpenMax \in Nat \ {0}
    BY DEF BreakerTypeOK
  <2>1. ASSUME NEW c \in Callers, BreakerCall(c)
        PROVE  \E d \in Callers : bpc'[d] = "calling"
    <3>1. CASE CallStarted(c)
      <4>1. CASE bpc' = [bpc EXCEPT ![c] = "calling"]
        BY <4>1, <2>0
      <4>2. CASE state = "open"
        BY <3>1, <4>2 DEF CallStarted
      <4>3. QED
        BY <3>1, <4>1, <4>2 DEF CallStarted
    <3>2. CASE CallStartedExpiry(c)
      BY <3>2, <2>0 DEF CallStartedExpiry
    <3>3. CASE RecordSuccess(c) \/ RecordFailure(c)
      BY <3>3 DEF RecordSuccess, RecordFailure, Opens
    <3>4. CASE AllowCall(c) \/ GiveUp(c) \/ StampOpenedAt(c) \/ Status(c)
      <4>1. state = "half_open" /\ halfCalls >= HalfOpenMax
        BY <3>4 DEF AllowCall, GiveUp, StampOpenedAt, Status
      <4>2. PICK d \in Callers : bpc[d] = "calling"
        BY <4>1 DEF NeverWedged
      <4>3. bpc'[d] = "calling"
        BY <3>4, <4>2, <2>0 DEF AllowCall, GiveUp, StampOpenedAt, Status
      <4>4. QED
        BY <4>3
    <3>5. CASE AllowCallExpiry(c) \/ StatusExpiry(c)
      <4>1. ~Expired
        BY <3>5, <2>0 DEF AllowCallExpiry, StatusExpiry, SettleExpiry, CallsAfterExpiry
      <4>2. state = "half_open" /\ halfCalls >= HalfOpenMax
        BY <3>5, <4>1 DEF AllowCallExpiry, StatusExpiry, SettleExpiry,
                          CallsAfterExpiry, StateAfterExpiry
      <4>3. PICK d \in Callers : bpc[d] = "calling"
        BY <4>2 DEF NeverWedged
      <4>4. bpc'[d] = "calling"
        BY <3>5, <4>3, <2>0 DEF AllowCallExpiry, StatusExpiry
      <4>5. QED
        BY <4>4
    <3>6. QED
      BY <2>1, <3>1, <3>2, <3>3, <3>4, <3>5 DEF BreakerCall
  <2>2. CASE Tick
    BY <2>2 DEF Tick, NeverWedged
  <2>3. CASE BreakerRestart
    BY <2>3 DEF BreakerRestart
  <2>4. CASE UNCHANGED breakerVars
    BY <2>4 DEF breakerVars, NeverWedged
  <2>5. QED
    BY <2>1, <2>2, <2>3, <2>4 DEF BreakerNext
<1>3. QED
  BY <1>1, <1>2, BreakerTypeCorrect, PTL DEF BreakerSafety

-----------------------------------------------------------------------------
(* The hourly budget *)

\* The calls that may still be recorded against one counter.
Out(st) == spending \cap SpendersOf(st)

LEMMA SpendersFinite ==
  ASSUME NEW st \in Stores
  PROVE  /\ IsFiniteSet(SpendersOf(st))
         /\ Cardinality(SpendersOf(st)) \in Nat
<1>1. IsFiniteSet(SpendersOf(st))
  BY BudgetAssumption, FS_Subset, SpendersOf(st) \subseteq Spenders DEF SpendersOf
<1>2. QED
  BY <1>1, FS_CardinalityType

\* A set of calls of one counter weighs at most as much as all of them.
LEMMA WeightMonotone ==
  ASSUME NEW st \in Stores, NEW S, S \subseteq SpendersOf(st)
  PROVE  /\ Cardinality(S) \in Nat
         /\ Weight * Cardinality(S) \in Nat
         /\ Weight * Cardinality(SpendersOf(st)) \in Nat
         /\ Weight * Cardinality(S) <= Weight * Cardinality(SpendersOf(st))
<1>1. /\ IsFiniteSet(S)
      /\ Cardinality(S) <= Cardinality(SpendersOf(st))
      /\ Cardinality(S) \in Nat
  BY SpendersFinite, FS_Subset, FS_CardinalityType
<1>2. \A n, m \in Nat : n <= m => Weight * n \in Nat /\ Weight * m \in Nat /\ Weight * n <= Weight * m
  BY BudgetAssumption
<1>3. QED
  BY <1>1, <1>2, SpendersFinite

\* One call fewer weighs Weight less.
LEMMA WeightWithout ==
  ASSUME NEW st \in Stores, NEW S, S \subseteq SpendersOf(st), NEW s \in S
  PROVE  Weight * Cardinality(S \ {s}) + Weight = Weight * Cardinality(S)
<1>1. IsFiniteSet(S)
  BY SpendersFinite, FS_Subset
<1>2. Cardinality(S) \in Nat /\ Cardinality(S \ {s}) = Cardinality(S) - 1 /\ Cardinality(S \ {s}) \in Nat
  BY <1>1, FS_RemoveElement, FS_CardinalityType
<1>3. \A n \in Nat : n # 0 => Weight * (n - 1) + Weight = Weight * n
  BY BudgetAssumption
<1>4. Cardinality(S) # 0
  BY <1>2
<1>5. QED
  BY <1>2, <1>3, <1>4

\* Type correctness of the budget.
THEOREM BudgetTypeCorrect == BudgetSafety => []BudgetTypeOK
<1>1. BudgetInit => BudgetTypeOK
  BY DEF BudgetInit, BudgetTypeOK
<1>2. BudgetTypeOK /\ [BudgetNext]_budgetVars => BudgetTypeOK'
  BY BudgetAssumption
     DEF BudgetTypeOK, BudgetNext, budgetVars, BudgetAllow, BudgetRecord,
         BudgetAbandon, HourRollover, BudgetRestart
<1>3. QED
  BY <1>1, <1>2, PTL DEF BudgetSafety

\* Within an hour a counter passes its cap by less than one call of each
\* thread that shares it.  The calls still out are part of the invariant: a
\* call moves its weight from them to the counter, and a thread joins them
\* only while the counter is below the cap.
THEOREM BudgetBoundedOverrun == BudgetSafety => []BoundedOverrun
<1>1. BudgetInit => BoundedOverrun
  <2> SUFFICES ASSUME BudgetInit, NEW st \in Stores
               PROVE  used[st] + Weight * Cardinality(Out(st))
                        <= Cap - 1 + Weight * Cardinality(SpendersOf(st))
    BY DEF BoundedOverrun, Out
  <2>1. Weight * Cardinality(Out(st)) <= Weight * Cardinality(SpendersOf(st))
        /\ Weight * Cardinality(Out(st)) \in Nat
        /\ Weight * Cardinality(SpendersOf(st)) \in Nat
    BY WeightMonotone, Out(st) \subseteq SpendersOf(st) DEF Out
  <2>2. QED
    BY <2>1, BudgetAssumption DEF BudgetInit
<1>2. BudgetTypeOK /\ BoundedOverrun /\ [BudgetNext]_budgetVars => BoundedOverrun'
  <2> SUFFICES ASSUME BudgetTypeOK, BoundedOverrun, [BudgetNext]_budgetVars,
                      NEW st \in Stores
               PROVE  used'[st] + Weight * Cardinality(Out(st)')
                        <= Cap - 1 + Weight * Cardinality(SpendersOf(st))
    BY DEF BoundedOverrun, Out, SpendersOf
  <2>1. used[st] + Weight * Cardinality(Out(st))
          <= Cap - 1 + Weight * Cardinality(SpendersOf(st))
    BY DEF BoundedOverrun, Out
  <2>2. /\ used[st] \in Nat
        /\ Cap \in Nat \ {0}
        /\ Weight \in Nat \ {0}
    BY BudgetAssumption DEF BudgetTypeOK
  <2>3. /\ Weight * Cardinality(Out(st)) \in Nat
        /\ Weight * Cardinality(SpendersOf(st)) \in Nat
        /\ Weight * Cardinality(Out(st)') \in Nat
        /\ Weight * Cardinality(Out(st)') <= Weight * Cardinality(SpendersOf(st))
    BY WeightMonotone, Out(st) \subseteq SpendersOf(st),
       Out(st)' \subseteq SpendersOf(st) DEF Out, SpendersOf
  <2>4. ASSUME used'[st] = used[st], Out(st)' \subseteq Out(st)
        PROVE  Weight * Cardinality(Out(st)') <= Weight * Cardinality(Out(st))
    <3>1. IsFiniteSet(Out(st)) /\ Cardinality(Out(st)) \in Nat
      BY SpendersFinite, FS_Subset, FS_CardinalityType, Out(st) \subseteq SpendersOf(st) DEF Out
    <3>2. Cardinality(Out(st)') <= Cardinality(Out(st)) /\ Cardinality(Out(st)') \in Nat
      BY <2>4, <3>1, FS_Subset, FS_CardinalityType
    <3>3. \A n, m \in Nat : n <= m => Weight * n <= Weight * m
      BY <2>2
    <3>4. QED
      BY <3>1, <3>2, <3>3
  <2>5. ASSUME NEW s \in Spenders, BudgetAllow(s)
        PROVE  used'[st] + Weight * Cardinality(Out(st)')
                 <= Cap - 1 + Weight * Cardinality(SpendersOf(st))
    <3>1. CASE StoreOf[s] = st
      BY <2>2, <2>3, <2>5, <3>1 DEF BudgetAllow, Allows
    <3>2. CASE StoreOf[s] # st
      <4>1. Out(st)' = Out(st) /\ used' = used
        BY <2>5, <3>2 DEF BudgetAllow, Out, SpendersOf
      <4>2. QED
        BY <2>1, <4>1
    <3>3. QED
      BY <3>1, <3>2
  <2>6. ASSUME NEW s \in Spenders, BudgetRecord(s)
        PROVE  used'[st] + Weight * Cardinality(Out(st)')
                 <= Cap - 1 + Weight * Cardinality(SpendersOf(st))
    <3>1. CASE StoreOf[s] = st
      <4>1. s \in Out(st) /\ Out(st)' = Out(st) \ {s}
        BY <2>6, <3>1 DEF BudgetRecord, Out, SpendersOf
      <4>2. Weight * Cardinality(Out(st)') + Weight = Weight * Cardinality(Out(st))
        BY <4>1, WeightWithout, Out(st) \subseteq SpendersOf(st) DEF Out
      <4>3. used'[st] = used[st] + Weight
        BY <2>6, <3>1 DEF BudgetRecord, BudgetTypeOK
      <4>4. QED
        BY <2>1, <2>2, <2>3, <4>2, <4>3
    <3>2. CASE StoreOf[s] # st
      <4>1. Out(st)' = Out(st) /\ used'[st] = used[st]
        BY <2>6, <3>2 DEF BudgetRecord, BudgetTypeOK, Out, SpendersOf
      <4>2. QED
        BY <2>1, <4>1
    <3>3. QED
      BY <3>1, <3>2
  <2>7. ASSUME NEW s \in Spenders, BudgetAbandon(s)
        PROVE  used'[st] + Weight * Cardinality(Out(st)')
                 <= Cap - 1 + Weight * Cardinality(SpendersOf(st))
    <3>1. used'[st] = used[st] /\ Out(st)' \subseteq Out(st)
      BY <2>7 DEF BudgetAbandon, Out, SpendersOf
    <3>2. QED
      BY <2>1, <2>2, <2>3, <2>4, <3>1
  <2>8. CASE HourRollover
    BY <2>2, <2>3, <2>8 DEF HourRollover
  <2>9. ASSUME NEW dead \in SUBSET Spenders, BudgetRestart(dead)
        PROVE  used'[st] + Weight * Cardinality(Out(st)')
                 <= Cap - 1 + Weight * Cardinality(SpendersOf(st))
    <3>1. Out(st)' \subseteq Out(st)
      BY <2>9 DEF BudgetRestart, Out, SpendersOf
    <3>2. CASE used'[st] = used[st]
      BY <2>1, <2>2, <2>3, <2>4, <3>1, <3>2
    <3>3. CASE used'[st] = 0
      BY <2>2, <2>3, <3>3
    <3>4. QED
      BY <2>9, <3>2, <3>3 DEF BudgetRestart
  <2>10. CASE UNCHANGED budgetVars
    BY <2>1, <2>10 DEF budgetVars, Out, SpendersOf
  <2>11. QED
    BY <2>5, <2>6, <2>7, <2>8, <2>9, <2>10 DEF BudgetNext
<1>3. QED
  BY <1>1, <1>2, BudgetTypeCorrect, PTL DEF BudgetSafety

-----------------------------------------------------------------------------
(* The components inside the composition *)

\* Every step of the worker is a step of the feed's breaker, or leaves it
\* alone: _fetch_feed follows the breaker's protocol.
THEOREM PollRefinesBreaker == Safety => BreakerSafety
<1>1. Init => BreakerInit
  BY DEF Init
<1>2. [Next]_vars => [BreakerNext]_breakerVars
  <2> SUFFICES ASSUME Next PROVE BreakerNext \/ UNCHANGED breakerVars
    BY DEF vars
  <2>1. ASSUME NEW f \in Fixtures, SchedulePoll(f) \/ Release(f)
        PROVE  UNCHANGED breakerVars
    BY <2>1 DEF SchedulePoll, Release
  <2>2. ASSUME NEW t \in Callers, PollStep(t)
        PROVE  BreakerCall(t) \/ UNCHANGED breakerVars
    BY <2>2 DEF PollStep, TakeJob, BreakerGate, BreakerRefuses, BudgetGate,
         BudgetRefuses, StartCall, FetchReturns, Answered, FetchRaises, OpenedAt,
         Merge, MergeWithStatus, StatusRead, BreakerCall
  <2>3. ASSUME NEW o \in Others, OtherSpends(o)
        PROVE  UNCHANGED breakerVars
    BY <2>3 DEF OtherSpends
  <2>4. QED
    BY <2>1, <2>2, <2>3 DEF Next, ClockTicks, NewHour, WorkerRestart, BreakerNext
<1>3. QED
  BY <1>1, <1>2, PTL DEF Safety, BreakerSafety

\* Every step of the worker is a step of the source's budget, or leaves it
\* alone: no call is recorded that was not allowed.
THEOREM PollRefinesBudget == Safety => BudgetSafety
<1>1. Init => BudgetInit
  BY DEF Init
<1>2. [Next]_vars => [BudgetNext]_budgetVars
  <2> SUFFICES ASSUME Next PROVE BudgetNext \/ UNCHANGED budgetVars
    BY DEF vars
  <2>0. Callers \subseteq Spenders /\ Others \subseteq Spenders
    BY PollAssumption DEF Others
  <2>1. ASSUME NEW f \in Fixtures, SchedulePoll(f) \/ Release(f)
        PROVE  UNCHANGED budgetVars
    BY <2>1 DEF SchedulePoll, Release
  <2>2. ASSUME NEW t \in Callers, PollStep(t)
        PROVE  BudgetAllow(t) \/ BudgetRecord(t) \/ BudgetAbandon(t) \/ UNCHANGED budgetVars
    BY <2>2 DEF PollStep, TakeJob, BreakerGate, BreakerRefuses, BudgetGate,
         BudgetRefuses, StartCall, FetchReturns, Answered, FetchRaises, OpenedAt,
         Merge, MergeWithStatus, StatusRead
  <2>3. ASSUME NEW o \in Others, OtherSpends(o)
        PROVE  BudgetAllow(o) \/ BudgetRecord(o) \/ BudgetAbandon(o)
    BY <2>3 DEF OtherSpends
  <2>4. CASE WorkerRestart
    BY <2>0, <2>4 DEF WorkerRestart, BudgetNext
  <2>5. QED
    BY <2>0, <2>1, <2>2, <2>3, <2>4 DEF Next, ClockTicks, NewHour, BudgetNext
<1>3. QED
  BY <1>1, <1>2, PTL DEF Safety, BudgetSafety

\* In the worker too the half-open breaker never refuses everybody for ever.
THEOREM PollNeverWedged == Safety => []NeverWedged
BY PollRefinesBreaker, BreakerNeverWedged, PTL

\* In the worker too the breaker opens with the failure that reaches the
\* threshold.
THEOREM PollClosedBelowThreshold == Safety => []ClosedBelowThreshold
BY PollRefinesBreaker, BreakerClosedBelowThreshold, PTL

\* The worker's polls, with those of the other processes, overrun the hourly
\* cap by less than one call per thread.
THEOREM PollBoundedOverrun == Safety => []BoundedOverrun
BY PollRefinesBudget, BudgetBoundedOverrun, PTL

-----------------------------------------------------------------------------
(* The guard *)

GuardTypeOK ==
  /\ inFlight \subseteq Fixtures
  /\ queue \in Seq(Fixtures)
  /\ job \in [Callers -> Fixtures \cup {NoJob}]
  /\ tpc \in [Callers -> PollPc]
  /\ finished \subseteq Fixtures

\* A thread has a job exactly while it is in a poll.
JobWhilePolling == \A t \in Callers : tpc[t] = "free" <=> job[t] = NoJob

GuardInv == GuardTypeOK /\ JobWhilePolling /\ OnePollPerFixture /\ GuardHoldsWork

\* What an append and a tail do to a queue without duplicates.
LEMMA QueueAppend ==
  ASSUME NEW q \in Seq(Fixtures), IsInjective(q), NEW f \in Fixtures, f \notin Range(q)
  PROVE  /\ Append(q, f) \in Seq(Fixtures)
         /\ IsInjective(Append(q, f))
         /\ Range(Append(q, f)) = Range(q) \cup {f}
<1>1. /\ DOMAIN q = 1 .. Len(q)
      /\ Len(q) \in Nat
      /\ DOMAIN Append(q, f) = 1 .. Len(q) + 1
      /\ \A i \in 1 .. Len(q) : Append(q, f)[i] = q[i]
      /\ Append(q, f)[Len(q) + 1] = f
  OBVIOUS
<1>2. IsInjective(Append(q, f))
  BY <1>1 DEF IsInjective, Range
<1>3. Range(Append(q, f)) = Range(q) \cup {f}
  BY <1>1 DEF Range
<1>4. QED
  BY <1>2, <1>3

LEMMA QueueTail ==
  ASSUME NEW q \in Seq(Fixtures), IsInjective(q), q # <<>>
  PROVE  /\ Tail(q) \in Seq(Fixtures)
         /\ Head(q) \in Fixtures
         /\ Head(q) \in Range(q)
         /\ IsInjective(Tail(q))
         /\ Range(Tail(q)) = Range(q) \ {Head(q)}
<1>1. /\ DOMAIN q = 1 .. Len(q)
      /\ Len(q) \in Nat \ {0}
      /\ Tail(q) \in Seq(Fixtures)
      /\ DOMAIN Tail(q) = 1 .. Len(q) - 1
      /\ \A i \in 1 .. Len(q) - 1 : Tail(q)[i] = q[i + 1]
      /\ Head(q) = q[1]
  OBVIOUS
<1>2. IsInjective(Tail(q))
  BY <1>1 DEF IsInjective
<1>3. Head(q) \in Fixtures /\ Head(q) \in Range(q)
  BY <1>1 DEF Range
<1>4. Range(Tail(q)) \subseteq Range(q) \ {Head(q)}
  BY <1>1 DEF Range, IsInjective
<1>5. ASSUME NEW x \in Range(q) \ {Head(q)}
      PROVE  x \in Range(Tail(q))
  <2>1. PICK i \in 1 .. Len(q) : q[i] = x
    BY <1>1, <1>5 DEF Range
  <2>2. i # 1 /\ i - 1 \in 1 .. Len(q) - 1 /\ Tail(q)[i - 1] = x
    BY <1>1, <1>5, <2>1
  <2>3. QED
    BY <1>1, <2>2 DEF Range
<1>6. QED
  BY <1>1, <1>2, <1>3, <1>4, <1>5

\* What one thread's move means for the work it stands for.
LEMMA FinishKeepsGuard ==
  ASSUME GuardInv, NEW t \in Callers, tpc[t] # "free", Finish(t)
  PROVE  GuardInv'
<1> USE DEF GuardInv, GuardTypeOK, Finish
<1>1. job[t] \in Fixtures /\ job[t] \in Running /\ job[t] # NoJob
  BY PollAssumption DEF JobWhilePolling, Running
<1>2. GuardTypeOK' /\ JobWhilePolling'
  BY <1>1 DEF PollPc, JobWhilePolling
<1>3. Running' = Running \ {job[t]}
  <2>1. \A u \in Callers : u # t => tpc'[u] = tpc[u] /\ job'[u] = job[u]
    OBVIOUS
  <2>2. tpc'[t] = "free"
    OBVIOUS
  <2>3. \A u \in Callers : u # t => job[u] # job[t]
    BY <1>1 DEF OnePollPerFixture
  <2>4. QED
    BY <2>1, <2>2, <2>3 DEF Running
<1>4. Queued' = Queued /\ finished' = finished \cup {job[t]}
  BY DEF Queued
<1>5. OnePollPerFixture'
  <2>1. \A u, v \in Callers : u # v /\ job'[u] = job'[v] => job'[u] = NoJob
    BY DEF OnePollPerFixture
  <2>2. QED
    BY <1>1, <1>3, <1>4, <2>1 DEF OnePollPerFixture
<1>6. GuardHoldsWork'
  BY <1>1, <1>3, <1>4 DEF GuardHoldsWork
<1>7. QED
  BY <1>2, <1>5, <1>6

LEMMA MoveKeepsGuard ==
  ASSUME GuardInv, NEW t \in Callers, tpc[t] # "free",
         NEW pc \in PollPc, pc # "free", Move(t, pc), UNCHANGED guardVars
  PROVE  GuardInv'
<1> USE DEF GuardInv, GuardTypeOK, Move, guardVars
<1>1. GuardTypeOK' /\ JobWhilePolling'
  BY DEF JobWhilePolling
<1>2. Running' = Running /\ Queued' = Queued
  BY DEF Running, Queued
<1>3. QED
  BY <1>1, <1>2 DEF OnePollPerFixture, GuardHoldsWork

\* The inductive invariant of the guard.  Exclusion and exactness need each
\* other: the guard keeps a second poll out because it holds the first, and
\* discarding a fixture is right only while it is in one place.
THEOREM GuardInvariant == Safety => []GuardInv
<1>1. Init => GuardInv
  BY PollAssumption
     DEF Init, GuardInv, GuardTypeOK, JobWhilePolling, OnePollPerFixture, GuardHoldsWork,
         Queued, Running, PollPc, IsInjective, Range
<1>2. GuardInv /\ [Next]_vars => GuardInv'
  <2> SUFFICES ASSUME GuardInv, [Next]_vars PROVE GuardInv'
    OBVIOUS
  <2>1. ASSUME NEW f \in Fixtures, SchedulePoll(f)
        PROVE  GuardInv'
    <3>1. f \notin Queued /\ f \notin Running /\ f \notin finished
      BY <2>1 DEF SchedulePoll, GuardInv, GuardHoldsWork
    <3>2. /\ queue' \in Seq(Fixtures)
          /\ IsInjective(queue')
          /\ Queued' = Queued \cup {f}
      BY <2>1, <3>1, QueueAppend
         DEF SchedulePoll, GuardInv, GuardTypeOK, OnePollPerFixture, Queued
    <3>3. Running' = Running /\ UNCHANGED <<job, tpc, finished>>
      BY <2>1 DEF SchedulePoll, Running
    <3>4. GuardTypeOK' /\ JobWhilePolling'
      BY <2>1, <3>2, <3>3 DEF SchedulePoll, GuardInv, GuardTypeOK, JobWhilePolling
    <3>5. OnePollPerFixture'
      BY <3>1, <3>2, <3>3 DEF GuardInv, OnePollPerFixture
    <3>6. GuardHoldsWork'
      BY <2>1, <3>2, <3>3 DEF SchedulePoll, GuardInv, GuardHoldsWork
    <3>7. QED
      BY <3>4, <3>5, <3>6 DEF GuardInv
  <2>2. ASSUME NEW f \in Fixtures, Release(f)
        PROVE  GuardInv'
    <3>1. Queued' = Queued /\ Running' = Running /\ UNCHANGED <<queue, job, tpc>>
      BY <2>2 DEF Release, Queued, Running
    <3>2. f \notin Queued /\ f \notin Running
      BY <2>2 DEF Release, GuardInv, OnePollPerFixture
    <3>3. QED
      BY <2>2, <3>1, <3>2
         DEF Release, GuardInv, GuardTypeOK, JobWhilePolling, OnePollPerFixture, GuardHoldsWork
  <2>3. ASSUME NEW t \in Callers, TakeJob(t)
        PROVE  GuardInv'
    <3> DEFINE f == Head(queue)
    <3>1. /\ f \in Fixtures
          /\ f \in Queued
          /\ queue' \in Seq(Fixtures)
          /\ IsInjective(queue')
          /\ Queued' = Queued \ {f}
      BY <2>3, QueueTail DEF TakeJob, GuardInv, GuardTypeOK, OnePollPerFixture, Queued
    <3>2. /\ job' = [job EXCEPT ![t] = f]
          /\ tpc' = [tpc EXCEPT ![t] = "gate"]
          /\ tpc[t] = "free"
          /\ UNCHANGED <<inFlight, finished>>
      BY <2>3 DEF TakeJob, At
    <3>3. GuardTypeOK' /\ JobWhilePolling'
      BY <3>1, <3>2, PollAssumption DEF GuardInv, GuardTypeOK, JobWhilePolling, PollPc
    <3>4. f # NoJob /\ f \notin Running /\ f \notin finished
      BY <3>1, PollAssumption DEF GuardInv, OnePollPerFixture
    <3>5. \A u \in Callers : u # t => job'[u] = job[u] /\ tpc'[u] = tpc[u]
      BY <3>2 DEF GuardInv, GuardTypeOK
    <3>6. job'[t] = f /\ tpc'[t] = "gate"
      BY <3>2 DEF GuardInv, GuardTypeOK
    <3>7. Running' = Running \cup {f}
      BY <3>2, <3>5, <3>6 DEF Running
    <3>8. \A u \in Callers : u # t => job'[u] # f
      BY <3>4, <3>5 DEF Running, GuardInv, JobWhilePolling
    <3>9. \A u, v \in Callers : u # v /\ job'[u] = job'[v] => job'[u] = NoJob
      BY <3>5, <3>6, <3>8 DEF GuardInv, OnePollPerFixture
    <3>10. OnePollPerFixture'
      BY <3>1, <3>2, <3>4, <3>7, <3>9 DEF GuardInv, OnePollPerFixture
    <3>11. GuardHoldsWork'
      BY <3>1, <3>2, <3>7 DEF GuardInv, GuardHoldsWork
    <3>12. QED
      BY <3>3, <3>10, <3>11 DEF GuardInv
  <2>4. ASSUME NEW t \in Callers, PollStep(t), ~TakeJob(t)
        PROVE  GuardInv'
    <3>1. tpc[t] # "free"
      BY <2>4 DEF PollStep, BreakerGate, BreakerRefuses, BudgetGate, BudgetRefuses,
           StartCall, FetchReturns, Answered, FetchRaises, OpenedAt, Merge,
           MergeWithStatus, StatusRead, At
    <3>2. \/ Finish(t)
          \/ \E pc \in PollPc \ {"free"} : Move(t, pc) /\ UNCHANGED guardVars
          \/ UNCHANGED pollVars
      BY <2>4 DEF PollStep, BreakerGate, BreakerRefuses, BudgetGate, BudgetRefuses,
           StartCall, FetchReturns, Answered, FetchRaises, OpenedAt, Merge,
           MergeWithStatus, StatusRead, PollPc
    <3>3. CASE UNCHANGED pollVars
      BY <3>3 DEF pollVars, GuardInv, GuardTypeOK, JobWhilePolling, OnePollPerFixture,
           GuardHoldsWork, Queued, Running
    <3>4. QED
      BY <3>1, <3>2, <3>3, FinishKeepsGuard, MoveKeepsGuard
  <2>5. CASE WorkerRestart
    BY <2>5, PollAssumption
       DEF WorkerRestart, GuardInv, GuardTypeOK, JobWhilePolling, OnePollPerFixture,
           GuardHoldsWork, Queued, Running, PollPc, IsInjective, Range
  <2>6. CASE UNCHANGED pollVars
    BY <2>6 DEF pollVars, GuardInv, GuardTypeOK, JobWhilePolling, OnePollPerFixture,
         GuardHoldsWork, Queued, Running
  <2>7. QED
    BY <2>1, <2>2, <2>3, <2>4, <2>5, <2>6 DEF Next, OtherSpends, ClockTicks, NewHour, vars
<1>3. QED
  BY <1>1, <1>2, PTL DEF Safety

\* At any time at most one poll of a fixture is going, for any number of
\* fixtures and pool threads.
THEOREM PollExclusion == Safety => []OnePollPerFixture
BY GuardInvariant, PTL DEF GuardInv

\* The guard holds exactly the polls that are going.
THEOREM GuardExact == Safety => []GuardHoldsWork
BY GuardInvariant, PTL DEF GuardInv

\* Type correctness of the whole composition.
THEOREM PollTypeCorrect == Safety => []PollTypeOK
<1>1. BreakerTypeOK /\ BudgetTypeOK /\ GuardInv => PollTypeOK
  BY DEF PollTypeOK, GuardInv, GuardTypeOK
<1>2. QED
  BY <1>1, GuardInvariant, PollRefinesBreaker, BreakerTypeCorrect,
     PollRefinesBudget, BudgetTypeCorrect, PTL
=============================================================================
