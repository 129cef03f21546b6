----------------------------- MODULE ApiBudget ------------------------------
(***************************************************************************)
(* The hourly call counter of one source in pipeline/rate_limits.py, with  *)
(* every thread of every process that spends from it.  allow() and         *)
(* record() are separate calls with the upstream request in between, and   *)
(* a request that raises is never recorded.                                *)
(*                                                                         *)
(* The counter of a source lives in Redis under the current hour's key,    *)
(* shared by all processes, or, in a process that could not reach Redis    *)
(* when its ApiBudget was built, in that process's memory.  StoreOf says   *)
(* which.  Keys of past hours are never read again by allow(), so only the *)
(* current hour's value is kept and a new hour starts it at 0.             *)
(***************************************************************************)
EXTENDS Integers, FiniteSets

CONSTANTS
  Spenders,   \* threads that call the source, of all processes
  StoreOf,    \* the counter each spender uses
  Volatile,   \* the counters kept in process memory
  Cap,        \* the source's hourly cap
  Weight      \* n of record(): 1, or 2 for the sports fetch

Stores == {StoreOf[s] : s \in Spenders}

SpendersOf(st) == {s \in Spenders : StoreOf[s] = st}

ASSUME BudgetAssumption ==
  /\ IsFiniteSet(Spenders)
  /\ StoreOf \in [Spenders -> Stores]
  /\ Volatile \subseteq Stores
  /\ Cap \in Nat \ {0}
  /\ Weight \in Nat \ {0}

VARIABLES
  used,      \* the counter of the current hour, per store
  spending   \* spenders that were allowed and have not finished their call

budgetVars == <<used, spending>>

BudgetTypeOK ==
  /\ used \in [Stores -> Nat]
  /\ spending \subseteq Spenders

BudgetInit ==
  /\ used = [st \in Stores |-> 0]
  /\ spending = {}

\* (mutant: the boundary is off by one)
AllowsAtCap(s) == used[StoreOf[s]] <= Cap

\* allow(): a read of the counter, no reservation.
Allows(s) == used[StoreOf[s]] < Cap

BudgetAllow(s) ==
  /\ s \notin spending
  /\ Allows(s)
  /\ spending' = spending \cup {s}
  /\ UNCHANGED used

\* record(): INCRBY on the key of the hour in which the call ends.
BudgetRecord(s) ==
  /\ s \in spending
  /\ used' = [used EXCEPT ![StoreOf[s]] = @ + Weight]
  /\ spending' = spending \ {s}

\* The call raised, or its process died: nothing is recorded.
BudgetAbandon(s) ==
  /\ s \in spending
  /\ spending' = spending \ {s}
  /\ UNCHANGED used

HourRollover ==
  /\ used' = [st \in Stores |-> 0]
  /\ UNCHANGED spending

\* The processes whose threads are dead restart: their calls are gone, and so
\* is what they kept in memory.
BudgetRestart(dead) ==
  /\ used' = [st \in Stores |->
                IF st \in Volatile /\ SpendersOf(st) \subseteq dead THEN 0 ELSE used[st]]
  /\ spending' = spending \ dead

BudgetNext ==
  \/ \E s \in Spenders : BudgetAllow(s) \/ BudgetRecord(s) \/ BudgetAbandon(s)
  \/ HourRollover
  \/ \E dead \in SUBSET Spenders : BudgetRestart(dead)

BudgetSafety == BudgetInit /\ [][BudgetNext]_budgetVars

-----------------------------------------------------------------------------
(* Properties *)

\* What check-then-record can overrun: within an hour a counter passes its cap
\* by less than one call of every thread that shares it, counting the calls
\* still out.
BoundedOverrun ==
  \A st \in Stores :
    used[st] + Weight * Cardinality(spending \cap SpendersOf(st))
      <= Cap - 1 + Weight * Cardinality(SpendersOf(st))
=============================================================================
