SPECIFICATION Spec
CONSTANTS
  t1 = t1
  t2 = t2
  o1 = o1
  redis = redis
  Callers <- MCCallers
  Spenders <- MCSpenders
  StoreOf <- MCStoreOf
  Volatile = {}
  Fixtures = {f1, f2, f3}
  NoJob = NoJob
  FailureThreshold = 2
  RecoveryTimeout = 1
  HalfOpenMax = 1
  Cap = 2
  Weight = 1
INVARIANTS
  OnePollPerFixture
  GuardHoldsWork
  BoundedOverrun
PROPERTIES
  BreakerSafety
  EveryFixturePolled
