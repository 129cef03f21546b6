SPECIFICATION BreakerSpec
CONSTANTS
  Callers = {t1, t2}
  FailureThreshold = 2
  RecoveryTimeout = 2
  HalfOpenMax = 1
INVARIANT
  NeverWedged
PROPERTIES
  RecoversWhenHealthy
  ShedsDeadFeed
