SPECIFICATION Spec
CONSTANTS
  Sockets = {w1, w2}
  Broadcasts = {t1, t2}
  MaxPending = 2
  None = None
INVARIANTS
  PendingCounts
  NothingLeftBehind
PROPERTIES
  LeaversLeave
  BroadcastsEnd
CHECK_DEADLOCK FALSE
