CONSTANTS
  f = f
  g = g
  Fixtures = {f, g}
  Slots = 2
  SlotOf <- Sloted
  Cap = 2
  Far = {g}
  Environments <- SomeEnvironments
SPECIFICATION Spec
INVARIANT HourlyOverrun
PROPERTIES ContextUnlessRefreshed DroppedOnlyIfMissed FrozenSpares WatchedArePolled
CHECK_DEADLOCK FALSE
