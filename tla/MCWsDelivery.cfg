SPECIFICATION DeliverySpec
CONSTANTS
  Sockets = {w1}
  Broadcasts = {t1}
  MaxPending = 2
  None = None
INVARIANT
  LinesPushed
