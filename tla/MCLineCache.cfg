SPECIFICATION HistorySpec
CONSTANTS
  a = a
  b = b
  Mergers = {a, b}
  Sels = {a, b}
  SelOf <- MCSelOf
  Prices = {1, 2}
  Ttl = 2
INVARIANTS
  LossNeedsOverlap
