SPECIFICATION Spec
CONSTANTS
  a = a
  b = b
  f = f
  Threads = {a, b}
  Fixtures = {f}
  Markets = {"home", "over25"}
  Quotes <- MCQuotes
  Results <- MCResults
  MaxPicks = 2
  Unset = Unset
SYMMETRY MCSymmetry
INVARIANTS
  OneOpenPick
  PicksAddUp
  ReconCovered
