SPECIFICATION Spec
CONSTANTS
  worker = worker
  request = request
  Executors = {worker, request}
  Requests = {request}
  Lines <- MCLines
  RequestOutlays = {Default, 0, 5000}
  Default = Default
  MaxStake = 200
  MaxOutlay = 600
  MinProfit = 5
  ScanMinProfit = 3
  AllowPartialDutch = FALSE
  MaxDailyTrades = 2
  MaxDailyOutlay = 1000
  MaxLost = 1
  Outlays <- DealOutlays
INVARIANTS
  DailyLimitsHold
  ScalingFits
  DutchLocked
