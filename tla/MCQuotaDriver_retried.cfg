SPECIFICATION DriverSpec
CONSTANTS
  NoBucket = NoBucket
  Prices = {1, 2}
  TickCost = 2
  Full = 3
  MaxInFlight = 2
  MaxRequests = 4
  MaxResets = 0
  MaxCuts = 0
  Blocks = {1}
  HeaderTokens = 1
  BlockTokens = 1
  MaxIters = 3
  MaxCallAttempts = 2
  MaxConsecutiveFailures = 2
  TargetTicks = NoTarget
  NoTarget = NoTarget
  TargetWidth = 50
  MaxRefusals = 0
INVARIANT RetryNeverDoubleCounts
