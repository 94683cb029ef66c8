SPECIFICATION FairDriverSpec
CONSTANTS
  NoBucket = NoBucket
  Prices = {1, 2}
  TickCost = 2
  Full = 2
  MaxInFlight = 2
  MaxRequests = 3
  MaxResets = 1
  MaxCuts = 1
  Blocks = {1}
  HeaderTokens = 1
  BlockTokens = 1
  MaxIters = 3
  MaxCallAttempts = 2
  MaxConsecutiveFailures = 2
  TargetTicks = 2
  NoTarget = NoTarget
  TargetWidth = 50
  MaxRefusals = 1
INVARIANT DriverTypeOK
INVARIANT SamplesAreCalls
INVARIANT OrderKept
INVARIANT GivesUpInTime
PROPERTY DriverEnds
