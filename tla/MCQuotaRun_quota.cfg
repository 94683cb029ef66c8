SPECIFICATION RunSpec
CONSTANTS
  NoBucket = NoBucket
  Prices = {0, 2, 7}
  TickCost = 3
  Full = 7
  MaxInFlight = 2
  MaxRequests = 6
  MaxResets = 1
  MaxCuts = 1
INVARIANT IntervalSound
INVARIANT PairsAreIntervals
INVARIANT BoundaryForeseen
