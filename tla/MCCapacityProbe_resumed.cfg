SPECIFICATION ProbeSpec
CONSTANTS
  TickUnits = 2
  CallUnits = {1, 3}
  Positions = {0, 3}
  TargetTicks = 1
  DryIterations = 2
  IterLimit = 4
  PriorLow = 1
  PriorHigh = 3
  NoManifest = NoManifest
  MaxPending = 1
  MaxResumes = 1
  MaxStops = 1
  MaxFaults = 1
CHECK_DEADLOCK FALSE
INVARIANT EveryCrossingContributes
