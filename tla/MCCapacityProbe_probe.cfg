SPECIFICATION ProbeSpec
CONSTANTS
  TickUnits = 2
  CallUnits = {1, 3}
  Positions = {0, 3}
  TargetTicks = 1
  DryIterations = 2
  IterLimit = 4
  PriorLow = 1
  PriorHigh = 3
  NoManifest = NoManifest
  MaxPending = 1
  MaxResumes = 1
  MaxStops = 1
  MaxFaults = 1
INVARIANT ProbeTypeOK
INVARIANT RowsTelescope
INVARIANT StreamsInLockstep
INVARIANT DerivedSound
INVARIANT LiveSound
INVARIANT TicksBracketed
INVARIANT MeasuresWhatItNeeds
INVARIANT GatePasses
CHECK_DEADLOCK FALSE
PROPERTY PanelShowsEveryRow
PROPERTY Ends
PROPERTY ImplementsLog
