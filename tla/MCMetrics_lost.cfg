SPECIFICATION Spec
CONSTANTS
  Recorders = {r1, r2}
  Keys = {k1, k2}
  Events <- TickEvents
  InitialFiles <- MCFiles
  NoUtil = NoUtil
  NoUsage = NoUsage
  Unpriced = Unpriced
  NoEvent = NoEvent
  Unlocked = Unlocked
  MaxRecords = 6
  MaxRestarts = 0
  MaxFaults = 0
SYMMETRY Interchangeable
INVARIANT OthersPreserved
