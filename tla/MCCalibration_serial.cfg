SPECIFICATION CalSpec
CONSTANTS
  Recorders = {r1}
  Keys = {k1}
  Events <- MCEvents
  InitialFiles <- MCFiles
  Requests <- MCRequests
  Starts <- MCStarts
  TickCost <- MCTickCost
  NoUtil = NoUtil
  NoUsage = NoUsage
  Unpriced = Unpriced
  NoEvent = NoEvent
  Unlocked = Unlocked
  MaxRecords = 6
  MaxRestarts = 1
  MaxFaults = 1
  MaxResets = 1
INVARIANT PassiveAmortised
INVARIANT Calibrated
