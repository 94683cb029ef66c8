SPECIFICATION FairScrapeSpec
CONSTANTS
  Recorders = {r1, r2}
  Keys = {k1, k2}
  Events <- MCEvents
  InitialFiles <- MCFiles
  FirstKey = k1
  Nobody = Nobody
  Followed = {2}
  NoUtil = NoUtil
  NoUsage = NoUsage
  Unpriced = Unpriced
  NoEvent = NoEvent
  Unlocked = Unlocked
  MaxRecords = 3
  MaxRestarts = 0
  MaxFaults = 1
  MaxScrapes = 1
INVARIANT CostCoversUtilization
PROPERTY LocksAreGivenBack
