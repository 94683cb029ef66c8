SPECIFICATION MCSpec
CONSTANTS
  None = None
  Torn = Torn
  MaxDirs = 2
  MaxRuns = 3
  MaxTicks = 2
  MaxDeaths = 1
  Names = {0, 1, 2}
  Archived = 1
  MaxLines = 3
  Documents <- MCDocuments
  MaxCopied = 1
  MaxWork = 3
INVARIANT SiteTypeOK
INVARIANT ComparisonIsCurrent
INVARIANT DerivedFilesKeepOrder
INVARIANT SiteShowsLastBuild
CHECK_DEADLOCK FALSE
PROPERTY BuildEnds
