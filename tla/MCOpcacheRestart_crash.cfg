SPECIFICATION FairSpec
CONSTANTS
  Procs = {p1, p2}
  Scripts = {a}
  None = None
  MemSize = 1
  MaxEntries = 1
  MaxWasted = 1
  ForceTimeout = TRUE
  Regexes = FALSE
  MaxTime = 0
  Budget = 1
  MaxCrash = 1
INVARIANT RestartInvariant
PROPERTIES CacheComesBack ScheduledRestartHappens
