SPECIFICATION Spec
CONSTANTS
  Procs = {p1, p2}
  Scripts = {a, b}
  None = None
  MemSize = 2
  MaxEntries = 2
  MaxWasted = 1
  ForceTimeout = TRUE
  Regexes = TRUE
  MaxTime = 1
  Budget = 2
  MaxCrash = 0
SYMMETRY Sym
INVARIANTS TypeOK Exclusive NoOverlap SyncedCachesAreFresh NeverLeftDisabled WastedMatchesDiscarded
