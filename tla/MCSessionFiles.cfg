SPECIFICATION Spec
CONSTANTS
  p = p
  q = q
  i = i
  j = j
  Procs = {p, q}
  Ids = {i, j}
  Orphans = {1, 2}
  None = None
  LazyWrite = {TRUE}
  Strict = {TRUE, FALSE}
  MaxSize = 1
INVARIANTS
  CacheIsFile
  ContentIsWhole
PROPERTIES
  WaiterGetsSession
