SPECIFICATION Spec
CONSTANTS
  Sigs = {s1, s2}
  Nodes = {n1, n2}
  NULL = NULL
  Reset = TRUE
  MaxDepth = 2
  MaxRaise = 2
INVARIANT UnblockFindsDeferredSignal
\* The process may be killed by a signal, or stop receiving signals.
CHECK_DEADLOCK FALSE
