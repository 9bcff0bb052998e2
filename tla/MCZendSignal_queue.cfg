SPECIFICATION FairSpec
CONSTANTS
  Sigs = {s1, s2}
  Nodes = {n1, n2}
  NULL = NULL
  Reset = TRUE
  MaxDepth = 2
  MaxRaise = 3
INVARIANTS TypeOK PoolIsPartitioned PendingIsAnnounced NoHandlerInCriticalSection
PROPERTIES TeardownIsPrivate DeferredSignalIsHandled
\* The process may be killed by a signal, or stop receiving signals.
CHECK_DEADLOCK FALSE
