SPECIFICATION Spec
CONSTANTS
  NFibers = 3
  MaxBlocks = 1
INVARIANTS
  VmStateIsOwn
  StacksMatchContexts
  BacktraceFollowsCallers
  BlockedHandlerKeepsControl
  SuspendedFibersAreUnwound
PROPERTY ImplementsCoroutines
