SPECIFICATION Spec
CONSTANTS
  Nodes = {d1, d2, a1}
  Dtor = {d1, d2}
  d1 = d1
  d2 = d2
  a1 = a1
  NULL = NULL
  MaxEdges = 2
  MaxHeld = 2
SYMMETRY Symmetry
INVARIANTS
  NoDangling
  CountsAreExact
  BufferMatchesObjects
  GarbageIsBuffered
PROPERTY RunCollectsAll
