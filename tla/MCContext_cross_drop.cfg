CONSTANTS
  t1 = t1
  t2 = t2
  h1 = h1
  h2 = h2
  h3 = h3
  NULL = NULL
  Threads <- MCThreads
  Handles <- MCHandles
SYMMETRY MCSymmetry
SPECIFICATION Spec
INVARIANT NoDestroyedCurrent
CHECK_DEADLOCK FALSE
