CONSTANTS
  t1 = t1
  h1 = h1
  h2 = h2
  b1 = b1
  b2 = b2
  b3 = b3
  v1 = v1
  v2 = v2
  NULL = NULL
  Uninit = Uninit
  Threads <- MCThreads
  Handles <- MCHandles
  Bufs <- MCBufs
  HostBufs <- MCHostBufs
  Values <- MCValues
  MaxLen = 3
  ElemSize = 4
  Width = 3
SYMMETRY MCSymmetry
SPECIFICATION MemSpec
PROPERTY CopySizesAgree
CHECK_DEADLOCK FALSE
