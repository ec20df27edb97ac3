CONSTANTS
  t1 = t1
  h1 = h1
  h2 = h2
  b1 = b1
  b2 = b2
  b3 = b3
  v1 = v1
  v2 = v2
  NULL = NULL
  Uninit = Uninit
  Threads <- MCThreads
  Handles <- MCHandles
  Bufs <- MCBufs
  HostBufs <- MCHostBufs
  Values <- MCValues
  MaxLen = 2
  ElemSize = 4
  Width = 8
SYMMETRY MCSymmetry
SPECIFICATION MemSpec
PROPERTY ZeroSizeFailsFast
CHECK_DEADLOCK FALSE
