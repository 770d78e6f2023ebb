SPECIFICATION Spec
CONSTANTS
  t1 = t1
  t2 = t2
  b1 = b1
  b2 = b2
  b3 = b3
  k1 = k1
  Threads <- MCThreads
  Buffers <- MCBuffers
  Builders <- MCBuilders
  Names <- MCNames
  Messages <- MCMessages
  Values <- MCValues
  Facilities = {8, 192}
  Severities = {3, 8}
  Privals = {196, 258}
  MaxName = 2
  PageSize = 8
  FixedSize = 12
  Host <- MCHost
  Pid <- MCPid
  MaxCalls = 4
  NULL = NULL
SYMMETRY Symmetry
INVARIANTS
  TextOwned
  
  TextRead
CHECK_DEADLOCK FALSE
