SPECIFICATION Spec
CONSTANTS
  t1 = t1
  t2 = t2
  h1 = h1
  h2 = h2
  Threads <- MCThreads
  Handles <- MCHandles
  Types = {"file", "stream", "socket", "function"}
  Severities = {3}
  Masks = {{}}
  Names <- MCNames
  Codes = {red}
  MaxCalls = 4
  NULL = NULL
SYMMETRY Symmetry
INVARIANTS
  HandlesSafe
  
  WrittenWhole
CHECK_DEADLOCK FALSE
