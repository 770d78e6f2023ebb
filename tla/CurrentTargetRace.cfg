CONSTANTS
  t1 = t1
  t2 = t2
  t3 = t3
  NULL = NULL
  Threads <- MCThreads
  MaxTargets = 3
SPECIFICATION Spec
INVARIANT ResultAlive
