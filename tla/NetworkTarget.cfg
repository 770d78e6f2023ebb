CONSTANTS
  t1 = t1
  t2 = t2
  d1 = d1
  d2 = d2
  NULL = NULL
  Threads <- MCThreads
  Destinations <- MCDestinations
  MsgLen = 2
  MaxMessages = 2
  MaxHandles = 2
SPECIFICATION ConnectionSpec
SYMMETRY Symmetry
INVARIANTS
  ConnectionOwned
  ConnectedToDestination
  
  LocksMatch
