SPECIFICATION Spec
CONSTANTS
  t1 = t1
  t2 = t2
  el1 = el1
  el2 = el2
  pa1 = pa1
  pa2 = pa2
  nm1 = nm1
  nm12 = nm12
  Threads <- MCThreads
  Elements <- MCElements
  Params <- MCParams
  Names <- MCNames
  Extends <- MCExtends
  NameLength <- MCNameLength
  Values <- MCValues
  Entry = Entry
  NULL = NULL
  MaxCalls = 3
SYMMETRY Symmetry
INVARIANTS
  TreeSound
  NamesSound
  
CHECK_DEADLOCK FALSE
