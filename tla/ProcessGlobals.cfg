SPECIFICATION GlobalsSpec
CONSTANTS
  t1 = t1
  t2 = t2
  s1 = s1
  s2 = s2
  Default = Default
  NULL = NULL
  Threads <- MCThreads
  Streams <- MCStreams
  MaxTargets = 4
  MaxFrees = 3
INVARIANTS
  GlobalsTypeOK
  CarefulOneWriter
  WritesToStreamInEffect
  NoPhantomStream
  PointersSound
  WinsockStarted
PROPERTIES
  LockReleased
  
