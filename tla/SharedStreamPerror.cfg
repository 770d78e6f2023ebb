CONSTANTS
  t1 = t1
  t2 = t2
  s1 = s1
  s2 = s2
  Default = Default
  NULL = NULL
  Threads <- MCThreads
  Streams <- MCStreams
SPECIFICATION Spec
INVARIANT OneWriter
