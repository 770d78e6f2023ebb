CONSTANTS
  Size = 6
  Lengths <- MCLengths
  ReadSizes <- MCReadSizes
  SendBound = 5
  t1 = t1
  t2 = t2
  s1 = s1
  s2 = s2
  s3 = s3
  text1 = text1
  text2 = text2
  c1 = c1
  c2 = c2
  Threads <- MCThreads
  Strings <- MCStrings
  Params = {par1}
  Texts <- MCTexts
  Words = {word1}
  Privals = {4, 15}
  Indexes = {0, 1, 3}
  WordMax = 3
  MaxCalls = 4
  NULL = NULL
  Callers <- MCCallers
  Sources = {src1, src2}
  Settings = {set1, set2}
  Small = 1
  MaxRequests = 3
  NONE = NONE
SPECIFICATION LocalTargetsSpec
SYMMETRY Symmetry
INVARIANTS
  TypeOK
  ReadsOneMessage
  ClearNewestReadable
  WelDataSound
  EventsFaithful
  SourcesSound
PROPERTIES
  
  OthersKept
