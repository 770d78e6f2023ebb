CONSTANTS
  t1 = t1
  t2 = t2
  l1 = l1
  l2 = l2
  en1 = en1
  en2 = en2
  el1 = el1
  el2 = el2
  pa1 = pa1
  pa2 = pa2
  NULL = NULL
  Threads <- MCThreads
  Leaves <- MCLeaves
  Chains <- MCChains
  ArrayLength = 1
  MaxTargets <- MCMaxTargets
  MaxEntries = 2
  Sqls = {sql1, sql2}
  Default = sql1
  Retries = 3
  Statements = 2
  MaxStatementCalls = 6
  JournalEntries = {en1, en2}
  Elements = {el1, el2}
  Params = {pa1, pa2}
  Name <- MCName
  Shapes <- MCShapes
  Facility <- MCFacility
  Lengths = {1, 2}
  MaxJournalCalls = 4
SPECIFICATION EntryTargetsSpec
SYMMETRY Symmetry
INVARIANTS
  ChainsLocked
  Broadcast
  RowsTold
  StatementsSound
  JournalNoStall
  RecordsSound
PROPERTY AddsAtEnd
