CONSTANTS
  c1 = c1
  c2 = c2
  c3 = c3
  Clients <- MCClients
  EntrySize = 3
  SystemPage = 9
  MaxPages = 3
  NULL = NULL
  MaxCaches = 3
SPECIFICATION CachesSpec
SYMMETRY ClientSymmetry
INVARIANTS
  TypeOK
  LocksMatchHolders
  EntriesDisjoint
  FirstUseSafe
