---------------------------- MODULE CacheProofs ----------------------------
(***************************************************************************)
(* Proofs about Cache: exclusive ownership of cached memory, for every     *)
(* entry size, page size and number of threads and pages.                  *)
(***************************************************************************)
EXTENDS CacheAndPointer, FiniteSetTheorems, TLAPS

(***************************************************************************)
(* The geometry of a page.                                                 *)
(***************************************************************************)
LEMMA DivTimes ==
  ASSUME NEW p \in Nat, NEW n \in Nat \ {0}
  PROVE  (p \div n) \in Nat /\ (p \div n) * n <= p
BY SMT

LEMMA TimesDiv ==
  ASSUME NEW j \in Nat, NEW n \in Nat \ {0}
  PROVE  (j * n) \div n = j
BY SMT

LEMMA DivPositive ==
  ASSUME NEW p \in Nat, NEW n \in Nat \ {0}, n <= p
  PROVE  p \div n > 0
BY SMT

LEMMA Monotone ==
  ASSUME NEW j \in Nat, NEW k \in Nat, NEW n \in Nat, j < k
  PROVE  j * n + n <= k * n
BY SMT

LEMMA EntriesPerPagePositive == EntriesPerPage \in Nat \ {0} /\ 0 \in Indexes
<1>1. EntriesPerPage \in Nat
  BY DivTimes, EntrySizeAssumption, EntryFitsAssumption DEF EntriesPerPage
<1>2. EntriesPerPage > 0
  BY DivPositive, EntrySizeAssumption, EntryFitsAssumption
     DEF EntriesPerPage
<1> QED
  BY <1>1, <1>2 DEF Indexes

\* cache_free recovers the index of an entry from its address.
LEMMA EntryIndexOfAddress ==
  ASSUME NEW i, NEW j \in Indexes
  PROVE  EntryIndex(Address(i, j)) = j
<1>1. j \in Nat
  BY EntriesPerPagePositive DEF Indexes
<1> QED
  BY <1>1, TimesDiv, EntrySizeAssumption DEF EntryIndex, Address

LEMMA AddressInjective ==
  ASSUME NEW i, NEW k, NEW j \in Indexes, NEW l \in Indexes,
         Address(i, j) = Address(k, l)
  PROVE  i = k /\ j = l
<1>1. i = k
  BY DEF Address
<1>2. j = l
  BY EntryIndexOfAddress
<1> QED
  BY <1>1, <1>2

(***************************************************************************)
(* The inductive invariant: no two threads have been given the same entry, *)
(* which the locks guarantee, and a cache that does not exist has no pages.*)
(***************************************************************************)
OneHolder ==
  \A c, d \in Clients : held[c] \cap held[d] # {} => c = d

Inv ==
  /\ TypeOK
  /\ LocksMatchHolders
  /\ OneHolder
  /\ ~exists => page_count = 0

LEMMA InitInv == Init => Inv
<1> SUFFICES ASSUME Init
             PROVE  Inv
  OBVIOUS
<1>1. Pages = {}
  BY DEF Init, Pages
<1>2. TypeOK
  <2>1. locks \in [Pages -> [Indexes -> {0, 1}]]
    BY <1>1 DEF Init
  <2>2. held \in [Clients -> SUBSET Addresses]
    BY DEF Init
  <2>3. exists \in BOOLEAN
    BY DEF Init
  <2> QED
    BY <2>1, <2>2, <2>3 DEF Init, TypeOK
<1>3. LocksMatchHolders
  BY <1>1 DEF LocksMatchHolders
<1>4. OneHolder
  BY DEF Init, OneHolder
<1> QED
  BY <1>2, <1>3, <1>4 DEF Init, Inv

LEMMA NewInv ==
  ASSUME Inv, New
  PROVE  Inv'
<1>1. Pages = {} /\ Pages' = {0}
  BY DEF Inv, New, Pages
<1>2. \A c \in Clients : held[c] = {}
  BY <1>1 DEF Inv, TypeOK, Addresses
<1>3. EmptyPage \in [Indexes -> {0, 1}]
  BY DEF EmptyPage
<1>4. TypeOK'
  BY <1>1, <1>2, <1>3 DEF Inv, TypeOK, New
<1>5. LocksMatchHolders'
  BY <1>1, <1>2 DEF LocksMatchHolders, New, EmptyPage, Inv, TypeOK
<1>6. OneHolder'
  BY DEF Inv, OneHolder, New
<1> QED
  BY <1>4, <1>5, <1>6 DEF Inv, New

LEMMA AllocInv ==
  ASSUME Inv, NEW c \in Clients, Alloc(c)
  PROVE  Inv'
<1>1. PICK i \in Pages, j \in Indexes :
        /\ locks[i][j] = 0
        /\ locks' = [locks EXCEPT ![i][j] = 1]
        /\ held' = [held EXCEPT ![c] = @ \cup {Address(i, j)}]
  BY DEF Alloc, FirstFree, Free
<1>2. Pages' = Pages /\ Addresses' = Addresses
  BY DEF Alloc, Pages, Addresses
<1>3. \A d \in Clients : Address(i, j) \notin held[d]
  BY <1>1 DEF Inv, LocksMatchHolders
<1>4. \A d \in Clients : held'[d] = IF d = c THEN held[c] \cup {Address(i, j)}
                                            ELSE held[d]
  BY <1>1 DEF Inv, TypeOK
<1>5. TypeOK'
  <2>1. Address(i, j) \in Addresses
    BY DEF Addresses
  <2>2. held' \in [Clients -> SUBSET Addresses]
    BY <1>1, <2>1 DEF Inv, TypeOK
  <2>3. locks' \in [Pages -> [Indexes -> {0, 1}]]
    BY <1>1 DEF Inv, TypeOK
  <2> QED
    BY <1>2, <2>2, <2>3 DEF Inv, TypeOK, Alloc
<1>6. LocksMatchHolders'
  <2> SUFFICES ASSUME NEW k \in Pages, NEW l \in Indexes
               PROVE  locks'[k][l] = 1 <=>
                        \E d \in Clients : Address(k, l) \in held'[d]
    BY <1>2 DEF LocksMatchHolders
  <2>1. CASE k = i /\ l = j
    BY <1>1, <1>4, <2>1 DEF Inv, TypeOK
  <2>2. CASE ~(k = i /\ l = j)
    <3>1. Address(k, l) # Address(i, j)
      BY <2>2, AddressInjective
    <3>2. locks'[k][l] = locks[k][l]
      BY <1>1, <2>2 DEF Inv, TypeOK
    <3> QED
      BY <1>4, <3>1, <3>2 DEF Inv, LocksMatchHolders
  <2> QED
    BY <2>1, <2>2
<1>7. OneHolder'
  BY <1>3, <1>4 DEF Inv, OneHolder
<1> QED
  BY <1>5, <1>6, <1>7 DEF Inv, Alloc

LEMMA AllocGrowsInv ==
  ASSUME Inv, NEW c \in Clients, AllocGrows(c)
  PROVE  Inv'
<1> DEFINE e == Address(page_count, 0)
<1>1. page_count \in Nat /\ page_count' = page_count + 1
  BY DEF Inv, TypeOK, AllocGrows
<1>2. Pages' = 0 .. page_count /\ Pages \subseteq Pages' /\ page_count \notin Pages
  BY <1>1 DEF Pages
<1>3. \A k \in Pages' : k \in Pages \/ k = page_count
  BY <1>1, <1>2 DEF Pages
<1>4. 0 \in Indexes
  BY EntriesPerPagePositive
<1>5. \A d \in Clients, l \in Indexes : Address(page_count, l) \notin held[d]
  <2> SUFFICES ASSUME NEW d \in Clients, NEW l \in Indexes,
                      Address(page_count, l) \in held[d]
               PROVE  FALSE
    OBVIOUS
  <2>1. PICK k \in Pages, m \in Indexes : Address(page_count, l) = Address(k, m)
    BY DEF Inv, TypeOK, Addresses
  <2> QED
    BY <1>2, <2>1, AddressInjective
<1>6. \A d \in Clients : held'[d] = IF d = c THEN held[c] \cup {e} ELSE held[d]
  BY DEF AllocGrows, Inv, TypeOK
<1>7. \A k \in Pages : locks'[k] = locks[k]
  BY <1>2 DEF AllocGrows, NewPage
<1>8. locks'[page_count] = [EmptyPage EXCEPT ![0] = 1]
  BY <1>1 DEF AllocGrows, NewPage
<1>9. TypeOK'
  <2>1. Addresses \subseteq Addresses' /\ e \in Addresses'
    BY <1>1, <1>2, <1>4 DEF Addresses
  <2>2. held' \in [Clients -> SUBSET Addresses']
    BY <2>1 DEF AllocGrows, Inv, TypeOK
  <2>3. [EmptyPage EXCEPT ![0] = 1] \in [Indexes -> {0, 1}]
    BY DEF EmptyPage
  <2>4. locks' \in [Pages' -> [Indexes -> {0, 1}]]
    BY <1>2, <1>3, <2>3 DEF AllocGrows, NewPage, Inv, TypeOK
  <2> QED
    BY <1>1, <2>2, <2>4 DEF Inv, TypeOK, AllocGrows
<1>10. LocksMatchHolders'
  <2> SUFFICES ASSUME NEW k \in Pages', NEW l \in Indexes
               PROVE  locks'[k][l] = 1 <=>
                        \E d \in Clients : Address(k, l) \in held'[d]
    BY DEF LocksMatchHolders
  <2>1. CASE k \in Pages
    <3>1. Address(k, l) # e
      BY <1>2, <1>4, <2>1, AddressInjective
    <3> QED
      BY <1>6, <1>7, <2>1, <3>1 DEF Inv, LocksMatchHolders
  <2>2. CASE k = page_count /\ l = 0
    BY <1>4, <1>6, <1>8, <2>2 DEF EmptyPage
  <2>3. CASE k = page_count /\ l # 0
    <3>1. Address(k, l) # e
      BY <1>4, <2>3, AddressInjective
    <3>2. locks'[k][l] = 0
      BY <1>4, <1>8, <2>3 DEF EmptyPage
    <3> QED
      BY <1>5, <1>6, <2>3, <3>1, <3>2
  <2> QED
    BY <1>3, <2>1, <2>2, <2>3
<1>11. OneHolder'
  <2>1. \A d \in Clients : e \notin held[d]
    BY <1>4, <1>5
  <2> QED
    BY <1>6, <2>1 DEF Inv, OneHolder
<1> QED
  BY <1>9, <1>10, <1>11 DEF Inv, AllocGrows

LEMMA AllocFailsInv ==
  ASSUME Inv, AllocFails
  PROVE  Inv'
<1>1. Pages' = Pages /\ Addresses' = Addresses
  BY DEF AllocFails, Pages, Addresses
<1>2. TypeOK'
  BY <1>1 DEF Inv, TypeOK, AllocFails
<1>3. LocksMatchHolders' /\ OneHolder'
  BY <1>1 DEF Inv, AllocFails, LocksMatchHolders, OneHolder
<1> QED
  BY <1>2, <1>3 DEF Inv, AllocFails

LEMMA CacheFreeInv ==
  ASSUME Inv, NEW c \in Clients, CacheFree(c)
  PROVE  Inv'
<1>1. PICK en \in held[c] :
        /\ locks' = [locks EXCEPT ![en.page][EntryIndex(en)] = 0]
        /\ held' = [held EXCEPT ![c] = @ \ {en}]
  BY DEF CacheFree
<1>2. PICK i \in Pages, j \in Indexes : en = Address(i, j)
  BY DEF Inv, TypeOK, Addresses
<1>3. en.page = i /\ EntryIndex(en) = j
  BY <1>2, EntryIndexOfAddress DEF Address
<1>4. locks' = [locks EXCEPT ![i][j] = 0]
  BY <1>1, <1>3
<1>5. Pages' = Pages /\ Addresses' = Addresses
  BY DEF CacheFree, Pages, Addresses
<1>6. \A d \in Clients : held'[d] = IF d = c THEN held[c] \ {en} ELSE held[d]
  BY <1>1 DEF Inv, TypeOK
<1>7. \A d \in Clients : en \notin held'[d]
  BY <1>6 DEF Inv, OneHolder
<1>8. TypeOK'
  <2>1. held' \in [Clients -> SUBSET Addresses]
    BY <1>1 DEF Inv, TypeOK
  <2>2. locks' \in [Pages -> [Indexes -> {0, 1}]]
    BY <1>4 DEF Inv, TypeOK
  <2> QED
    BY <1>5, <2>1, <2>2 DEF Inv, TypeOK, CacheFree
<1>9. LocksMatchHolders'
  <2> SUFFICES ASSUME NEW k \in Pages, NEW l \in Indexes
               PROVE  locks'[k][l] = 1 <=>
                        \E d \in Clients : Address(k, l) \in held'[d]
    BY <1>5 DEF LocksMatchHolders
  <2>1. CASE k = i /\ l = j
    BY <1>2, <1>4, <1>7, <2>1 DEF Inv, TypeOK
  <2>2. CASE ~(k = i /\ l = j)
    <3>1. Address(k, l) # en
      BY <1>2, <2>2, AddressInjective
    <3>2. locks'[k][l] = locks[k][l]
      BY <1>4, <2>2 DEF Inv, TypeOK
    <3> QED
      BY <1>6, <3>1, <3>2 DEF Inv, LocksMatchHolders
  <2> QED
    BY <2>1, <2>2
<1>10. OneHolder'
  BY <1>6 DEF Inv, OneHolder
<1> QED
  BY <1>8, <1>9, <1>10 DEF Inv, CacheFree

LEMMA DestroyInv ==
  ASSUME Inv, Destroy
  PROVE  Inv'
<1>1. Pages' = {}
  BY DEF Destroy, Pages
<1>2. TypeOK'
  <2>1. locks' \in [Pages' -> [Indexes -> {0, 1}]]
    BY <1>1 DEF Destroy
  <2>2. held' = [c \in Clients |-> {}]
    BY DEF Inv, TypeOK, Destroy
  <2>3. held' \in [Clients -> SUBSET Addresses']
    BY <2>2
  <2>4. exists' \in BOOLEAN
    BY DEF Destroy
  <2>5. page_count' \in Nat /\ capacity' \in Nat /\ page_count' <= capacity'
    BY DEF Destroy
  <2> QED
    BY <2>1, <2>3, <2>4, <2>5 DEF TypeOK
<1>3. LocksMatchHolders'
  BY <1>1 DEF LocksMatchHolders
<1>4. OneHolder'
  BY DEF Inv, OneHolder, Destroy
<1> QED
  BY <1>2, <1>3, <1>4 DEF Inv, Destroy

LEMMA StepInv == Inv /\ [Next]_vars => Inv'
<1> SUFFICES ASSUME Inv, [Next]_vars
             PROVE  Inv'
  OBVIOUS
<1>1. CASE UNCHANGED vars
  BY <1>1 DEF vars, Inv, TypeOK, LocksMatchHolders, OneHolder, Pages, Addresses
<1> QED
  BY <1>1, NewInv, AllocInv, AllocGrowsInv, AllocFailsInv, CacheFreeInv,
     DestroyInv DEF Next

LEMMA InvDisjoint == Inv => EntriesDisjoint
<1> SUFFICES ASSUME Inv
             PROVE  EntriesDisjoint
  OBVIOUS
<1>1. EntriesPerPage \in Nat \ {0} /\ EntrySize \in Nat \ {0} /\ PageSize \in Nat
  BY EntriesPerPagePositive, EntrySizeAssumption, EntryFitsAssumption
<1>2. EntriesPerPage * (EntrySize + 1) <= PageSize
  BY DivTimes, EntrySizeAssumption, EntryFitsAssumption DEF EntriesPerPage
<1>3. EntriesPerPage * EntrySize + EntriesPerPage <= PageSize
  BY <1>1, <1>2
<1>4. EntriesPerPage * EntrySize \in Nat
  BY <1>1
<1>5. LockExtent \subseteq 0 .. PageSize - 1
  BY <1>1, <1>3, <1>4 DEF LockExtent, LockOffset
<1>6. ASSUME NEW e \in Addresses
      PROVE  Extent(e) \subseteq 0 .. LockOffset(0) - 1
  <2>1. PICK i \in Pages, j \in Indexes : e = Address(i, j)
    BY DEF Addresses
  <2>2. j \in Nat /\ j < EntriesPerPage /\ j * EntrySize \in Nat
    BY <1>1 DEF Indexes
  <2>3. j * EntrySize + EntrySize <= EntriesPerPage * EntrySize
    BY <1>1, <2>2, Monotone
  <2>4. e.offset = j * EntrySize
    BY <2>1 DEF Address
  <2> QED
    BY <1>1, <1>4, <2>2, <2>3, <2>4 DEF Extent, LockOffset
<1>7. ASSUME NEW e \in Addresses, NEW f \in Addresses,
             e.page = f.page, Extent(e) \cap Extent(f) # {}
      PROVE  e = f
  <2>1. PICK i \in Pages, j \in Indexes : e = Address(i, j)
    BY DEF Addresses
  <2>2. PICK k \in Pages, l \in Indexes : f = Address(k, l)
    BY DEF Addresses
  <2>3. j \in Nat /\ l \in Nat /\ j * EntrySize \in Nat /\ l * EntrySize \in Nat
    BY <1>1 DEF Indexes
  <2>4. e.offset = j * EntrySize /\ f.offset = l * EntrySize /\ i = k
    BY <1>7, <2>1, <2>2 DEF Address
  <2>5. PICK x : x \in Extent(e) /\ x \in Extent(f)
    BY <1>7
  <2>6. ~(j < l)
    <3>1. j < l => j * EntrySize + EntrySize <= l * EntrySize
      BY <1>1, <2>3, Monotone
    <3> QED
      BY <1>1, <2>3, <2>4, <2>5, <3>1 DEF Extent
  <2>7. ~(l < j)
    <3>1. l < j => l * EntrySize + EntrySize <= j * EntrySize
      BY <1>1, <2>3, Monotone
    <3> QED
      BY <1>1, <2>3, <2>4, <2>5, <3>1 DEF Extent
  <2>8. j = l
    BY <2>3, <2>6, <2>7
  <2> QED
    BY <2>1, <2>2, <2>4, <2>8
<1>8. \A c \in Clients : held[c] \subseteq Addresses
  BY DEF Inv, TypeOK
<1>9. \A c, d \in Clients : \A e \in held[c] : e \in held[d] => c = d
  BY DEF Inv, OneHolder
<1> QED
  BY <1>5, <1>6, <1>7, <1>8, <1>9 DEF EntriesDisjoint

\* cache_alloc and cache_free keep the lock characters true to what the
\* threads hold, for every geometry of the pages and every interleaving.
THEOREM LocksAreAccurate == Spec => []LocksMatchHolders
<1>1. Inv => LocksMatchHolders
  BY DEF Inv
<1> QED
  BY <1>1, InitInv, StepInv, PTL DEF Spec

\* No character of cached memory is ever in the hands of two threads, and the
\* locks share none with the entries, for every geometry of the pages.
THEOREM ExclusiveMemory == Spec => []EntriesDisjoint
BY InitInv, StepInv, InvDisjoint, PTL DEF Spec

\* The page table of a cache never holds more pages than there is room for
\* (page_count and capacity of cache.c), and what threads hold are addresses of
\* entries, for every geometry of the pages.
THEOREM CacheTypeCorrect == Spec => []TypeOK
<1>1. Inv => TypeOK
  BY DEF Inv
<1> QED
  BY <1>1, InitInv, StepInv, PTL DEF Spec

-----------------------------------------------------------------------------
(***************************************************************************)
(* The pointer to a cache that is created with its first use.              *)
(***************************************************************************)

\* The threads that have an entry of cache k.
HoldersOf(k) == {t \in Clients : entry[t] = k}

\* A cache that a thread has created and not made the current one yet.
Fresh(t) == pc[t] = "assign" /\ local[t] # NULL

\* What a thread has created is known to nobody else.
FreshInv ==
  /\ \A t \in Clients : Fresh(t) =>
       /\ local[t] \in live /\ local[t] # entry_cache /\ in_use[local[t]] = 0
       /\ \A u \in Clients : entry[u] # local[t]
  /\ \A t, u \in Clients : Fresh(t) /\ Fresh(u) /\ local[t] = local[u] => t = u

\* A cache that is current, or that somebody has an entry of, is allocated.
LiveInv ==
  /\ live \subseteq 1 .. created
  /\ entry_cache # NULL => entry_cache \in live
  /\ Lazy!HeldIsLive
  /\ \A k \in Lazy!Caches : k > created => in_use[k] = 0
  /\ \A t \in Clients : pc[t] \in {"load", "free"} => entry[t] # NULL
  /\ \A t \in Clients : pc[t] \in {"create", "assign", "recheck", "alloc"} => entry[t] = NULL

\* The entries of the current cache that are locked are the ones that are held;
\* of a cache that was replaced, some that were destroyed stay locked.
CountInv ==
  /\ entry_cache # NULL => in_use[entry_cache] = Cardinality(HoldersOf(entry_cache))
  /\ Lazy!HeldStaysLocked

\* When first calls do not overlap, there is one cache until stumpless_free_all.
OneCacheInv ==
  serial =>
    /\ \A t, u \in Clients : Lazy!Creating(t) /\ Lazy!Creating(u) => t = u
    /\ \A t \in Clients : pc[t] \in {"create", "assign"} => entry_cache = NULL
    /\ \A t \in Clients : pc[t] = "recheck" => entry_cache = local[t]
    /\ \A t \in Clients : pc[t] # "crashed"
    /\ \A t \in Clients : pc[t] = "alloc" => entry_cache # NULL
    /\ \A t \in Clients : entry[t] \in {NULL, entry_cache}
    /\ \A k \in live : k = entry_cache \/ \E t \in Clients : Fresh(t) /\ k = local[t]
    /\ Lazy!DestroyReleases

FinishedInv ==
  finished => entry_cache = NULL /\ \A t \in Clients : pc[t] = "idle" /\ entry[t] = NULL

LazyInv == Lazy!TypeOK /\ FreshInv /\ LiveInv /\ CountInv /\ OneCacheInv /\ FinishedInv

(***************************************************************************)
(* How many threads have an entry of a cache.                              *)
(***************************************************************************)

\* They are finitely many.
LEMMA HoldersCount ==
  ASSUME NEW k
  PROVE  /\ IsFiniteSet(HoldersOf(k))
         /\ Cardinality(HoldersOf(k)) \in 0 .. Cardinality(Clients)
         /\ Cardinality(Clients) \in Nat
<1>1. HoldersOf(k) \subseteq Clients /\ IsFiniteSet(Clients)
  BY PointerAssumption DEF HoldersOf
<1>2. IsFiniteSet(HoldersOf(k)) /\ Cardinality(HoldersOf(k)) <= Cardinality(Clients)
  BY <1>1, FS_Subset
<1>3. Cardinality(HoldersOf(k)) \in Nat /\ Cardinality(Clients) \in Nat
  BY <1>1, <1>2, FS_CardinalityType
<1> QED
  BY <1>2, <1>3

\* One more when a thread that had none is given one.
LEMMA HoldersAdd ==
  ASSUME NEW t \in Clients, NEW k, k # NULL, entry \in [Clients -> Lazy!Caches \cup {NULL}],
         entry[t] = NULL, entry' = [entry EXCEPT ![t] = k]
  PROVE  /\ Cardinality(HoldersOf(k)') = Cardinality(HoldersOf(k)) + 1
         /\ Cardinality(HoldersOf(k)') <= Cardinality(Clients)
         /\ \A j : j # k /\ j # NULL => HoldersOf(j)' = HoldersOf(j)
<1>1. HoldersOf(k)' = HoldersOf(k) \cup {t} /\ t \notin HoldersOf(k)
  BY DEF HoldersOf
<1>2. HoldersOf(k)' \subseteq Clients /\ IsFiniteSet(Clients)
  BY PointerAssumption DEF HoldersOf
<1>3. \A j : j # k /\ j # NULL => HoldersOf(j)' = HoldersOf(j)
  BY DEF HoldersOf
<1>4. Cardinality(HoldersOf(k)') <= Cardinality(Clients)
  BY <1>2, FS_Subset
<1> QED
  BY <1>1, <1>3, <1>4, HoldersCount, FS_AddElement

\* One less when it is given back.
LEMMA HoldersRemove ==
  ASSUME NEW t \in Clients, NEW k, k # NULL, entry \in [Clients -> Lazy!Caches \cup {NULL}],
         entry[t] = k, entry' = [entry EXCEPT ![t] = NULL]
  PROVE  /\ Cardinality(HoldersOf(k)') = Cardinality(HoldersOf(k)) - 1
         /\ Cardinality(HoldersOf(k)') \in Nat
         /\ \A j : j # k /\ j # NULL => HoldersOf(j)' = HoldersOf(j)
<1>1. HoldersOf(k)' = HoldersOf(k) \ {t} /\ t \in HoldersOf(k)
  BY DEF HoldersOf
<1>2. \A j : j # k /\ j # NULL => HoldersOf(j)' = HoldersOf(j)
  BY DEF HoldersOf
<1>3. IsFiniteSet(HoldersOf(k)')
  BY <1>1, HoldersCount, FS_Subset
<1> QED
  BY <1>1, <1>2, <1>3, HoldersCount, FS_RemoveElement, FS_CardinalityType

\* And nobody otherwise.
LEMMA HoldersSame ==
  ASSUME entry' = entry
  PROVE  \A k : HoldersOf(k)' = HoldersOf(k)
BY DEF HoldersOf

(***************************************************************************)
(* The invariant is kept.                                                  *)
(***************************************************************************)

\* What the properties say of them.
LEMMA SameCardinality == \A S : Lazy!Cardinality(S) = Cardinality(S)
BY Zenon DEF Lazy!Cardinality, Cardinality

\* There are never more entries in use than threads.
LEMMA InUseIs == Lazy!TypeOK => in_use \in [Lazy!Caches -> 0 .. Cardinality(Clients)]
BY SameCardinality DEF Lazy!TypeOK

LEMMA HeldIs ==
  Lazy!HeldStaysLocked <=> \A k \in Lazy!Caches : in_use[k] >= Cardinality(HoldersOf(k))
BY SameCardinality DEF Lazy!HeldStaysLocked, HoldersOf

LEMMA ReleasesIs ==
  Lazy!DestroyReleases <=> (serial => \A k \in Lazy!Caches : in_use[k] = Cardinality(HoldersOf(k)))
BY SameCardinality DEF Lazy!DestroyReleases, HoldersOf

\* It holds before the first call.
LEMMA LazyInit == Lazy!Init => LazyInv
<1> SUFFICES ASSUME Lazy!Init PROVE LazyInv
  OBVIOUS
<1> USE PointerAssumption DEF Lazy!Init, Lazy!Caches
<1>1. \A k \in Lazy!Caches : HoldersOf(k) = {}
  BY DEF HoldersOf
<1>2. \A k \in Lazy!Caches : Cardinality(HoldersOf(k)) = 0
  BY <1>1, FS_EmptySet
<1>3. Lazy!TypeOK
  <2>1. Cardinality(Clients) \in Nat
    BY FS_CardinalityType
  <2>2. in_use \in [Lazy!Caches -> 0 .. Cardinality(Clients)]
    BY <2>1
  <2>3. created \in 0 .. MaxCaches
    OBVIOUS
  <2> QED
    BY <2>2, <2>3, SameCardinality DEF Lazy!TypeOK
<1>4. Lazy!HeldStaysLocked /\ Lazy!DestroyReleases
  BY <1>2, HeldIs, ReleasesIs
<1>5. FreshInv /\ LiveInv /\ CountInv /\ FinishedInv
  BY <1>4 DEF FreshInv, Fresh, LiveInv, Lazy!HeldIsLive, CountInv, FinishedInv
<1>6. OneCacheInv
  BY <1>4 DEF OneCacheInv, Lazy!Creating
<1> QED
  BY <1>3, <1>5, <1>6 DEF LazyInv

\* A new cache is its thread's own until it is made the current one.
LEMMA FreshInvStep ==
  ASSUME LazyInv, [Lazy!Next]_(Lazy!vars)
  PROVE  FreshInv'
<1> USE PointerAssumption DEF LazyInv, Lazy!TypeOK, Lazy!Caches, Lazy!Goto, Lazy!Turn, Lazy!Begin, FreshInv, Fresh, LiveInv, Lazy!HeldIsLive
<1>1. ASSUME NEW t \in Clients, Lazy!Check(t) PROVE FreshInv'
  BY <1>1 DEF Lazy!Check
<1>2. ASSUME NEW t \in Clients, Lazy!CreateCache(t) PROVE FreshInv'
  BY <1>2 DEF Lazy!CreateCache
<1>3. ASSUME NEW t \in Clients, Lazy!AssignCache(t) PROVE FreshInv'
  BY <1>3 DEF Lazy!AssignCache
<1>4. ASSUME NEW t \in Clients, Lazy!Recheck(t) PROVE FreshInv'
  BY <1>4 DEF Lazy!Recheck
<1>5. ASSUME NEW t \in Clients, Lazy!AllocEntry(t) PROVE FreshInv'
  <2>1. CASE in_use' = in_use /\ entry' = entry
    BY <1>5, <2>1 DEF Lazy!AllocEntry
  <2>2. CASE /\ entry_cache # NULL /\ entry' = [entry EXCEPT ![t] = entry_cache]
             /\ in_use' = [in_use EXCEPT ![entry_cache] = @ + 1]
    <3>1. \A u \in Clients : Fresh(u)' => Fresh(u) /\ local'[u] = local[u]
      BY <1>5 DEF Lazy!AllocEntry
    <3>2. \A k \in Lazy!Caches : k # entry_cache => in_use'[k] = in_use[k]
      BY <2>2
    <3>3. \A u \in Clients : entry'[u] = entry[u] \/ entry'[u] = entry_cache
      BY <2>2
    <3>4. UNCHANGED << live, entry_cache >>
      BY <1>5 DEF Lazy!AllocEntry
    <3> QED
      BY <3>1, <3>2, <3>3, <3>4
  <2>3. \/ in_use' = in_use /\ entry' = entry
        \/ /\ entry_cache # NULL /\ entry' = [entry EXCEPT ![t] = entry_cache]
           /\ in_use' = [in_use EXCEPT ![entry_cache] = @ + 1]
    BY <1>5, Zenon DEF Lazy!AllocEntry
  <2> QED
    BY <2>1, <2>2, <2>3
<1>6. ASSUME NEW t \in Clients, Lazy!Load(t) PROVE FreshInv'
  BY <1>6 DEF Lazy!Load
<1>7. ASSUME NEW t \in Clients, Lazy!DestroyEntry(t) PROVE FreshInv'
  BY <1>7 DEF Lazy!DestroyEntry
<1>8. ASSUME NEW t \in Clients, Lazy!FreeEntry(t) PROVE FreshInv'
  <2>1. \A u \in Clients : Fresh(u)' => Fresh(u) /\ local'[u] = local[u]
    BY <1>8 DEF Lazy!FreeEntry
  <2>2. \A k \in Lazy!Caches : k # entry_cache => in_use'[k] = in_use[k]
    BY <1>8 DEF Lazy!FreeEntry
  <2>3. \A u \in Clients : entry'[u] \in {entry[u], NULL}
    BY <1>8 DEF Lazy!FreeEntry
  <2>4. UNCHANGED << live, entry_cache >>
    BY <1>8 DEF Lazy!FreeEntry
  <2> QED
    BY <2>1, <2>2, <2>3, <2>4
<1>9. CASE Lazy!FreeAll
  BY <1>9 DEF Lazy!FreeAll
<1>10. CASE UNCHANGED Lazy!vars
  BY <1>10 DEF Lazy!vars
<1> QED
  BY <1>1, <1>2, <1>3, <1>4, <1>5, <1>6, <1>7, <1>8, <1>9, <1>10 DEF Lazy!Next, Lazy!Step

\* Caches are numbered in the order of their creation.
LEMMA Wider ==
  ASSUME NEW n \in Nat, NEW S, S \subseteq 1 .. n, NEW m, NEW T,
         (m = n + 1 /\ T = S \cup {n + 1}) \/ (m = n /\ T = S)
  PROVE  m \in Nat /\ m >= n /\ S \subseteq T /\ T \subseteq 1 .. m
<1>1. CASE m = n + 1 /\ T = S \cup {n + 1}
  <2>1. \A x \in T : x \in 1 .. n + 1
    BY <1>1
  <2> QED
    BY <1>1, <2>1
<1>2. CASE m = n /\ T = S
  BY <1>2
<1> QED
  BY <1>1, <1>2

\* No cache is freed that may still be used.
LEMMA LiveInvStep ==
  ASSUME LazyInv, [Lazy!Next]_(Lazy!vars)
  PROVE  LiveInv'
<1> USE PointerAssumption DEF LazyInv, Lazy!TypeOK, Lazy!Caches, Lazy!Goto, Lazy!Turn, Lazy!Begin, LiveInv, Fresh, FreshInv, Lazy!HeldIsLive
<1>1. ASSUME NEW t \in Clients, Lazy!Check(t) PROVE LiveInv'
  BY <1>1 DEF Lazy!Check
<1>2. ASSUME NEW t \in Clients, Lazy!CreateCache(t) PROVE LiveInv'
  <2>1. entry' = entry /\ entry_cache' = entry_cache /\ in_use' = in_use
    BY <1>2 DEF Lazy!CreateCache
  <2>0. \/ created' = created + 1 /\ live' = live \cup {created + 1}
        \/ created' = created /\ live' = live
    BY <1>2, Zenon DEF Lazy!CreateCache
  <2>a. created \in Nat /\ live \subseteq 1 .. created
    OBVIOUS
  <2>2. live' \subseteq 1 .. created' /\ live \subseteq live' /\ created' >= created /\ created' \in Nat
    BY <2>0, <2>a, Wider
  <2>3. \A u \in Clients : pc'[u] = pc[u] \/ (u = t /\ pc[t] = "create" /\ pc'[t] = "assign")
    BY <1>2 DEF Lazy!CreateCache
  <2>4. \A u \in Clients : pc'[u] \in {"load", "free"} => pc[u] = pc'[u]
    BY <2>3
  <2>5. \A u \in Clients : pc'[u] \in {"create", "assign", "recheck", "alloc"} => entry[u] = NULL
    BY <2>3
  <2>6. Lazy!HeldIsLive'
    BY <2>1, <2>2
  <2>7. \A k \in Lazy!Caches : k > created' => in_use'[k] = 0
    BY <2>1, <2>2, <2>a
  <2> QED
    BY <2>1, <2>2, <2>4, <2>5, <2>6, <2>7
<1>3. ASSUME NEW t \in Clients, Lazy!AssignCache(t) PROVE LiveInv'
  BY <1>3 DEF Lazy!AssignCache
<1>4. ASSUME NEW t \in Clients, Lazy!Recheck(t) PROVE LiveInv'
  BY <1>4 DEF Lazy!Recheck
<1>5. ASSUME NEW t \in Clients, Lazy!AllocEntry(t) PROVE LiveInv'
  <2>1. UNCHANGED << live, created, entry_cache >>
    BY <1>5 DEF Lazy!AllocEntry
  <2>2. \A k \in Lazy!Caches : k # entry_cache => in_use'[k] = in_use[k]
    BY <1>5 DEF Lazy!AllocEntry
  <2>3. \A u \in Clients : u # t => entry'[u] = entry[u] /\ pc'[u] = pc[u]
    BY <1>5 DEF Lazy!AllocEntry
  <2>4. \/ entry'[t] = entry_cache /\ entry_cache # NULL /\ pc'[t] = "load"
        \/ entry'[t] = NULL /\ pc'[t] \in {"crashed", "idle"}
    BY <1>5 DEF Lazy!AllocEntry
  <2>5. Lazy!HeldIsLive'
    BY <2>1, <2>3, <2>4
  <2>6. entry_cache # NULL => ~(entry_cache > created)
    OBVIOUS
  <2>7. \A k \in Lazy!Caches : k > created' => in_use'[k] = 0
    <3> SUFFICES ASSUME NEW k \in Lazy!Caches, k > created PROVE in_use'[k] = 0
      BY <2>1
    <3>1. k # entry_cache
      BY <2>6
    <3> QED
      BY <2>2, <3>1
  <2>8. \A u \in Clients : pc'[u] \in {"load", "free"} => entry'[u] # NULL
    BY <2>3, <2>4
  <2>9. \A u \in Clients : pc'[u] \in {"create", "assign", "recheck", "alloc"} => entry'[u] = NULL
    BY <2>3, <2>4
  <2> QED
    BY <2>1, <2>5, <2>7, <2>8, <2>9
<1>6. ASSUME NEW t \in Clients, Lazy!Load(t) PROVE LiveInv'
  BY <1>6 DEF Lazy!Load
<1>7. ASSUME NEW t \in Clients, Lazy!DestroyEntry(t) PROVE LiveInv'
  BY <1>7 DEF Lazy!DestroyEntry
<1>8. ASSUME NEW t \in Clients, Lazy!FreeEntry(t) PROVE LiveInv'
  BY <1>8 DEF Lazy!FreeEntry
<1>9. CASE Lazy!FreeAll
  BY <1>9 DEF Lazy!FreeAll
<1>10. CASE UNCHANGED Lazy!vars
  BY <1>10 DEF Lazy!vars
<1> QED
  BY <1>1, <1>2, <1>3, <1>4, <1>5, <1>6, <1>7, <1>8, <1>9, <1>10 DEF Lazy!Next, Lazy!Step

\* After stumpless_free_all the first call starts anew.
LEMMA FinishedInvStep ==
  ASSUME LazyInv, [Lazy!Next]_(Lazy!vars)
  PROVE  FinishedInv'
<1> USE PointerAssumption DEF LazyInv, Lazy!TypeOK, Lazy!Caches, Lazy!Goto, Lazy!Turn, Lazy!Begin, FinishedInv
<1>1. ASSUME NEW t \in Clients, Lazy!Check(t) PROVE FinishedInv'
  BY <1>1 DEF Lazy!Check
<1>2. ASSUME NEW t \in Clients, Lazy!CreateCache(t) PROVE FinishedInv'
  BY <1>2 DEF Lazy!CreateCache
<1>3. ASSUME NEW t \in Clients, Lazy!AssignCache(t) PROVE FinishedInv'
  BY <1>3 DEF Lazy!AssignCache
<1>4. ASSUME NEW t \in Clients, Lazy!Recheck(t) PROVE FinishedInv'
  BY <1>4 DEF Lazy!Recheck
<1>5. ASSUME NEW t \in Clients, Lazy!AllocEntry(t) PROVE FinishedInv'
  BY <1>5 DEF Lazy!AllocEntry
<1>6. ASSUME NEW t \in Clients, Lazy!Load(t) PROVE FinishedInv'
  BY <1>6 DEF Lazy!Load
<1>7. ASSUME NEW t \in Clients, Lazy!DestroyEntry(t) PROVE FinishedInv'
  BY <1>7 DEF Lazy!DestroyEntry
<1>8. ASSUME NEW t \in Clients, Lazy!FreeEntry(t) PROVE FinishedInv'
  BY <1>8 DEF Lazy!FreeEntry
<1>9. CASE Lazy!FreeAll
  BY <1>9 DEF Lazy!FreeAll
<1>10. CASE UNCHANGED Lazy!vars
  BY <1>10 DEF Lazy!vars
<1> QED
  BY <1>1, <1>2, <1>3, <1>4, <1>5, <1>6, <1>7, <1>8, <1>9, <1>10 DEF Lazy!Next, Lazy!Step

\* Everything but in_use keeps its type.
OthersTyped ==
  /\ entry_cache \in Lazy!Caches \cup {NULL}
  /\ created \in 0 .. MaxCaches
  /\ live \subseteq Lazy!Caches
  /\ pc \in [Clients -> {"idle", "create", "assign", "recheck", "alloc", "load", "free", "crashed"}]
  /\ local \in [Clients -> Lazy!Caches \cup {NULL}]
  /\ entry \in [Clients -> Lazy!Caches \cup {NULL}]
  /\ finished \in BOOLEAN
  /\ serial \in BOOLEAN

\* in_use counts no more than there are threads.
LEMMA TypedIs ==
  Lazy!TypeOK <=> OthersTyped /\ in_use \in [Lazy!Caches -> 0 .. Cardinality(Clients)]
BY SameCardinality DEF Lazy!TypeOK, OthersTyped

LEMMA OthersTypedStep ==
  ASSUME LazyInv, [Lazy!Next]_(Lazy!vars)
  PROVE  OthersTyped'
<1>0. OthersTyped
  BY TypedIs DEF LazyInv
<1> USE <1>0, PointerAssumption DEF OthersTyped, Lazy!Caches, Lazy!Goto, Lazy!Turn, Lazy!Begin
<1>1. ASSUME NEW t \in Clients, Lazy!Check(t) PROVE OthersTyped'
  BY <1>1 DEF Lazy!Check
<1>2. ASSUME NEW t \in Clients, Lazy!CreateCache(t) PROVE OthersTyped'
  <2>1. \/ /\ created < MaxCaches /\ created' = created + 1 /\ live' = live \cup {created + 1}
           /\ local' = [local EXCEPT ![t] = created + 1]
        \/ created' = created /\ live' = live /\ local' = [local EXCEPT ![t] = NULL]
    BY <1>2, Zenon DEF Lazy!CreateCache
  <2>2. created' \in 0 .. MaxCaches /\ live' \subseteq Lazy!Caches /\ local' \in [Clients -> Lazy!Caches \cup {NULL}]
    <3>1. created < MaxCaches => created + 1 \in Lazy!Caches
      OBVIOUS
    <3>2. created \in 0 .. MaxCaches /\ live \subseteq Lazy!Caches /\ local \in [Clients -> Lazy!Caches \cup {NULL}]
      OBVIOUS
    <3>3. CASE created < MaxCaches /\ created' = created + 1 /\ live' = live \cup {created + 1}
               /\ local' = [local EXCEPT ![t] = created + 1]
      <4>1. created' \in 0 .. MaxCaches
        BY <3>2, <3>3
      <4>2. live' \subseteq Lazy!Caches
        BY <3>1, <3>2, <3>3
      <4>3. local' \in [Clients -> Lazy!Caches \cup {NULL}]
        BY <3>1, <3>2, <3>3
      <4> QED
        BY <4>1, <4>2, <4>3
    <3>4. CASE created' = created /\ live' = live /\ local' = [local EXCEPT ![t] = NULL]
      BY <3>2, <3>4
    <3> QED
      BY <2>1, <3>3, <3>4
  <2>3. /\ UNCHANGED << entry_cache, entry, finished, serial >>
        /\ pc' = [pc EXCEPT ![t] = "assign"]
    BY <1>2 DEF Lazy!CreateCache
  <2> QED
    BY <2>2, <2>3
<1>3. ASSUME NEW t \in Clients, Lazy!AssignCache(t) PROVE OthersTyped'
  BY <1>3 DEF Lazy!AssignCache
<1>4. ASSUME NEW t \in Clients, Lazy!Recheck(t) PROVE OthersTyped'
  BY <1>4 DEF Lazy!Recheck
<1>5. ASSUME NEW t \in Clients, Lazy!AllocEntry(t) PROVE OthersTyped'
  BY <1>5 DEF Lazy!AllocEntry
<1>6. ASSUME NEW t \in Clients, Lazy!Load(t) PROVE OthersTyped'
  BY <1>6 DEF Lazy!Load
<1>7. ASSUME NEW t \in Clients, Lazy!DestroyEntry(t) PROVE OthersTyped'
  BY <1>7 DEF Lazy!DestroyEntry
<1>8. ASSUME NEW t \in Clients, Lazy!FreeEntry(t) PROVE OthersTyped'
  BY <1>8 DEF Lazy!FreeEntry
<1>9. CASE Lazy!FreeAll
  BY <1>9 DEF Lazy!FreeAll
<1>10. CASE UNCHANGED Lazy!vars
  BY <1>10 DEF Lazy!vars
<1> QED
  BY <1>1, <1>2, <1>3, <1>4, <1>5, <1>6, <1>7, <1>8, <1>9, <1>10 DEF Lazy!Next, Lazy!Step


\* What a step does to entries, and to how many of them are in use.
Counted(t, c) ==
  \/ entry' = entry /\ in_use' = in_use
  \/ /\ entry[t] = NULL /\ c # NULL /\ entry' = [entry EXCEPT ![t] = c]
     /\ in_use' = [in_use EXCEPT ![c] = @ + 1]
  \/ /\ entry[t] = c /\ c # NULL /\ entry' = [entry EXCEPT ![t] = NULL]
     /\ in_use' = [in_use EXCEPT ![c] = @ - 1]
  \/ /\ entry[t] # c /\ entry[t] # NULL /\ entry' = [entry EXCEPT ![t] = NULL]
     /\ in_use' = in_use

\* Only the current cache counts.
LEMMA CountedSteps ==
  ASSUME LazyInv, NEW t \in Clients, Lazy!Step(t)
  PROVE  Counted(t, entry_cache)
<1> USE DEF LazyInv, LiveInv
<1>1. CASE Lazy!AllocEntry(t)
  <2>1. entry[t] = NULL
    BY <1>1 DEF Lazy!AllocEntry
  <2> QED
    BY <1>1, <2>1, Zenon DEF Lazy!AllocEntry, Counted
<1>2. CASE Lazy!FreeEntry(t)
  <2>1. entry[t] # NULL
    BY <1>2 DEF Lazy!FreeEntry
  <2>2. CASE entry_cache = NULL /\ in_use' = in_use
    BY <1>2, <2>1, <2>2 DEF Lazy!FreeEntry, Counted
  <2> QED
    BY <1>2, <2>1, <2>2, Zenon DEF Lazy!FreeEntry, Counted
<1>3. CASE Lazy!Check(t) \/ Lazy!CreateCache(t) \/ Lazy!AssignCache(t) \/ Lazy!Recheck(t) \/ Lazy!Load(t) \/ Lazy!DestroyEntry(t)
  <2>1. entry' = entry /\ in_use' = in_use
    BY <1>3, Zenon DEF Lazy!Check, Lazy!Begin, Lazy!CreateCache, Lazy!AssignCache, Lazy!Recheck, Lazy!Load, Lazy!DestroyEntry
  <2> QED
    BY <2>1 DEF Counted
<1> QED
  BY <1>1, <1>2, <1>3 DEF Lazy!Step

\* The number in use follows the number of holders, or exceeds it for a cache
\* that is no longer current.
LEMMA CountedKeeps ==
  ASSUME Lazy!TypeOK, NEW t \in Clients, NEW c \in Lazy!Caches \cup {NULL}, Counted(t, c),
         Lazy!HeldStaysLocked, c # NULL => in_use[c] = Cardinality(HoldersOf(c))
  PROVE  /\ Lazy!HeldStaysLocked'
         /\ in_use' \in [Lazy!Caches -> 0 .. Cardinality(Clients)]
         /\ c # NULL => in_use'[c] = Cardinality(HoldersOf(c)')
         /\ (entry[t] \in {NULL, c} /\ \A k \in Lazy!Caches : in_use[k] = Cardinality(HoldersOf(k))) =>
              \A k \in Lazy!Caches : in_use'[k] = Cardinality(HoldersOf(k)')
<1> DEFINE N(k) == Cardinality(HoldersOf(k))
           M(k) == Cardinality(HoldersOf(k)')
           C == Cardinality(Clients)
<1>1. /\ in_use \in [Lazy!Caches -> 0 .. C] /\ C \in Nat
      /\ entry \in [Clients -> Lazy!Caches \cup {NULL}]
  BY InUseIs, HoldersCount DEF Lazy!TypeOK
<1>2. \A k \in Lazy!Caches : in_use[k] >= N(k) /\ N(k) \in 0 .. C /\ k # NULL
  BY HeldIs, HoldersCount, PointerAssumption DEF Lazy!Caches
<1>3. c # NULL => c \in Lazy!Caches /\ in_use[c] = N(c)
  OBVIOUS
<1> SUFFICES /\ \A k \in Lazy!Caches : in_use'[k] >= M(k)
             /\ in_use' \in [Lazy!Caches -> 0 .. C]
             /\ c # NULL => in_use'[c] = M(c)
             /\ (entry[t] \in {NULL, c} /\ \A k \in Lazy!Caches : in_use[k] = N(k)) =>
                  \A k \in Lazy!Caches : in_use'[k] = M(k)
  <2>1. Lazy!HeldStaysLocked' <=> \A k \in Lazy!Caches : in_use'[k] >= M(k)
    BY SameCardinality DEF Lazy!HeldStaysLocked, HoldersOf
  <2> QED
    BY <2>1
<1>4. CASE entry' = entry /\ in_use' = in_use
  <2>1. \A k \in Lazy!Caches : M(k) = N(k)
    BY <1>4, HoldersSame
  <2> HIDE DEF N, M, C
  <2> QED
    BY <1>1, <1>2, <1>3, <1>4, <2>1
<1>5. CASE /\ entry[t] = NULL /\ c # NULL /\ entry' = [entry EXCEPT ![t] = c]
           /\ in_use' = [in_use EXCEPT ![c] = @ + 1]
  <2>1. M(c) = N(c) + 1 /\ M(c) <= C /\ \A k \in Lazy!Caches : k # c => M(k) = N(k)
    BY <1>1, <1>2, <1>5, HoldersAdd
  <2> HIDE DEF N, M, C
  <2> QED
    BY <1>1, <1>2, <1>3, <1>5, <2>1
<1>6. CASE /\ entry[t] = c /\ c # NULL /\ entry' = [entry EXCEPT ![t] = NULL]
           /\ in_use' = [in_use EXCEPT ![c] = @ - 1]
  <2>1. M(c) = N(c) - 1 /\ \A k \in Lazy!Caches : k # c => M(k) = N(k)
    BY <1>1, <1>2, <1>6, HoldersRemove
  <2>2. M(c) \in Nat
    BY <1>1, <1>6, HoldersRemove
  <2> HIDE DEF N, M, C
  <2> QED
    BY <1>1, <1>2, <1>3, <1>6, <2>1, <2>2
<1>7. CASE /\ entry[t] # c /\ entry[t] # NULL /\ entry' = [entry EXCEPT ![t] = NULL]
           /\ in_use' = in_use
  <2>1. PICK j \in Lazy!Caches : j = entry[t]
    BY <1>1, <1>7
  <2>2. j # NULL /\ j # c /\ entry[t] = j
    BY <1>2, <1>7, <2>1
  <2>3. M(j) = N(j) - 1 /\ \A k \in Lazy!Caches : k # j => M(k) = N(k)
    BY <1>1, <1>2, <1>7, <2>2, HoldersRemove
  <2> HIDE DEF N, M, C
  <2>4. \A k \in Lazy!Caches : in_use[k] >= M(k)
    BY <1>1, <1>2, <2>3
  <2>5. c # NULL => in_use[c] = M(c)
    BY <1>3, <2>2, <2>3
  <2>6. ~(entry[t] \in {NULL, c})
    BY <1>7
  <2> QED
    BY <1>1, <1>7, <2>4, <2>5, <2>6
<1> QED
  BY <1>4, <1>5, <1>6, <1>7 DEF Counted

\* The count of the current cache is exact, and no count is too low.
LEMMA CountInvStep ==
  ASSUME LazyInv, [Lazy!Next]_(Lazy!vars)
  PROVE  /\ CountInv'
         /\ in_use' \in [Lazy!Caches -> 0 .. Cardinality(Clients)]
         /\ serial => Lazy!DestroyReleases'
<1> USE DEF LazyInv, CountInv
<1>0. /\ Lazy!TypeOK /\ Lazy!HeldStaysLocked
      /\ entry_cache \in Lazy!Caches \cup {NULL}
      /\ entry_cache # NULL => in_use[entry_cache] = Cardinality(HoldersOf(entry_cache))
  BY DEF Lazy!TypeOK
<1>r. Lazy!DestroyReleases' <=> (serial' => \A k \in Lazy!Caches : in_use'[k] = Cardinality(HoldersOf(k)'))
  BY SameCardinality DEF Lazy!DestroyReleases, HoldersOf
<1>h. Lazy!HeldStaysLocked' <=> \A k \in Lazy!Caches : in_use'[k] >= Cardinality(HoldersOf(k)')
  BY SameCardinality DEF Lazy!HeldStaysLocked, HoldersOf
<1>s. serial' = serial
  BY DEF Lazy!Next, Lazy!Step, Lazy!vars, Lazy!Check, Lazy!Begin, Lazy!CreateCache, Lazy!AssignCache, Lazy!Recheck,
         Lazy!AllocEntry, Lazy!Load, Lazy!DestroyEntry, Lazy!FreeEntry, Lazy!FreeAll, Lazy!Turn
<1>1. ASSUME NEW t \in Clients, Lazy!Step(t)
      PROVE  /\ Lazy!HeldStaysLocked'
             /\ in_use' \in [Lazy!Caches -> 0 .. Cardinality(Clients)]
             /\ \A c \in Lazy!Caches : c = entry_cache => in_use'[c] = Cardinality(HoldersOf(c)')
             /\ serial => Lazy!DestroyReleases'
  <2>1. PICK c \in Lazy!Caches \cup {NULL} : c = entry_cache
    BY <1>0
  <2>2. Counted(t, c)
    BY <1>1, <2>1, CountedSteps DEF Counted
  <2>3. c # NULL => in_use[c] = Cardinality(HoldersOf(c))
    BY <1>0, <2>1 DEF HoldersOf
  <2>4. /\ Lazy!HeldStaysLocked'
        /\ in_use' \in [Lazy!Caches -> 0 .. Cardinality(Clients)]
        /\ c # NULL => in_use'[c] = Cardinality(HoldersOf(c)')
        /\ (entry[t] \in {NULL, c} /\ \A k \in Lazy!Caches : in_use[k] = Cardinality(HoldersOf(k))) =>
             \A k \in Lazy!Caches : in_use'[k] = Cardinality(HoldersOf(k)')
    BY <1>0, <2>2, <2>3, CountedKeeps
  <2>5. serial => entry[t] \in {NULL, c} /\ \A k \in Lazy!Caches : in_use[k] = Cardinality(HoldersOf(k))
    BY <2>1, ReleasesIs DEF OneCacheInv
  <2>6. NULL \notin Lazy!Caches
    BY PointerAssumption DEF Lazy!Caches
  <2> QED
    BY <1>r, <1>s, <2>1, <2>4, <2>5, <2>6
<1>2. ASSUME NEW t \in Clients, Lazy!AssignCache(t) PROVE CountInv'
  <2>1. /\ entry_cache' = local[t] /\ in_use' = in_use /\ entry' = entry /\ pc[t] = "assign"
        /\ Lazy!HeldStaysLocked'
    BY <1>1, <1>2 DEF Lazy!AssignCache, Lazy!Step
  <2>2. ASSUME local[t] # NULL PROVE in_use[local[t]] = 0 /\ \A u \in Clients : entry[u] # local[t]
    <3>1. Fresh(t)
      BY <2>1, <2>2 DEF Fresh
    <3>2. in_use[local[t]] = 0 /\ \A u \in Clients : entry[u] # local[t]
      BY <3>1 DEF FreshInv
    <3> QED
      BY <3>2
  <2>3. ASSUME local[t] # NULL PROVE in_use'[entry_cache'] = Cardinality(HoldersOf(entry_cache)')
    <3>1. \A u \in Clients : entry'[u] # entry_cache'
      BY <2>1, <2>2, <2>3
    <3>2. HoldersOf(entry_cache)' = {}
      BY <3>1 DEF HoldersOf
    <3> QED
      BY <2>1, <2>2, <2>3, <3>2, FS_EmptySet
  <2> QED
    BY <2>1, <2>3
<1>3. ASSUME NEW t \in Clients, Lazy!Step(t), entry_cache' = entry_cache PROVE CountInv'
  <2>1. PICK c \in Lazy!Caches \cup {NULL} : c = entry_cache
    BY <1>0
  <2>2. c # NULL => in_use'[c] = Cardinality(HoldersOf(c)')
    BY <1>1, <1>3, <2>1
  <2>3. HoldersOf(entry_cache)' = HoldersOf(c)'
    BY <1>3, <2>1 DEF HoldersOf
  <2> QED
    BY <1>1, <1>3, <2>1, <2>2, <2>3
<1>4. ASSUME NEW t \in Clients, Lazy!Step(t) PROVE CountInv'
  <2>1. Lazy!AssignCache(t) \/ entry_cache' = entry_cache
    BY <1>4, Zenon DEF Lazy!Step, Lazy!Check, Lazy!Begin, Lazy!CreateCache, Lazy!Recheck, Lazy!AllocEntry,
                       Lazy!Load, Lazy!DestroyEntry, Lazy!FreeEntry
  <2> QED
    BY <1>2, <1>3, <1>4, <2>1
<1>5. ASSUME entry' = entry, in_use' = in_use, entry_cache' \in {NULL, entry_cache}, serial' = serial
      PROVE  /\ CountInv'
             /\ in_use' \in [Lazy!Caches -> 0 .. Cardinality(Clients)]
             /\ serial => Lazy!DestroyReleases'
  <2>1. \A k : HoldersOf(k)' = HoldersOf(k)
    BY <1>5, HoldersSame
  <2>2. entry_cache' # NULL => in_use'[entry_cache'] = Cardinality(HoldersOf(entry_cache)')
    BY <1>0, <1>5 DEF HoldersOf
  <2>3. Lazy!HeldStaysLocked'
    BY <1>0, <1>5, <1>h, <2>1, HeldIs
  <2>4. serial => Lazy!DestroyReleases'
    BY <1>5, <1>r, <2>1, ReleasesIs DEF OneCacheInv
  <2>5. in_use' \in [Lazy!Caches -> 0 .. Cardinality(Clients)]
    BY <1>0, <1>5, InUseIs
  <2> QED
    BY <2>2, <2>3, <2>4, <2>5
<1>6. CASE Lazy!FreeAll
  BY <1>5, <1>6 DEF Lazy!FreeAll
<1>7. CASE UNCHANGED Lazy!vars
  BY <1>5, <1>7 DEF Lazy!vars
<1>8. CASE \E t \in Clients : Lazy!Step(t)
  BY <1>1, <1>4, <1>8
<1> QED
  BY <1>6, <1>7, <1>8 DEF Lazy!Next

\* When first calls do not overlap there is one cache.
LEMMA OneCacheInvStep ==
  ASSUME LazyInv, [Lazy!Next]_(Lazy!vars)
  PROVE  OneCacheInv'
<1>0. serial' = serial /\ (serial => Lazy!DestroyReleases')
  <2>1. serial' = serial
    BY DEF Lazy!Next, Lazy!Step, Lazy!vars, Lazy!Check, Lazy!Begin, Lazy!CreateCache, Lazy!AssignCache, Lazy!Recheck,
           Lazy!AllocEntry, Lazy!Load, Lazy!DestroyEntry, Lazy!FreeEntry, Lazy!FreeAll, Lazy!Turn
  <2> QED
    BY <2>1, CountInvStep
<1> DEFINE One == /\ \A t, u \in Clients : Lazy!Creating(t) /\ Lazy!Creating(u) => t = u
                  /\ \A t \in Clients : pc[t] \in {"create", "assign"} => entry_cache = NULL
                  /\ \A t \in Clients : pc[t] = "recheck" => entry_cache = local[t]
                  /\ \A t \in Clients : pc[t] # "crashed"
                  /\ \A t \in Clients : pc[t] = "alloc" => entry_cache # NULL
                  /\ \A t \in Clients : entry[t] \in {NULL, entry_cache}
                  /\ \A k \in live : k = entry_cache \/ \E t \in Clients : Fresh(t) /\ k = local[t]
<1> SUFFICES ASSUME serial PROVE One'
  BY <1>0 DEF OneCacheInv
<1>00. One
  BY DEF LazyInv, OneCacheInv
<1> USE <1>0, <1>00, PointerAssumption DEF LazyInv, Lazy!TypeOK, Lazy!Caches, Lazy!Goto, Lazy!Turn, Lazy!Begin, Lazy!Creating,
        Fresh, FreshInv, LiveInv, Lazy!HeldIsLive
<1>1. ASSUME NEW t \in Clients, Lazy!Check(t) PROVE One'
  BY <1>1 DEF Lazy!Check
<1>2. ASSUME NEW t \in Clients, Lazy!CreateCache(t) PROVE One'
  <2>1. \/ /\ created < MaxCaches /\ created' = created + 1 /\ live' = live \cup {created + 1}
           /\ local' = [local EXCEPT ![t] = created + 1]
        \/ created' = created /\ live' = live /\ local' = [local EXCEPT ![t] = NULL]
    BY <1>2, Zenon DEF Lazy!CreateCache
  <2>2. UNCHANGED << entry_cache, entry >> /\ pc[t] = "create" /\ pc' = [pc EXCEPT ![t] = "assign"]
    BY <1>2 DEF Lazy!CreateCache
  <2>3. \A u \in Clients : (u # t => pc'[u] = pc[u] /\ ~Lazy!Creating(u)) /\ (u = t => pc'[u] = "assign")
    BY <2>2
  <2>4. \A u \in Clients : ~Fresh(u)
    BY <2>2, <2>3
  <2>5. \A k \in live' : k = entry_cache' \/ (Fresh(t)' /\ k = local'[t])
    <3>1. \A k \in live : k = entry_cache
      BY <2>4
    <3>2. CASE live' = live \cup {created + 1} /\ local' = [local EXCEPT ![t] = created + 1] /\ created < MaxCaches
      <4>1. local'[t] = created + 1 /\ local'[t] # NULL
        BY <3>2
      <4>2. \A k \in live' : k \in live \/ k = created + 1
        BY <3>2
      <4> QED
        BY <2>2, <2>3, <3>1, <4>1, <4>2
    <3>3. CASE live' = live
      BY <2>2, <3>1, <3>3
    <3> QED
      BY <2>1, <3>2, <3>3
  <2>6. /\ \A u, v \in Clients : Lazy!Creating(u)' /\ Lazy!Creating(v)' => u = v
        /\ \A u \in Clients : pc'[u] \in {"create", "assign"} => entry_cache' = NULL
        /\ \A u \in Clients : pc'[u] = "recheck" => entry_cache' = local'[u]
    BY <2>2, <2>3
  <2>7. /\ \A u \in Clients : pc'[u] # "crashed"
        /\ \A u \in Clients : pc'[u] = "alloc" => entry_cache' # NULL
        /\ \A u \in Clients : entry'[u] \in {NULL, entry_cache'}
    BY <2>2, <2>3
  <2> QED
    BY <2>5, <2>6, <2>7
<1>3. ASSUME NEW t \in Clients, Lazy!AssignCache(t) PROVE One'
  BY <1>3 DEF Lazy!AssignCache
<1>4. ASSUME NEW t \in Clients, Lazy!Recheck(t) PROVE One'
  BY <1>4 DEF Lazy!Recheck
<1>5. ASSUME NEW t \in Clients, Lazy!AllocEntry(t) PROVE One'
  BY <1>5 DEF Lazy!AllocEntry
<1>6. ASSUME NEW t \in Clients, Lazy!Load(t) PROVE One'
  BY <1>6 DEF Lazy!Load
<1>7. ASSUME NEW t \in Clients, Lazy!DestroyEntry(t) PROVE One'
  BY <1>7 DEF Lazy!DestroyEntry
<1>8. ASSUME NEW t \in Clients, Lazy!FreeEntry(t) PROVE One'
  BY <1>8 DEF Lazy!FreeEntry
<1>9. CASE Lazy!FreeAll
  BY <1>9 DEF Lazy!FreeAll
<1>10. CASE UNCHANGED Lazy!vars
  BY <1>10 DEF Lazy!vars
<1> QED
  BY <1>1, <1>2, <1>3, <1>4, <1>5, <1>6, <1>7, <1>8, <1>9, <1>10 DEF Lazy!Next, Lazy!Step

\* Every step keeps the invariant.
LEMMA LazyStep == LazyInv /\ [Lazy!Next]_(Lazy!vars) => LazyInv'
<1> SUFFICES ASSUME LazyInv, [Lazy!Next]_(Lazy!vars) PROVE LazyInv'
  OBVIOUS
<1>1. Lazy!TypeOK'
  <2>1. Lazy!TypeOK' <=> OthersTyped' /\ in_use' \in [Lazy!Caches -> 0 .. Cardinality(Clients)]
    BY SameCardinality DEF Lazy!TypeOK, OthersTyped
  <2> QED
    BY <2>1, OthersTypedStep, CountInvStep
<1> QED
  BY <1>1, FreshInvStep, LiveInvStep, CountInvStep, OneCacheInvStep, FinishedInvStep DEF LazyInv

\* FirstUseSafe: an object that a thread has of a cache that was created with
\* its first use stays allocated and locked however the creations interleave; if
\* they do not overlap, the pointer is never followed when it is NULL, every
\* object is given back, and stumpless_free_all leaves nothing behind.
THEOREM FirstUseIsSafe == Lazy!Spec => []FirstUseSafe
<1>1. LazyInv => FirstUseSafe
  <2> SUFFICES ASSUME LazyInv PROVE FirstUseSafe
    OBVIOUS
  <2>1. Lazy!NoNullCache
    BY DEF LazyInv, OneCacheInv, Lazy!NoNullCache
  <2>2. Lazy!DestroyReleases
    BY DEF LazyInv, OneCacheInv, Lazy!DestroyReleases
  <2>3. Lazy!FreeAllFreesAll
    <3> SUFFICES ASSUME serial, finished PROVE live = {}
      BY DEF Lazy!FreeAllFreesAll
    <3>1. entry_cache = NULL /\ \A t \in Clients : ~Fresh(t)
      BY DEF LazyInv, FinishedInv, Fresh
    <3>2. \A k \in live : k = entry_cache
      BY <3>1 DEF LazyInv, OneCacheInv
    <3>3. NULL \notin live
      BY PointerAssumption DEF LazyInv, Lazy!TypeOK, Lazy!Caches
    <3> QED
      BY <3>1, <3>2, <3>3
  <2> QED
    BY <2>1, <2>2, <2>3 DEF LazyInv, LiveInv, CountInv, FirstUseSafe, Lazy!FirstUseSafe
<1> QED
  BY <1>1, LazyInit, LazyStep, PTL DEF Lazy!Spec

=============================================================================
