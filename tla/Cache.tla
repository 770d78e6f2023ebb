------------------------------- MODULE Cache -------------------------------
(***************************************************************************)
(* The object cache (src/src/cache.c): pages of equally sized entries, and *)
(* behind the entries of a page one lock character for each, telling       *)
(* whether it is in use.  String builders, entries and mutexes come from   *)
(* such caches.                                                            *)
(*                                                                         *)
(* cache_alloc and cache_free hold the mutex of the cache from beginning   *)
(* to end, so each is one step of the thread that calls it.  The address   *)
(* of an entry is the number of its page and its offset in that page.      *)
(* Every allocation the cache makes can fail.                              *)
(***************************************************************************)
EXTENDS Integers

CONSTANTS
  Clients,     \* threads that use the cache
  EntrySize,   \* size passed to cache_new
  SystemPage,  \* what config_getpagesize returns
  MaxPages     \* how many pages a behaviour may allocate

\* get_paged_size: the page size of the system, doubled until an entry fits.
PageSize ==
  LET sizes == {SystemPage * 2^k : k \in 0 .. EntrySize}
  IN  CHOOSE p \in sizes :
        p >= EntrySize /\ \A q \in sizes : q >= EntrySize => p <= q

ASSUME EntrySizeAssumption == EntrySize \in Nat \ {0}
ASSUME SystemPageAssumption == SystemPage \in Nat \ {0}
ASSUME MaxPagesAssumption == MaxPages \in Nat

\* An entry and its lock fit on a page.  get_paged_size alone would let them
\* be one character short; the structures that are cached are far smaller.
ASSUME EntryFitsAssumption == PageSize \in Nat /\ EntrySize < PageSize

VARIABLES
  exists,      \* whether the cache has been created
  page_count,
  capacity,    \* room in the array of page pointers
  locks,       \* the lock characters, by page and index
  held         \* the addresses each thread has been given and not freed

vars == << exists, page_count, capacity, locks, held >>

\* Mutant: no room is set aside for the locks.
EntriesPerPageNoLocks == PageSize \div EntrySize

EntriesPerPage == PageSize \div (EntrySize + 1)

Indexes == 0 .. EntriesPerPage - 1

Pages == 0 .. page_count - 1

Address(i, j) == [page |-> i, offset |-> j * EntrySize]

LockOffset(j) == EntriesPerPage * EntrySize + j

\* Mutant: the lock is counted as part of the entry.
EntryIndexWithLock(entry) == entry.offset \div (EntrySize + 1)

EntryIndex(entry) == entry.offset \div EntrySize

EmptyPage == [j \in Indexes |-> 0]

(***************************************************************************)
(* cache_new, with its first page; when any of its three allocations fails *)
(* there is no cache.                                                      *)
(***************************************************************************)
Init ==
  /\ exists = FALSE
  /\ page_count = 0
  /\ capacity = 0
  /\ locks = [i \in {} |-> EmptyPage]
  /\ held = [c \in Clients |-> {}]

New ==
  /\ ~exists
  /\ exists' = TRUE
  /\ page_count' = 1
  /\ capacity' = 1
  /\ locks' = [i \in {0} |-> EmptyPage]
  /\ UNCHANGED held

(***************************************************************************)
(* cache_alloc: the first free entry of the first page that has one.       *)
(***************************************************************************)
Free(i, j) == locks[i][j] = 0

FirstFree(i, j) ==
  /\ Free(i, j)
  /\ \A k \in Pages, l \in Indexes :
       k < i \/ (k = i /\ l < j) => ~Free(k, l)

Full == \A i \in Pages, j \in Indexes : ~Free(i, j)

Alloc(c) ==
  /\ exists
  /\ \E i \in Pages, j \in Indexes :
       /\ FirstFree(i, j)
       /\ locks' = [locks EXCEPT ![i][j] = 1]
       /\ held' = [held EXCEPT ![c] = @ \cup {Address(i, j)}]
  /\ UNCHANGED << exists, page_count, capacity >>

\* add_page succeeds and the first entry of the new page is returned.
NewPage ==
  [i \in 0 .. page_count |->
     IF i = page_count THEN [EmptyPage EXCEPT ![0] = 1] ELSE locks[i]]

AllocGrows(c) ==
  /\ exists
  /\ Full
  /\ page_count < MaxPages
  /\ page_count' = page_count + 1
  /\ capacity' = page_count + 1
  /\ locks' = NewPage
  /\ held' = [held EXCEPT ![c] = @ \cup {Address(page_count, 0)}]
  /\ UNCHANGED exists

\* Mutant: the page is counted although it could not be allocated.
AllocFailsCounting ==
  /\ exists
  /\ Full
  /\ page_count < MaxPages
  /\ page_count' \in {page_count, page_count + 1}
  /\ UNCHANGED << exists, capacity, locks, held >>

\* add_page fails: at the array, or at the page with the array grown already.
AllocFails ==
  /\ exists
  /\ Full
  /\ capacity' \in {capacity, page_count + 1}
  /\ UNCHANGED << exists, page_count, locks, held >>

(***************************************************************************)
(* cache_free finds the page that contains the address.  A thread only     *)
(* frees what it was given.                                                *)
(***************************************************************************)
CacheFree(c) ==
  /\ exists
  /\ \E entry \in held[c] :
       /\ locks' = [locks EXCEPT ![entry.page][EntryIndex(entry)] = 0]
       /\ held' = [held EXCEPT ![c] = @ \ {entry}]
  /\ UNCHANGED << exists, page_count, capacity >>

\* cache_destroy, called by stumpless_free_all when nothing is retained.
Destroy ==
  /\ exists
  /\ \A c \in Clients : held[c] = {}
  /\ exists' = FALSE
  /\ page_count' = 0
  /\ capacity' = 0
  /\ locks' = [i \in {} |-> EmptyPage]
  /\ UNCHANGED held

Next ==
  \/ New
  \/ \E c \in Clients : Alloc(c) \/ AllocGrows(c) \/ CacheFree(c)
  \/ AllocFails
  \/ Destroy

Spec == Init /\ [][Next]_vars

-----------------------------------------------------------------------------
(***************************************************************************)
(* Properties.                                                             *)
(***************************************************************************)

Addresses == {Address(i, j) : i \in Pages, j \in Indexes}

\* Type invariant.  The array of page pointers always has room for the pages
\* that are counted, also when add_page stopped half way.
TypeOK ==
  /\ exists \in BOOLEAN
  /\ page_count \in Nat
  /\ capacity \in Nat
  /\ page_count <= capacity
  /\ locks \in [Pages -> [Indexes -> {0, 1}]]
  /\ held \in [Clients -> SUBSET Addresses]

\* The lock of an entry is set exactly while some thread has the entry: no
\* entry is lost to the cache, and none is free while it is in use.
LocksMatchHolders ==
  \A i \in Pages, j \in Indexes :
    locks[i][j] = 1 <=> \E c \in Clients : Address(i, j) \in held[c]

Extent(entry) == entry.offset .. entry.offset + EntrySize - 1

LockExtent == LockOffset(0) .. LockOffset(EntriesPerPage - 1)

\* Memory that cache_alloc hands out is the thread's own: no other thread has
\* been given a character of it, no lock character lies in it, and both the
\* entries and the locks end before the page does.
EntriesDisjoint ==
  /\ LockExtent \subseteq 0 .. PageSize - 1
  /\ \A c \in Clients : \A e \in held[c] :
       /\ Extent(e) \subseteq 0 .. LockOffset(0) - 1
       /\ \A d \in Clients : \A f \in held[d] :
            e.page = f.page /\ Extent(e) \cap Extent(f) # {} => c = d /\ e = f

=============================================================================
