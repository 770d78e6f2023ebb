----------------------------- MODULE LazyCache -----------------------------
(***************************************************************************)
(* The static cache pointers of the library (entry_cache in entry.c,       *)
(* strbuilder_cache in strbuilder.c, mutex_cache in                        *)
(* config/thread_safety_supported.c) and the calls that use one of them.   *)
(* All three follow one pattern, named here after new_entry: the first     *)
(* call finds the pointer NULL and creates the cache, with no lock around  *)
(* the check and the assignment.                                           *)
(*                                                                         *)
(* The pointer is a plain variable; each read and each write of it is a    *)
(* step.  cache_new, cache_alloc and cache_free are one step each (module  *)
(* Cache shows what they guarantee); an object is represented by the cache *)
(* it came from, a cache by the order of its creation.                     *)
(***************************************************************************)
EXTENDS Integers, FiniteSets

CONSTANTS
  Threads,
  NULL,
  MaxCaches   \* how many caches a behaviour may create, numbered from 1

VARIABLES
  entry_cache,  \* the static pointer
  created,      \* caches created so far
  live,         \* caches whose memory has not been freed
  in_use,       \* in_use[k]: number of entries of cache k that are locked
  pc,           \* where each thread is
  local,        \* what cache_new returned to the thread
  entry,        \* the object the thread works with: its cache, or NULL
  finished,     \* whether stumpless_free_all was the last call
  serial        \* whether the application keeps every other call out of the
                \* library while one creates the cache

vars == << entry_cache, created, live, in_use, pc, local, entry, finished,
           serial >>

Caches == 1 .. MaxCaches

Init ==
  /\ entry_cache = NULL
  /\ created = 0
  /\ live = {}
  /\ in_use = [k \in Caches |-> 0]
  /\ pc = [t \in Threads |-> "idle"]
  /\ local = [t \in Threads |-> NULL]
  /\ entry = [t \in Threads |-> NULL]
  /\ finished = FALSE
  /\ serial \in BOOLEAN

Creating(t) == pc[t] \in {"create", "assign", "recheck"}

\* Thread t may take a step.
Turn(t) ==
  /\ serial => \A u \in Threads \ {t} : ~Creating(u)
  /\ UNCHANGED serial

Goto(t, l) == pc' = [pc EXCEPT ![t] = l]

(***************************************************************************)
(* new_entry.                                                              *)
(***************************************************************************)

Begin(t) ==
  /\ Turn(t)
  /\ pc[t] = "idle"
  /\ entry[t] = NULL
  /\ finished' = FALSE
  /\ UNCHANGED << entry_cache, created, live, in_use, local, entry >>

\* if( !entry_cache )
Check(t) ==
  /\ Begin(t)
  /\ Goto(t, IF entry_cache = NULL THEN "create" ELSE "alloc")

\* cache_new returns a cache, or NULL when memory runs out.
CreateCache(t) ==
  /\ Turn(t)
  /\ pc[t] = "create"
  /\ Goto(t, "assign")
  /\ \/ /\ created < MaxCaches
        /\ created' = created + 1
        /\ live' = live \cup {created + 1}
        /\ local' = [local EXCEPT ![t] = created + 1]
     \/ /\ local' = [local EXCEPT ![t] = NULL]
        /\ UNCHANGED << created, live >>
  /\ UNCHANGED << entry_cache, in_use, entry, finished >>

\* Mutant: a cache that is replaced is destroyed.
AssignCacheDestroying(t) ==
  /\ Turn(t)
  /\ pc[t] = "assign"
  /\ live' = live \ {entry_cache}
  /\ entry_cache' = local[t]
  /\ Goto(t, "recheck")
  /\ UNCHANGED << created, in_use, local, entry, finished >>

\* entry_cache = ...
AssignCache(t) ==
  /\ Turn(t)
  /\ pc[t] = "assign"
  /\ entry_cache' = local[t]
  /\ Goto(t, "recheck")
  /\ UNCHANGED << created, live, in_use, local, entry, finished >>

\* The second test reads the static pointer, not what cache_new returned.
Recheck(t) ==
  /\ Turn(t)
  /\ pc[t] = "recheck"
  /\ Goto(t, IF entry_cache = NULL THEN "idle" ELSE "alloc")
  /\ UNCHANGED << entry_cache, created, live, in_use, local, entry, finished >>

\* cache_alloc( entry_cache ) finds an entry or grows, or fails.  With a NULL
\* pointer it is an access through NULL.
AllocEntry(t) ==
  /\ Turn(t)
  /\ pc[t] = "alloc"
  /\ \/ /\ entry_cache = NULL
        /\ Goto(t, "crashed")
        /\ UNCHANGED << in_use, entry >>
     \/ /\ entry_cache # NULL
        /\ in_use' = [in_use EXCEPT ![entry_cache] = @ + 1]
        /\ entry' = [entry EXCEPT ![t] = entry_cache]
        /\ Goto(t, "load")
     \/ /\ entry_cache # NULL
        /\ Goto(t, "idle")
        /\ UNCHANGED << in_use, entry >>
  /\ UNCHANGED << entry_cache, created, live, local, finished >>

\* unchecked_load_entry: on failure the entry is given back at once.
Load(t) ==
  /\ Turn(t)
  /\ pc[t] = "load"
  /\ \/ Goto(t, "idle")
     \/ Goto(t, "free")
  /\ UNCHANGED << entry_cache, created, live, in_use, local, entry, finished >>

(***************************************************************************)
(* stumpless_destroy_entry: cache_free looks for the entry in the pages of *)
(* the cache that the pointer names now, and does nothing when it is not   *)
(* there.                                                                  *)
(***************************************************************************)
DestroyEntry(t) ==
  /\ Turn(t)
  /\ pc[t] = "idle"
  /\ entry[t] # NULL
  /\ Goto(t, "free")
  /\ UNCHANGED << entry_cache, created, live, in_use, local, entry, finished >>

FreeEntry(t) ==
  /\ Turn(t)
  /\ pc[t] = "free"
  /\ entry' = [entry EXCEPT ![t] = NULL]
  /\ \/ /\ entry_cache = NULL
        /\ Goto(t, "crashed")
        /\ UNCHANGED in_use
     \/ /\ entry_cache = entry[t]
        /\ in_use' = [in_use EXCEPT ![entry_cache] = @ - 1]
        /\ Goto(t, "idle")
     \/ /\ entry_cache \notin {NULL, entry[t]}
        /\ Goto(t, "idle")
        /\ UNCHANGED in_use
  /\ UNCHANGED << entry_cache, created, live, local, finished >>

\* stumpless_free_all, called when no other call is under way and no object is
\* retained.  The library may be used again afterwards.
FreeAll ==
  /\ \A t \in Threads : pc[t] = "idle" /\ entry[t] = NULL
  /\ live' = live \ {entry_cache}
  /\ entry_cache' = NULL
  /\ finished' = TRUE
  /\ UNCHANGED << created, in_use, pc, local, entry, serial >>

Step(t) ==
  \/ Check(t)
  \/ CreateCache(t)
  \/ AssignCache(t)
  \/ Recheck(t)
  \/ AllocEntry(t)
  \/ Load(t)
  \/ DestroyEntry(t)
  \/ FreeEntry(t)

Next == FreeAll \/ \E t \in Threads : Step(t)

Spec == Init /\ [][Next]_vars

-----------------------------------------------------------------------------
(***************************************************************************)
(* Properties.                                                             *)
(***************************************************************************)

TypeOK ==
  /\ entry_cache \in Caches \cup {NULL}
  /\ created \in 0 .. MaxCaches
  /\ live \subseteq Caches
  /\ in_use \in [Caches -> 0 .. Cardinality(Threads)]
  /\ pc \in [Threads -> {"idle", "create", "assign", "recheck", "alloc",
                         "load", "free", "crashed"}]
  /\ local \in [Threads -> Caches \cup {NULL}]
  /\ entry \in [Threads -> Caches \cup {NULL}]
  /\ finished \in BOOLEAN
  /\ serial \in BOOLEAN

\* No thread in new_entry or stumpless_destroy_entry follows a NULL cache
\* pointer, if first calls do not overlap.  (If they do, a thread whose
\* cache_new failed overwrites the cache of another with NULL.)
NoNullCache == serial => \A t \in Threads : pc[t] # "crashed"

\* stumpless_free_all leaves no memory of a cache behind, if first calls do
\* not overlap.
FreeAllFreesAll == serial /\ finished => live = {}

\* The memory of an entry is not freed while a thread has the entry, however
\* the creations of the cache interleave.
HeldIsLive == \A t \in Threads : entry[t] # NULL => entry[t] \in live

\* However the creations interleave, no entry that a thread has is marked free
\* and could be given to another thread.
HeldStaysLocked ==
  \A k \in Caches :
    in_use[k] >= Cardinality({t \in Threads : entry[t] = k})

\* An entry that was destroyed is available again: the locked entries of a
\* cache are the ones that threads hold, if first calls do not overlap.
DestroyReleases ==
  serial => \A k \in Caches :
              in_use[k] = Cardinality({t \in Threads : entry[t] = k})

(***************************************************************************)
(* Whoever has an object of a cache that is created with its first use can *)
(* use it and give it back.                                                *)
(***************************************************************************)
FirstUseSafe == TypeOK /\ NoNullCache /\ FreeAllFreesAll /\ HeldIsLive /\ HeldStaysLocked /\ DestroyReleases
=============================================================================
