-------------------------- MODULE CacheAndPointer --------------------------
(***************************************************************************)
(* A cache, and the static pointer to one that is created with its first   *)
(* use: LazyCache takes the caches for what Cache shows them to be.  A     *)
(* behaviour is one of a cache or of the pointer to one.                   *)
(***************************************************************************)
EXTENDS Cache, FiniteSets

CONSTANTS NULL, MaxCaches

VARIABLES lazy, entry_cache, created, live, in_use, pc, local, entry, finished, serial

pointer == << entry_cache, created, live, in_use, pc, local, entry, finished, serial >>

Lazy == INSTANCE LazyCache WITH Threads <- Clients

ASSUME PointerAssumption ==
  /\ MaxCaches \in Nat
  /\ NULL \notin 1 .. MaxCaches
  /\ IsFiniteSet(Clients)

CachesInit ==
  /\ lazy \in BOOLEAN
  /\ Init
  /\ Lazy!Init
  /\ ~lazy => ~serial

\* The pointer may be left alone for good; the caches are checked for deadlock.
Rest == lazy /\ UNCHANGED << lazy, vars, pointer >>

CachesNext ==
  \/ ~lazy /\ Next /\ UNCHANGED << lazy, pointer >>
  \/ lazy /\ Lazy!Next /\ UNCHANGED << lazy, vars >>
  \/ Rest

CachesSpec == CachesInit /\ [][CachesNext]_<< lazy, vars, pointer >>

(***************************************************************************)
(* However the first calls for a cache overlap or fail, an object that a   *)
(* thread has stays allocated and locked; if they do not overlap, no cache *)
(* is lost and every object is given back.                                 *)
(***************************************************************************)
FirstUseSafe == Lazy!FirstUseSafe
=============================================================================
