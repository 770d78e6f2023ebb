------------------------------ MODULE MCCache ------------------------------
(***************************************************************************)
(* Bounds for model checking Cache: entries of 3 characters on pages of 9, *)
(* so that a page has two entries and the end of a page is not used up by  *)
(* them, three pages and three threads.  And for LazyCache: three threads, *)
(* of which two suffice for the race on the first call, and three caches,  *)
(* so that each thread can create one.                                     *)
(***************************************************************************)
EXTENDS CacheAndPointer, TLC

CONSTANTS c1, c2, c3

MCClients == {c1, c2, c3}

ClientSymmetry == Permutations(MCClients)
=============================================================================
