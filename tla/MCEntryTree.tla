---------------------------- MODULE MCEntryTree ----------------------------
(***************************************************************************)
(* Two threads, which make three calls, two elements and two params, so    *)
(* that names can clash on both levels, and two names, one of which is a   *)
(* prefix of the other.  A value is 0 or 6 characters long.                *)
(***************************************************************************)
EXTENDS EntryTree, TLC

CONSTANTS t1, t2, el1, el2, pa1, pa2, nm1, nm12

MCThreads == {t1, t2}

MCElements == {el1, el2}

MCParams == {pa1, pa2}

MCNames == {nm1, nm12}

MCExtends == {<< nm1, nm12 >>}

MCNameLength == nm1 :> 1 @@ nm12 :> 2

MCValues == {0, 6}

Symmetry == Permutations(MCThreads) \cup Permutations(MCElements) \cup Permutations(MCParams)
=============================================================================
