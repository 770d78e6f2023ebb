----------------------------- MODULE MCDelivery -----------------------------
(***************************************************************************)
(* Two threads, which make four calls, and two handles, so that a target   *)
(* that is opened twice is noticed.  A name of one and one of two          *)
(* characters replace each other.                                          *)
(***************************************************************************)
EXTENDS Delivery, TLC

CONSTANTS t1, t2, h1, h2

MCThreads == {t1, t2}

MCHandles == {h1, h2}

MCNames == {<< 1 >>, << 2, 2 >>}

Symmetry == Permutations(MCThreads) \cup Permutations(MCHandles)
=============================================================================
