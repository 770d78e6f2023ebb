--------------------------- MODULE MCEntryTargets ---------------------------
(***************************************************************************)
(* Bounds for model checking EntryTargets.  Two threads, two leaves and    *)
(* two chains, the first of which may be contained in the second.  The     *)
(* array holds one target, and the outer chain may be given three, two of  *)
(* which overflow.                                                         *)
(***************************************************************************)
EXTENDS EntryTargets, TLC

CONSTANTS t1, t2, l1, l2, en1, en2, el1, el2, pa1, pa2

MCThreads == {t1, t2}

MCLeaves == {l1, l2}

MCChains == {1, 2}

MCMaxTargets == << 1, 3 >>

MCName == el1 :> << 97, 45 >> @@ el2 :> << 66 >> @@ pa1 :> << 57 >> @@ pa2 :> << 122 >>

\* Two entries with shared elements, in the same order or not, and a param that
\* an element may have twice.
MCShapes ==
  {[elements |-> en1 :> << el1, el2 >> @@ en2 :> eb, params |-> el1 :> px @@ el2 :> << pa2 >>] :
     eb \in {<< el1 >>, << el2, el1 >>}, px \in {<<>>, << pa1 >>, << pa1, pa1 >>}}

MCFacility == en1 :> 4 @@ en2 :> 17

Symmetry == Permutations(MCThreads) \cup Permutations(MCLeaves)
=============================================================================
