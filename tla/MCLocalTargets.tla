--------------------------- MODULE MCLocalTargets ---------------------------
(***************************************************************************)
(* Bounds for model checking LocalTargets.  The ring is the one of         *)
(* MCBufferTarget.  Two threads use the entry, with three strings: one     *)
(* more than are replaced by a call that sets two.  Two callers register   *)
(* or remove sources.                                                      *)
(***************************************************************************)
EXTENDS LocalTargets, TLC

MCLengths == 1 .. Size
MCReadSizes == {1, 3, Size + 2}

CONSTANTS t1, t2, s1, s2, s3, text1, text2, c1, c2

MCThreads == {t1, t2}

MCStrings == {s1, s2, s3}

MCTexts == {text1, text2}

MCCallers == {c1, c2}

Symmetry ==
  Permutations(MCThreads) \cup Permutations(MCStrings) \cup Permutations(MCTexts) \cup Permutations(MCCallers)
=============================================================================
