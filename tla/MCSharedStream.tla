--------------------------- MODULE MCSharedStream ---------------------------
(***************************************************************************)
(* Two threads are enough for two writers at once and for a writer that    *)
(* overlaps a setter; two streams besides the default one, so that a       *)
(* stream that was set is replaced by another.                             *)
(***************************************************************************)
EXTENDS SharedStream

CONSTANTS t1, t2, s1, s2

MCThreads == {t1, t2}

MCStreams == {s1, s2}

=============================================================================
