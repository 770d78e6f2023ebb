-------------------------- MODULE MCProcessGlobals --------------------------
(***************************************************************************)
(* Two threads are enough for two writers at once, for a writer that       *)
(* overlaps a setter and for the races to open the default target and to   *)
(* start Winsock.  There are two streams besides the default one, so that  *)
(* a stream that was set is replaced by another, and four targets can be   *)
(* created, so that one is opened again after the first one was freed.     *)
(***************************************************************************)
EXTENDS ProcessGlobals

CONSTANTS t1, t2, s1, s2

MCThreads == {t1, t2}

MCStreams == {s1, s2}
=============================================================================
