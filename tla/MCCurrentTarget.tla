-------------------------- MODULE MCCurrentTarget --------------------------
(***************************************************************************)
(* Three threads, of which two race for the default target while the third *)
(* asks for the current one.                                               *)
(***************************************************************************)
EXTENDS CurrentTarget

CONSTANTS t1, t2, t3

MCThreads == {t1, t2, t3}

=============================================================================
