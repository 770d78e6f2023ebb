--------------------------- MODULE MCBufferTarget ---------------------------
(***************************************************************************)
(* Bounds for model checking BufferTarget.  A ring of 6 characters is long *)
(* enough to hold two messages and to be overrun by part of a third; the   *)
(* lengths go from 1 to one past the longest that is accepted; the reads   *)
(* are the shortest legal one, one that splits messages and one that holds *)
(* every message.                                                          *)
(***************************************************************************)
EXTENDS BufferTarget

MCLengths == 1 .. Size
MCReadSizes == {1, 3, Size + 2}

=============================================================================
