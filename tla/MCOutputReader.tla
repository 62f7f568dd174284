--------------------------- MODULE MCOutputReader ---------------------------
(***************************************************************************)
(* OutputReader for TLC: two streams, limits below, at and above zero and   *)
(* in the middle of a chunk, more output than the pipe and the limit hold.  *)
(***************************************************************************)
EXTENDS OutputReader

CONSTANTS stdout, stderr

TwoStreams == {stdout, stderr}
SmallLimits == {-1, 0, 3, 4}
=============================================================================
