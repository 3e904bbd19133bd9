----------------------------- MODULE MCMppEncoder -----------------------------
(* Instances of MppEncoder for TLC.  A frame is an integer and the threads are *)
(* named, so the constants are numbers, flags and the two sets below.          *)
EXTENDS MppEncoder

\* A source pad whose peer takes every buffer ...
Healthy == {"OK"}
\* ... and one whose peer may fail.
Failing == {"OK", "ERROR"}
=============================================================================
