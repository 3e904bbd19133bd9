---------------------------- MODULE MCMppDecoder ----------------------------
(* MppDecoder with the time stamps of a stream that opens without one.     *)
EXTENDS MppDecoder

MCPts == [n \in Frames |-> IF n = 1 THEN NoPts ELSE n]
=============================================================================
