---------------------------- MODULE MCRgaBackend ----------------------------
(* Descriptor numbers and the buffers behind them are interchangeable, and  *)
(* no liveness property is checked of this module.                          *)
EXTENDS RgaBackend, TLC

Symmetry == Permutations(Fds) \cup Permutations(Idents)
=============================================================================
