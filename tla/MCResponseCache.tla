--------------------------- MODULE MCResponseCache ---------------------------
(***************************************************************************)
(* ResponseCache with its symmetric sets, for TLC.                         *)
(***************************************************************************)
EXTENDS ResponseCache, TLC

Symmetry == Permutations(Process) \cup Permutations(Response) \cup Permutations(Ino)
=============================================================================
