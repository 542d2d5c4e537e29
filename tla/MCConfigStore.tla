---------------------------- MODULE MCConfigStore ----------------------------
(***************************************************************************)
(* ConfigStore for TLC.  Processes and keys are interchangeable.           *)
(***************************************************************************)
EXTENDS ConfigStore, TLC

Symmetry == Permutations(Process) \cup Permutations(Key)
=============================================================================
