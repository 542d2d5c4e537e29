---------------------------- MODULE MCWatchStore ----------------------------
(***************************************************************************)
(* WatchStore for TLC.  Commands are interchangeable.                      *)
(***************************************************************************)
EXTENDS WatchStore, TLC

Symmetry == Permutations(Command)
=============================================================================
