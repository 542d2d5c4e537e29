---------------------------- MODULE MCJournalStore ----------------------------
(***************************************************************************)
(* JournalStore for TLC.  Processes and ids are interchangeable.           *)
(***************************************************************************)
EXTENDS JournalStore, TLC

Symmetry == Permutations(Process) \cup Permutations(Id)
=============================================================================
