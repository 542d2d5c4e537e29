----------------------------- MODULE MCAsyncJob -----------------------------
(***************************************************************************)
(* AsyncJob for TLC.  Clients and task ids are interchangeable: nothing in *)
(* the specification orders or names them.                                 *)
(***************************************************************************)
EXTENDS AsyncJob, TLC

Symmetry == Permutations(Client) \cup Permutations(Task)
=============================================================================
