------------------------- MODULE MCAgentRegistration -------------------------
(***************************************************************************)
(* AgentRegistration with its symmetric set, for TLC.                      *)
(***************************************************************************)
EXTENDS AgentRegistration, TLC

Symmetry == Permutations(Process)
=============================================================================
