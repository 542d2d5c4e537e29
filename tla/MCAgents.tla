------------------------------ MODULE MCAgents ------------------------------
(***************************************************************************)
(* Agent registration for TLC, both halves of it: the files and the stamp  *)
(* (AgentRegistration), or the text of one shared file (ManagedRegion).    *)
(* half says which one a behaviour is about; the other one rests.          *)
(***************************************************************************)
EXTENDS MCAgentRegistration

CONSTANTS MaxLength, MaxEdits

ASSUME RegionAssumption == MaxLength \in Nat /\ MaxEdits \in Nat

VARIABLES half, kind, file, user, installed, wrote, edits

Region == INSTANCE ManagedRegion WITH ver <- installed

regionVars == <<kind, file, user, installed, wrote, edits>>

AgentsInit ==
    /\ RegistrationInit /\ Region!Init
    /\ \/ half = "text"
       \/ half = "files" /\ kind = "line" /\ file = <<>>

AgentsNext ==
    /\ UNCHANGED half
    /\ \/ half = "files" /\ RegistrationNext /\ UNCHANGED regionVars
       \/ half = "text" /\ Region!Next /\ UNCHANGED registrationVars

AgentsSpec == AgentsInit /\ [][AgentsNext]_<<half, registrationVars, regionVars>>

\* Stripping our region gives the user's text back (ManagedRegion).
StripLeavesTheUsers == half = "text" => Region!StripLeavesTheUsers
=============================================================================
