---------------------------- MODULE MCConsumption ----------------------------
(***************************************************************************)
(* The two files the consumption sinks write, for TLC: the quota snapshots *)
(* (QuotaStore) and the usage ledger (UsageLedger).  The composite sink    *)
(* hands every event to both and neither reads the other's file, so a      *)
(* behaviour is about one of them (half) and the other one rests.          *)
(***************************************************************************)
EXTENDS QuotaStore, UsageLedger, TLC

VARIABLE half

ConsumptionInit ==
    /\ Init /\ LedgerInit
    /\ \/ half = "quota"
       \/ half = "ledger" /\ \A t, u \in Task : processOf[t] = processOf[u]

ConsumptionNext ==
    /\ UNCHANGED half
    /\ \/ half = "quota" /\ Next /\ UNCHANGED ledgerVars
       \/ half = "ledger" /\ LedgerNext /\ UNCHANGED vars

ConsumptionSpec == ConsumptionInit /\ [][ConsumptionNext]_<<half, vars, ledgerVars>>

\* Tasks, processes and calls are interchangeable.
Symmetry == Permutations(Task) \cup Permutations(Process) \cup Permutations(Call)
=============================================================================
