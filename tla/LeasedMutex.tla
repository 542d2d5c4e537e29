----------------------------- MODULE LeasedMutex -----------------------------
(***************************************************************************)
(* What lib/async-file-lock.ts can promise to its callers.  A caller that  *)
(* enters holds a lease; nobody enters while a lease is valid.  A lease    *)
(* can be lost while its holder is still inside (its lock file was         *)
(* unlinked by somebody else), and only then can two callers be inside     *)
(* together.                                                               *)
(***************************************************************************)
CONSTANT Proc        \* the processes (CLI invocations) that may call

VARIABLES inside,    \* processes between acquisition and release
          leased     \* the processes among them whose lease is still valid

lmVars == <<inside, leased>>

LMInit == inside = {} /\ leased = {}

\* A caller enters only when no valid lease exists, and gets one.
Enter(p) ==
    /\ p \notin inside
    /\ leased = {}
    /\ inside' = inside \cup {p}
    /\ leased' = {p}

\* A caller leaves (releases or dies).  The lease it ends is its own; if it
\* had lost its own, the one it ends may be the lease of a successor.
Leave(p) ==
    /\ p \in inside
    /\ inside' = inside \ {p}
    /\ \/ leased' = leased \ {p}
       \/ p \notin leased /\ leased' = {}

\* The holder's lease is lost while it is inside.
Displace ==
    /\ leased # {}
    /\ leased' = {}
    /\ inside' = inside

LMNext == Displace \/ \E p \in Proc : Enter(p) \/ Leave(p)

LMSpec == LMInit /\ [][LMNext]_lmVars
=============================================================================
