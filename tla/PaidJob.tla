------------------------------- MODULE PaidJob -------------------------------
(***************************************************************************)
(* What a paid server-side job promises to those who ask for one and the   *)
(* same thing: a new task is paid for only when nothing is known of one    *)
(* that still runs.  A task can be lost to its clients while it runs       *)
(* (nobody has its id any more), and only beside a lost one can another    *)
(* run.                                                                    *)
(***************************************************************************)
CONSTANT Task        \* task ids

VARIABLES running,   \* tasks that were paid for and count as running
          ended,     \* tasks that were paid for and do not any more
          lost       \* tasks whose id was not kept

pjVars == <<running, ended, lost>>

PJInit == running = {} /\ ended = {} /\ lost = {}

\* A task is paid for; its id may be lost at once.
Pay(t) ==
    /\ t \notin running \cup ended
    /\ running \subseteq lost
    /\ running' = running \cup {t}
    /\ lost' \in {lost, lost \cup {t}}
    /\ UNCHANGED ended

\* No task that has ended runs again.
Finish(t) ==
    /\ t \in running
    /\ running' = running \ {t}
    /\ ended' = ended \cup {t}
    /\ UNCHANGED lost

\* What is lost stays so, and only what was paid for can be.
Lose(t) ==
    /\ t \in running \cup ended
    /\ lost' = lost \cup {t}
    /\ UNCHANGED <<running, ended>>

PJNext == \E t \in Task : Pay(t) \/ Finish(t) \/ Lose(t)

PJSpec == PJInit /\ [][PJNext]_pjVars

\* Of the running tasks at most one was not lost.
OneIsKept == \A s, t \in running \ lost : s = t
=============================================================================
