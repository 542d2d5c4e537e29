------------------------------ MODULE QuotaStore ------------------------------
(***************************************************************************)
(* state.json of lib/quota-store.ts: what this machine believes it has     *)
(* used of each provider's quota.  Every billable call first adds a local  *)
(* decrement (writeConsumption, before the provider is called); a harvest  *)
(* (refreshQuotaSnapshots, the quota command, Brave's rate-limit headers)  *)
(* replaces the estimate by the provider's own count, which may lag, and   *)
(* re-applies what that count has not absorbed.                            *)
(*                                                                         *)
(* A task is one such operation; tasks of one process are serialized by    *)
(* the per-path promise chain, those of two processes are not.  A quota    *)
(* has one category with a count set; its limit and percentages, which are *)
(* derived from the count, are left out.  A search, read, map or           *)
(* repository call costs one unit and says so; research, crawl and vision  *)
(* cost what their event does not know (defaultAmountForCapability).       *)
(***************************************************************************)
EXTENDS Integers, FiniteSetsExt

CONSTANTS
    Provider,
    Task,
    Process,      \* CLI processes
    VariableCost, \* what a call of unknown amount may cost
    MaxCalls,     \* bound on the billable calls of each provider
    FileErrors,   \* whether reading or writing state.json can fail
    None

ASSUME ConstantsAssumption ==
    /\ MaxCalls \in Nat
    /\ VariableCost \subseteq Nat \ {0}
    /\ FileErrors \in BOOLEAN
    /\ None \notin Provider
    /\ IsFiniteSet(Task)

VARIABLES
    processOf, \* the process each task runs in; fixed
    file,      \* state.json: a snapshot of each provider, or None
    pc, of,    \* where each task is, and the provider it is about
    unknown,   \* what its call costs when the event does not know, or 0
    seen,      \* the state a task has read and is about to write back
    usage,     \* the provider's count a task has got in answer
    billed,    \* what the provider has charged in its current window
    reported,  \* the count its usage endpoint is at; it may lag
    emitted,   \* ghost: consumption events so far
    excess,    \* ghost: what calls of unknown amount cost beyond one unit each
    unmeasured,\* ghost: what calls of unknown amount may have charged unseen
    scaffolded,\* ghost: decrements from before a first harvest, kept through it
    latest,    \* ghost: the newest count written, in this window
    outdated,  \* ghost: tasks about to write back what another process replaced
    heldOver,  \* ghost: tasks with a count from before the window was reset
    disturbed  \* ghost: providers that lost an update, or got a late count

server == <<billed, reported, excess, unmeasured>>
vars == <<processOf, file, pc, of, unknown, seen, usage, server, emitted, scaffolded,
          latest, outdated, heldOver, disturbed>>

\* observed: a harvest was written (observedAt > 0, and the category is there);
\* fresh: less than the threshold ago; pending: decrementedSinceObserved.
Snapshot == [observed : BOOLEAN, fresh : BOOLEAN, used : Nat, pending : Nat]
State == [Provider -> Snapshot \cup {None}]

ASSUME NoneAssumption == None \notin Snapshot

Empty == [p \in Provider |-> None]

Location == {"idle", "consume", "consumeWrite", "call", "usage", "probe",
             "observe", "observeWrite"}

TypeOK ==
    /\ processOf \in [Task -> Process]
    /\ file \in State
    /\ pc \in [Task -> Location]
    /\ of \in [Task -> Provider \cup {None}]
    /\ unknown \in [Task -> {0} \cup VariableCost]
    /\ seen \in [Task -> State]
    /\ usage \in [Task -> Nat]
    /\ billed \in [Provider -> Nat]
    /\ reported \in [Provider -> Nat]
    /\ \A p \in Provider : reported[p] <= billed[p]
    /\ emitted \in [Provider -> 0..MaxCalls]
    /\ excess \in [Provider -> Nat]
    /\ unmeasured \in [Provider -> Nat]
    /\ scaffolded \in [Provider -> Nat]
    /\ latest \in [Provider -> Nat]
    /\ outdated \subseteq {t \in Task : pc[t] \in {"consumeWrite", "observeWrite"}}
    /\ heldOver \subseteq {t \in Task : pc[t] \in {"observe", "observeWrite"}}
    /\ disturbed \subseteq Provider

Init ==
    /\ processOf \in [Task -> Process]
    /\ file = Empty
    /\ pc = [t \in Task |-> "idle"]
    /\ of = [t \in Task |-> None]
    /\ unknown = [t \in Task |-> 0]
    /\ seen = [t \in Task |-> Empty]
    /\ usage = [t \in Task |-> 0]
    /\ billed = [p \in Provider |-> 0]
    /\ reported = [p \in Provider |-> 0]
    /\ emitted = [p \in Provider |-> 0]
    /\ excess = [p \in Provider |-> 0]
    /\ unmeasured = [p \in Provider |-> 0]
    /\ scaffolded = [p \in Provider |-> 0]
    /\ latest = [p \in Provider |-> 0]
    /\ outdated = {}
    /\ heldOver = {}
    /\ disturbed = {}

-----------------------------------------------------------------------------
\* The arithmetic of a snapshot.

AtLeast0(n) == Max({0, n})

\* applyWriteConsumption: delta more used, and delta more pending; without a
\* snapshot a scaffold keeps it for the first harvest.
Consumed(prior, delta) ==
    IF prior = None
    THEN [observed |-> FALSE, fresh |-> FALSE, used |-> 0, pending |-> delta]
    ELSE [observed |-> prior.observed, fresh |-> prior.fresh,
          used |-> IF prior.observed THEN prior.used + delta ELSE prior.used,
          pending |-> prior.pending + delta]

Pending(prior) == IF prior = None THEN 0 ELSE prior.pending

\* Mutant: the growth is measured from the displayed count.
AbsorbedFromDisplayed(prior, count) ==
    IF prior # None /\ prior.observed THEN AtLeast0(count - prior.used) ELSE 0

\* The growth of the provider's own count since the last harvest, which the
\* pending decrements account for; nothing is known before the first harvest.
Absorbed(prior, count) ==
    IF prior # None /\ prior.observed
    THEN AtLeast0(count - (prior.used - prior.pending))
    ELSE 0

\* applyWriteObserved: the provider's count, and what it has not absorbed.
Observed(prior, count) ==
    LET left == AtLeast0(Pending(prior) - Absorbed(prior, count)) IN
    [observed |-> TRUE, fresh |-> TRUE, used |-> count + left, pending |-> left]

-----------------------------------------------------------------------------
Goto(t, l) == pc' = [pc EXCEPT ![t] = l]

Finish(t) ==
    /\ Goto(t, "idle")
    /\ of' = [of EXCEPT ![t] = None]
    /\ unknown' = [unknown EXCEPT ![t] = 0]
    /\ seen' = [seen EXCEPT ![t] = Empty]
    /\ usage' = [usage EXCEPT ![t] = 0]
    /\ heldOver' = heldOver \ {t}

Peers(t) == {u \in Task : processOf[u] = processOf[t]}

Writing(t) == pc[t] \in {"consumeWrite", "observeWrite"}

\* Mutant: read and write are not one link of the promise chain.
SerializedNever(t) == TRUE

\* withFileLock: the process's previous read-merge-write has ended.
Serialized(t) == \A u \in Peers(t) : ~Writing(u)

\* numericDecrement: an unknown amount makes no decrement.
Decrement(t) == IF unknown[t] = 0 THEN 1 ELSE 0

\* A provider operation emits its consumption event before it calls.
Emit(t, p) ==
    /\ pc[t] = "idle"
    /\ emitted[p] < MaxCalls
    /\ Goto(t, "consume")
    /\ of' = [of EXCEPT ![t] = p]
    /\ unknown' \in {[unknown EXCEPT ![t] = cost] : cost \in {0} \cup VariableCost}
    /\ emitted' = [emitted EXCEPT ![p] = @ + 1]
    /\ UNCHANGED <<file, seen, usage, server, scaffolded, latest, outdated,
                   heldOver, disturbed>>

\* The read of a read-merge-write; a read error is taken for an empty state.
ReadState(t) ==
    /\ \/ pc[t] = "consume" /\ Goto(t, "consumeWrite")
       \/ pc[t] = "observe" /\ Goto(t, "observeWrite")
    /\ Serialized(t)
    /\ \/ /\ seen' = [seen EXCEPT ![t] = file]
          /\ UNCHANGED disturbed
       \/ /\ FileErrors /\ file # Empty
          /\ seen' = [seen EXCEPT ![t] = Empty]
          /\ disturbed' = {p \in Provider : file[p] # None} \cup disturbed
    /\ UNCHANGED <<file, of, unknown, usage, server, emitted, scaffolded, latest,
                   outdated, heldOver>>

\* The atomic replace of the whole file.  What another process wrote since the
\* read is gone.
Replace(t, snapshot) ==
    /\ file' = [seen[t] EXCEPT ![of[t]] = snapshot]
    /\ outdated' = (outdated \cup {u \in Task \ Peers(t) : Writing(u)}) \ {t}
    /\ disturbed' = disturbed
         \cup (IF t \in outdated THEN {p \in Provider : file[p] # seen[t][p]} ELSE {})
         \cup (IF pc[t] = "observeWrite" /\ (usage[t] < latest[of[t]] \/ t \in heldOver)
               THEN {of[t]} ELSE {})

\* An error of the replace is swallowed.
ReplaceFails(t) ==
    /\ FileErrors
    /\ outdated' = outdated \ {t}
    /\ disturbed' = disturbed \cup {of[t]}
    /\ UNCHANGED file

\* writeConsumption; then the provider is called.
WriteConsumption(t) ==
    /\ pc[t] = "consumeWrite"
    /\ Replace(t, Consumed(seen[t][of[t]], Decrement(t))) \/ ReplaceFails(t)
    /\ Goto(t, "call")
    /\ seen' = [seen EXCEPT ![t] = Empty]
    /\ UNCHANGED <<of, unknown, usage, server, emitted, scaffolded, latest, heldOver>>

\* The provider charges for the call, and tells a count in its headers, which
\* no harvest uses, or Brave's does; or it fails without a charge.
Bill(t) ==
    /\ pc[t] = "call"
    /\ billed' = [billed EXCEPT ![of[t]] = @ + Decrement(t) + unknown[t]]
    /\ excess' = [excess EXCEPT ![of[t]] = IF unknown[t] = 0 THEN @ ELSE @ + unknown[t] - 1]
    /\ unmeasured' = [unmeasured EXCEPT ![of[t]] = @ + unknown[t]]
    /\ \/ Finish(t) /\ UNCHANGED reported
       \/ \E n \in reported[of[t]]..billed'[of[t]] :
            /\ reported' = [reported EXCEPT ![of[t]] = n]
            /\ usage' = [usage EXCEPT ![t] = n]
            /\ Goto(t, "observe")
            /\ unknown' = [unknown EXCEPT ![t] = 0]
            /\ UNCHANGED <<of, seen, heldOver>>
    /\ UNCHANGED <<file, emitted, scaffolded, latest, outdated, disturbed>>

CallFails(t) ==
    /\ pc[t] \in {"call", "usage", "probe"}
    /\ Finish(t)
    /\ UNCHANGED <<file, server, emitted, scaffolded, latest, outdated, disturbed>>

Fresh(p) == file[p] # None /\ file[p].fresh

\* The cadence gate: only a snapshot older than the threshold is due.
Due(p) == ~Fresh(p)

\* After a command every due provider is asked; the quota and doctor commands
\* ask whatever the age.  The store is read once, through the promise chain.  A
\* process runs one command and asks each provider once for it.
Refresh(t, p) ==
    /\ pc[t] = "idle"
    /\ \A u \in Peers(t) : of[u] = p => pc[u] \notin {"usage", "probe"}
    /\ of' = [of EXCEPT ![t] = p]
    /\ \/ Serialized(t) /\ Due(p) /\ Goto(t, "usage")
       \/ Goto(t, "probe")
    /\ UNCHANGED <<file, unknown, seen, usage, server, emitted, scaffolded, latest,
                   outdated, heldOver, disturbed>>

\* The usage endpoint answers with its count, which may lag; answers are written
\* in any order.
Report(t) ==
    /\ pc[t] \in {"usage", "probe"}
    /\ \E n \in reported[of[t]]..billed[of[t]] :
         /\ reported' = [reported EXCEPT ![of[t]] = n]
         /\ usage' = [usage EXCEPT ![t] = n]
    /\ Goto(t, "observe")
    /\ UNCHANGED <<file, of, unknown, seen, billed, excess, unmeasured, emitted, scaffolded, latest,
                   outdated, heldOver, disturbed>>

\* writeObserved.
WriteObserved(t) ==
    /\ pc[t] = "observeWrite"
    /\ LET p == of[t]
           prior == seen[t][p]
       IN \/ /\ Replace(t, Observed(prior, usage[t]))
             /\ scaffolded' = [scaffolded EXCEPT ![p] =
                    IF prior # None /\ prior.observed THEN @ ELSE @ + Pending(prior)]
             /\ latest' = [latest EXCEPT ![p] = Max({@, usage[t]})]
          \/ ReplaceFails(t) /\ UNCHANGED <<scaffolded, latest>>
    /\ Finish(t)
    /\ UNCHANGED <<server, emitted>>

\* The process exits or dies between two steps.
Crash(s) ==
    /\ LET gone == {t \in Task : processOf[t] = s} IN
       /\ \E t \in gone : pc[t] # "idle"
       /\ pc' = [t \in Task |-> IF t \in gone THEN "idle" ELSE pc[t]]
       /\ of' = [t \in Task |-> IF t \in gone THEN None ELSE of[t]]
       /\ unknown' = [t \in Task |-> IF t \in gone THEN 0 ELSE unknown[t]]
       /\ seen' = [t \in Task |-> IF t \in gone THEN Empty ELSE seen[t]]
       /\ usage' = [t \in Task |-> IF t \in gone THEN 0 ELSE usage[t]]
       /\ outdated' = outdated \ gone
       /\ heldOver' = heldOver \ gone
    /\ UNCHANGED <<file, server, emitted, scaffolded, latest, disturbed>>

Aged(state, p) ==
    IF state[p] = None THEN state ELSE [state EXCEPT ![p].fresh = FALSE]

\* The snapshot gets older than the threshold, in every copy.
Age(p) ==
    /\ Fresh(p)
    /\ file' = Aged(file, p)
    /\ seen' = [t \in Task |-> Aged(seen[t], p)]
    /\ UNCHANGED <<pc, of, unknown, usage, server, emitted, scaffolded, latest,
                   outdated, heldOver, disturbed>>

\* The calls for p whose decrement is written and that are not yet charged.
Calls(p) == {t \in Task : of[t] = p /\ pc[t] = "call" /\ unknown[t] = 0}

\* The provider's window is reset.  An unknown charge of the old one may have
\* absorbed the decrements of calls that will be charged in the new one.
ResetWindow(p) ==
    /\ billed[p] > 0
    /\ billed' = [billed EXCEPT ![p] = 0]
    /\ reported' = [reported EXCEPT ![p] = 0]
    /\ latest' = [latest EXCEPT ![p] = 0]
    /\ unmeasured' = [unmeasured EXCEPT ![p] = Min({@, Cardinality(Calls(p))})]
    /\ heldOver' = heldOver
         \cup {t \in Task : of[t] = p /\ pc[t] \in {"observe", "observeWrite"}}
    /\ UNCHANGED <<file, pc, of, unknown, seen, usage, excess, emitted, scaffolded, outdated,
                   disturbed>>

Step ==
    \/ \E p \in Provider : Age(p) \/ ResetWindow(p) \/ \E t \in Task : Emit(t, p) \/ Refresh(t, p)
    \/ \E t \in Task : \/ ReadState(t) \/ WriteConsumption(t) \/ WriteObserved(t)
                       \/ Bill(t) \/ CallFails(t) \/ Report(t)
    \/ \E s \in Process : Crash(s)

Next == Step /\ UNCHANGED processOf

Spec == Init /\ [][Next]_vars

-----------------------------------------------------------------------------
\* Once a harvest was written, the estimate falls below what the provider has
\* charged this machine by no more than what calls of unknown amount cost in
\* its window (and took, just before a reset, from calls under way), however
\* late the provider reports it, whatever crashes, and across window resets:
\* except after an update lost to another process or a file error, or an answer
\* written after a newer one or after the reset of its window.
NeverUndercounts ==
    \A p \in Provider \ disturbed :
        file[p] # None /\ file[p].observed => file[p].used + unmeasured[p] >= billed[p]

\* No unit is counted twice, except those from before a first harvest.
NoDoubleCount ==
    \A p \in Provider :
        file[p] # None => /\ file[p].used <= emitted[p] + excess[p] + scaffolded[p]
                          /\ file[p].pending <= emitted[p]

=============================================================================
