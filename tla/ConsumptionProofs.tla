-------------------------- MODULE ConsumptionProofs --------------------------
(***************************************************************************)
(* What the two files of the consumption sinks guarantee: the quota        *)
(* snapshots (QuotaStore) for every set of providers, tasks and processes, *)
(* and the usage ledger (UsageLedger) for every finite set of calls,       *)
(* retention and clock.                                                    *)
(***************************************************************************)
EXTENDS QuotaStore, UsageLedger, FiniteSetTheorems, TLAPS

-----------------------------------------------------------------------------
\* QuotaStore.  IInv bounds every copy of the store, on disk or in a task's
\* hands, by what was emitted and is not yet written: a task that has emitted
\* and not written holds back one count of its provider.

\* The tasks that are about p and at one of some locations.
At(p, locations) == {t \in Task : of[t] = p /\ pc[t] \in locations}

\* The tasks that have emitted for p and not yet written it.
Unwritten(p) == At(p, {"consume", "consumeWrite"})

\* The tasks that have emitted for p and not yet been charged for it.
Uncharged(p) == At(p, {"consume", "consumeWrite", "call"})

IdleIsOfNobody == \A t \in Task : pc[t] # "idle" => of[t] \in Provider

\* A copy of the store owes no more than the emissions behind it.
Covered(state) ==
    \A p \in Provider :
        /\ Cardinality(Unwritten(p)) <= emitted[p]
        /\ state[p] # None =>
             /\ state[p].used + Cardinality(Unwritten(p)) <= emitted[p] + excess[p] + scaffolded[p]
             /\ state[p].pending + Cardinality(Unwritten(p)) <= emitted[p]

CopiesCovered == Covered(file) /\ \A t \in Task : Covered(seen[t])

\* A provider's count, there or on its way, owes no more either.
CountsCovered ==
    /\ \A p \in Provider : billed[p] + Cardinality(Uncharged(p)) <= emitted[p] + excess[p]
    /\ \A t \in Task : pc[t] \in {"observe", "observeWrite"} =>
         usage[t] + Cardinality(Uncharged(of[t])) <= emitted[of[t]] + excess[of[t]]

IInv == TypeOK /\ IdleIsOfNobody /\ CopiesCovered /\ CountsCovered

\* The promise chain: one read-merge-write of a process at a time.
OneWriter ==
    \A t, u \in Task : Writing(t) /\ Writing(u) /\ processOf[t] = processOf[u] => t = u

\* A task that nobody overtook writes back what the file holds.
ReadsAreCurrent ==
    \A t \in Task : Writing(t) /\ t \notin outdated =>
        \A p \in Provider \ disturbed : seen[t][p] = file[p]

\* A count in hand is not above what was charged, until a reset.
CountsAreCharged ==
    \A t \in Task : pc[t] \in {"observe", "observeWrite"} /\ t \notin heldOver =>
        usage[t] <= billed[of[t]]

\* The snapshot of an undisturbed provider: what was charged or is about to be
\* is in the estimate, and what no count has told yet is pending, but for the
\* unmeasured: an unknown charge can also have absorbed a known call's decrement.
Counted(p) ==
    /\ file[p] = None => billed[p] <= unmeasured[p] /\ Cardinality(Calls(p)) = 0
    /\ file[p] # None =>
         /\ file[p].pending + unmeasured[p] >= Cardinality(Calls(p))
         /\ file[p].pending + latest[p] + unmeasured[p] >= billed[p] + Cardinality(Calls(p))
         /\ file[p].observed =>
              file[p].used + unmeasured[p] >= billed[p] + Cardinality(Calls(p))

UInv ==
    /\ OneWriter
    /\ ReadsAreCurrent
    /\ CountsAreCharged
    /\ \A p \in Provider \ disturbed : Counted(p)

-----------------------------------------------------------------------------
\* The clamp of the arithmetic.
LEMMA AtLeast0Clamps ==
    ASSUME NEW n \in Int
    PROVE  AtLeast0(n) = IF n >= 0 THEN n ELSE 0
  BY DEF AtLeast0, Max

\* The larger of two counts.
LEMMA MaxOfTwo ==
    ASSUME NEW m \in Nat, NEW n \in Nat
    PROVE  Max({m, n}) \in Nat /\ Max({m, n}) >= m /\ Max({m, n}) >= n
  BY DEF Max

\* The smaller of two counts.
LEMMA MinOfTwo ==
    ASSUME NEW m \in Nat, NEW n \in Nat
    PROVE  Min({m, n}) = m \/ Min({m, n}) = n
  BY DEF Min

\* What a call charges: one unit, or what its event does not know.
LEMMA Charges ==
    ASSUME TypeOK, NEW t \in Task
    PROVE  /\ unknown[t] \in Nat /\ Decrement(t) \in {0, 1}
           /\ unknown[t] = 0 => Decrement(t) = 1
           /\ unknown[t] # 0 => Decrement(t) = 0 /\ unknown[t] >= 1
<1>1. unknown[t] \in {0} \cup VariableCost
  BY DEF TypeOK
<1>2. \A cost \in {0} \cup VariableCost : cost \in Nat
  BY ConstantsAssumption
<1>3. unknown[t] \in Nat
  BY <1>1, <1>2
<1> QED
  BY <1>3 DEF Decrement

\* What a call changes on the provider's side.
LEMMA BillCharges ==
    ASSUME TypeOK, NEW t \in Task, of[t] \in Provider, Bill(t)
    PROVE  /\ billed' \in [Provider -> Nat] /\ excess' \in [Provider -> Nat]
           /\ unmeasured' \in [Provider -> Nat]
           /\ \A q \in Provider :
                /\ billed'[q] = IF q = of[t] THEN billed[q] + Decrement(t) + unknown[t] ELSE billed[q]
                /\ excess'[q] = IF q = of[t] THEN excess[q] + Decrement(t) + unknown[t] - 1
                                             ELSE excess[q]
                /\ unmeasured'[q] = IF q = of[t] THEN unmeasured[q] + unknown[t] ELSE unmeasured[q]
<1> DEFINE more == IF unknown[t] = 0 THEN excess[of[t]] ELSE excess[of[t]] + unknown[t] - 1
<1>1. /\ billed[of[t]] \in Nat /\ excess[of[t]] \in Nat /\ unmeasured[of[t]] \in Nat
      /\ unknown[t] \in Nat /\ Decrement(t) \in Nat
  BY Charges DEF TypeOK
<1>2. /\ billed' = [billed EXCEPT ![of[t]] = billed[of[t]] + Decrement(t) + unknown[t]]
      /\ excess' = [excess EXCEPT ![of[t]] = more]
      /\ unmeasured' = [unmeasured EXCEPT ![of[t]] = unmeasured[of[t]] + unknown[t]]
  BY DEF Bill
<1>3. more \in Nat /\ more = excess[of[t]] + Decrement(t) + unknown[t] - 1
  BY <1>1, Charges
<1> HIDE DEF more
<1> QED
  BY <1>1, <1>2, <1>3 DEF TypeOK

\* A consumption yields a snapshot, larger by the decrement at most in each count.
LEMMA ConsumedBounds ==
    ASSUME NEW prior \in Snapshot \cup {None}, NEW delta \in {0, 1}
    PROVE  /\ Consumed(prior, delta) \in Snapshot
           /\ prior = None => Consumed(prior, delta).used = 0 /\ Consumed(prior, delta).pending = delta
           /\ prior # None => /\ Consumed(prior, delta).used <= prior.used + delta
                              /\ Consumed(prior, delta).pending = prior.pending + delta
           /\ Consumed(prior, delta).observed =>
                prior # None /\ prior.observed /\ Consumed(prior, delta).used = prior.used + delta
<1>1. CASE prior = None
  BY <1>1 DEF Consumed, Snapshot
<1>2. CASE prior # None
  <2> DEFINE u == IF prior.observed THEN prior.used + delta ELSE prior.used
  <2>1. prior \in Snapshot
    BY <1>2
  <2>2. prior.used \in Nat /\ prior.pending \in Nat
    BY <2>1 DEF Snapshot
  <2>3. u \in Nat /\ u <= prior.used + delta
    BY <2>2
  <2>4. Consumed(prior, delta) = [observed |-> prior.observed, fresh |-> prior.fresh,
                            used |-> u, pending |-> prior.pending + delta]
    BY <1>2 DEF Consumed
  <2> HIDE DEF u
  <2>5. Consumed(prior, delta) \in Snapshot
    BY <2>1, <2>2, <2>3, <2>4 DEF Snapshot
  <2>6. /\ Consumed(prior, delta).used = u /\ Consumed(prior, delta).pending = prior.pending + delta
        /\ Consumed(prior, delta).observed = prior.observed
    BY <2>1, <2>4 DEF Snapshot
  <2>7. prior.observed => u = prior.used + delta
    BY DEF u
  <2> QED
    BY <1>2, <2>3, <2>5, <2>6, <2>7
<1> QED
  BY <1>1, <1>2

\* A harvest leaves the larger of the provider's count and the estimate, and no
\* more pending than before; over a scaffold it adds the two.
LEMMA ObservedBounds ==
    ASSUME NEW prior \in Snapshot \cup {None}, NEW count \in Nat
    PROVE  /\ Observed(prior, count) \in Snapshot
           /\ Observed(prior, count).pending <= Pending(prior)
           /\ prior # None /\ prior.observed =>
                \/ Observed(prior, count).used <= count
                \/ Observed(prior, count).used <= prior.used
           /\ prior # None /\ prior.observed =>
                \/ Observed(prior, count).used >= prior.used
                \/ Observed(prior, count).pending = prior.pending
           /\ ~(prior # None /\ prior.observed) => Observed(prior, count).pending = Pending(prior)
           /\ Observed(prior, count).used = count + Observed(prior, count).pending
<1> DEFINE a == Absorbed(prior, count)
           left == AtLeast0(Pending(prior) - a)
<1>1. Pending(prior) \in Nat
  BY DEF Pending, Snapshot
<1>2. CASE prior # None /\ prior.observed
  <2>1. prior.used \in Nat /\ prior.pending \in Nat /\ Pending(prior) = prior.pending
    BY <1>2 DEF Pending, Snapshot
  <2>2. count - (prior.used - prior.pending) \in Int
    BY <2>1
  <2>3. a = AtLeast0(count - (prior.used - prior.pending))
    BY <1>2 DEF Absorbed
  <2>4. a = IF count - (prior.used - prior.pending) >= 0
            THEN count - (prior.used - prior.pending) ELSE 0
    BY <2>2, <2>3, AtLeast0Clamps
  <2>5. left = IF Pending(prior) - a >= 0 THEN Pending(prior) - a ELSE 0
    BY <2>1, <2>4, AtLeast0Clamps
  <2>6. /\ left \in Nat /\ left <= prior.pending
        /\ count + left <= count \/ count + left <= prior.used
        /\ count + left >= prior.used \/ left = prior.pending
    BY <2>1, <2>4, <2>5
  <2>7. Observed(prior, count) =
          [observed |-> TRUE, fresh |-> TRUE, used |-> count + left, pending |-> left]
    BY DEF Observed
  <2> HIDE DEF left, a
  <2> QED
    BY <1>2, <2>1, <2>6, <2>7 DEF Snapshot
<1>3. CASE ~(prior # None /\ prior.observed)
  <2>1. a = 0
    BY <1>3 DEF Absorbed
  <2>2. left = Pending(prior)
    BY <1>1, <2>1, AtLeast0Clamps
  <2>3. Observed(prior, count) =
          [observed |-> TRUE, fresh |-> TRUE, used |-> count + left, pending |-> left]
    BY DEF Observed
  <2> HIDE DEF left, a
  <2> QED
    BY <1>1, <1>3, <2>2, <2>3 DEF Snapshot
<1> QED
  BY <1>2, <1>3

\* A snapshot that gets old keeps its counts.
LEMMA AgedBounds ==
    ASSUME NEW state \in State, NEW p \in Provider
    PROVE  /\ Aged(state, p) \in State
           /\ \A q \in Provider :
                /\ Aged(state, p)[q] = None <=> state[q] = None
                /\ state[q] # None => /\ Aged(state, p)[q].used = state[q].used
                                      /\ Aged(state, p)[q].pending = state[q].pending
                                      /\ Aged(state, p)[q].observed = state[q].observed
<1>1. CASE state[p] = None
  BY <1>1 DEF Aged
<1>2. CASE state[p] # None
  <2> DEFINE old == [state[p] EXCEPT !.fresh = FALSE]
  <2>1. state[p] \in Snapshot
    BY <1>2 DEF State
  <2>2. /\ old \in Snapshot /\ old.used = state[p].used
        /\ old.pending = state[p].pending /\ old.observed = state[p].observed
    BY <2>1 DEF Snapshot
  <2>3. Aged(state, p) = [state EXCEPT ![p] = old]
    BY <1>2 DEF Aged
  <2>4. old # None
    BY <2>2, NoneAssumption
  <2> HIDE DEF old
  <2>5. Aged(state, p) \in State
    BY <2>2, <2>3 DEF State
  <2>6. \A q \in Provider : Aged(state, p)[q] = IF q = p THEN old ELSE state[q]
    BY <2>3 DEF State
  <2> QED
    BY <1>2, <2>2, <2>4, <2>5, <2>6
<1> QED
  BY <1>1, <1>2

\* Two sets of tasks that differ in one task at most.
LEMMA CountMoves ==
    ASSUME NEW S \in SUBSET Task, NEW T \in SUBSET Task, NEW t \in Task,
           S \ {t} = T \ {t}
    PROVE  /\ Cardinality(S) \in Nat /\ Cardinality(T) \in Nat
           /\ Cardinality(T) = Cardinality(S) + (IF t \in T THEN 1 ELSE 0)
                                              - (IF t \in S THEN 1 ELSE 0)
<1>1. IsFiniteSet(S) /\ IsFiniteSet(T)
  BY ConstantsAssumption, FS_Subset
<1>2. Cardinality(S) \in Nat /\ Cardinality(T) \in Nat
  BY <1>1, FS_CardinalityType
<1>3. /\ Cardinality(S \ {t}) = IF t \in S THEN Cardinality(S) - 1 ELSE Cardinality(S)
      /\ Cardinality(T \ {t}) = IF t \in T THEN Cardinality(T) - 1 ELSE Cardinality(T)
  BY <1>1, FS_RemoveElement
<1> QED
  BY <1>2, <1>3

\* One task moves: what this does to the number of those at some locations.
LEMMA AtMoves ==
    ASSUME NEW t \in Task, NEW p \in Provider, NEW CONSTANT L,
           \A u \in Task \ {t} : of'[u] = of[u] /\ pc'[u] = pc[u]
    PROVE  /\ Cardinality(At(p, L)) \in Nat /\ Cardinality(At(p, L)') \in Nat
           /\ Cardinality(At(p, L)') = Cardinality(At(p, L))
                + (IF of'[t] = p /\ pc'[t] \in L THEN 1 ELSE 0)
                - (IF of[t] = p /\ pc[t] \in L THEN 1 ELSE 0)
<1>1. At(p, L) \ {t} = At(p, L)' \ {t}
  BY DEF At
<1>2. At(p, L) \in SUBSET Task /\ At(p, L)' \in SUBSET Task
  BY DEF At
<1>3. /\ t \in At(p, L) <=> of[t] = p /\ pc[t] \in L
      /\ t \in At(p, L)' <=> of'[t] = p /\ pc'[t] \in L
  BY DEF At
<1> QED
  BY <1>1, <1>2, <1>3, CountMoves

\* Fewer tasks are at some locations, or the same.
LEMMA AtShrinks ==
    ASSUME NEW p \in Provider, NEW CONSTANT L, At(p, L)' \subseteq At(p, L)
    PROVE  /\ Cardinality(At(p, L)) \in Nat /\ Cardinality(At(p, L)') \in Nat
           /\ Cardinality(At(p, L)') <= Cardinality(At(p, L))
<1>1. IsFiniteSet(At(p, L))
  BY ConstantsAssumption, FS_Subset DEF At
<1> QED
  BY <1>1, FS_Subset, FS_CardinalityType

-----------------------------------------------------------------------------
\* Type correctness.
LEMMA InitType == Init => TypeOK /\ IdleIsOfNobody
  BY ConstantsAssumption
  DEF Init, TypeOK, IdleIsOfNobody, State, Empty, Location

\* A replace that succeeds leaves a store, and only forgets its own task.
LEMMA ReplaceType ==
    ASSUME TypeOK, NEW t \in Task, of[t] \in Provider, NEW snapshot \in Snapshot,
           Replace(t, snapshot)
    PROVE  /\ file' \in State
           /\ \A p \in Provider :
                file'[p] = IF p = of[t] THEN snapshot ELSE seen[t][p]
           /\ outdated' \subseteq {u \in Task : Writing(u)} \ {t}
           /\ disturbed' \subseteq Provider
<1>1. seen[t] \in State
  BY DEF TypeOK
<1>2. file' = [seen[t] EXCEPT ![of[t]] = snapshot]
  BY DEF Replace
<1>3. file' \in State /\ \A p \in Provider :
        file'[p] = IF p = of[t] THEN snapshot ELSE seen[t][p]
  BY <1>1, <1>2 DEF State
<1>4. outdated' \subseteq {u \in Task : Writing(u)} \ {t}
  BY DEF Replace, TypeOK, Writing
<1>5. disturbed' \subseteq Provider
  BY DEF Replace, TypeOK
<1> QED
  BY <1>3, <1>4, <1>5

\* Every step keeps the types, and idle tasks without a provider.
LEMMA NextType == TypeOK /\ IdleIsOfNobody /\ [Next]_vars => TypeOK' /\ IdleIsOfNobody'
<1> SUFFICES ASSUME TypeOK, IdleIsOfNobody, [Next]_vars PROVE TypeOK' /\ IdleIsOfNobody'
  OBVIOUS
<1> DEFINE Goal == TypeOK' /\ IdleIsOfNobody'
<1>1. Empty \in State
  BY DEF Empty, State
<1>2. ASSUME NEW t \in Task, NEW p \in Provider, Emit(t, p), UNCHANGED processOf PROVE Goal
  BY <1>2, ConstantsAssumption DEF Emit, Goto, Location, TypeOK, IdleIsOfNobody, server
<1>3. ASSUME NEW t \in Task, NEW p \in Provider, Refresh(t, p), UNCHANGED processOf PROVE Goal
  BY <1>3 DEF Refresh, Goto, Location, TypeOK, IdleIsOfNobody, server
<1>4. ASSUME NEW t \in Task, ReadState(t), UNCHANGED processOf PROVE Goal
  BY <1>1, <1>4 DEF ReadState, Goto, Location, Writing, TypeOK, IdleIsOfNobody, server
<1>5. ASSUME NEW t \in Task, CallFails(t), UNCHANGED processOf PROVE Goal
  BY <1>1, <1>5 DEF CallFails, Finish, Goto, Location, TypeOK, IdleIsOfNobody, server
<1>6. ASSUME NEW t \in Task, Bill(t), UNCHANGED processOf PROVE Goal
  <2>1. of[t] \in Provider
    BY <1>6 DEF Bill, IdleIsOfNobody
  <2>2. billed[of[t]] \in Nat /\ reported[of[t]] \in Nat /\ reported[of[t]] <= billed[of[t]]
    BY <2>1 DEF TypeOK
  <2>3. unknown[t] \in Nat /\ Decrement(t) \in Nat
    BY Charges
  <2>4. /\ billed' \in [Provider -> Nat] /\ \A p \in Provider : billed[p] <= billed'[p]
        /\ excess' \in [Provider -> Nat] /\ unmeasured' \in [Provider -> Nat]
    BY <1>6, <2>1, <2>3, BillCharges DEF TypeOK
  <2>5. CASE Finish(t) /\ UNCHANGED reported
    BY <1>1, <1>6, <2>4, <2>5 DEF Bill, Finish, Goto, Location, TypeOK, IdleIsOfNobody
  <2>6. CASE ~(Finish(t) /\ UNCHANGED reported)
    <3>1. PICK n \in reported[of[t]]..billed'[of[t]] :
            /\ reported' = [reported EXCEPT ![of[t]] = n]
            /\ usage' = [usage EXCEPT ![t] = n]
            /\ Goto(t, "observe")
            /\ unknown' = [unknown EXCEPT ![t] = 0]
            /\ UNCHANGED <<of, seen, heldOver>>
      BY <1>6, <2>6 DEF Bill
    <3>2. n \in Nat /\ n <= billed'[of[t]]
      BY <2>1, <2>2, <2>4, <3>1
    <3>3. reported' \in [Provider -> Nat] /\ \A p \in Provider : reported'[p] <= billed'[p]
      BY <2>1, <2>2, <2>4, <3>1, <3>2 DEF TypeOK
    <3> QED
      BY <1>6, <2>1, <2>4, <3>1, <3>2, <3>3 DEF Bill, Goto, Location, TypeOK, IdleIsOfNobody
  <2> QED
    BY <2>5, <2>6
<1>7. ASSUME NEW t \in Task, Report(t), UNCHANGED processOf PROVE Goal
  <2>1. of[t] \in Provider
    BY <1>7 DEF Report, IdleIsOfNobody
  <2>2. PICK n \in reported[of[t]]..billed[of[t]] :
            /\ reported' = [reported EXCEPT ![of[t]] = n]
            /\ usage' = [usage EXCEPT ![t] = n]
    BY <1>7 DEF Report
  <2>3. n \in Nat /\ reported' \in [Provider -> Nat] /\ \A p \in Provider : reported'[p] <= billed[p]
    BY <2>1, <2>2 DEF TypeOK
  <2> QED
    BY <1>7, <2>1, <2>2, <2>3 DEF Report, Goto, Location, TypeOK, IdleIsOfNobody
<1>8. ASSUME NEW t \in Task, WriteConsumption(t), UNCHANGED processOf PROVE Goal
  <2>1. of[t] \in Provider /\ seen[t] \in State
    BY <1>8 DEF WriteConsumption, IdleIsOfNobody, TypeOK
  <2>2. Consumed(seen[t][of[t]], Decrement(t)) \in Snapshot
    BY <2>1, Charges, ConsumedBounds DEF State
  <2>3. /\ file' \in State
        /\ outdated' \subseteq {u \in Task : Writing(u)} \ {t}
        /\ disturbed' \subseteq Provider
    <3>1. CASE Replace(t, Consumed(seen[t][of[t]], Decrement(t)))
      BY <2>1, <2>2, <3>1, ReplaceType
    <3>2. CASE ReplaceFails(t)
      BY <2>1, <3>2 DEF ReplaceFails, TypeOK, Writing
    <3> QED
      BY <1>8, <3>1, <3>2 DEF WriteConsumption
  <2> QED
    BY <1>1, <1>8, <2>1, <2>3
    DEF WriteConsumption, Goto, Location, Writing, TypeOK, IdleIsOfNobody, server
<1>9. ASSUME NEW t \in Task, WriteObserved(t), UNCHANGED processOf PROVE Goal
  <2> DEFINE p == of[t]
             prior == seen[t][p]
  <2>1. p \in Provider /\ seen[t] \in State /\ prior \in Snapshot \cup {None}
    BY <1>9 DEF WriteObserved, IdleIsOfNobody, TypeOK, State
  <2>2. usage[t] \in Nat /\ latest[p] \in Nat /\ Pending(prior) \in Nat
    BY <2>1 DEF TypeOK, Pending, Snapshot
  <2>3. Observed(prior, usage[t]) \in Snapshot /\ Max({latest[p], usage[t]}) \in Nat
    BY <2>1, <2>2, ObservedBounds, MaxOfTwo
  <2>4. /\ file' \in State
        /\ outdated' \subseteq {u \in Task : Writing(u)} \ {t}
        /\ disturbed' \subseteq Provider
        /\ scaffolded' \in [Provider -> Nat] /\ latest' \in [Provider -> Nat]
    <3>1. CASE Replace(t, Observed(prior, usage[t]))
               /\ scaffolded' = [scaffolded EXCEPT ![p] =
                      IF prior # None /\ prior.observed THEN @ ELSE @ + Pending(prior)]
               /\ latest' = [latest EXCEPT ![p] = Max({@, usage[t]})]
      BY <2>1, <2>2, <2>3, <3>1, ReplaceType DEF TypeOK
    <3>2. CASE ReplaceFails(t) /\ UNCHANGED <<scaffolded, latest>>
      BY <2>1, <3>2 DEF ReplaceFails, TypeOK, Writing
    <3> QED
      BY <1>9, <3>1, <3>2 DEF WriteObserved
  <2> QED
    BY <1>1, <1>9, <2>4
    DEF WriteObserved, Finish, Goto, Location, Writing, TypeOK, IdleIsOfNobody, server
<1>10. ASSUME NEW s \in Process, Crash(s), UNCHANGED processOf PROVE Goal
  BY <1>1, <1>10 DEF Crash, Location, TypeOK, IdleIsOfNobody, server
<1>11. ASSUME NEW p \in Provider, Age(p), UNCHANGED processOf PROVE Goal
  <2>1. Aged(file, p) \in State /\ \A t \in Task : Aged(seen[t], p) \in State
    BY AgedBounds DEF TypeOK
  <2> QED
    BY <1>11, <2>1 DEF Age, TypeOK, IdleIsOfNobody, server
<1>12. ASSUME NEW p \in Provider, ResetWindow(p), UNCHANGED processOf PROVE Goal
  <2>1. unmeasured[p] \in Nat /\ Cardinality(Calls(p)) \in Nat
    BY ConstantsAssumption, FS_Subset, FS_CardinalityType DEF Calls, TypeOK
  <2>2. Min({unmeasured[p], Cardinality(Calls(p))}) \in Nat
    BY <2>1, MinOfTwo
  <2>3. unmeasured' \in [Provider -> Nat]
    BY <1>12, <2>2 DEF ResetWindow, TypeOK
  <2> QED
    BY <1>12, <2>3 DEF ResetWindow, TypeOK, IdleIsOfNobody
<1>13. CASE UNCHANGED vars
  BY <1>13 DEF vars, server, TypeOK, IdleIsOfNobody
<1> HIDE DEF Goal
<1>14. ASSUME Next PROVE Goal
  BY <1>2, <1>3, <1>4, <1>5, <1>6, <1>7, <1>8, <1>9, <1>10, <1>11, <1>12, <1>14
  DEF Next, Step
<1>15. Goal
  BY <1>13, <1>14 DEF Goal
<1> QED
  BY <1>15 DEF Goal

\* Every reachable state of the store is well typed, for any providers, tasks
\* and processes.
THEOREM TypeCorrect == Spec => []TypeOK
<1>1. Init => TypeOK /\ IdleIsOfNobody
  BY InitType
<1>2. TypeOK /\ IdleIsOfNobody /\ [Next]_vars => (TypeOK /\ IdleIsOfNobody)'
  BY NextType
<1> QED
  BY <1>1, <1>2, PTL DEF Spec

-----------------------------------------------------------------------------
\* Nothing is counted twice.
LEMMA CopiesKeep ==
    ASSUME TypeOK, CopiesCovered,
           \A p \in Provider :
               /\ Cardinality(Unwritten(p)) \in Nat /\ Cardinality(Unwritten(p)') \in Nat
               /\ emitted'[p] \in Nat /\ scaffolded'[p] \in Nat
               /\ scaffolded'[p] >= scaffolded[p]
               /\ excess'[p] \in Nat /\ excess'[p] >= excess[p]
               /\ emitted'[p] - Cardinality(Unwritten(p)') >= emitted[p] - Cardinality(Unwritten(p))
    PROVE  /\ file' = file => Covered(file)'
           /\ \A t \in Task : seen'[t] \in {seen[t], file, Empty} => Covered(seen[t])'
<1>1. ASSUME NEW CONSTANT p \in Provider, NEW n \in Snapshot,
             n.used + Cardinality(Unwritten(p)) <= emitted[p] + excess[p] + scaffolded[p],
             n.pending + Cardinality(Unwritten(p)) <= emitted[p]
      PROVE  /\ n.used + Cardinality(Unwritten(p)') <= emitted'[p] + excess'[p] + scaffolded'[p]
             /\ n.pending + Cardinality(Unwritten(p)') <= emitted'[p]
  <2>1. /\ n.used \in Nat /\ n.pending \in Nat /\ emitted[p] \in Nat /\ scaffolded[p] \in Nat
        /\ excess[p] \in Nat
    BY <1>1, ConstantsAssumption DEF Snapshot, TypeOK
  <2> QED
    BY <1>1, <2>1
<1>2. /\ \A p \in Provider : file[p] # None => file[p] \in Snapshot
      /\ \A t \in Task, p \in Provider : seen[t][p] # None => seen[t][p] \in Snapshot
  BY DEF TypeOK, State
<1>5. ASSUME NEW CONSTANT p \in Provider PROVE Cardinality(Unwritten(p)') <= emitted'[p]
  <2>1. Cardinality(Unwritten(p)) <= emitted[p] /\ emitted[p] \in Nat
    BY ConstantsAssumption DEF TypeOK, CopiesCovered, Covered
  <2> QED
    BY <2>1
<1>3. file' = file => Covered(file)'
  BY <1>1, <1>2, <1>5 DEF CopiesCovered, Covered
<1>4. ASSUME NEW t \in Task, seen'[t] \in {seen[t], file, Empty} PROVE Covered(seen[t])'
  <2>1. CASE seen'[t] = seen[t]
    BY <1>1, <1>2, <1>5, <2>1 DEF CopiesCovered, Covered
  <2>2. CASE seen'[t] = file
    BY <1>1, <1>2, <1>5, <2>2 DEF CopiesCovered, Covered
  <2>3. CASE seen'[t] = Empty
    BY <1>5, <2>3 DEF Covered, Empty
  <2> QED
    BY <1>4, <2>1, <2>2, <2>3
<1> QED
  BY <1>3, <1>4

\* The invariant holds before anything is written.
LEMMA InitIInv == Init => IInv
<1> SUFFICES ASSUME Init PROVE IInv
  OBVIOUS
<1>1. TypeOK /\ IdleIsOfNobody
  BY InitType
<1>2. CopiesCovered
  <2>1. \A p \in Provider : Unwritten(p) = {}
    BY DEF Init, Unwritten, At
  <2>2. \A p \in Provider : Cardinality(Unwritten(p)) = 0
    BY <2>1, FS_EmptySet
  <2> QED
    BY <2>2 DEF Init, CopiesCovered, Covered, Empty
<1>3. \A p \in Provider : Cardinality(Uncharged(p)) = 0
  <2>1. \A p \in Provider : Uncharged(p) = {}
    BY DEF Init, Uncharged, At
  <2> QED
    BY <2>1, FS_EmptySet
<1>4. CountsCovered
  BY <1>3 DEF Init, CountsCovered
<1> QED
  BY <1>1, <1>2, <1>4 DEF IInv

\* The counts of a task that moves alone.
LEMMA TaskMoves ==
    ASSUME NEW t \in Task, \A u \in Task \ {t} : of'[u] = of[u] /\ pc'[u] = pc[u],
           NEW p \in Provider
    PROVE  /\ Cardinality(Unwritten(p)) \in Nat /\ Cardinality(Unwritten(p)') \in Nat
           /\ Cardinality(Uncharged(p)) \in Nat /\ Cardinality(Uncharged(p)') \in Nat
           /\ Cardinality(Unwritten(p)') = Cardinality(Unwritten(p))
                + (IF of'[t] = p /\ pc'[t] \in {"consume", "consumeWrite"} THEN 1 ELSE 0)
                - (IF of[t] = p /\ pc[t] \in {"consume", "consumeWrite"} THEN 1 ELSE 0)
           /\ Cardinality(Uncharged(p)') = Cardinality(Uncharged(p))
                + (IF of'[t] = p /\ pc'[t] \in {"consume", "consumeWrite", "call"} THEN 1 ELSE 0)
                - (IF of[t] = p /\ pc[t] \in {"consume", "consumeWrite", "call"} THEN 1 ELSE 0)
  BY AtMoves DEF Unwritten, Uncharged

\* The calls of a known amount when a task moves alone.
LEMMA CallsMove ==
    ASSUME NEW t \in Task, NEW p \in Provider,
           \A u \in Task \ {t} : of'[u] = of[u] /\ pc'[u] = pc[u] /\ unknown'[u] = unknown[u]
    PROVE  /\ Cardinality(Calls(p)) \in Nat /\ Cardinality(Calls(p)') \in Nat
           /\ Cardinality(Calls(p)') = Cardinality(Calls(p))
                + (IF of'[t] = p /\ pc'[t] = "call" /\ unknown'[t] = 0 THEN 1 ELSE 0)
                - (IF of[t] = p /\ pc[t] = "call" /\ unknown[t] = 0 THEN 1 ELSE 0)
<1>1. Calls(p) \ {t} = Calls(p)' \ {t}
  BY DEF Calls
<1>2. Calls(p) \in SUBSET Task /\ Calls(p)' \in SUBSET Task
  BY DEF Calls
<1>3. /\ t \in Calls(p) <=> of[t] = p /\ pc[t] = "call" /\ unknown[t] = 0
      /\ t \in Calls(p)' <=> of'[t] = p /\ pc'[t] = "call" /\ unknown'[t] = 0
  BY DEF Calls
<1> QED
  BY <1>1, <1>2, <1>3, CountMoves

\* ... and when tasks only leave.
LEMMA CallsLeave ==
    ASSUME \A t \in Task : \/ of'[t] = of[t] /\ pc'[t] = pc[t] /\ unknown'[t] = unknown[t]
                          \/ pc'[t] = "idle",
           NEW p \in Provider
    PROVE  /\ Cardinality(Calls(p)) \in Nat /\ Cardinality(Calls(p)') \in Nat
           /\ Cardinality(Calls(p)') <= Cardinality(Calls(p))
<1>1. Calls(p)' \subseteq Calls(p)
  BY DEF Calls
<1>2. IsFiniteSet(Calls(p))
  BY ConstantsAssumption, FS_Subset DEF Calls
<1> QED
  BY <1>1, <1>2, FS_Subset, FS_CardinalityType

\* The counts when tasks only leave.
LEMMA TasksLeave ==
    ASSUME \A t \in Task : (of'[t] = of[t] /\ pc'[t] = pc[t]) \/ pc'[t] = "idle",
           NEW p \in Provider
    PROVE  /\ Cardinality(Unwritten(p)) \in Nat /\ Cardinality(Unwritten(p)') \in Nat
           /\ Cardinality(Uncharged(p)) \in Nat /\ Cardinality(Uncharged(p)') \in Nat
           /\ Cardinality(Unwritten(p)') <= Cardinality(Unwritten(p))
           /\ Cardinality(Uncharged(p)') <= Cardinality(Uncharged(p))
<1>1. /\ At(p, {"consume", "consumeWrite"})' \subseteq At(p, {"consume", "consumeWrite"})
      /\ At(p, {"consume", "consumeWrite", "call"})'
           \subseteq At(p, {"consume", "consumeWrite", "call"})
  BY DEF At
<1> QED
  BY <1>1, AtShrinks DEF Unwritten, Uncharged

\* A step that charges no more than it calls for keeps the counts covered.
LEMMA CountsKeep ==
    ASSUME TypeOK, TypeOK', IdleIsOfNobody', CountsCovered,
           \A p \in Provider :
               /\ Cardinality(Uncharged(p)) \in Nat /\ Cardinality(Uncharged(p)') \in Nat
               /\ emitted'[p] + excess'[p] - Cardinality(Uncharged(p)') >=
                    emitted[p] + excess[p] - Cardinality(Uncharged(p))
               /\ emitted'[p] + excess'[p] - Cardinality(Uncharged(p)') - billed'[p] >=
                    emitted[p] + excess[p] - Cardinality(Uncharged(p)) - billed[p],
           \A t \in Task : pc'[t] \in {"observe", "observeWrite"} =>
               \/ /\ usage'[t] = usage[t] /\ of'[t] = of[t]
                  /\ pc[t] \in {"observe", "observeWrite"}
               \/ usage'[t] <= billed'[of'[t]]
    PROVE  CountsCovered'
<1>1. \A p \in Provider : /\ emitted[p] \in Nat /\ billed[p] \in Nat
                          /\ emitted'[p] \in Nat /\ billed'[p] \in Nat
                          /\ excess[p] \in Nat /\ excess'[p] \in Nat
  BY ConstantsAssumption DEF TypeOK
<1>2. \A p \in Provider : billed'[p] + Cardinality(Uncharged(p)') <= emitted'[p] + excess'[p]
  BY <1>1 DEF CountsCovered
<1>3. ASSUME NEW t \in Task, pc'[t] \in {"observe", "observeWrite"}
      PROVE  usage'[t] + Cardinality(Uncharged(of[t])') <= emitted'[of'[t]] + excess'[of'[t]]
  <2>1. of'[t] \in Provider /\ usage'[t] \in Nat /\ usage[t] \in Nat
    BY <1>3 DEF IdleIsOfNobody, TypeOK
  <2>2. Uncharged(of[t])' = {u \in Task : of'[u] = of'[t] /\ pc'[u] \in {"consume", "consumeWrite", "call"}}
    BY DEF Uncharged, At
  <2>3. PICK p \in Provider : p = of'[t]
    BY <2>1
  <2>4. Uncharged(of[t])' = Uncharged(p)'
    BY <2>2, <2>3 DEF Uncharged, At
  <2>5. usage'[t] + Cardinality(Uncharged(p)') <= emitted'[p] + excess'[p]
    <3>1. CASE usage'[t] <= billed'[p]
      BY <1>1, <1>2, <2>1, <3>1
    <3>2. CASE usage'[t] = usage[t] /\ of'[t] = of[t] /\ pc[t] \in {"observe", "observeWrite"}
      <4>1. usage[t] + Cardinality(Uncharged(p)) <= emitted[p] + excess[p]
        BY <2>3, <3>2 DEF CountsCovered
      <4> QED
        BY <1>1, <2>1, <3>2, <4>1
    <3> QED
      BY <1>3, <2>3, <3>1, <3>2
  <2> QED
    BY <2>3, <2>4, <2>5
<1> QED
  BY <1>2, <1>3 DEF CountsCovered

\* Every step keeps the upper bounds.
LEMMA NextIInv == IInv /\ [Next]_vars => IInv'
<1> SUFFICES ASSUME IInv, [Next]_vars PROVE IInv'
  OBVIOUS
<1>0. TypeOK /\ IdleIsOfNobody /\ CopiesCovered /\ CountsCovered
  BY DEF IInv
<1>t. TypeOK' /\ IdleIsOfNobody'
  BY <1>0, NextType
<1> DEFINE Goal == CopiesCovered' /\ CountsCovered'
<1>n. /\ \A p \in Provider : emitted[p] \in Nat /\ billed[p] \in Nat /\ scaffolded[p] \in Nat
      /\ \A p \in Provider : excess[p] \in Nat /\ excess'[p] \in Nat
      /\ \A p \in Provider : emitted'[p] \in Nat /\ billed'[p] \in Nat /\ scaffolded'[p] \in Nat
      /\ \A t \in Task : usage[t] \in Nat
  BY <1>0, <1>t, ConstantsAssumption DEF TypeOK
<1>1. ASSUME NEW t \in Task, NEW p \in Provider, Emit(t, p) PROVE Goal
  <2>1. \A u \in Task \ {t} : of'[u] = of[u] /\ pc'[u] = pc[u]
    BY <1>0, <1>1 DEF Emit, Goto, TypeOK
  <2>2. of'[t] = p /\ pc'[t] = "consume" /\ pc[t] = "idle"
    BY <1>0, <1>1 DEF Emit, Goto, TypeOK
  <2>3. \A q \in Provider : emitted'[q] = IF q = p THEN emitted[q] + 1 ELSE emitted[q]
    BY <1>0, <1>1 DEF Emit, TypeOK
  <2>4. UNCHANGED <<file, seen, scaffolded, excess, billed, usage>>
    BY <1>1 DEF Emit, server
  <2>5. CopiesCovered'
    BY <1>0, <1>n, <2>1, <2>2, <2>3, <2>4, TaskMoves, CopiesKeep DEF CopiesCovered
  <2>6. CountsCovered'
    BY <1>0, <1>n, <1>t, <2>1, <2>2, <2>3, <2>4, TaskMoves, CountsKeep
  <2> QED
    BY <2>5, <2>6
<1>2. ASSUME NEW t \in Task, NEW p \in Provider, Refresh(t, p) PROVE Goal
  <2>1. \A u \in Task \ {t} : of'[u] = of[u] /\ pc'[u] = pc[u]
    BY <1>0, <1>2 DEF Refresh, Goto, TypeOK
  <2>2. pc'[t] \in {"usage", "probe"} /\ pc[t] = "idle"
    BY <1>0, <1>2 DEF Refresh, Goto, TypeOK
  <2>3. UNCHANGED <<file, seen, scaffolded, emitted, excess, billed, usage>>
    BY <1>2 DEF Refresh, server
  <2>4. CopiesCovered'
    BY <1>0, <1>n, <2>1, <2>2, <2>3, TaskMoves, CopiesKeep DEF CopiesCovered
  <2>5. CountsCovered'
    BY <1>0, <1>n, <1>t, <2>1, <2>2, <2>3, TaskMoves, CountsKeep
  <2> QED
    BY <2>4, <2>5
<1>3. ASSUME NEW t \in Task, ReadState(t) PROVE Goal
  <2>1. \A u \in Task \ {t} : of'[u] = of[u] /\ pc'[u] = pc[u]
    BY <1>0, <1>3 DEF ReadState, Goto, TypeOK
  <2>2. /\ of'[t] = of[t]
        /\ \/ pc[t] = "consume" /\ pc'[t] = "consumeWrite"
           \/ pc[t] = "observe" /\ pc'[t] = "observeWrite"
    BY <1>0, <1>3 DEF ReadState, Goto, TypeOK
  <2>3. UNCHANGED <<file, scaffolded, emitted, excess, billed, usage>>
    BY <1>3 DEF ReadState, server
  <2>4. \A u \in Task : seen'[u] \in {seen[u], file, Empty}
    BY <1>0, <1>3 DEF ReadState, TypeOK
  <2>5. CopiesCovered'
    BY <1>0, <1>n, <2>1, <2>2, <2>3, <2>4, TaskMoves, CopiesKeep DEF CopiesCovered
  <2>6. CountsCovered'
    BY <1>0, <1>n, <1>t, <2>1, <2>2, <2>3, TaskMoves, CountsKeep
  <2> QED
    BY <2>5, <2>6
<1>4. ASSUME NEW t \in Task, CallFails(t) PROVE Goal
  <2>1. \A u \in Task \ {t} : of'[u] = of[u] /\ pc'[u] = pc[u]
    BY <1>0, <1>4 DEF CallFails, Finish, Goto, TypeOK
  <2>2. pc'[t] = "idle" /\ pc[t] \in {"call", "usage", "probe"}
    BY <1>0, <1>4 DEF CallFails, Finish, Goto, TypeOK
  <2>3. /\ UNCHANGED <<file, scaffolded, emitted, excess, billed>>
        /\ \A u \in Task \ {t} : usage'[u] = usage[u]
        /\ \A u \in Task : seen'[u] \in {seen[u], Empty}
    BY <1>0, <1>4 DEF CallFails, Finish, server, TypeOK
  <2>4. CopiesCovered'
    BY <1>0, <1>n, <2>1, <2>2, <2>3, TaskMoves, CopiesKeep DEF CopiesCovered
  <2>5. CountsCovered'
    BY <1>0, <1>n, <1>t, <2>1, <2>2, <2>3, TaskMoves, CountsKeep
  <2> QED
    BY <2>4, <2>5
<1>5. ASSUME NEW t \in Task, Report(t) PROVE Goal
  <2>1. \A u \in Task \ {t} : of'[u] = of[u] /\ pc'[u] = pc[u] /\ usage'[u] = usage[u]
    BY <1>0, <1>5 DEF Report, Goto, TypeOK
  <2>2. of'[t] = of[t] /\ pc'[t] = "observe" /\ pc[t] \in {"usage", "probe"}
    BY <1>0, <1>5 DEF Report, Goto, TypeOK
  <2>3. usage'[t] <= billed[of[t]] /\ UNCHANGED <<file, seen, scaffolded, emitted, excess, billed>>
    BY <1>0, <1>5 DEF Report, TypeOK
  <2>4. CopiesCovered'
    BY <1>0, <1>n, <2>1, <2>2, <2>3, TaskMoves, CopiesKeep DEF CopiesCovered
  <2>5. CountsCovered'
    BY <1>0, <1>n, <1>t, <2>1, <2>2, <2>3, TaskMoves, CountsKeep
  <2> QED
    BY <2>4, <2>5
<1>6. ASSUME NEW t \in Task, Bill(t) PROVE Goal
  <2>1. \A u \in Task \ {t} : of'[u] = of[u] /\ pc'[u] = pc[u] /\ usage'[u] = usage[u]
    BY <1>0, <1>6 DEF Bill, Finish, Goto, TypeOK
  <2>2. pc[t] = "call" /\ of[t] \in Provider
    BY <1>0, <1>6 DEF Bill, IdleIsOfNobody
  <2>3. pc'[t] = "idle" \/ (pc'[t] = "observe" /\ of'[t] = of[t] /\ usage'[t] <= billed'[of[t]])
    BY <1>0, <1>6, <1>t, <2>2 DEF Bill, Finish, Goto, TypeOK
  <2>c. PICK charge \in Nat : charge = Decrement(t) + unknown[t] /\ charge >= 1
    BY <1>0, Charges
  <2>4. /\ UNCHANGED <<file, scaffolded, emitted>>
        /\ \A u \in Task : seen'[u] \in {seen[u], Empty}
    BY <1>0, <1>6 DEF Bill, Finish, TypeOK
  <2>d. \A q \in Provider :
          /\ billed'[q] = IF q = of[t] THEN billed[q] + charge ELSE billed[q]
          /\ excess'[q] = IF q = of[t] THEN excess[q] + charge - 1 ELSE excess[q]
    BY <1>0, <1>6, <1>n, <2>2, <2>c, Charges, BillCharges
  <2>5. CopiesCovered'
    BY <1>0, <1>n, <2>1, <2>2, <2>3, <2>4, <2>c, <2>d, TaskMoves, CopiesKeep DEF CopiesCovered
  <2>6. \A q \in Provider :
          /\ Cardinality(Uncharged(q)) \in Nat /\ Cardinality(Uncharged(q)') \in Nat
          /\ Cardinality(Uncharged(q)') = Cardinality(Uncharged(q)) - (IF q = of[t] THEN 1 ELSE 0)
    BY <2>1, <2>2, <2>3, TaskMoves
  <2>7. CountsCovered'
    BY <1>0, <1>n, <1>t, <2>1, <2>2, <2>3, <2>4, <2>6, <2>c, <2>d, CountsKeep
  <2> QED
    BY <2>5, <2>7
<1>7. ASSUME NEW t \in Task, WriteConsumption(t) PROVE Goal
  <2>a. of[t] \in Provider /\ seen[t][of[t]] \in Snapshot \cup {None}
    BY <1>0, <1>7 DEF WriteConsumption, IdleIsOfNobody, TypeOK, State
  <2>b. PICK p \in Provider : p = of[t]
    BY <2>a
  <2>c. PICK prior \in Snapshot \cup {None} : prior = seen[t][p]
    BY <2>a, <2>b
  <2>d. PICK delta \in {0, 1} : delta = Decrement(t)
    BY <1>0, Charges
  <2>1. \A u \in Task \ {t} : of'[u] = of[u] /\ pc'[u] = pc[u]
    BY <1>0, <1>7 DEF WriteConsumption, Goto, TypeOK
  <2>2. pc[t] = "consumeWrite" /\ pc'[t] = "call" /\ of'[t] = of[t]
    BY <1>0, <1>7 DEF WriteConsumption, Goto, TypeOK
  <2>4. /\ UNCHANGED <<scaffolded, emitted, excess, billed, usage>>
        /\ \A u \in Task : seen'[u] \in {seen[u], Empty}
    BY <1>0, <1>7 DEF WriteConsumption, server, TypeOK
  <2>5. \A q \in Provider :
          /\ Cardinality(Unwritten(q)) \in Nat /\ Cardinality(Unwritten(q)') \in Nat
          /\ Cardinality(Unwritten(q)') = Cardinality(Unwritten(q)) - (IF q = p THEN 1 ELSE 0)
    BY <2>1, <2>2, <2>b, TaskMoves
  <2>6. Consumed(prior, delta) \in Snapshot
    BY ConsumedBounds
  <2>7. Covered(file)'
    <3>1. CASE ReplaceFails(t)
      BY <1>0, <1>n, <2>4, <2>5, <3>1, CopiesKeep DEF ReplaceFails, CopiesCovered
    <3>2. CASE Replace(t, Consumed(prior, delta))
      <4>1. \A q \in Provider : file'[q] = IF q = p THEN Consumed(prior, delta) ELSE seen[t][q]
        BY <1>0, <2>6, <2>b, <3>2, ReplaceType
      <4>2. /\ Consumed(prior, delta).used + Cardinality(Unwritten(p)') <= emitted'[p] + excess'[p] + scaffolded'[p]
            /\ Consumed(prior, delta).pending + Cardinality(Unwritten(p)') <= emitted'[p]
        <5>1. CASE prior = None
          <6>1. Cardinality(Unwritten(p)) <= emitted[p]
            BY <1>0 DEF CopiesCovered, Covered
          <6> QED
            BY <1>n, <2>4, <2>5, <5>1, <6>1, ConsumedBounds
        <5>2. CASE prior # None
          <6>1. /\ prior.used + Cardinality(Unwritten(p)) <= emitted[p] + excess[p] + scaffolded[p]
                /\ prior.pending + Cardinality(Unwritten(p)) <= emitted[p]
            BY <1>0, <2>c, <5>2 DEF CopiesCovered, Covered
          <6>2. /\ prior.used \in Nat /\ prior.pending \in Nat
                /\ Consumed(prior, delta).used \in Nat /\ Consumed(prior, delta).pending \in Nat
            BY <2>6, <5>2 DEF Snapshot
          <6>3. Consumed(prior, delta).used <= prior.used + delta /\ Consumed(prior, delta).pending = prior.pending + delta
            BY <5>2, ConsumedBounds
          <6> QED
            BY <1>n, <2>4, <2>5, <6>1, <6>2, <6>3
        <5> QED
          BY <5>1, <5>2
      <4>3. ASSUME NEW q \in Provider, q # p, seen[t][q] # None
            PROVE  /\ seen[t][q].used + Cardinality(Unwritten(q)') <= emitted'[q] + excess'[q] + scaffolded'[q]
                   /\ seen[t][q].pending + Cardinality(Unwritten(q)') <= emitted'[q]
        BY <1>0, <2>4, <2>5, <4>3 DEF CopiesCovered, Covered
      <4>4. \A q \in Provider : Cardinality(Unwritten(q)') <= emitted'[q]
        BY <1>0, <1>n, <2>4, <2>5 DEF CopiesCovered, Covered
      <4> QED
        BY <4>1, <4>2, <4>3, <4>4 DEF Covered
    <3> QED
      BY <1>7, <2>b, <2>c, <2>d, <3>1, <3>2 DEF WriteConsumption
  <2>8. CopiesCovered'
    BY <1>0, <1>n, <2>4, <2>5, <2>7, CopiesKeep DEF CopiesCovered
  <2>9. CountsCovered'
    BY <1>0, <1>n, <1>t, <2>1, <2>2, <2>4, TaskMoves, CountsKeep
  <2> QED
    BY <2>8, <2>9
<1>8. ASSUME NEW t \in Task, WriteObserved(t) PROVE Goal
  <2>a. of[t] \in Provider /\ seen[t][of[t]] \in Snapshot \cup {None}
    BY <1>0, <1>8 DEF WriteObserved, IdleIsOfNobody, TypeOK, State
  <2>b. PICK p \in Provider : p = of[t]
    BY <2>a
  <2>c. PICK prior \in Snapshot \cup {None} : prior = seen[t][p]
    BY <2>a, <2>b
  <2>d. usage[t] \in Nat /\ Pending(prior) \in Nat /\ Observed(prior, usage[t]) \in Snapshot
    BY <1>n, ObservedBounds DEF Pending, Snapshot
  <2>e. PICK fresh \in Snapshot : fresh = Observed(prior, usage[t])
    BY <2>d
  <2>1. \A u \in Task \ {t} : of'[u] = of[u] /\ pc'[u] = pc[u] /\ usage'[u] = usage[u]
    BY <1>0, <1>8 DEF WriteObserved, Finish, Goto, TypeOK
  <2>2. pc[t] = "observeWrite" /\ pc'[t] = "idle"
    BY <1>0, <1>8 DEF WriteObserved, Finish, Goto, TypeOK
  <2>4. /\ UNCHANGED <<emitted, excess, billed>>
        /\ \A u \in Task : seen'[u] \in {seen[u], Empty}
    BY <1>0, <1>8 DEF WriteObserved, Finish, server, TypeOK
  <2>5. \A q \in Provider :
          /\ Cardinality(Unwritten(q)) \in Nat /\ Cardinality(Unwritten(q)') = Cardinality(Unwritten(q))
          /\ Cardinality(Uncharged(q)) \in Nat /\ Cardinality(Uncharged(q)') = Cardinality(Uncharged(q))
    BY <2>1, <2>2, TaskMoves
  <2>7. \A q \in Provider : scaffolded'[q] >= scaffolded[q]
    BY <1>0, <1>8, <1>n, <2>b, <2>c, <2>d DEF WriteObserved, TypeOK
  <2>8. Covered(file)'
    <3>1. CASE ReplaceFails(t)
      BY <1>0, <1>n, <2>4, <2>5, <2>7, <3>1, CopiesKeep DEF ReplaceFails, CopiesCovered
    <3>2. CASE Replace(t, fresh)
               /\ scaffolded' = [scaffolded EXCEPT ![p] =
                      IF prior # None /\ prior.observed THEN @ ELSE @ + Pending(prior)]
      <4>1. \A q \in Provider : file'[q] = IF q = p THEN fresh ELSE seen[t][q]
        BY <1>0, <2>b, <3>2, ReplaceType
      <4>2. fresh.used \in Nat /\ fresh.pending \in Nat
        BY DEF Snapshot
      <4>3. usage[t] + Cardinality(Unwritten(p)) <= emitted[p] + excess[p]
        <5>1. usage[t] + Cardinality(Uncharged(p)) <= emitted[p] + excess[p]
          BY <1>0, <2>2, <2>b DEF CountsCovered
        <5>2. IsFiniteSet(Uncharged(p)) /\ Unwritten(p) \in SUBSET Uncharged(p)
          BY ConstantsAssumption, FS_Subset DEF Uncharged, Unwritten, At
        <5>3. Cardinality(Unwritten(p)) <= Cardinality(Uncharged(p))
          BY <5>2, FS_Subset
        <5> QED
          BY <1>n, <2>5, <2>d, <5>1, <5>3
      <4>4. Pending(prior) + Cardinality(Unwritten(p)) <= emitted[p]
        <5>1. CASE prior = None
          BY <1>0, <1>n, <2>5, <2>d, <5>1 DEF Pending, CopiesCovered, Covered
        <5>2. CASE prior # None
          BY <1>0, <2>c, <5>2 DEF CopiesCovered, Covered, Pending
        <5> QED
          BY <5>1, <5>2
      <4>5. fresh.pending + Cardinality(Unwritten(p)') <= emitted'[p]
        <5>1. fresh.pending <= Pending(prior)
          BY <2>d, <2>e, ObservedBounds
        <5> QED
          BY <1>n, <2>4, <2>5, <2>d, <4>2, <4>4, <5>1
      <4>6. fresh.used + Cardinality(Unwritten(p)') <= emitted'[p] + excess'[p] + scaffolded'[p]
        <5>1. CASE prior # None /\ prior.observed
          <6>1. fresh.used <= usage[t] \/ fresh.used <= prior.used
            BY <2>d, <2>e, <5>1, ObservedBounds
          <6>2. prior.used + Cardinality(Unwritten(p)) <= emitted[p] + excess[p] + scaffolded[p] /\ prior.used \in Nat
            BY <1>0, <2>c, <5>1 DEF CopiesCovered, Covered, Snapshot
          <6>3. scaffolded'[p] \in Nat /\ scaffolded'[p] >= scaffolded[p]
            BY <1>n, <2>7
          <6> QED
            BY <1>n, <2>4, <2>5, <2>d, <4>2, <4>3, <6>1, <6>2, <6>3
        <5>2. CASE ~(prior # None /\ prior.observed)
          <6>1. fresh.used = usage[t] + fresh.pending /\ fresh.pending = Pending(prior)
            BY <2>d, <2>e, <5>2, ObservedBounds
          <6>2. scaffolded'[p] = scaffolded[p] + Pending(prior)
            BY <1>0, <3>2, <5>2 DEF TypeOK
          <6> QED
            BY <1>n, <2>4, <2>5, <2>d, <4>2, <4>3, <6>1, <6>2
        <5> QED
          BY <5>1, <5>2
      <4>7. ASSUME NEW q \in Provider, q # p, seen[t][q] # None
            PROVE  /\ seen[t][q].used + Cardinality(Unwritten(q)') <= emitted'[q] + excess'[q] + scaffolded'[q]
                   /\ seen[t][q].pending + Cardinality(Unwritten(q)') <= emitted'[q]
        <5>1. /\ seen[t][q].used + Cardinality(Unwritten(q)) <= emitted[q] + excess[q] + scaffolded[q]
              /\ seen[t][q].pending + Cardinality(Unwritten(q)) <= emitted[q]
          BY <1>0, <4>7 DEF CopiesCovered, Covered
        <5>2. seen[t][q].used \in Nat
          BY <1>0, <4>7 DEF TypeOK, State, Snapshot
        <5> QED
          BY <1>n, <2>4, <2>5, <2>7, <4>7, <5>1, <5>2
      <4>8. \A q \in Provider : Cardinality(Unwritten(q)') <= emitted'[q]
        BY <1>0, <1>n, <2>4, <2>5 DEF CopiesCovered, Covered
      <4> QED
        BY <4>1, <4>5, <4>6, <4>7, <4>8 DEF Covered
    <3> QED
      BY <1>8, <2>b, <2>c, <2>e, <3>1, <3>2 DEF WriteObserved
  <2>9. CopiesCovered'
    BY <1>0, <1>n, <2>4, <2>5, <2>7, <2>8, CopiesKeep DEF CopiesCovered
  <2>10. CountsCovered'
    BY <1>0, <1>n, <1>t, <2>1, <2>2, <2>4, <2>5, CountsKeep
  <2> QED
    BY <2>9, <2>10
<1>9. ASSUME NEW s \in Process, Crash(s) PROVE Goal
  <2>1. \A t \in Task : \/ of'[t] = of[t] /\ pc'[t] = pc[t] /\ usage'[t] = usage[t]
                        \/ pc'[t] = "idle"
    BY <1>0, <1>9 DEF Crash, TypeOK
  <2>2. /\ UNCHANGED <<file, scaffolded, emitted, excess, billed>>
        /\ \A t \in Task : seen'[t] \in {seen[t], Empty}
    BY <1>0, <1>9 DEF Crash, server, TypeOK
  <2>3. CopiesCovered'
    BY <1>0, <1>n, <2>1, <2>2, TasksLeave, CopiesKeep DEF CopiesCovered
  <2>4. CountsCovered'
    BY <1>0, <1>n, <1>t, <2>1, <2>2, TasksLeave, CountsKeep
  <2> QED
    BY <2>3, <2>4
<1>10. ASSUME NEW p \in Provider, Age(p) PROVE Goal
  <2>1. UNCHANGED <<pc, of, usage, billed, emitted, excess, scaffolded>>
    BY <1>10 DEF Age, server
  <2>2. \A q \in Provider : /\ Unwritten(q)' = Unwritten(q)
                            /\ Uncharged(q)' = Uncharged(q)
    BY <2>1 DEF Unwritten, Uncharged, At
  <2>3. /\ file' = Aged(file, p) /\ file \in State
        /\ \A t \in Task : seen'[t] = Aged(seen[t], p) /\ seen[t] \in State
    BY <1>0, <1>10 DEF Age, TypeOK
  <2>4. ASSUME NEW CONSTANT q \in Provider PROVE Cardinality(Unwritten(q)') = Cardinality(Unwritten(q))
    BY <2>2
  <2>6. Covered(file)'
    <3>1. Covered(file)
      BY <1>0 DEF CopiesCovered
    <3> QED
      BY <2>1, <2>3, <2>4, <3>1, AgedBounds DEF Covered
  <2>7. ASSUME NEW t \in Task PROVE Covered(seen[t])'
    <3>1. Covered(seen[t])
      BY <1>0 DEF CopiesCovered
    <3>2. \A q \in Provider :
            /\ seen'[t][q] = None <=> seen[t][q] = None
            /\ seen[t][q] # None => /\ seen'[t][q].used = seen[t][q].used
                                    /\ seen'[t][q].pending = seen[t][q].pending
      BY <2>3, AgedBounds
    <3> QED
      BY <2>1, <2>4, <3>1, <3>2 DEF Covered
  <2>5. CountsCovered'
    BY <1>0, <1>t, <2>1, <2>2 DEF CountsCovered, Uncharged, At
  <2> QED
    BY <2>5, <2>6, <2>7 DEF CopiesCovered
<1>11. ASSUME NEW p \in Provider, ResetWindow(p) PROVE Goal
  <2>1. UNCHANGED <<file, seen, pc, of, usage, emitted, excess, scaffolded>>
    BY <1>11 DEF ResetWindow
  <2>2. \A q \in Provider : billed'[q] <= billed[q]
    BY <1>0, <1>11, <1>n DEF ResetWindow, TypeOK
  <2>3. CopiesCovered'
    BY <1>0, <2>1 DEF CopiesCovered, Covered, Unwritten, At
  <2>4. \A t \in Task : of'[t] = of[t] /\ pc'[t] = pc[t]
    BY <2>1
  <2>5. CountsCovered'
    BY <1>0, <1>n, <1>t, <2>1, <2>2, <2>4, TasksLeave, CountsKeep
  <2> QED
    BY <2>3, <2>5
<1>12. ASSUME UNCHANGED vars PROVE Goal
  <2>1. UNCHANGED <<file, seen, pc, of, usage, billed, emitted, excess, scaffolded>>
    BY <1>12 DEF vars, server
  <2>2. CopiesCovered'
    BY <1>0, <2>1 DEF CopiesCovered, Covered, Unwritten, At
  <2>3. CountsCovered'
    BY <1>0, <2>1 DEF CountsCovered, Uncharged, At
  <2> QED
    BY <2>2, <2>3
<1> HIDE DEF Goal
<1>13. ASSUME Next PROVE Goal
  BY <1>1, <1>2, <1>3, <1>4, <1>5, <1>6, <1>7, <1>8, <1>9, <1>10, <1>11, <1>13 DEF Next, Step
<1>14. Goal
  BY <1>12, <1>13 DEF Goal
<1> QED
  BY <1>t, <1>14 DEF Goal, IInv

\* No call is counted twice in the estimate of a provider, except those from
\* before a first harvest.
THEOREM NoDoubleCountHolds == Spec => []NoDoubleCount
<1>1. IInv => NoDoubleCount
  <2> SUFFICES ASSUME IInv, NEW p \in Provider, file[p] # None
               PROVE  /\ file[p].used <= emitted[p] + excess[p] + scaffolded[p]
                      /\ file[p].pending <= emitted[p]
    BY DEF NoDoubleCount
  <2>1. /\ file[p].used + Cardinality(Unwritten(p)) <= emitted[p] + excess[p] + scaffolded[p]
        /\ file[p].pending + Cardinality(Unwritten(p)) <= emitted[p]
    BY DEF IInv, CopiesCovered, Covered
  <2>2. file[p] \in Snapshot /\ emitted[p] \in Nat /\ scaffolded[p] \in Nat /\ excess[p] \in Nat
    BY ConstantsAssumption DEF IInv, TypeOK, State
  <2>3. Cardinality(Unwritten(p)) \in Nat
    BY ConstantsAssumption, FS_Subset, FS_CardinalityType DEF Unwritten, At
  <2> QED
    BY <2>1, <2>2, <2>3 DEF Snapshot
<1> QED
  BY <1>1, InitIInv, NextIInv, PTL DEF Spec

-----------------------------------------------------------------------------
\* Nothing is forgotten: the estimate covers what was charged.
LEMMA InitUInv == Init => UInv
<1> SUFFICES ASSUME Init PROVE UInv
  OBVIOUS
<1>1. \A p \in Provider : Cardinality(Calls(p)) = 0
  <2>1. \A p \in Provider : Calls(p) = {}
    BY DEF Init, Calls
  <2> QED
    BY <2>1, FS_EmptySet
<1>2. OneWriter /\ ReadsAreCurrent /\ CountsAreCharged
  BY DEF Init, OneWriter, ReadsAreCurrent, CountsAreCharged, Writing
<1>3. \A p \in Provider : Counted(p)
  BY <1>1 DEF Init, Counted, Empty
<1> QED
  BY <1>2, <1>3 DEF UInv

\* A step that begins no read and writes no snapshot.
LEMMA UKeeps ==
    ASSUME TypeOK, TypeOK', UInv,
           UNCHANGED <<file, latest, processOf>>, disturbed \subseteq disturbed',
           \A t \in Task : Writing(t)' =>
               Writing(t) /\ (t \in outdated => t \in outdated') /\ seen'[t] = seen[t],
           \A t \in Task : pc'[t] \in {"observe", "observeWrite"} /\ t \notin heldOver' =>
               usage'[t] <= billed'[of'[t]],
           \A p \in Provider \ disturbed' :
               /\ Cardinality(Calls(p)) \in Nat /\ Cardinality(Calls(p)') \in Nat
               /\ Cardinality(Calls(p)') <= Cardinality(Calls(p))
               /\ unmeasured'[p] >= unmeasured[p]
               /\ billed'[p] + Cardinality(Calls(p)') - unmeasured'[p] <=
                    billed[p] + Cardinality(Calls(p)) - unmeasured[p]
    PROVE  UInv'
<1>1. OneWriter'
  BY DEF UInv, OneWriter
<1>2. ReadsAreCurrent'
  BY DEF UInv, ReadsAreCurrent
<1>3. CountsAreCharged'
  BY DEF CountsAreCharged
<1>4. ASSUME NEW CONSTANT p \in Provider, p \notin disturbed' PROVE Counted(p)'
  <2>1. Counted(p)
    BY <1>4 DEF UInv
  <2>2. /\ file' = file /\ latest' = latest /\ latest[p] \in Nat
        /\ billed[p] \in Nat /\ billed'[p] \in Nat
        /\ unmeasured[p] \in Nat /\ unmeasured'[p] \in Nat
        /\ file[p] # None => file[p].used \in Nat /\ file[p].pending \in Nat
    BY DEF TypeOK, State, Snapshot
  <2> QED
    BY <1>4, <2>1, <2>2 DEF Counted
<1> QED
  BY <1>1, <1>2, <1>3, <1>4 DEF UInv

\* A replace: the writer's copy of an undisturbed provider was what the file
\* held, and every other task that is about to write is overtaken.
LEMMA ReplaceKeeps ==
    ASSUME TypeOK, UInv, NEW t \in Task, Writing(t), of[t] \in Provider,
           NEW snapshot \in Snapshot, Replace(t, snapshot)
    PROVE  /\ disturbed \subseteq disturbed'
           /\ \A p \in Provider \ disturbed' : seen[t][p] = file[p]
           /\ \A u \in Task \ {t} : Writing(u) => u \in outdated'
<1>1. disturbed \subseteq disturbed'
  BY DEF Replace
<1>2. ASSUME NEW p \in Provider, p \notin disturbed' PROVE seen[t][p] = file[p]
  BY <1>1, <1>2 DEF Replace, UInv, ReadsAreCurrent
<1>3. ASSUME NEW u \in Task, u # t, Writing(u) PROVE u \in outdated'
  <2>1. processOf[u] # processOf[t]
    BY <1>3 DEF UInv, OneWriter
  <2>2. u \notin Peers(t)
    BY <2>1 DEF Peers
  <2> QED
    BY <1>3, <2>2 DEF Replace
<1> QED
  BY <1>1, <1>2, <1>3

\* Two copies that agree on a provider get old alike.
LEMMA AgedAlike ==
    ASSUME NEW s \in State, NEW u \in State, NEW p \in Provider, NEW q \in Provider, s[q] = u[q]
    PROVE  Aged(s, p)[q] = Aged(u, p)[q]
<1>1. ASSUME NEW v \in State, q = p, v[p] # None
      PROVE  Aged(v, p)[q] = [v[p] EXCEPT !.fresh = FALSE]
  BY <1>1 DEF Aged, State
<1>2. ASSUME NEW v \in State, q # p \/ v[p] = None
      PROVE  Aged(v, p)[q] = v[q]
  BY <1>2 DEF Aged, State
<1>3. CASE q = p /\ s[p] # None
  <2>1. u[p] = s[p]
    BY <1>3
  <2> QED
    BY <1>1, <1>3, <2>1
<1>4. CASE q # p \/ s[p] = None
  BY <1>2, <1>4
<1> QED
  BY <1>3, <1>4

\* Every step keeps the lower bounds of the undisturbed providers.
LEMMA NextUInv == IInv /\ UInv /\ [Next]_vars => UInv'
<1> SUFFICES ASSUME IInv, UInv, [Next]_vars PROVE UInv'
  OBVIOUS
<1>0. TypeOK /\ IdleIsOfNobody
  BY DEF IInv
<1>t. TypeOK' /\ IdleIsOfNobody'
  BY <1>0, NextType
<1>n. /\ \A p \in Provider : /\ billed[p] \in Nat /\ billed'[p] \in Nat
                             /\ latest[p] \in Nat /\ latest'[p] \in Nat
                             /\ unmeasured[p] \in Nat /\ unmeasured'[p] \in Nat
      /\ \A t \in Task : usage[t] \in Nat
  BY <1>0, <1>t DEF TypeOK
<1>c. \A t \in Task : pc[t] \in {"observe", "observeWrite"} /\ t \notin heldOver =>
        usage[t] <= billed[of[t]]
  BY DEF UInv, CountsAreCharged
<1>1. ASSUME NEW t \in Task, NEW p \in Provider, Emit(t, p), UNCHANGED processOf PROVE UInv'
  <2>1. \A u \in Task \ {t} : of'[u] = of[u] /\ pc'[u] = pc[u] /\ unknown'[u] = unknown[u]
    BY <1>0, <1>1 DEF Emit, Goto, TypeOK
  <2>2. of'[t] = p /\ pc'[t] = "consume" /\ pc[t] = "idle"
    BY <1>0, <1>1 DEF Emit, Goto, TypeOK
  <2>3. UNCHANGED <<file, latest, seen, billed, unmeasured, usage, outdated, heldOver, disturbed>>
    BY <1>1 DEF Emit, server
  <2> QED
    BY <1>0, <1>1, <1>t, <1>n, <1>c, <2>1, <2>2, <2>3, CallsMove, UKeeps DEF Writing
<1>2. ASSUME NEW t \in Task, NEW p \in Provider, Refresh(t, p), UNCHANGED processOf PROVE UInv'
  <2>1. \A u \in Task \ {t} : of'[u] = of[u] /\ pc'[u] = pc[u] /\ unknown'[u] = unknown[u]
    BY <1>0, <1>2 DEF Refresh, Goto, TypeOK
  <2>2. pc'[t] \in {"usage", "probe"} /\ pc[t] = "idle"
    BY <1>0, <1>2 DEF Refresh, Goto, TypeOK
  <2>3. UNCHANGED <<file, latest, seen, billed, unmeasured, usage, outdated, heldOver, disturbed>>
    BY <1>2 DEF Refresh, server
  <2> QED
    BY <1>0, <1>2, <1>t, <1>n, <1>c, <2>1, <2>2, <2>3, CallsMove, UKeeps DEF Writing
<1>3. ASSUME NEW t \in Task, ReadState(t), UNCHANGED processOf PROVE UInv'
  <2>1. \A u \in Task \ {t} : of'[u] = of[u] /\ pc'[u] = pc[u] /\ unknown'[u] = unknown[u] /\ seen'[u] = seen[u]
    BY <1>0, <1>3 DEF ReadState, Goto, TypeOK
  <2>2. /\ of'[t] = of[t]
        /\ \/ pc[t] = "consume" /\ pc'[t] = "consumeWrite"
           \/ pc[t] = "observe" /\ pc'[t] = "observeWrite"
    BY <1>0, <1>3 DEF ReadState, Goto, TypeOK
  <2>3. UNCHANGED <<file, latest, billed, unmeasured, usage, outdated, heldOver, processOf>>
    BY <1>3 DEF ReadState, server
  <2>4. /\ disturbed \subseteq disturbed'
        /\ \A p \in Provider \ disturbed' : seen'[t][p] = file[p]
    BY <1>0, <1>3 DEF ReadState, TypeOK, Empty
  <2>5. OneWriter'
    <3>1. \A u \in Task : processOf[u] = processOf[t] => ~Writing(u)
      BY <1>3 DEF ReadState, Serialized, Peers
    <3> QED
      BY <2>1, <2>3, <3>1 DEF UInv, OneWriter, Writing
  <2>6. ReadsAreCurrent'
    BY <2>1, <2>3, <2>4 DEF UInv, ReadsAreCurrent, Writing
  <2>7. CountsAreCharged'
    BY <1>c, <2>1, <2>2, <2>3 DEF CountsAreCharged
  <2>8. ASSUME NEW CONSTANT p \in Provider, p \notin disturbed' PROVE Counted(p)'
    <3>1. Counted(p)
      BY <2>4, <2>8 DEF UInv
    <3>2. Cardinality(Calls(p)') = Cardinality(Calls(p))
      BY <2>1, <2>2, CallsMove
    <3> QED
      BY <2>3, <3>1, <3>2 DEF Counted
  <2> QED
    BY <2>5, <2>6, <2>7, <2>8 DEF UInv
<1>4. ASSUME NEW t \in Task, CallFails(t), UNCHANGED processOf PROVE UInv'
  <2>1. \A u \in Task \ {t} : of'[u] = of[u] /\ pc'[u] = pc[u] /\ unknown'[u] = unknown[u] /\ seen'[u] = seen[u] /\ usage'[u] = usage[u]
    BY <1>0, <1>4 DEF CallFails, Finish, Goto, TypeOK
  <2>2. pc'[t] = "idle" /\ pc[t] \in {"call", "usage", "probe"}
    BY <1>0, <1>4 DEF CallFails, Finish, Goto, TypeOK
  <2>3. UNCHANGED <<file, latest, billed, unmeasured, outdated, disturbed>> /\ heldOver' = heldOver \ {t}
    BY <1>4 DEF CallFails, Finish, server
  <2> QED
    BY <1>0, <1>4, <1>t, <1>n, <1>c, <2>1, <2>2, <2>3, CallsMove, UKeeps DEF Writing
<1>5. ASSUME NEW t \in Task, Report(t), UNCHANGED processOf PROVE UInv'
  <2>1. \A u \in Task \ {t} : of'[u] = of[u] /\ pc'[u] = pc[u] /\ unknown'[u] = unknown[u] /\ usage'[u] = usage[u]
    BY <1>0, <1>5 DEF Report, Goto, TypeOK
  <2>2. of'[t] = of[t] /\ pc'[t] = "observe" /\ pc[t] \in {"usage", "probe"}
    BY <1>0, <1>5 DEF Report, Goto, TypeOK
  <2>3. /\ usage'[t] <= billed[of[t]]
        /\ UNCHANGED <<file, latest, seen, billed, unmeasured, outdated, heldOver, disturbed>>
    BY <1>0, <1>5 DEF Report, TypeOK
  <2> QED
    BY <1>0, <1>5, <1>t, <1>n, <1>c, <2>1, <2>2, <2>3, CallsMove, UKeeps DEF Writing
<1>6. ASSUME NEW t \in Task, Bill(t), UNCHANGED processOf PROVE UInv'
  <2>1. \A u \in Task \ {t} : of'[u] = of[u] /\ pc'[u] = pc[u] /\ unknown'[u] = unknown[u] /\ seen'[u] = seen[u] /\ usage'[u] = usage[u]
    BY <1>0, <1>6 DEF Bill, Finish, Goto, TypeOK
  <2>2. pc[t] = "call" /\ of[t] \in Provider
    BY <1>0, <1>6 DEF Bill, IdleIsOfNobody
  <2>3. pc'[t] = "idle" \/ (pc'[t] = "observe" /\ of'[t] = of[t] /\ usage'[t] <= billed'[of[t]])
    BY <1>0, <1>6, <1>t, <2>2 DEF Bill, Finish, Goto, TypeOK
  <2>4. /\ UNCHANGED <<file, latest, outdated, disturbed>> /\ heldOver \ {t} \subseteq heldOver'
    BY <1>0, <1>6 DEF Bill, Finish, TypeOK
  <2>c. /\ unknown[t] \in Nat /\ Decrement(t) \in {0, 1}
        /\ Decrement(t) = 1 <=> unknown[t] = 0
    BY <1>0, Charges
  <2>d. \A q \in Provider :
          /\ billed'[q] = IF q = of[t] THEN billed[q] + Decrement(t) + unknown[t] ELSE billed[q]
          /\ unmeasured'[q] = IF q = of[t] THEN unmeasured[q] + unknown[t] ELSE unmeasured[q]
    BY <1>0, <1>6, <2>2, BillCharges
  <2>5. \A u \in Task : pc'[u] \in {"observe", "observeWrite"} /\ u \notin heldOver' =>
          usage'[u] <= billed'[of'[u]]
    <3> SUFFICES ASSUME NEW u \in Task, pc'[u] \in {"observe", "observeWrite"}, u \notin heldOver'
                 PROVE  usage'[u] <= billed'[of'[u]]
      OBVIOUS
    <3>1. CASE u = t
      BY <2>3, <3>1
    <3>2. CASE u # t
      <4>1. usage[u] <= billed[of[u]] /\ of[u] \in Provider
        BY <1>0, <1>c, <2>1, <2>4, <3>2 DEF IdleIsOfNobody
      <4> QED
        BY <1>n, <2>1, <2>c, <2>d, <3>2, <4>1
    <3> QED
      BY <3>1, <3>2
  <2>6. \A q \in Provider :
          /\ Cardinality(Calls(q)) \in Nat /\ Cardinality(Calls(q)') \in Nat
          /\ Cardinality(Calls(q)') = Cardinality(Calls(q)) - (IF q = of[t] THEN Decrement(t) ELSE 0)
          /\ Cardinality(Calls(q)') <= Cardinality(Calls(q))
    BY <2>1, <2>2, <2>3, <2>c, CallsMove
  <2>7. \A u \in Task : Writing(u)' =>
          Writing(u) /\ (u \in outdated => u \in outdated') /\ seen'[u] = seen[u]
    BY <2>1, <2>2, <2>3, <2>4 DEF Writing
  <2> QED
    BY <1>0, <1>6, <1>t, <1>n, <2>4, <2>5, <2>6, <2>7, <2>c, <2>d, UKeeps
<1>7. ASSUME NEW t \in Task, WriteConsumption(t), UNCHANGED processOf PROVE UInv'
  <2>a. of[t] \in Provider /\ seen[t][of[t]] \in Snapshot \cup {None}
    BY <1>0, <1>7 DEF WriteConsumption, IdleIsOfNobody, TypeOK, State
  <2>b. PICK p \in Provider : p = of[t]
    BY <2>a
  <2>c. PICK prior \in Snapshot \cup {None} : prior = seen[t][p]
    BY <2>a, <2>b
  <2>d. PICK delta \in {0, 1} : delta = Decrement(t)
    BY <1>0, Charges
  <2>e. unknown'[t] = unknown[t] /\ (delta = 1 <=> unknown[t] = 0)
    BY <1>0, <1>7, <2>d, Charges DEF WriteConsumption
  <2>1. \A u \in Task \ {t} : of'[u] = of[u] /\ pc'[u] = pc[u] /\ unknown'[u] = unknown[u] /\ seen'[u] = seen[u]
    BY <1>0, <1>7 DEF WriteConsumption, Goto, TypeOK
  <2>2. pc[t] = "consumeWrite" /\ pc'[t] = "call" /\ of'[t] = of[t] /\ Writing(t)
    BY <1>0, <1>7 DEF WriteConsumption, Goto, TypeOK, Writing
  <2>3. UNCHANGED <<latest, billed, unmeasured, usage, heldOver, processOf>>
    BY <1>7 DEF WriteConsumption, server
  <2>4. \A q \in Provider :
          /\ Cardinality(Calls(q)) \in Nat /\ Cardinality(Calls(q)') \in Nat
          /\ Cardinality(Calls(q)') = Cardinality(Calls(q)) + (IF q = p THEN delta ELSE 0)
    BY <2>1, <2>2, <2>b, <2>d, <2>e, CallsMove
  <2>5. \A u \in Task : pc'[u] \in {"observe", "observeWrite"} /\ u \notin heldOver' =>
          usage'[u] <= billed'[of'[u]]
    BY <1>c, <2>1, <2>2, <2>3
  <2>6. CASE ReplaceFails(t)
    <3>1. /\ file' = file /\ outdated' = outdated \ {t}
          /\ disturbed' = disturbed \cup {p}
      BY <2>6, <2>b DEF ReplaceFails
    <3>2. \A u \in Task : Writing(u)' =>
            Writing(u) /\ (u \in outdated => u \in outdated') /\ seen'[u] = seen[u]
      BY <2>1, <2>2, <3>1 DEF Writing
    <3>3. \A q \in Provider \ disturbed' : Cardinality(Calls(q)') = Cardinality(Calls(q))
      BY <2>4, <3>1
    <3> QED
      BY <1>0, <1>t, <1>n, <2>3, <2>4, <2>5, <3>1, <3>2, <3>3, UKeeps
  <2>7. CASE Replace(t, Consumed(prior, delta))
    <3>1. Consumed(prior, delta) \in Snapshot
      BY ConsumedBounds
    <3>2. /\ \A q \in Provider : file'[q] = IF q = p THEN Consumed(prior, delta) ELSE seen[t][q]
          /\ disturbed \subseteq disturbed'
          /\ \A q \in Provider \ disturbed' : seen[t][q] = file[q]
          /\ \A u \in Task \ {t} : Writing(u) => u \in outdated'
      BY <1>0, <2>2, <2>7, <2>b, <3>1, ReplaceType, ReplaceKeeps
    <3>3. OneWriter' /\ ReadsAreCurrent'
      BY <2>1, <2>2, <2>3, <3>2 DEF UInv, OneWriter, ReadsAreCurrent, Writing
    <3>4. ASSUME NEW CONSTANT q \in Provider, q \notin disturbed', q # p PROVE Counted(q)'
      <4>1. Counted(q) /\ file'[q] = file[q]
        BY <3>2, <3>4 DEF UInv
      <4>2. Cardinality(Calls(q)') = Cardinality(Calls(q))
        BY <2>4, <3>4
      <4> QED
        BY <2>3, <4>1, <4>2 DEF Counted
    <3>5. ASSUME p \notin disturbed' PROVE Counted(p)'
      <4>1. Counted(p) /\ prior = file[p] /\ file'[p] = Consumed(prior, delta)
        BY <2>c, <3>2, <3>5 DEF UInv
      <4>2. Cardinality(Calls(p)') = Cardinality(Calls(p)) + delta /\ Cardinality(Calls(p)) \in Nat
        BY <2>4
      <4>3. /\ Consumed(prior, delta).used \in Nat /\ Consumed(prior, delta).pending \in Nat
            /\ Consumed(prior, delta) # None
        BY <3>1, NoneAssumption DEF Snapshot
      <4>4. CASE prior = None
        BY <1>n, <2>3, <4>1, <4>2, <4>3, <4>4, ConsumedBounds DEF Counted
      <4>5. CASE prior # None
        <5>1. prior.used \in Nat /\ prior.pending \in Nat
          BY <4>5 DEF Snapshot
        <5>2. Consumed(prior, delta).pending = prior.pending + delta
          BY <4>5, ConsumedBounds
        <5>3. Consumed(prior, delta).observed => prior.observed /\ Consumed(prior, delta).used = prior.used + delta
          BY <4>5, ConsumedBounds
        <5> QED
          BY <1>n, <2>3, <4>1, <4>2, <4>3, <4>5, <5>1, <5>2, <5>3 DEF Counted
      <4> QED
        BY <4>4, <4>5
    <3>6. CountsAreCharged'
      BY <2>5 DEF CountsAreCharged
    <3> QED
      BY <3>3, <3>4, <3>5, <3>6 DEF UInv
  <2> QED
    BY <1>7, <2>6, <2>7, <2>b, <2>c, <2>d DEF WriteConsumption
<1>8. ASSUME NEW t \in Task, WriteObserved(t), UNCHANGED processOf PROVE UInv'
  <2>a. of[t] \in Provider /\ seen[t][of[t]] \in Snapshot \cup {None}
    BY <1>0, <1>8 DEF WriteObserved, IdleIsOfNobody, TypeOK, State
  <2>b. PICK p \in Provider : p = of[t]
    BY <2>a
  <2>c. PICK prior \in Snapshot \cup {None} : prior = seen[t][p]
    BY <2>a, <2>b
  <2>d. usage[t] \in Nat /\ Pending(prior) \in Nat /\ Observed(prior, usage[t]) \in Snapshot
    BY <1>n, ObservedBounds DEF Pending, Snapshot
  <2>e. PICK fresh \in Snapshot : fresh = Observed(prior, usage[t])
    BY <2>d
  <2>1. \A u \in Task \ {t} : of'[u] = of[u] /\ pc'[u] = pc[u] /\ unknown'[u] = unknown[u] /\ seen'[u] = seen[u] /\ usage'[u] = usage[u]
    BY <1>0, <1>8 DEF WriteObserved, Finish, Goto, TypeOK
  <2>2. pc[t] = "observeWrite" /\ pc'[t] = "idle" /\ Writing(t)
    BY <1>0, <1>8 DEF WriteObserved, Finish, Goto, TypeOK, Writing
  <2>3. UNCHANGED <<billed, unmeasured, processOf>> /\ heldOver' = heldOver \ {t}
    BY <1>8 DEF WriteObserved, Finish, server
  <2>4. \A q \in Provider :
          Cardinality(Calls(q)) \in Nat /\ Cardinality(Calls(q)') = Cardinality(Calls(q))
    BY <2>1, <2>2, CallsMove
  <2>5. \A u \in Task : pc'[u] \in {"observe", "observeWrite"} /\ u \notin heldOver' =>
          usage'[u] <= billed'[of'[u]]
    BY <1>c, <2>1, <2>2, <2>3
  <2>6. CASE ReplaceFails(t) /\ UNCHANGED <<scaffolded, latest>>
    <3>1. file' = file /\ outdated' = outdated \ {t} /\ disturbed \subseteq disturbed'
      BY <2>6 DEF ReplaceFails
    <3>2. \A u \in Task : Writing(u)' =>
            Writing(u) /\ (u \in outdated => u \in outdated') /\ seen'[u] = seen[u]
      BY <2>1, <2>2, <3>1 DEF Writing
    <3> QED
      BY <1>0, <1>t, <1>n, <2>3, <2>4, <2>5, <2>6, <3>1, <3>2, UKeeps
  <2>7. CASE Replace(t, fresh) /\ latest' = [latest EXCEPT ![p] = Max({@, usage[t]})]
    <3>2. /\ \A q \in Provider : file'[q] = IF q = p THEN fresh ELSE seen[t][q]
          /\ disturbed \subseteq disturbed'
          /\ \A q \in Provider \ disturbed' : seen[t][q] = file[q]
          /\ \A u \in Task \ {t} : Writing(u) => u \in outdated'
      BY <1>0, <2>2, <2>7, <2>b, ReplaceType, ReplaceKeeps
    <3>3. OneWriter' /\ ReadsAreCurrent'
      BY <2>1, <2>2, <2>3, <3>2 DEF UInv, OneWriter, ReadsAreCurrent, Writing
    <3>4. ASSUME NEW CONSTANT q \in Provider, q \notin disturbed', q # p PROVE Counted(q)'
      <4>1. Counted(q) /\ file'[q] = file[q] /\ latest'[q] = latest[q]
        BY <1>0, <2>7, <3>2, <3>4 DEF UInv, TypeOK
      <4> QED
        BY <2>3, <2>4, <4>1 DEF Counted
    <3>5. ASSUME p \notin disturbed' PROVE Counted(p)'
      <4>1. Counted(p) /\ prior = file[p] /\ file'[p] = fresh
        BY <2>c, <3>2, <3>5 DEF UInv
      <4>2. Cardinality(Calls(p)') = Cardinality(Calls(p)) /\ Cardinality(Calls(p)) \in Nat
        BY <2>4
      <4>3. fresh.used \in Nat /\ fresh.pending \in Nat /\ fresh # None
        BY NoneAssumption DEF Snapshot
      <4>4. usage[t] >= latest[p] /\ t \notin heldOver
        <5>1. ~(usage[t] < latest[p] \/ t \in heldOver)
          BY <2>2, <2>7, <2>b, <3>5 DEF Replace
        <5> QED
          BY <1>n, <2>d, <5>1
      <4>5. usage[t] <= billed[p]
        BY <1>c, <2>2, <2>b, <4>4
      <4>6. latest'[p] \in Nat /\ latest'[p] >= usage[t]
        BY <1>0, <1>n, <2>7, <2>d, MaxOfTwo DEF TypeOK
      <4>7. fresh.used = usage[t] + fresh.pending
        BY <2>d, <2>e, ObservedBounds
      <4>8. /\ fresh.pending + unmeasured[p] >= Cardinality(Calls(p))
            /\ fresh.used + unmeasured[p] >= billed[p] + Cardinality(Calls(p))
        <5>1. CASE prior # None /\ prior.observed
          <6>1. prior.used \in Nat /\ prior.pending \in Nat
            BY <5>1 DEF Snapshot
          <6>2. /\ prior.pending + unmeasured[p] >= Cardinality(Calls(p))
                /\ prior.pending + latest[p] + unmeasured[p] >= billed[p] + Cardinality(Calls(p))
                /\ prior.used + unmeasured[p] >= billed[p] + Cardinality(Calls(p))
            BY <4>1, <5>1 DEF Counted
          <6>3. fresh.used >= prior.used \/ fresh.pending = prior.pending
            BY <2>d, <2>e, <5>1, ObservedBounds
          <6> QED
            BY <1>n, <2>d, <4>2, <4>3, <4>4, <4>5, <4>7, <6>1, <6>2, <6>3
        <5>2. CASE ~(prior # None /\ prior.observed)
          <6>1. fresh.pending = Pending(prior)
            BY <2>d, <2>e, <5>2, ObservedBounds
          <6>2. /\ Pending(prior) + unmeasured[p] >= Cardinality(Calls(p))
                /\ Pending(prior) + latest[p] + unmeasured[p] >= billed[p] + Cardinality(Calls(p))
            BY <1>n, <2>d, <4>1, <4>2 DEF Counted, Pending
          <6> QED
            BY <1>n, <2>d, <4>2, <4>3, <4>4, <4>5, <4>7, <6>1, <6>2
        <5> QED
          BY <5>1, <5>2
      <4>9. fresh.pending + latest'[p] + unmeasured[p] >= billed[p] + Cardinality(Calls(p))
        BY <1>n, <2>d, <4>2, <4>3, <4>6, <4>7, <4>8
      <4> QED
        BY <2>3, <4>1, <4>2, <4>3, <4>8, <4>9 DEF Counted
    <3>6. CountsAreCharged'
      BY <2>5 DEF CountsAreCharged
    <3> QED
      BY <3>3, <3>4, <3>5, <3>6 DEF UInv
  <2> QED
    BY <1>8, <2>6, <2>7, <2>b, <2>c, <2>e DEF WriteObserved
<1>9. ASSUME NEW s \in Process, Crash(s), UNCHANGED processOf PROVE UInv'
  <2>1. \A t \in Task :
          \/ /\ of'[t] = of[t] /\ pc'[t] = pc[t] /\ unknown'[t] = unknown[t]
             /\ usage'[t] = usage[t] /\ seen'[t] = seen[t]
             /\ t \in outdated => t \in outdated'
             /\ t \in heldOver => t \in heldOver'
          \/ pc'[t] = "idle"
    BY <1>0, <1>9 DEF Crash, TypeOK
  <2>2. UNCHANGED <<file, latest, billed, unmeasured, disturbed>>
    BY <1>9 DEF Crash, server
  <2>3. \A t \in Task : Writing(t)' =>
          Writing(t) /\ (t \in outdated => t \in outdated') /\ seen'[t] = seen[t]
    BY <2>1 DEF Writing
  <2>4. \A t \in Task : pc'[t] \in {"observe", "observeWrite"} /\ t \notin heldOver' =>
          usage'[t] <= billed'[of'[t]]
    BY <1>c, <2>1, <2>2
  <2> QED
    BY <1>0, <1>9, <1>t, <1>n, <2>1, <2>2, <2>3, <2>4, CallsLeave, UKeeps
<1>10. ASSUME NEW p \in Provider, Age(p), UNCHANGED processOf PROVE UInv'
  <2>1. UNCHANGED <<pc, of, unknown, usage, latest, billed, unmeasured, outdated, heldOver, disturbed, processOf>>
    BY <1>10 DEF Age, server
  <2>2. /\ file' = Aged(file, p) /\ file \in State
        /\ \A t \in Task : seen'[t] = Aged(seen[t], p) /\ seen[t] \in State
    BY <1>0, <1>10 DEF Age, TypeOK
  <2>3. OneWriter' /\ CountsAreCharged'
    BY <2>1 DEF UInv, OneWriter, CountsAreCharged, Writing
  <2>4. ReadsAreCurrent'
    BY <2>1, <2>2, AgedAlike DEF UInv, ReadsAreCurrent, Writing
  <2>5. ASSUME NEW CONSTANT q \in Provider, q \notin disturbed' PROVE Counted(q)'
    <3>1. Counted(q) /\ Calls(q)' = Calls(q)
      BY <2>1, <2>5 DEF UInv, Calls
    <3> QED
      BY <2>1, <2>2, <3>1, AgedBounds DEF Counted
  <2> QED
    BY <2>3, <2>4, <2>5 DEF UInv
<1>11. ASSUME NEW p \in Provider, ResetWindow(p), UNCHANGED processOf PROVE UInv'
  <2>1. UNCHANGED <<file, seen, pc, of, unknown, usage, outdated, disturbed, processOf>>
    BY <1>11 DEF ResetWindow
  <2>2. /\ \A q \in Provider : /\ billed'[q] = IF q = p THEN 0 ELSE billed[q]
                               /\ latest'[q] = IF q = p THEN 0 ELSE latest[q]
        /\ \A q \in Provider :
             unmeasured'[q] = IF q = p THEN Min({unmeasured[p], Cardinality(Calls(p))})
                                       ELSE unmeasured[q]
        /\ heldOver' = heldOver
             \cup {t \in Task : of[t] = p /\ pc[t] \in {"observe", "observeWrite"}}
    BY <1>0, <1>11 DEF ResetWindow, TypeOK
  <2>3. OneWriter' /\ ReadsAreCurrent'
    BY <2>1 DEF UInv, OneWriter, ReadsAreCurrent, Writing
  <2>4. CountsAreCharged'
    <3> SUFFICES ASSUME NEW t \in Task, pc'[t] \in {"observe", "observeWrite"}, t \notin heldOver'
                 PROVE  usage'[t] <= billed'[of'[t]]
      BY DEF CountsAreCharged
    <3>1. of[t] \in Provider /\ of[t] # p
      BY <1>0, <2>1, <2>2 DEF IdleIsOfNobody
    <3> QED
      BY <1>c, <2>1, <2>2, <3>1
  <2>5. ASSUME NEW CONSTANT q \in Provider, q \notin disturbed' PROVE Counted(q)'
    <3>1. Counted(q) /\ Calls(q)' = Calls(q)
      BY <2>1, <2>5 DEF UInv, Calls
    <3>2. Cardinality(Calls(q)) \in Nat
      BY ConstantsAssumption, FS_Subset, FS_CardinalityType DEF Calls
    <3>3. file[q] # None => file[q].used \in Nat /\ file[q].pending \in Nat
      BY <1>0 DEF TypeOK, State, Snapshot
    <3>4. unmeasured'[q] = unmeasured[q] \/ unmeasured'[q] = Cardinality(Calls(q))
      BY <1>n, <2>2, <3>2, MinOfTwo
    <3>5. q # p => billed'[q] = billed[q] /\ latest'[q] = latest[q] /\ unmeasured'[q] = unmeasured[q]
      BY <2>2
    <3>6. q = p => billed'[q] = 0 /\ latest'[q] = 0
      BY <2>2
    <3> QED
      BY <1>n, <2>1, <3>1, <3>2, <3>3, <3>4, <3>5, <3>6 DEF Counted
  <2> QED
    BY <2>3, <2>4, <2>5 DEF UInv
<1>12. ASSUME UNCHANGED vars PROVE UInv'
  <2>1. UNCHANGED <<file, seen, pc, of, unknown, usage, latest, billed, unmeasured, outdated, heldOver, disturbed, processOf>>
    BY <1>12 DEF vars, server
  <2>2. OneWriter' /\ ReadsAreCurrent' /\ CountsAreCharged'
    BY <2>1 DEF UInv, OneWriter, ReadsAreCurrent, CountsAreCharged, Writing
  <2>3. \A p \in Provider \ disturbed' : Counted(p)'
    BY <2>1 DEF UInv, Counted, Calls
  <2> QED
    BY <2>2, <2>3 DEF UInv
<1>13. ASSUME Next PROVE UInv'
  BY <1>1, <1>2, <1>3, <1>4, <1>5, <1>6, <1>7, <1>8, <1>9, <1>10, <1>11, <1>13 DEF Next, Step
<1> QED
  BY <1>12, <1>13

\* The estimate of an undisturbed provider falls below what it charged by no more
\* than what calls of unknown amount may have charged unseen.
THEOREM NeverUndercountsHolds == Spec => []NeverUndercounts
<1>1. IInv /\ UInv => NeverUndercounts
  <2> SUFFICES ASSUME IInv, UInv, NEW p \in Provider \ disturbed, file[p] # None, file[p].observed
               PROVE  file[p].used + unmeasured[p] >= billed[p]
    BY DEF NeverUndercounts
  <2>1. file[p].used + unmeasured[p] >= billed[p] + Cardinality(Calls(p))
    BY DEF UInv, Counted
  <2>2. file[p].used \in Nat /\ billed[p] \in Nat /\ unmeasured[p] \in Nat
    BY DEF IInv, TypeOK, State, Snapshot
  <2>3. Cardinality(Calls(p)) \in Nat
    BY ConstantsAssumption, FS_Subset, FS_CardinalityType DEF Calls
  <2> QED
    BY <2>1, <2>2, <2>3
<1> QED
  BY <1>1, InitIInv, NextIInv, InitUInv, NextUInv, PTL DEF Spec

-----------------------------------------------------------------------------
\* UsageLedger.  Sound says what each call knows and holds; on it rest the two
\* bounds on the counts and the span of the file.

\* Only the holder is past the lock.
Locked == \A c \in Call : at[c] \in {"read", "write", "blind", "release"} => lock = c

\* What a holder is about to write was read from the file, or is empty.
SeenIsTrue ==
    \A c \in Call : /\ at[c] = "write" => held[c] = ledger
                    /\ at[c] \notin {"write", "release"} => held[c] = NoUsage

\* An event is written at most MaxLate days after its stamp.
InTime == \A c \in Call : at[c] # "idle" => day[c] <= today /\ today <= day[c] + MaxLate

\* Nothing is counted ahead of the clock.
NothingAhead == \A d \in Day : ledger[d] > 0 => d <= today

Sound == LedgerTypeOK /\ Locked /\ SeenIsTrue /\ InTime /\ NothingAhead

\* Days are numbered from 0, and every day but the last has a next one.
LEMMA DayFacts ==
  /\ 0 \in Day
  /\ \A d \in Day : d \in Nat /\ (d < LastDay => d + 1 \in Day)
  BY LedgerAssumption DEF LedgerAssumption, Day

\* The empty ledger is a ledger.
LEMMA EmptyType == NoUsage \in [Day -> Nat]
  BY DEF NoUsage

\* A merge adds one to its day, and takes away only days out of the window.
LEMMA MergedFacts ==
  ASSUME NEW l \in [Day -> Nat], NEW d \in Day
  PROVE  /\ Merged(l, d) \in [Day -> Nat]
         /\ Merged(l, d)[d] = l[d] + 1
         /\ \A e \in Day : e # d => Merged(l, d)[e] = l[e] \/ Merged(l, d)[e] = 0
         /\ \A e \in Day : e # d /\ e + Retention > d => Merged(l, d)[e] = l[e]
         /\ l[d] = 0 => \A e \in Day : Merged(l, d)[e] > 0 => e + Retention > d
  <1>1. Retention \in Nat /\ MaxLate < Retention /\ Retention > 0
    BY LedgerAssumption DEF LedgerAssumption
  <1>2. CASE l[d] = 0
    <2>1. Merged(l, d) = [Pruned(l, d) EXCEPT ![d] = @ + 1]
      BY <1>2 DEF Merged
    <2>2. Pruned(l, d) \in [Day -> Nat] /\ Pruned(l, d)[d] = 0
      BY <1>1, <1>2 DEF Pruned
    <2>3. QED
      BY <1>1, <1>2, <2>1, <2>2 DEF Pruned, Day
  <1>3. CASE l[d] # 0
    <2>1. Merged(l, d) = [l EXCEPT ![d] = @ + 1]
      BY <1>3 DEF Merged
    <2>2. QED
      BY <1>3, <2>1
  <1>4. QED
    BY <1>2, <1>3

\* The ledger is sound before the first call.
LEMMA SoundInit == LedgerInit => Sound
  <1> USE LedgerAssumption DEF LedgerAssumption
  <1>1. ASSUME LedgerInit PROVE LedgerTypeOK
    BY <1>1, EmptyType, DayFacts DEF LedgerInit, LedgerTypeOK
  <1>2. ASSUME LedgerInit PROVE NothingAhead
    BY <1>2 DEF LedgerInit, NothingAhead, NoUsage
  <1>3. QED
    BY <1>1, <1>2 DEF LedgerInit, Sound, Locked, SeenIsTrue, InTime

\* Every step keeps it sound.
LEMMA SoundNext == Sound /\ [LedgerNext]_ledgerVars => Sound'
  <1> SUFFICES ASSUME Sound, [LedgerNext]_ledgerVars PROVE Sound'
    OBVIOUS
  <1> USE LedgerAssumption DEF LedgerAssumption, Sound, Nobody, Orphan
  <1>1. ASSUME NEW c \in Call, Record(c) PROVE Sound'
    <2>1. today \in Nat /\ MaxLate \in Nat
      BY DayFacts DEF LedgerTypeOK
    <2>2. begun[today] + 1 \in Nat
      BY DEF LedgerTypeOK
    <2>3. LedgerTypeOK'
      BY <1>1, <2>2 DEF Record, Move, LedgerTypeOK
    <2>4. Locked' /\ SeenIsTrue' /\ NothingAhead'
      BY <1>1 DEF Record, Move, LedgerTypeOK, Locked, SeenIsTrue, NothingAhead
    <2>5. InTime'
      BY <1>1, <2>1 DEF Record, Move, LedgerTypeOK, InTime
    <2>6. QED
      BY <2>3, <2>4, <2>5
  <1>2. ASSUME NEW c \in Call, AcquireLock(c) PROVE Sound'
    BY <1>2 DEF AcquireLock, Free, Move, LedgerTypeOK, Locked, SeenIsTrue, InTime, NothingAhead
  <1>3. ASSUME NEW c \in Call, LockTimeout(c) PROVE Sound'
    BY <1>3 DEF LockTimeout, Move, LedgerTypeOK, Locked, SeenIsTrue, InTime, NothingAhead
  <1>4. ASSUME BreakStaleLock PROVE Sound'
    BY <1>4 DEF BreakStaleLock, Orphan, LedgerTypeOK, Locked, SeenIsTrue, InTime, NothingAhead
  <1>5. ASSUME NEW c \in Call, ReadLedger(c) PROVE Sound'
    BY <1>5 DEF ReadLedger, Move, LedgerTypeOK, Locked, SeenIsTrue, InTime, NothingAhead
  <1>6. ASSUME NEW c \in Call, ReadFails(c) PROVE Sound'
    BY <1>6 DEF ReadFails, Move, LedgerTypeOK, Locked, SeenIsTrue, InTime, NothingAhead
  <1>7. ASSUME NEW c \in Call, WriteLedger(c) PROVE Sound'
    <2>1. /\ held[c] \in [Day -> Nat] /\ day[c] \in Day /\ lock = c
          /\ at[c] \in {"write", "blind"} /\ ledger' = Merged(held[c], day[c])
          /\ at' = [at EXCEPT ![c] = "release"]
          /\ UNCHANGED <<today, day, held, lock, begun, told>>
      BY <1>7 DEF WriteLedger, Move, LedgerTypeOK, Locked
    <2>2. ledger' \in [Day -> Nat]
      BY <2>1, MergedFacts
    <2>3. LedgerTypeOK'
      BY <1>7, <2>1, <2>2 DEF WriteLedger, LedgerTypeOK
    <2>4. Locked'
      BY <2>1 DEF Locked, LedgerTypeOK
    <2>5. \A e \in Call \ {c} : at[e] # "write"
      BY <2>1 DEF Locked
    <2>6. SeenIsTrue'
      BY <2>1, <2>5 DEF SeenIsTrue, LedgerTypeOK
    <2>7. InTime'
      BY <2>1 DEF InTime, LedgerTypeOK
    <2>8. held[c] = ledger \/ held[c] = NoUsage
      BY <2>1 DEF SeenIsTrue
    <2>9. day[c] <= today
      BY <2>1 DEF InTime
    <2>10. \A e \in Day : e # day[c] => ledger'[e] = held[c][e] \/ ledger'[e] = 0
      BY <2>1, MergedFacts
    <2>11. NothingAhead'
      <3> SUFFICES ASSUME NEW e \in Day, ledger'[e] > 0 PROVE e <= today
        BY <2>1 DEF NothingAhead
      <3>1. CASE e = day[c]
        BY <2>9, <3>1
      <3>2. CASE e # day[c]
        <4>1. held[c][e] > 0
          BY <2>10, <3>2
        <4>2. ledger[e] > 0
          BY <2>8, <4>1 DEF NoUsage
        <4>3. QED
          BY <4>2 DEF NothingAhead
      <3>3. QED
        BY <3>1, <3>2
    <2>12. QED
      BY <2>3, <2>4, <2>6, <2>7, <2>11
  <1>8. ASSUME NEW c \in Call, WriteFails(c) \/ Recorded(c) PROVE Sound'
    <2>1. /\ at' = [at EXCEPT ![c] = "idle"] /\ held' = [held EXCEPT ![c] = NoUsage]
          /\ lock' = Nobody /\ lock = c /\ UNCHANGED <<today, day, ledger, begun>>
          /\ wiped' = wiped /\ told' \in [Day -> Nat]
      <3>1. day[c] \in Day /\ told \in [Day -> Nat]
        BY DEF LedgerTypeOK
      <3>2. CASE WriteFails(c)
        BY <3>1, <3>2 DEF WriteFails, Leave, Move, Locked
      <3>3. CASE Recorded(c)
        <4>1. told' = [told EXCEPT ![day[c]] = told[day[c]] + 1]
          BY <3>3 DEF Recorded
        <4>2. told' \in [Day -> Nat]
          BY <3>1, <4>1
        <4>3. QED
          BY <3>3, <4>2 DEF Recorded, Leave, Move, Locked
      <3>4. QED
        BY <1>8, <3>2, <3>3
    <2>2. LedgerTypeOK'
      BY <2>1, EmptyType DEF LedgerTypeOK
    <2>3. QED
      BY <2>1, <2>2 DEF LedgerTypeOK, Locked, SeenIsTrue, InTime, NothingAhead
  <1>9. ASSUME NEW c \in Call, Die(c) PROVE Sound'
    <2>1. LedgerTypeOK'
      BY <1>9, EmptyType DEF Die, Move, LedgerTypeOK
    <2>2. QED
      BY <1>9, <2>1 DEF Die, Move, LedgerTypeOK, Locked, SeenIsTrue, InTime, NothingAhead
  <1>10. ASSUME Midnight PROVE Sound'
    <2>1. today \in Nat /\ today + 1 \in Day
      BY <1>10, DayFacts DEF Midnight, LedgerTypeOK
    <2>2. LedgerTypeOK' /\ Locked' /\ SeenIsTrue'
      BY <1>10, <2>1 DEF Midnight, LedgerTypeOK, Locked, SeenIsTrue
    <2>3. NothingAhead'
      BY <1>10, <2>1, DayFacts DEF Midnight, LedgerTypeOK, NothingAhead
    <2>4. InTime'
      <3> SUFFICES ASSUME NEW c \in Call, at[c] # "idle"
                   PROVE  day[c] <= today + 1 /\ today + 1 <= day[c] + MaxLate
        BY <1>10 DEF Midnight, InTime
      <3>1. day[c] <= today /\ today < day[c] + MaxLate
        BY <1>10 DEF Midnight, InTime
      <3>2. day[c] \in Nat
        BY DayFacts DEF LedgerTypeOK
      <3>3. QED
        BY <2>1, <3>1, <3>2
    <2>5. QED
      BY <2>2, <2>3, <2>4
  <1>11. ASSUME UNCHANGED ledgerVars PROVE Sound'
    BY <1>11 DEF ledgerVars, LedgerTypeOK, Locked, SeenIsTrue, InTime, NothingAhead
  <1>12. QED
    BY <1>1, <1>2, <1>3, <1>4, <1>5, <1>6, <1>7, <1>8, <1>9, <1>10, <1>11 DEF LedgerNext, RecordStep

\* The state is well typed, only the holder of the lock is past it, and what it
\* is about to write is what the file still holds.
THEOREM SoundHolds == LedgerSpec => []Sound
  BY SoundInit, SoundNext, PTL DEF LedgerSpec

-----------------------------------------------------------------------------
\* The counts.  An event that is stamped and not yet merged holds one back.

\* The events of a day that are not in the file yet.
Coming(d) == {c \in Call : at[c] \in {"lock", "read", "write", "blind"} /\ day[c] = d}

AtMostBegun == \A d \in Day : ledger[d] + Cardinality(Coming(d)) <= begun[d]

\* Those that are in the file and not yet told.
Merging(d) == \E c \in Call : at[c] = "release" /\ day[c] = d

AtLeastTold ==
    ~wiped => \A d \in Window(Retention) :
        told[d] + (IF Merging(d) THEN 1 ELSE 0) <= ledger[d]

\* The callers still to write are finitely many.
LEMMA ComingFinite ==
  \A d \in Day : /\ Cardinality(Coming(d)) \in Nat /\ Cardinality(Coming(d)') \in Nat
                 /\ IsFiniteSet(Coming(d)) /\ IsFiniteSet(Coming(d)')
  <1> SUFFICES ASSUME NEW d \in Day
               PROVE  /\ Cardinality(Coming(d)) \in Nat /\ Cardinality(Coming(d)') \in Nat
                      /\ IsFiniteSet(Coming(d)) /\ IsFiniteSet(Coming(d)')
    OBVIOUS
  <1>1. Coming(d) \subseteq Call /\ Coming(d)' \subseteq Call
    BY DEF Coming
  <1>2. QED
    BY <1>1, LedgerAssumption, FS_Subset, FS_CardinalityType DEF LedgerAssumption

\* Events that are given up hold nothing back any more.
LEMMA ComingShrinks ==
  ASSUME Sound, Sound', AtMostBegun, UNCHANGED <<ledger, begun>>,
         \A d \in Day : Coming(d)' \subseteq Coming(d)
  PROVE  AtMostBegun'
  <1> SUFFICES ASSUME NEW d \in Day PROVE ledger[d] + Cardinality(Coming(d)') <= begun[d]
    BY DEF AtMostBegun
  <1>1. Cardinality(Coming(d)') <= Cardinality(Coming(d))
    BY ComingFinite, FS_Subset
  <1>2. ledger[d] \in Nat /\ begun[d] \in Nat
    BY DEF Sound, LedgerTypeOK
  <1>3. QED
    BY <1>1, <1>2, ComingFinite DEF AtMostBegun

\* No step counts a call that was not begun, or counts one twice.
LEMMA AtMostBegunNext == Sound /\ Sound' /\ AtMostBegun /\ [LedgerNext]_ledgerVars => AtMostBegun'
  <1> SUFFICES ASSUME Sound, Sound', AtMostBegun, [LedgerNext]_ledgerVars PROVE AtMostBegun'
    OBVIOUS
  <1>1. ASSUME NEW c \in Call, Record(c) PROVE AtMostBegun'
    <2> SUFFICES ASSUME NEW d \in Day PROVE ledger'[d] + Cardinality(Coming(d)') <= begun'[d]
      BY DEF AtMostBegun
    <2>1. ledger' = ledger /\ ledger[d] \in Nat /\ begun[d] \in Nat
      BY <1>1 DEF Record, Sound, LedgerTypeOK
    <2>2. CASE d = today
      <3>1. Coming(d)' = Coming(d) \cup {c} /\ c \notin Coming(d)
        BY <1>1, <2>2 DEF Record, Move, Coming, Sound, LedgerTypeOK
      <3>2. Cardinality(Coming(d)') = Cardinality(Coming(d)) + 1
        BY <3>1, ComingFinite, FS_AddElement
      <3>3. begun'[d] = begun[d] + 1
        BY <1>1, <2>2 DEF Record, Sound, LedgerTypeOK
      <3>4. QED
        BY <2>1, <3>2, <3>3, ComingFinite DEF AtMostBegun
    <2>3. CASE d # today
      <3>1. Coming(d)' = Coming(d) /\ begun'[d] = begun[d]
        BY <1>1, <2>3 DEF Record, Move, Coming, Sound, LedgerTypeOK
      <3>2. QED
        BY <2>1, <3>1 DEF AtMostBegun
    <2>4. QED
      BY <2>2, <2>3
  <1>2. ASSUME NEW c \in Call, WriteLedger(c) PROVE AtMostBegun'
    <2> SUFFICES ASSUME NEW d \in Day PROVE ledger'[d] + Cardinality(Coming(d)') <= begun'[d]
      BY DEF AtMostBegun
    <2>1. /\ held[c] \in [Day -> Nat] /\ day[c] \in Day /\ begun' = begun
          /\ at[c] \in {"write", "blind"} /\ ledger' = Merged(held[c], day[c])
          /\ at' = [at EXCEPT ![c] = "release"] /\ day' = day
      BY <1>2 DEF WriteLedger, Move, Sound, LedgerTypeOK
    <2>2. ledger[d] \in Nat /\ begun[d] \in Nat /\ held[c][d] \in Nat /\ ledger'[d] \in Nat
      BY <2>1 DEF Sound, LedgerTypeOK
    <2>3. held[c][d] <= ledger[d]
      <3>1. held[c] = ledger \/ held[c] = NoUsage
        BY <2>1 DEF Sound, SeenIsTrue
      <3>2. QED
        BY <2>2, <3>1 DEF NoUsage
    <2>4. CASE d = day[c]
      <3>1. Coming(d)' = Coming(d) \ {c} /\ c \in Coming(d)
        BY <2>1, <2>4 DEF Coming, Sound, LedgerTypeOK
      <3>2. Cardinality(Coming(d)') = Cardinality(Coming(d)) - 1
        BY <3>1, ComingFinite, FS_RemoveElement
      <3>3. ledger'[d] = held[c][d] + 1
        BY <2>1, <2>4, MergedFacts
      <3>4. QED
        BY <2>1, <2>2, <2>3, <3>2, <3>3, ComingFinite DEF AtMostBegun
    <2>5. CASE d # day[c]
      <3>1. Coming(d)' = Coming(d)
        BY <2>1, <2>5 DEF Coming, Sound, LedgerTypeOK
      <3>2. ledger'[d] = held[c][d] \/ ledger'[d] = 0
        BY <2>1, <2>5, MergedFacts
      <3>3. QED
        BY <2>1, <2>2, <2>3, <3>1, <3>2, ComingFinite DEF AtMostBegun
    <2>6. QED
      BY <2>4, <2>5
  <1>3. ASSUME NEW c \in Call,
               AcquireLock(c) \/ LockTimeout(c) \/ ReadLedger(c) \/ ReadFails(c)
                 \/ WriteFails(c) \/ Recorded(c) \/ Die(c)
        PROVE  AtMostBegun'
    <2>1. /\ UNCHANGED <<ledger, begun, day>>
          /\ \A e \in Call : at'[e] \in {"lock", "read", "write", "blind"}
                => at[e] \in {"lock", "read", "write", "blind"}
      BY <1>3 DEF AcquireLock, LockTimeout, ReadLedger, ReadFails, WriteFails, Recorded,
                  Die, Leave, Move, Sound, LedgerTypeOK
    <2>2. \A d \in Day : Coming(d)' \subseteq Coming(d)
      BY <2>1 DEF Coming
    <2>3. QED
      BY <2>1, <2>2, ComingShrinks
  <1>4. ASSUME BreakStaleLock \/ Midnight \/ UNCHANGED ledgerVars PROVE AtMostBegun'
    <2>1. UNCHANGED <<ledger, begun, day, at>>
      BY <1>4 DEF BreakStaleLock, Midnight, ledgerVars
    <2>2. \A d \in Day : Coming(d)' \subseteq Coming(d)
      BY <2>1 DEF Coming
    <2>3. QED
      BY <2>1, <2>2, ComingShrinks
  <1>5. QED
    BY <1>1, <1>2, <1>3, <1>4 DEF LedgerNext, RecordStep

-----------------------------------------------------------------------------
\* No step drops a call that was told to be counted and is in the window.
LEMMA AtLeastToldNext == Sound /\ Sound' /\ AtLeastTold /\ [LedgerNext]_ledgerVars => AtLeastTold'
  <1> SUFFICES ASSUME Sound, Sound', AtLeastTold, [LedgerNext]_ledgerVars, ~wiped',
                      NEW d \in Day, d + Retention > today'
               PROVE  told'[d] + (IF Merging(d)' THEN 1 ELSE 0) <= ledger'[d]
    BY DEF AtLeastTold, Window
  <1> USE DEF Sound
  <1>1. /\ told[d] \in Nat /\ ledger[d] \in Nat /\ today \in Nat /\ d \in Nat
        /\ Retention \in Nat /\ (today' = today \/ today' = today + 1)
    BY DayFacts, LedgerAssumption
    DEF LedgerTypeOK, LedgerAssumption, LedgerNext, RecordStep, Record, AcquireLock, LockTimeout, ReadLedger,
        ReadFails, WriteLedger, WriteFails, Recorded, Die, BreakStaleLock, Midnight, ledgerVars
  <1>2. d + Retention > today
    BY <1>1
  <1>3. ASSUME ~wiped
        PROVE  told[d] + (IF Merging(d) THEN 1 ELSE 0) <= ledger[d]
    BY <1>2, <1>3 DEF AtLeastTold, Window
  <1>4. ASSUME NEW c \in Call, at[c] \in {"write", "blind", "release"}
        PROVE  \A e \in Call \ {c} : at[e] # "release"
    BY <1>4 DEF Locked
  <1>5. ASSUME NEW c \in Call, WriteLedger(c)
        PROVE  told'[d] + (IF Merging(d)' THEN 1 ELSE 0) <= ledger'[d]
    <2>1. /\ at[c] = "write" /\ ~wiped /\ day[c] \in Day /\ told' = told /\ day' = day
          /\ at' = [at EXCEPT ![c] = "release"] /\ today' = today
          /\ ledger' = Merged(held[c], day[c])
      BY <1>5 DEF WriteLedger, Move, LedgerTypeOK
    <2>2. held[c] = ledger
      BY <2>1 DEF SeenIsTrue
    <2>3. ~Merging(d) /\ (Merging(d)' => d = day[c])
      BY <1>4, <2>1 DEF Merging, LedgerTypeOK
    <2>4. told[d] <= ledger[d]
      BY <1>1, <1>3, <2>1, <2>3
    <2>5. CASE d = day[c]
      <3>1. ledger'[d] = ledger[d] + 1
        BY <2>1, <2>2, <2>5, MergedFacts DEF LedgerTypeOK
      <3>2. QED
        BY <1>1, <2>1, <2>4, <3>1
    <2>6. CASE d # day[c]
      <3>1. day[c] <= today /\ day[c] \in Nat
        BY <2>1, DayFacts DEF InTime
      <3>2. d + Retention > day[c]
        BY <1>1, <1>2, <3>1
      <3>3. ledger'[d] = ledger[d]
        <4>1. ledger \in [Day -> Nat] /\ day[c] \in Day /\ d \in Day
          BY <2>1 DEF LedgerTypeOK, Window
        <4>2. \A e \in Day : e # day[c] /\ e + Retention > day[c]
                => Merged(ledger, day[c])[e] = ledger[e]
          BY <4>1, MergedFacts
        <4>3. QED
          BY <2>1, <2>2, <2>6, <3>2, <4>1, <4>2
      <3>4. QED
        BY <1>1, <2>1, <2>3, <2>4, <2>6, <3>3
    <2>7. QED
      BY <2>5, <2>6
  <1>6. ASSUME NEW c \in Call, Recorded(c)
        PROVE  told'[d] + (IF Merging(d)' THEN 1 ELSE 0) <= ledger'[d]
    <2>1. /\ at[c] = "release" /\ ~wiped /\ day[c] \in Day /\ day' = day /\ ledger' = ledger
          /\ at' = [at EXCEPT ![c] = "idle"] /\ told' = [told EXCEPT ![day[c]] = told[day[c]] + 1]
      BY <1>6 DEF Recorded, Leave, Move, LedgerTypeOK
    <2>2. ~Merging(d)'
      BY <1>4, <2>1 DEF Merging, LedgerTypeOK
    <2>3. CASE d = day[c]
      <3>1. Merging(d)
        BY <2>1, <2>3 DEF Merging
      <3>2. told'[d] = told[d] + 1
        BY <2>1, <2>3 DEF LedgerTypeOK
      <3>3. QED
        BY <1>1, <1>3, <2>1, <2>2, <3>1, <3>2
    <2>4. CASE d # day[c]
      <3>1. told'[d] = told[d]
        BY <2>1, <2>4 DEF LedgerTypeOK
      <3>2. QED
        BY <1>1, <1>3, <2>1, <2>2, <3>1
    <2>5. QED
      BY <2>3, <2>4
  <1>7. ASSUME UNCHANGED <<told, ledger, wiped, day>>, Merging(d)' => Merging(d)
        PROVE  told'[d] + (IF Merging(d)' THEN 1 ELSE 0) <= ledger'[d]
    BY <1>1, <1>3, <1>7
  <1>8. ASSUME NEW c \in Call, Record(c)
        PROVE  told'[d] + (IF Merging(d)' THEN 1 ELSE 0) <= ledger'[d]
    <2>1. UNCHANGED <<told, ledger, wiped>> /\ (Merging(d)' => Merging(d))
      BY <1>8 DEF Record, Move, Merging, LedgerTypeOK
    <2>2. QED
      BY <1>1, <1>3, <2>1
  <1>9. ASSUME NEW c \in Call,
               AcquireLock(c) \/ LockTimeout(c) \/ ReadLedger(c) \/ ReadFails(c)
                 \/ WriteFails(c) \/ Die(c)
        PROVE  told'[d] + (IF Merging(d)' THEN 1 ELSE 0) <= ledger'[d]
    <2>1. /\ UNCHANGED <<told, ledger, wiped, day>>
          /\ \A e \in Call : at'[e] = "release" => at[e] = "release"
      BY <1>9 DEF AcquireLock, LockTimeout, ReadLedger, ReadFails, WriteFails,
                  Die, Leave, Move, LedgerTypeOK
    <2>2. QED
      BY <1>7, <2>1 DEF Merging
  <1>10. ASSUME BreakStaleLock \/ Midnight \/ UNCHANGED ledgerVars
         PROVE  told'[d] + (IF Merging(d)' THEN 1 ELSE 0) <= ledger'[d]
    <2>1. UNCHANGED <<told, ledger, wiped, day, at>>
      BY <1>10 DEF BreakStaleLock, Midnight, ledgerVars
    <2>2. QED
      BY <1>7, <2>1 DEF Merging
  <1>11. QED
    BY <1>5, <1>6, <1>8, <1>9, <1>10 DEF LedgerNext, RecordStep

\* No step leaves days that are further apart than the retention allows.
LEMMA SpanNext == Sound /\ SpanIsBounded /\ [LedgerNext]_ledgerVars => SpanIsBounded'
  <1> SUFFICES ASSUME Sound, SpanIsBounded, [LedgerNext]_ledgerVars PROVE SpanIsBounded'
    OBVIOUS
  <1>1. ASSUME NEW c \in Call, WriteLedger(c) PROVE SpanIsBounded'
    <2> DEFINE D == day[c]
               old == held[c]
    <2>1. old \in [Day -> Nat] /\ D \in Day /\ ledger' = Merged(old, D) /\ at[c] \in {"write", "blind"}
      BY <1>1 DEF WriteLedger, Sound, LedgerTypeOK
    <2>2. old = ledger \/ old = NoUsage
      BY <2>1 DEF Sound, SeenIsTrue
    <2>3. \A e \in Day : old[e] \in Nat /\ e \in Nat /\ ledger'[e] \in Nat
      BY <2>1, MergedFacts, DayFacts
    <2>4. \A d, e \in Day : old[d] > 0 /\ old[e] > 0 => e < d + Retention
      BY <2>2 DEF SpanIsBounded, NoUsage
    <2>5. \A e \in Day : old[e] > 0 => e < D + Retention
      <3> SUFFICES ASSUME NEW e \in Day, old[e] > 0 PROVE e < D + Retention
        OBVIOUS
      <3>1. e <= today
        BY <2>2 DEF Sound, NothingAhead, NoUsage
      <3>2. today <= D + MaxLate /\ today \in Nat
        BY <2>1, DayFacts DEF Sound, InTime, LedgerTypeOK
      <3>3. QED
        BY <2>1, <3>1, <3>2, DayFacts, LedgerAssumption DEF LedgerAssumption
    <2>6. \A e \in Day : e # D /\ ledger'[e] > 0 => old[e] > 0
      BY <2>1, <2>3, MergedFacts
    <2>7. \A e \in Day : e # D /\ ledger'[e] > 0 => D < e + Retention
      <3> SUFFICES ASSUME NEW e \in Day, e # D, ledger'[e] > 0 PROVE D < e + Retention
        OBVIOUS
      <3>1. CASE old[D] = 0
        <4>1. e + Retention > D
          BY <2>1, <3>1, MergedFacts
        <4>2. QED
          BY <2>1, <4>1, DayFacts, LedgerAssumption DEF LedgerAssumption
      <3>2. CASE old[D] # 0
        <4>1. old[D] > 0 /\ old[e] > 0
          BY <2>1, <2>3, <2>6, <3>2
        <4>2. QED
          BY <2>1, <2>4, <4>1
      <3>3. QED
        BY <3>1, <3>2
    <2>8. D < D + Retention
      BY <2>1, DayFacts, LedgerAssumption DEF LedgerAssumption
    <2> HIDE DEF D, old
    <2>9. QED
      BY <2>4, <2>5, <2>6, <2>7, <2>8 DEF SpanIsBounded
  <1>2. ASSUME UNCHANGED ledger PROVE SpanIsBounded'
    BY <1>2 DEF SpanIsBounded
  <1>3. QED
    BY <1>1, <1>2 DEF LedgerNext, RecordStep, Record, AcquireLock, LockTimeout, ReadLedger, ReadFails,
                      WriteFails, Recorded, Die, BreakStaleLock, Midnight, ledgerVars

\* Nothing is counted before the first call.
LEMMA CountsInit == LedgerInit => AtMostBegun /\ AtLeastTold /\ SpanIsBounded
  <1> SUFFICES ASSUME LedgerInit PROVE AtMostBegun /\ AtLeastTold /\ SpanIsBounded
    OBVIOUS
  <1>1. \A d \in Day : ledger[d] = 0 /\ begun[d] = 0 /\ told[d] = 0
    BY DEF LedgerInit, NoUsage
  <1>2. \A d \in Day : Coming(d) = {} /\ ~Merging(d)
    BY DEF LedgerInit, Coming, Merging
  <1>3. QED
    BY <1>1, <1>2, FS_EmptySet DEF AtMostBegun, AtLeastTold, SpanIsBounded, Window

\* For any retention, clock and calls: a call recorded without a warning stays
\* counted for as long as its day is kept, and no call is counted twice.
THEOREM RecentCallsAreCountedHolds == LedgerSpec => []RecentCallsAreCounted
  <1> DEFINE I == Sound /\ AtMostBegun /\ AtLeastTold
  <1>1. LedgerInit => I
    BY SoundInit, CountsInit
  <1>2. I /\ [LedgerNext]_ledgerVars => I'
    BY SoundNext, AtMostBegunNext, AtLeastToldNext
  <1>3. I => RecentCallsAreCounted
    <2> SUFFICES ASSUME I PROVE RecentCallsAreCounted
      OBVIOUS
    <2>1. \A d \in Day : ledger[d] \in Nat /\ begun[d] \in Nat /\ told[d] \in Nat
      BY DEF Sound, LedgerTypeOK
    <2>2. \A d \in Day : ledger[d] <= begun[d]
      BY <2>1, ComingFinite DEF AtMostBegun
    <2>3. ~wiped => \A d \in Window(Retention) : told[d] <= ledger[d]
      BY <2>1 DEF AtLeastTold, Window
    <2>4. QED
      BY <2>2, <2>3 DEF RecentCallsAreCounted
  <1>4. QED
    BY <1>1, <1>2, <1>3, PTL DEF LedgerSpec

\* For any retention that is longer than an event can be late, the file never
\* spans more days than are kept.
THEOREM SpanIsBoundedHolds == LedgerSpec => []SpanIsBounded
  <1>1. LedgerInit => Sound /\ SpanIsBounded
    BY SoundInit, CountsInit
  <1>2. Sound /\ SpanIsBounded /\ [LedgerNext]_ledgerVars => (Sound /\ SpanIsBounded)'
    BY SoundNext, SpanNext
  <1>3. QED
    BY <1>1, <1>2, PTL DEF LedgerSpec
=============================================================================
