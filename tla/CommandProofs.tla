----------------------------- MODULE CommandProofs -----------------------------
(***************************************************************************)
(* What the commands guarantee: ProviderFallback, for any set of providers,*)
(* any registry that lists each of them once, and any retry policy;        *)
(* BatchRunner, for every manifest and every size of the pool; and         *)
(* AgentRegistration, for any tools, skill files, releases, histories of the*)
(* rule text and number of processes.                                      *)
(***************************************************************************)
EXTENDS ProviderFallback, BatchRunner, AgentRegistration,
        SequenceTheorems, WellFoundedInduction, TLAPS

\* ProviderFallback.  IInv follows the walk of the plan, the attempt that is
\* awaited, and the errors the loop remembers.

Running(p) == op[p] \notin {"idle", "ended"}
Tried(p) == op[p] # "idle" \/ failed[p] # None \/ p \in aborted

\* The entries of the plan before the one the loop is at were skipped, or failed
\* with an error that goes on; those behind it have not been touched.
Passed(p) ==
    \/ status[p] \in Ineligible /\ failed[p] = None
    \/ failed[p] \in Continue
Reached(n) == n < i \/ (n = i /\ pc \in {"attempt", "done"})
WalksThePlan ==
    /\ \A n \in DOMAIN Plan : n < i => Passed(Plan[n])
    /\ \A p \in Provider : Tried(p) => \E n \in DOMAIN Plan : Plan[n] = p /\ Reached(n)
    /\ pc = "plan" => i = 1 /\ lastAttemptedId = None

\* An attempt that the loop awaits is the current one, and has not settled.
AwaitsTheAttempt ==
    pc = "attempt" =>
        /\ i \in DOMAIN Plan
        /\ Running(Plan[i]) /\ failed[Plan[i]] = None /\ Plan[i] \notin aborted
        /\ lastAttemptedId = Plan[i]

\* What runs is awaited, or was timed out.
RunsAwaited ==
    \A p \in Provider : Running(p) => p \in aborted \/ (pc = "attempt" /\ Plan[i] = p)

\* The errors the loop remembers are the ones its attempts ended with.
Remembers ==
    /\ pc # "done" =>
         effectiveError = IF failed[effective] = None THEN None
                          ELSE [by |-> effective, class |-> failed[effective]]
    /\ pc \in {"plan", "next"} =>
         IF lastAttemptedId = None
         THEN lastEligibleError = None /\ \A p \in Provider : failed[p] = None
         ELSE /\ failed[lastAttemptedId] \in Continue
              /\ lastEligibleError = [by |-> lastAttemptedId, class |-> failed[lastAttemptedId]]
    /\ pc # "done" => \A p \in Provider : failed[p] \in Continue \cup {None}

RetriesAreLeft == \A p \in Provider : op[p] = "backoff" => attempt[p] < MaxRetries

IInv ==
    /\ TypeOK /\ WalksThePlan /\ AwaitsTheAttempt /\ RunsAwaited /\ Remembers /\ RetriesAreLeft
    /\ EndsAsPlanned

-----------------------------------------------------------------------------
\* The plan.

\* Filtering one member out of a sequence keeps the others, and their order.
LEMMA Without ==
  ASSUME NEW p \in Provider
  PROVE  /\ RegistryWithout(p) \in Seq(Provider)
         /\ \A n \in DOMAIN RegistryWithout(p) : RegistryWithout(p)[n] # p
         /\ \A n, m \in DOMAIN RegistryWithout(p) :
              RegistryWithout(p)[n] = RegistryWithout(p)[m] => n = m
  <1> DEFINE k == CHOOSE m \in DOMAIN Registry : Registry[m] = p
             s == SubSeq(Registry, 1, k - 1)
             t == SubSeq(Registry, k + 1, Len(Registry))
  <1>1. /\ Registry \in Seq(Provider)
        /\ \A n, m \in DOMAIN Registry : Registry[n] = Registry[m] => n = m
        /\ \E n \in DOMAIN Registry : Registry[n] = p
    BY ConstantsAssumption DEF ConstantsAssumption
  <1>2. k \in DOMAIN Registry /\ Registry[k] = p
    BY <1>1
  <1>3. Len(Registry) \in Nat /\ DOMAIN Registry = 1..Len(Registry)
    BY <1>1
  <1> HIDE DEF k
  <1>4. /\ s \in Seq(Provider) /\ Len(s) = k - 1
        /\ \A n \in 1..(k - 1) : s[n] = Registry[n]
    BY <1>1, <1>2, <1>3
  <1>5. /\ t \in Seq(Provider) /\ Len(t) = Len(Registry) - k
        /\ \A n \in 1..(Len(Registry) - k) : t[n] = Registry[n + k]
    BY <1>1, <1>2, <1>3
  <1> HIDE DEF s, t
  <1> DEFINE u == s \o t
  <1>6. /\ u \in Seq(Provider) /\ DOMAIN u = 1..(Len(Registry) - 1)
        /\ \A n \in 1..(Len(Registry) - 1) :
             u[n] = IF n < k THEN Registry[n] ELSE Registry[n + 1]
    <2>1. /\ u \in Seq(Provider) /\ Len(u) = Len(s) + Len(t)
          /\ \A n \in 1..(Len(s) + Len(t)) : u[n] = IF n <= Len(s) THEN s[n] ELSE t[n - Len(s)]
      BY <1>4, <1>5, ConcatProperties
    <2> HIDE DEF u
    <2>2. Len(s) + Len(t) = Len(Registry) - 1 /\ k \in 1..Len(Registry)
      BY <1>2, <1>3, <1>4, <1>5
    <2>3. ASSUME NEW n \in 1..(Len(Registry) - 1)
          PROVE  u[n] = IF n < k THEN Registry[n] ELSE Registry[n + 1]
      <3>1. CASE n < k
        BY <1>3, <1>4, <2>1, <2>2, <3>1
      <3>2. CASE ~(n < k)
        <4>1. n - Len(s) \in 1..(Len(Registry) - k) /\ (n - Len(s)) + k = n + 1
          BY <1>3, <1>4, <2>2, <3>2
        <4>2. t[n - Len(s)] = Registry[(n - Len(s)) + k]
          BY <1>5, <4>1
        <4>3. n \in 1..(Len(s) + Len(t)) /\ ~(n <= Len(s))
          BY <1>3, <1>4, <2>2, <3>2
        <4> QED
          BY <2>1, <3>2, <4>1, <4>2, <4>3
      <3> QED
        BY <3>1, <3>2
    <2>4. DOMAIN u = 1..Len(u)
      BY <2>1
    <2> QED
      BY <2>1, <2>2, <2>3, <2>4
  <1>7. RegistryWithout(p) = u
    BY DEF RegistryWithout, k, s, t, u
  <1> HIDE DEF u
  <1> DEFINE From(n) == IF n < k THEN n ELSE n + 1
  <1>8. \A n \in DOMAIN u : From(n) \in DOMAIN Registry \ {k} /\ u[n] = Registry[From(n)]
    BY <1>2, <1>3, <1>6
  <1>9. \A n, m \in DOMAIN u : From(n) = From(m) => n = m
    BY <1>2, <1>3, <1>6
  <1> QED
    BY <1>1, <1>2, <1>6, <1>7, <1>8, <1>9

\* buildCandidatePlan: the effective provider first, and nobody twice.
LEMMA PlanIsSound ==
  ASSUME TypeOK
  PROVE  /\ Plan \in Seq(Provider) /\ Len(Plan) \in Nat \ {0} /\ DOMAIN Plan = 1..Len(Plan)
         /\ Plan[1] = effective
         /\ \A n, m \in DOMAIN Plan : Plan[n] = Plan[m] => n = m
         /\ ~fallbackEnabled => Len(Plan) = 1
  <1>1. effective \in Provider /\ fallbackEnabled \in BOOLEAN
    BY DEF TypeOK
  <1>2. CASE fallbackEnabled
    <2> DEFINE r == RegistryWithout(effective)
    <2>1. /\ r \in Seq(Provider) /\ \A n \in DOMAIN r : r[n] # effective
          /\ \A n, m \in DOMAIN r : r[n] = r[m] => n = m
      BY <1>1, Without
    <2>2. Plan = <<effective>> \o r
      BY <1>2 DEF Plan
    <2> HIDE DEF r
    <2>3. /\ Plan \in Seq(Provider) /\ Len(Plan) = Len(r) + 1 /\ Plan[1] = effective
          /\ \A n \in 2..Len(Plan) : n - 1 \in DOMAIN r /\ Plan[n] = r[n - 1]
      BY <1>1, <2>1, <2>2
    <2> QED
      BY <1>2, <2>1, <2>3
  <1>3. CASE ~fallbackEnabled
    BY <1>1, <1>3 DEF Plan
  <1> QED
    BY <1>1, <1>2, <1>3

-----------------------------------------------------------------------------
\* The steps, by what they do to the loop.

\* An operation goes on, or settles when nobody awaits it any more.
GoesOn(p) ==
    /\ Running(p) /\ pc # "done"
    /\ \E l \in {"check", "emit", "call", "backoff"} : Goto(p, l)
    /\ UNCHANGED <<config, loop, aborted>>
Drops(p) ==
    /\ Running(p) /\ ~Awaited(p) /\ pc # "done"
    /\ Goto(p, "ended")
    /\ UNCHANGED <<config, loop, aborted>>

\* The awaited attempt gives the result, or fails the loop's entry.
Wins(p) == Awaited(p) /\ Succeed(p) /\ Goto(p, "ended") /\ UNCHANGED <<config, aborted>>
Errs(p) ==
    /\ Awaited(p)
    /\ \E class \in ErrorClass : HandleError(p, class)
    /\ \/ Goto(p, "ended") /\ UNCHANGED aborted
       \/ UNCHANGED op /\ aborted' = aborted \cup {p}
    /\ UNCHANGED config

Kind(p) == GoesOn(p) \/ Drops(p) \/ Wins(p) \/ Errs(p)

\* Each step of an operation goes on, is dropped, wins or fails its entry.
LEMMA Kinds ==
  ASSUME TypeOK, NEW p \in Provider, OpStep(p) \/ CallEnds(p) \/ TimeOut(p)
  PROVE  Kind(p)
  <1> USE DEF Continue, ErrorClass
  <1>1. ASSUME Running(p), pc # "done", Resolve(p), UNCHANGED <<config, aborted>> PROVE Kind(p)
    BY <1>1 DEF Resolve, Kind, Drops, Wins
  <1>2. ASSUME Running(p), pc # "done", NEW class \in ErrorClass, Reject(p, class),
               UNCHANGED <<config, aborted>>
        PROVE  Kind(p)
    BY <1>2 DEF Reject, Kind, Drops, Errs
  <1>3. ASSUME Running(p), pc # "done", NEW l \in {"check", "emit", "call", "backoff"}, Goto(p, l),
               UNCHANGED <<config, loop, aborted>>
        PROVE  Kind(p)
    BY <1>3 DEF Kind, GoesOn
  <1>4. CASE Look(p)
    BY <1>1, <1>2, <1>3, <1>4 DEF Look, Running
  <1>5. CASE CheckSignal(p)
    BY <1>2, <1>3, <1>5 DEF CheckSignal, Running
  <1>6. CASE Emit(p)
    BY <1>3, <1>6 DEF Emit, Running
  <1>7. CASE Wake(p)
    BY <1>2, <1>3, <1>7 DEF Wake, Running
  <1>8. CASE CallEnds(p)
    BY <1>1, <1>2, <1>3, <1>8 DEF CallEnds, Running
  <1>9. CASE TimeOut(p)
    BY <1>9 DEF TimeOut, Kind, Errs
  <1> QED
    BY <1>4, <1>5, <1>6, <1>7, <1>8, <1>9 DEF OpStep

\* The plan is fixed by the configuration.
LEMMA SamePlan == UNCHANGED config => Plan' = Plan
  BY DEF config, Plan

\* What runs is awaited until it settles, or is timed out.
LEMMA RunsAwaitedNext ==
  ASSUME TypeOK, AwaitsTheAttempt, RunsAwaited, LoopStep \/ \E p \in Provider : Kind(p)
  PROVE  RunsAwaited'
  <1>1. UNCHANGED config /\ Plan' = Plan
    BY SamePlan DEF LoopStep, BuildPlan, Skip, Attempt, Exhaust, Kind, GoesOn, Drops, Wins, Errs
  <1>2. op \in [Provider -> {"idle", "start", "check", "emit", "call", "backoff", "ended"}]
    BY DEF TypeOK
  <1>3. CASE LoopStep
    BY <1>1, <1>2, <1>3 DEF RunsAwaited, Running, LoopStep, BuildPlan, Skip, Attempt, Exhaust
  <1>4. ASSUME NEW p \in Provider, GoesOn(p) \/ Drops(p) PROVE RunsAwaited'
    BY <1>1, <1>2, <1>4 DEF RunsAwaited, Running, GoesOn, Drops, Goto, loop
  <1>5. ASSUME NEW p \in Provider, Wins(p) \/ Errs(p) PROVE RunsAwaited'
    BY <1>1, <1>2, <1>5 DEF RunsAwaited, Running, Wins, Errs, Awaited, Goto
  <1> QED
    BY <1>3, <1>4, <1>5 DEF Kind

\* The operation awaited is that of the entry the loop is at.
LEMMA AwaitsTheAttemptNext ==
  ASSUME TypeOK, AwaitsTheAttempt, WalksThePlan, RunsAwaited,
         LoopStep \/ \E p \in Provider : Kind(p)
  PROVE  AwaitsTheAttempt'
  <1>1. UNCHANGED config /\ Plan' = Plan
    BY SamePlan DEF LoopStep, BuildPlan, Skip, Attempt, Exhaust, Kind, GoesOn, Drops, Wins, Errs
  <1>2. op \in [Provider -> {"idle", "start", "check", "emit", "call", "backoff", "ended"}]
    BY DEF TypeOK
  <1>3. CASE Attempt
    <2>1. i \in DOMAIN Plan /\ Plan[i] \in Provider
      BY <1>3, PlanIsSound DEF Attempt, TypeOK
    <2>2. ~Tried(Plan[i])
      BY <1>3, <2>1, PlanIsSound DEF Attempt, WalksThePlan, Reached
    <2> QED
      BY <1>1, <1>2, <1>3, <2>1, <2>2 DEF Attempt, AwaitsTheAttempt, Running, Tried
  <1>4. CASE BuildPlan \/ Skip \/ Exhaust
    BY <1>4 DEF BuildPlan, Skip, Exhaust, AwaitsTheAttempt, End, NextEntry
  <1>5. ASSUME NEW p \in Provider, GoesOn(p) \/ Drops(p) PROVE AwaitsTheAttempt'
    BY <1>1, <1>2, <1>5, PlanIsSound DEF AwaitsTheAttempt, Running, GoesOn, Drops, Awaited, Goto, loop
  <1>6. ASSUME NEW p \in Provider, Wins(p) \/ Errs(p) PROVE AwaitsTheAttempt'
    BY <1>6 DEF AwaitsTheAttempt, Wins, Errs, Succeed, HandleError, End, NextEntry
  <1> QED
    BY <1>3, <1>4, <1>5, <1>6 DEF Kind, LoopStep

\* The entries before the loop's were skipped or failed with an error that goes
\* on; none behind it was touched.
LEMMA WalksThePlanNext ==
  ASSUME TypeOK, AwaitsTheAttempt, WalksThePlan, LoopStep \/ \E p \in Provider : Kind(p)
  PROVE  WalksThePlan'
  <1>1. UNCHANGED config /\ Plan' = Plan
    BY SamePlan DEF LoopStep, BuildPlan, Skip, Attempt, Exhaust, Kind, GoesOn, Drops, Wins, Errs
  <1>2. /\ op \in [Provider -> {"idle", "start", "check", "emit", "call", "backoff", "ended"}]
        /\ failed \in [Provider -> ErrorClass \cup {None}]
        /\ i \in 1..(Len(Plan) + 1)
    BY DEF TypeOK
  <1>3. /\ Plan \in Seq(Provider) /\ Len(Plan) \in Nat \ {0} /\ DOMAIN Plan = 1..Len(Plan)
        /\ \A n, m \in DOMAIN Plan : Plan[n] = Plan[m] => n = m
        /\ Plan[1] = effective
    BY PlanIsSound
  <1>4. CASE BuildPlan
    BY <1>1, <1>2, <1>4 DEF BuildPlan, WalksThePlan, Passed, Tried, Reached, End, config
  <1>5. CASE Skip
    <2>1. ~Tried(Plan[i])
      BY <1>2, <1>3, <1>5 DEF Skip, WalksThePlan, Reached
    <2> QED
      BY <1>1, <1>2, <1>3, <1>5, <2>1 DEF Skip, WalksThePlan, Passed, Tried, Reached, End, NextEntry, config
  <1>6. CASE Attempt
    BY <1>1, <1>2, <1>3, <1>6 DEF Attempt, WalksThePlan, Passed, Tried, Reached, config
  <1>7. CASE Exhaust
    BY <1>1, <1>2, <1>3, <1>7 DEF Exhaust, WalksThePlan, Passed, Tried, Reached, End, config
  <1>8. ASSUME NEW p \in Provider, GoesOn(p) \/ Drops(p) PROVE WalksThePlan'
    BY <1>1, <1>2, <1>8 DEF GoesOn, Drops, WalksThePlan, Running, Passed, Tried, Reached, Goto, loop, config
  <1>9. ASSUME NEW p \in Provider, Wins(p) PROVE WalksThePlan'
    <2>1. /\ pc = "attempt" /\ Plan[i] = p /\ i \in DOMAIN Plan
          /\ pc' = "done" /\ i' = i /\ failed' = failed /\ aborted' = aborted
          /\ op' = [op EXCEPT ![p] = "ended"]
      BY <1>9 DEF Wins, Awaited, AwaitsTheAttempt, Succeed, End, Goto
    <2>2. \A n \in DOMAIN Plan : n < i' => Passed(Plan[n])'
      BY <1>1, <2>1 DEF WalksThePlan, Passed, config
    <2>3. ASSUME NEW q \in Provider, Tried(q)' PROVE \E n \in DOMAIN Plan : Plan[n] = q /\ Reached(n)'
      <3>1. CASE q = p
        BY <2>1, <3>1 DEF Reached
      <3>2. CASE q # p
        <4>1. Tried(q)
          BY <1>2, <2>1, <2>3, <3>2 DEF Tried
        <4> QED
          BY <2>1, <4>1 DEF WalksThePlan, Reached
      <3> QED
        BY <3>1, <3>2
    <2> QED
      BY <1>1, <2>1, <2>2, <2>3 DEF WalksThePlan
  <1>10. ASSUME NEW p \in Provider, Errs(p) PROVE WalksThePlan'
    <2>1. pc = "attempt" /\ Plan[i] = p /\ i \in DOMAIN Plan
      BY <1>10 DEF Errs, Awaited, AwaitsTheAttempt
    <2>2. PICK class \in ErrorClass : HandleError(p, class)
      BY <1>10 DEF Errs
    <2>3. /\ failed' = [failed EXCEPT ![p] = class]
          /\ op' = [op EXCEPT ![p] = "ended"] \/ op' = op
          /\ aborted' \subseteq aborted \cup {p}
          /\ \/ class \in Continue /\ pc' = "next" /\ i' = i + 1
             \/ class \notin Continue /\ pc' = "done" /\ i' = i
      BY <1>10, <2>2 DEF Errs, HandleError, NextEntry, End, Goto
    <2>4. ASSUME NEW n \in DOMAIN Plan, n < i' PROVE Passed(Plan[n])'
      BY <1>1, <1>2, <1>3, <2>1, <2>3, <2>4 DEF WalksThePlan, Passed, config
    <2>5. ASSUME NEW q \in Provider, Tried(q)' PROVE \E n \in DOMAIN Plan : Plan[n] = q /\ Reached(n)'
      <3>1. CASE q = p
        BY <1>2, <2>1, <2>3, <3>1 DEF Reached
      <3>2. CASE q # p
        <4>1. Tried(q)
          BY <1>2, <2>3, <2>5, <3>2 DEF Tried
        <4>2. PICK n \in DOMAIN Plan : Plan[n] = q /\ n < i
          BY <2>1, <3>2, <4>1 DEF WalksThePlan, Reached
        <4> QED
          BY <1>2, <1>3, <2>3, <4>2 DEF Reached
      <3> QED
        BY <3>1, <3>2
    <2> QED
      BY <1>1, <2>3, <2>4, <2>5 DEF WalksThePlan
  <1> QED
    BY <1>4, <1>5, <1>6, <1>7, <1>8, <1>9, <1>10 DEF Kind, LoopStep

\* The remembered errors are those of entries that were passed.
LEMMA RemembersNext ==
  ASSUME TypeOK, AwaitsTheAttempt, WalksThePlan, Remembers, LoopStep \/ \E p \in Provider : Kind(p)
  PROVE  Remembers'
  <1>1. UNCHANGED config
    BY DEF LoopStep, BuildPlan, Skip, Attempt, Exhaust, Kind, GoesOn, Drops, Wins, Errs
  <1>2. /\ failed \in [Provider -> ErrorClass \cup {None}] /\ effective \in Provider
        /\ None \notin Provider \cup ErrorClass
    BY NoneAssumption DEF TypeOK, NoneAssumption
  <1>3. CASE LoopStep
    BY <1>1, <1>3 DEF LoopStep, BuildPlan, Skip, Attempt, Exhaust, End, NextEntry, Remembers, config
  <1>4. ASSUME NEW p \in Provider, GoesOn(p) \/ Drops(p) PROVE Remembers'
    BY <1>1, <1>4 DEF GoesOn, Drops, Remembers, loop, config
  <1>5. ASSUME NEW p \in Provider, Wins(p) PROVE Remembers'
    BY <1>5 DEF Wins, Succeed, End, Remembers
  <1>6. ASSUME NEW p \in Provider, Errs(p) PROVE Remembers'
    <2>1. pc = "attempt" /\ Plan[i] = p /\ lastAttemptedId = p /\ failed[p] = None
      BY <1>6 DEF Errs, Awaited, AwaitsTheAttempt
    <2>2. PICK class \in ErrorClass : HandleError(p, class)
      BY <1>6 DEF Errs
    <2>3. CASE class \in Continue
      <3>1. /\ failed' = [failed EXCEPT ![p] = class]
            /\ lastEligibleError' = [by |-> p, class |-> class]
            /\ effectiveError' = IF p = effective THEN lastEligibleError' ELSE effectiveError
            /\ pc' = "next" /\ lastAttemptedId' = p /\ effective' = effective
        BY <1>1, <2>1, <2>2, <2>3 DEF HandleError, NextEntry, config
      <3>2. /\ failed'[p] = class /\ class # None /\ p # None
            /\ \A q \in Provider \ {p} : failed'[q] = failed[q]
        BY <1>2, <3>1
      <3>3. effectiveError' = IF failed'[effective] = None THEN None
                              ELSE [by |-> effective, class |-> failed'[effective]]
        BY <1>2, <2>1, <3>1, <3>2 DEF Remembers
      <3>4. \A q \in Provider : failed'[q] \in Continue \cup {None}
        BY <2>1, <2>3, <3>2 DEF Remembers
      <3> HIDE <2>2
      <3> QED
        BY <2>3, <3>1, <3>2, <3>3, <3>4 DEF Remembers
    <2>4. CASE class \notin Continue
      BY <2>2, <2>4 DEF HandleError, End, Remembers
    <2> QED
      BY <2>3, <2>4
  <1> QED
    BY <1>3, <1>4, <1>5, <1>6 DEF Kind

\* The backoff is only entered with a retry left, and no other step of the
\* operation touches its counter.
LEMMA RetriesAreLeftNext ==
  ASSUME TypeOK, RetriesAreLeft,
         LoopStep \/ \E p \in Provider : OpStep(p) \/ CallEnds(p) \/ TimeOut(p)
  PROVE  RetriesAreLeft' /\ attempt' \in [Provider -> 0..MaxRetries]
  <1>1. /\ op \in [Provider -> {"idle", "start", "check", "emit", "call", "backoff", "ended"}]
        /\ attempt \in [Provider -> 0..MaxRetries] /\ MaxRetries \in Nat
    BY ConstantsAssumption DEF TypeOK, ConstantsAssumption
  <1>2. CASE LoopStep
    BY <1>1, <1>2, PlanIsSound DEF LoopStep, BuildPlan, Skip, Attempt, Exhaust, RetriesAreLeft
  <1>3. ASSUME NEW p \in Provider, OpStep(p) \/ CallEnds(p) \/ TimeOut(p)
        PROVE  RetriesAreLeft' /\ attempt' \in [Provider -> 0..MaxRetries]
    <2>1. CASE Look(p)
      BY <1>1, <2>1 DEF Look, Reject, Resolve, Goto, RetriesAreLeft
    <2>2. CASE CheckSignal(p)
      BY <1>1, <2>2 DEF CheckSignal, Reject, Goto, RetriesAreLeft
    <2>3. CASE Emit(p)
      BY <1>1, <2>3 DEF Emit, Goto, RetriesAreLeft
    <2>4. CASE Wake(p)
      BY <1>1, <2>4 DEF Wake, Reject, Goto, RetriesAreLeft
    <2>5. CASE CallEnds(p)
      BY <1>1, <2>5 DEF CallEnds, Reject, Resolve, Goto, Retries, RetriesAreLeft
    <2>6. CASE TimeOut(p)
      BY <1>1, <2>6 DEF TimeOut, RetriesAreLeft
    <2> QED
      BY <1>3, <2>1, <2>2, <2>3, <2>4, <2>5, <2>6 DEF OpStep
  <1> QED
    BY <1>2, <1>3

\* When the plan is exhausted the error thrown is a provider's own, or the
\* preflight error of the effective one.
LEMMA ExhaustionErrorIsRight ==
  ASSUME TypeOK, WalksThePlan, Remembers, pc = "next", i > Len(Plan)
  PROVE  /\ ExhaustionError \in Error
         /\ LET r == ExhaustionError
                ran == {p \in Provider : failed[p] # None}
            IN /\ r.class \in Continue \cup Ineligible
               /\ r.class \in Continue =>
                    /\ failed[r.by] = r.class
                    /\ effective \in ran => r.by = effective
                    /\ effective \notin ran => r.by = lastAttemptedId
               /\ r.class \in Ineligible => ran = {} /\ r.by = effective
  <1>1. /\ failed \in [Provider -> ErrorClass \cup {None}] /\ effective \in Provider
        /\ lastAttemptedId \in Provider \cup {None}
        /\ status \in [Provider -> {"eligible", "broken"} \cup Ineligible]
        /\ Continue \subseteq ErrorClass /\ None \notin Provider \cup ErrorClass \cup Error
    BY NoneAssumption DEF TypeOK, NoneAssumption, ErrorClass
  <1>2. CASE failed[effective] # None
    <2>1. failed[effective] \in Continue
      BY <1>1, <1>2 DEF Remembers
    <2>2. effectiveError = [by |-> effective, class |-> failed[effective]]
      BY <1>2 DEF Remembers
    <2>3. effectiveError \in Error
      BY <1>1, <2>1, <2>2 DEF Error
    <2>4. ExhaustionError = [by |-> effective, class |-> failed[effective]]
      BY <1>1, <2>2, <2>3 DEF ExhaustionError
    <2> QED
      BY <1>1, <1>2, <2>1, <2>2, <2>3, <2>4 DEF Continue, Ineligible
  <1>3. CASE failed[effective] = None /\ lastAttemptedId # None
    <2>1. /\ failed[lastAttemptedId] \in Continue
          /\ lastEligibleError = [by |-> lastAttemptedId, class |-> failed[lastAttemptedId]]
          /\ effectiveError = None
      BY <1>3 DEF Remembers
    <2>2. lastEligibleError \in Error
      BY <1>1, <1>3, <2>1 DEF Error
    <2>3. ExhaustionError = [by |-> lastAttemptedId, class |-> failed[lastAttemptedId]]
      BY <1>1, <2>1, <2>2 DEF ExhaustionError
    <2> QED
      BY <1>1, <1>3, <2>1, <2>2, <2>3 DEF Continue, Ineligible
  <1>4. CASE failed[effective] = None /\ lastAttemptedId = None
    <2>1. /\ effectiveError = None /\ lastEligibleError = None
          /\ \A p \in Provider : failed[p] = None
      BY <1>4 DEF Remembers
    <2>2. status[effective] \in Ineligible
      <3>1. 1 \in DOMAIN Plan /\ 1 < i /\ Plan[1] = effective
        BY PlanIsSound DEF TypeOK
      <3> QED
        BY <1>1, <1>4, <3>1 DEF WalksThePlan, Passed
    <2>3. ExhaustionError = [by |-> effective, class |-> status[effective]]
      BY <2>1 DEF ExhaustionError
    <2> QED
      BY <1>1, <2>1, <2>2, <2>3 DEF Error, Continue, Ineligible
  <1> QED
    BY <1>2, <1>3, <1>4

\* The command ends with what its plan calls for.
LEMMA EndsAsPlannedNext ==
  ASSUME TypeOK, AwaitsTheAttempt, WalksThePlan, Remembers,
         LoopStep \/ \E p \in Provider : Kind(p)
  PROVE  EndsAsPlanned'
  <1>1. UNCHANGED config /\ Plan' = Plan
    BY SamePlan DEF LoopStep, BuildPlan, Skip, Attempt, Exhaust, Kind, GoesOn, Drops, Wins, Errs
  <1>2. /\ op \in [Provider -> {"idle", "start", "check", "emit", "call", "backoff", "ended"}]
        /\ failed \in [Provider -> ErrorClass \cup {None}]
        /\ i \in 1..(Len(Plan) + 1)
    BY DEF TypeOK
  <1>3. /\ Plan \in Seq(Provider) /\ Len(Plan) \in Nat \ {0} /\ DOMAIN Plan = 1..Len(Plan)
        /\ \A n, m \in DOMAIN Plan : Plan[n] = Plan[m] => n = m
        /\ Plan[1] = effective
        /\ ~fallbackEnabled => Len(Plan) = 1
    BY PlanIsSound
  <1>4. ASSUME pc' # "done" PROVE EndsAsPlanned'
    BY <1>4 DEF EndsAsPlanned, FailsWithTheRightError, FirstWorkingProviderWins
  <1>5. ASSUME result'.class = "broken" PROVE EndsAsPlanned'
    BY <1>5 DEF EndsAsPlanned, FailsWithTheRightError, FirstWorkingProviderWins
  <1>6. CASE BuildPlan
    BY <1>4, <1>5, <1>6 DEF BuildPlan, End
  <1>7. CASE Skip
    <2>1. CASE fallbackEnabled
      BY <1>4, <1>7, <2>1 DEF Skip, NextEntry
    <2>2. CASE ~fallbackEnabled
      <3>1. /\ i = 1 /\ Plan[i] = effective /\ status[effective] \in Ineligible
            /\ result' = [by |-> effective, class |-> status[effective]]
            /\ failed' = failed /\ effective' = effective /\ pc = "next"
        BY <1>1, <1>2, <1>3, <1>7, <2>2 DEF Skip, End, config
      <3>2. \A p \in Provider : failed[p] = None
        BY <1>2, <1>3, <3>1 DEF WalksThePlan, Tried, Reached
      <3> QED
        BY <3>1, <3>2 DEF EndsAsPlanned, FailsWithTheRightError, FirstWorkingProviderWins,
                          Continue, Ineligible
    <2> QED
      BY <2>1, <2>2
  <1>8. CASE Attempt
    BY <1>4, <1>8 DEF Attempt
  <1>9. CASE Exhaust
    <2>1. /\ result' = ExhaustionError /\ pc = "next" /\ i > Len(Plan)
          /\ failed' = failed /\ effective' = effective /\ lastAttemptedId' = lastAttemptedId
      BY <1>1, <1>9 DEF Exhaust, End, config
    <2> DEFINE r == ExhaustionError
    <2> HIDE DEF r
    <2>2. /\ result' = r /\ r.class \in Continue \cup Ineligible
          /\ r.class \in Continue =>
               /\ failed[r.by] = r.class
               /\ failed[effective] # None => r.by = effective
               /\ failed[effective] = None => r.by = lastAttemptedId
          /\ r.class \in Ineligible => r.by = effective /\ \A p \in Provider : failed[p] = None
      BY <2>1, ExhaustionErrorIsRight DEF r, TypeOK
    <2>3. r.class \notin {"ok", "validation", "unknown"}
      BY <2>2 DEF Continue, Ineligible
    <2> QED
      <3>1. effective \in Provider
        BY DEF TypeOK
      <3> QED
        BY <2>1, <2>2, <2>3, <3>1 DEF EndsAsPlanned, FailsWithTheRightError, FirstWorkingProviderWins
  <1>10. ASSUME NEW p \in Provider, GoesOn(p) \/ Drops(p) PROVE EndsAsPlanned'
    BY <1>4, <1>10 DEF GoesOn, Drops, loop
  <1>11. ASSUME NEW p \in Provider, Wins(p) PROVE EndsAsPlanned'
    <2>1. /\ pc = "attempt" /\ Plan[i] = p /\ i \in DOMAIN Plan
          /\ result' = [by |-> p, class |-> "ok"] /\ i' = i /\ failed' = failed
          /\ op' = [op EXCEPT ![p] = "ended"] /\ status' = status
      BY <1>1, <1>11 DEF Wins, Awaited, AwaitsTheAttempt, Succeed, End, Goto, config
    <2>2. ASSUME NEW n \in DOMAIN Plan, n > i PROVE op'[Plan[n]] = "idle"
      <3>1. Plan[n] \in Provider /\ Plan[n] # p
        BY <1>2, <1>3, <2>1, <2>2
      <3>2. ~Tried(Plan[n])
        BY <1>2, <1>3, <2>1, <2>2, <3>1 DEF WalksThePlan, Reached
      <3> QED
        BY <1>2, <2>1, <3>1, <3>2 DEF Tried
    <2>3. \A n \in DOMAIN Plan : n < i => status[Plan[n]] \in Ineligible \/ failed[Plan[n]] \in Continue
      BY DEF WalksThePlan, Passed
    <2> QED
      BY <1>1, <2>1, <2>2, <2>3 DEF EndsAsPlanned, FailsWithTheRightError, FirstWorkingProviderWins
  <1>12. ASSUME NEW p \in Provider, Errs(p) PROVE EndsAsPlanned'
    <2>1. PICK class \in ErrorClass : HandleError(p, class)
      BY <1>12 DEF Errs
    <2>2. CASE class \in Continue
      BY <1>4, <2>1, <2>2 DEF HandleError, NextEntry
    <2>3. CASE class \notin Continue
      <3>1. failed'[p] = class /\ result' = [by |-> p, class |-> class]
        BY <1>2, <2>1, <2>3 DEF HandleError, End
      <3> QED
        BY <2>3, <3>1 DEF EndsAsPlanned, FailsWithTheRightError, FirstWorkingProviderWins,
                          ErrorClass, Continue, Ineligible
    <2> QED
      BY <2>2, <2>3
  <1> QED
    BY <1>6, <1>7, <1>8, <1>9, <1>10, <1>11, <1>12 DEF Kind, LoopStep

\* The types, in parts.
Line == [kind : {"skip", "switch", "summary", "exhausted", "none"}, of : Provider]
LoopTypeOK ==
    /\ pc \in {"plan", "next", "attempt", "done"}
    /\ i \in 1..(Len(Plan) + 1)
    /\ lastAttemptedId \in Provider \cup {None}
    /\ effectiveError \in Error \cup {None}
    /\ lastEligibleError \in Error \cup {None}
    /\ result \in Error \cup [by : Provider, class : {"ok"}] \cup {None}
    /\ failed \in [Provider -> ErrorClass \cup {None}]
OpTypeOK ==
    /\ op \in [Provider -> {"idle", "start", "check", "emit", "call", "backoff", "ended"}]
    /\ aborted \subseteq Provider
NoticesTypeOK == notices \in Seq(Line)

\* Every step keeps the variables in their types.
LEMMA TypeOKNext ==
  ASSUME TypeOK, AwaitsTheAttempt, WalksThePlan, Remembers, RetriesAreLeft, Next
  PROVE  TypeOK'
  <1>1. LoopStep \/ \E p \in Provider : OpStep(p) \/ CallEnds(p) \/ TimeOut(p)
    BY DEF Next
  <1>2. LoopStep \/ \E p \in Provider : Kind(p)
    BY <1>1, Kinds
  <1>3. UNCHANGED config /\ Plan' = Plan
    BY <1>2, SamePlan DEF LoopStep, BuildPlan, Skip, Attempt, Exhaust, Kind, GoesOn, Drops, Wins, Errs
  <1>4. /\ Plan \in Seq(Provider) /\ Len(Plan) \in Nat \ {0} /\ DOMAIN Plan = 1..Len(Plan)
        /\ i \in 1..(Len(Plan) + 1) /\ effective \in Provider
        /\ status \in [Provider -> {"eligible", "broken"} \cup Ineligible]
        /\ lastAttemptedId \in Provider \cup {None}
    BY PlanIsSound DEF TypeOK
  <1>5. attempt' \in [Provider -> 0..MaxRetries]
    BY <1>1, RetriesAreLeftNext
  <1>6. LoopTypeOK /\ OpTypeOK /\ NoticesTypeOK
    BY DEF TypeOK, LoopTypeOK, OpTypeOK, NoticesTypeOK, Line
  <1>7. ASSUME NEW kind \in {"skip", "switch", "summary", "exhausted", "none"}, NEW p \in Provider,
               Notice(kind, p)
        PROVE  NoticesTypeOK'
    <2>1. [kind |-> kind, of |-> p] \in Line
      BY DEF Line
    <2>2. Append(notices, [kind |-> kind, of |-> p]) \in Seq(Line)
      BY <1>6, <2>1 DEF NoticesTypeOK
    <2> QED
      BY <1>6, <1>7, <2>2 DEF Notice, NoticesTypeOK
  <1>8. ASSUME notices' = notices PROVE NoticesTypeOK'
    BY <1>6, <1>8 DEF NoticesTypeOK
  <1>9. ASSUME BuildPlan PROVE LoopTypeOK' /\ OpTypeOK' /\ NoticesTypeOK'
    <2>1. \A n \in DOMAIN Plan : [by |-> Plan[n], class |-> "broken"] \in Error
      BY <1>4 DEF Error
    <2>2. /\ UNCHANGED <<op, aborted, i, lastAttemptedId, effectiveError, lastEligibleError,
                         notices, failed>>
          /\ pc' \in {"next", "done"}
          /\ result' = result \/ result' \in Error
      <3> HIDE DEF Error
      <3> QED
        BY <1>9, <2>1 DEF BuildPlan, End
    <2> QED
      BY <1>3, <1>6, <1>8, <2>2 DEF LoopTypeOK, OpTypeOK
  <1>10. ASSUME Skip PROVE LoopTypeOK' /\ OpTypeOK' /\ NoticesTypeOK'
    <2>1. Plan[i] \in Provider
      BY <1>4, <1>10 DEF Skip
    <2>2. [by |-> Plan[i], class |-> status[Plan[i]]] \in Error
      BY <1>10, <2>1 DEF Skip, Error
    <2>3. i' \in 1..(Len(Plan) + 1)
      BY <1>4, <1>10 DEF Skip, NextEntry, End
    <2>4. NoticesTypeOK'
      BY <1>7, <1>10, <2>1 DEF Skip
    <2>5. /\ UNCHANGED <<op, aborted, lastAttemptedId, effectiveError, lastEligibleError, failed>>
          /\ pc' \in {"next", "done"}
          /\ result' = result \/ result' \in Error
      BY <1>10, <2>2 DEF Skip, NextEntry, End
    <2> QED
      BY <1>3, <1>6, <2>3, <2>4, <2>5 DEF LoopTypeOK, OpTypeOK
  <1>11. ASSUME Attempt PROVE LoopTypeOK' /\ OpTypeOK' /\ NoticesTypeOK'
    <2>1. Plan[i] \in Provider
      BY <1>4, <1>11 DEF Attempt
    <2> QED
      BY <1>3, <1>6, <1>8, <1>11, <2>1 DEF Attempt, LoopTypeOK, OpTypeOK
  <1>12. ASSUME Exhaust PROVE LoopTypeOK' /\ OpTypeOK' /\ NoticesTypeOK'
    <2>1. ExhaustionError \in Error
      BY <1>12, ExhaustionErrorIsRight DEF Exhaust
    <2>4. /\ UNCHANGED <<op, aborted, i, lastAttemptedId, effectiveError, lastEligibleError, failed>>
          /\ pc' = "done" /\ result' \in Error
      BY <1>12, <2>1 DEF Exhaust, End
    <2>5. NoticesTypeOK'
      BY <1>4, <1>7, <1>12 DEF Exhaust
    <2> QED
      BY <1>3, <1>6, <2>4, <2>5 DEF LoopTypeOK, OpTypeOK
  <1>13. ASSUME NEW p \in Provider, Kind(p) PROVE LoopTypeOK' /\ OpTypeOK' /\ NoticesTypeOK'
    <2>1. CASE GoesOn(p) \/ Drops(p)
      BY <1>3, <1>6, <1>8, <2>1 DEF GoesOn, Drops, Goto, loop, LoopTypeOK, OpTypeOK
    <2>2. CASE Wins(p)
      <3>1. NoticesTypeOK'
        BY <1>7, <1>8, <2>2 DEF Wins, Succeed
      <3> QED
        BY <1>3, <1>6, <2>2, <3>1 DEF Wins, Succeed, End, Goto, LoopTypeOK, OpTypeOK
    <2>3. CASE Errs(p)
      <3>1. PICK class \in ErrorClass : HandleError(p, class)
        BY <2>3 DEF Errs
      <3>2. [by |-> p, class |-> class] \in Error
        BY DEF Error
      <3>3. i \in DOMAIN Plan
        BY <2>3 DEF Errs, Awaited, AwaitsTheAttempt
      <3>4. i' \in 1..(Len(Plan) + 1)
        BY <1>4, <3>1, <3>3 DEF HandleError, NextEntry, End
      <3>5. OpTypeOK'
        BY <1>6, <2>3 DEF Errs, Goto, OpTypeOK
      <3>6. NoticesTypeOK'
        BY <1>7, <1>8, <3>1 DEF HandleError
      <3>7. LoopTypeOK'
        BY <1>3, <1>6, <3>1, <3>2, <3>4 DEF HandleError, NextEntry, End, LoopTypeOK
      <3> QED
        BY <3>5, <3>6, <3>7
    <2> QED
      BY <1>13, <2>1, <2>2, <2>3 DEF Kind
  <1>14. LoopTypeOK' /\ OpTypeOK' /\ NoticesTypeOK'
    BY <1>2, <1>9, <1>10, <1>11, <1>12, <1>13 DEF LoopStep
  <1>15. effective' = effective /\ fallbackEnabled' = fallbackEnabled /\ bounded' = bounded
         /\ status' = status
    BY <1>3 DEF config
  <1> QED
    BY <1>5, <1>14, <1>15 DEF TypeOK, LoopTypeOK, OpTypeOK, NoticesTypeOK, Line

-----------------------------------------------------------------------------

\* The invariant holds when the command starts.
LEMMA IInvInit == Init => IInv
  <1> SUFFICES ASSUME Init PROVE IInv
    OBVIOUS
  <1>1. TypeOK
    <2>1. Plan \in Seq(Provider) /\ Len(Plan) \in Nat
      BY Without DEF Init, Plan
    <2> QED
      BY <2>1, ConstantsAssumption DEF Init, TypeOK, ConstantsAssumption
  <1> QED
    BY <1>1 DEF Init, IInv, WalksThePlan, Tried, AwaitsTheAttempt, RunsAwaited, Running, Remembers,
                RetriesAreLeft, EndsAsPlanned, FailsWithTheRightError, FirstWorkingProviderWins

\* Every step keeps the invariant.
LEMMA IInvNext == IInv /\ [Next]_vars => IInv'
  <1> SUFFICES ASSUME IInv, [Next]_vars PROVE IInv'
    OBVIOUS
  <1>1. CASE Next
    <2>1. LoopStep \/ \E p \in Provider : Kind(p)
      BY <1>1, Kinds DEF Next, IInv
    <2>2. RetriesAreLeft'
      BY <1>1, RetriesAreLeftNext DEF Next, IInv
    <2> QED
      BY <1>1, <2>1, <2>2, TypeOKNext, WalksThePlanNext, AwaitsTheAttemptNext, RunsAwaitedNext,
         RemembersNext, EndsAsPlannedNext DEF IInv
  <1>2. CASE UNCHANGED vars
    <2>1. UNCHANGED <<effective, fallbackEnabled, bounded, status, pc, i, lastAttemptedId,
                      effectiveError, lastEligibleError, result, notices, failed, op, attempt,
                      aborted, Plan>>
      BY <1>2, SamePlan DEF vars, config, loop
    <2>2. TypeOK'
      BY <2>1 DEF IInv, TypeOK
    <2>3. WalksThePlan'
      BY <2>1 DEF IInv, WalksThePlan, Passed, Tried, Reached
    <2>4. AwaitsTheAttempt' /\ RunsAwaited' /\ RetriesAreLeft'
      BY <2>1 DEF IInv, AwaitsTheAttempt, RunsAwaited, Running, RetriesAreLeft
    <2>5. Remembers'
      BY <2>1 DEF IInv, Remembers
    <2>6. EndsAsPlanned'
      BY <2>1 DEF IInv, EndsAsPlanned, FailsWithTheRightError, FirstWorkingProviderWins
    <2> QED
      BY <2>2, <2>3, <2>4, <2>5, <2>6 DEF IInv
  <1> QED
    BY <1>1, <1>2

\* The invariant holds in every reachable state.
THEOREM Inductive == Spec => []IInv
  BY IInvInit, IInvNext, PTL DEF Spec

\* The variables of executeWithFallback and its operations keep their types.
THEOREM TypeCorrect == Spec => []TypeOK
  <1>1. IInv => TypeOK
    BY DEF IInv
  <1> QED
    BY <1>1, Inductive, PTL

\* Whatever the candidates answer and whenever the timeout fires, the command
\* ends with the result of the first provider that worked, or with the error
\* the caller should see.
THEOREM EndsAsPlannedHolds == Spec => []EndsAsPlanned
  <1>1. IInv => EndsAsPlanned
    BY DEF IInv
  <1> QED
    BY <1>1, Inductive, PTL

\* Two providers are called at the same time only after a timeout.
THEOREM OverlapOnlyAfterTimeoutHolds == Spec => []OverlapOnlyAfterTimeout
  <1>1. IInv => OverlapOnlyAfterTimeout
    BY DEF IInv, RunsAwaited, Running, OverlapOnlyAfterTimeout
  <1> QED
    BY <1>1, Inductive, PTL

-----------------------------------------------------------------------------
\* BatchRunner.  BatchInv adds to the type invariant how the three places an
\* operation's state is kept in agree: the shared index, the worker that has it,
\* and its record.

\* The handlers called are those below the index, each once.
StartedBelowIndex ==
    /\ \A o \in Operation : started[o] = IF o < nextIndex THEN 1 ELSE 0
    /\ \A w \in Worker : index[w] < nextIndex

OwnersDiffer ==
    \A v, w \in Worker : v # w /\ index[v] = index[w] => index[v] = 0

\* A worker carries the outcome of its operation, which has no record yet.
CarriesOutcome ==
    \A w \in Worker :
        /\ stage[w] # "done" => records[index[w]] = NotYet
        /\ stage[w] \notin {"run", "done"} =>
             outcome[w] # NotYet /\ ended[index[w]] = outcome[w]

\* Until the summary, an operation that was called is recorded as it ended, or
\* some worker still has it.
RecordsTellEnds ==
    envelope = NotYet => \A o \in Operation :
        /\ records[o] # NotYet =>
             /\ o < nextIndex
             /\ ended[o] # NotYet
             /\ records[o] = IF ended[o] = "failed" THEN "failed" ELSE "ok"
        /\ o < nextIndex /\ records[o] = NotYet => \E w \in Worker : index[w] = o

\* The scheduling stops for a recorded failure under --fail-fast and for
\* nothing else, and no worker ends before it stops or the manifest is done.
StopsForFailure ==
    /\ stopScheduling <=> failFast /\ \E o \in Operation : records[o] = "failed"
    /\ failFastTriggered = stopScheduling
    /\ \A w \in Worker : stage[w] = "done" => stopScheduling \/ nextIndex > Total

Writing == {"temp", "rename", "cleanup"}

\* An operation's file is as it was until its worker has written it or given
\* up, and only a success with output is being written.
FilesTellEnds ==
    /\ \A w \in Worker : stage[w] \in {"run"} \cup Writing =>
         target[index[w]] = "old" /\ index[w] \notin writeErrors
    /\ \A w \in Worker : stage[w] \in Writing => outcome[w] = "ok" /\ index[w] \in declares
    /\ \A o \in Operation : o >= nextIndex => target[o] = "old" /\ o \notin writeErrors
    /\ \A o \in Operation : target[o] = "output" => o \in declares /\ ended[o] = "ok"
    /\ \A o \in declares : ended[o] \in {"ok", "silent"} =>
         \/ target[o] = "output" <=> o \notin writeErrors
         \/ \E w \in Worker : index[w] = o /\ stage[w] \in Writing

SummaryIsLast ==
    /\ envelope # NotYet => \A w \in Worker : stage[w] = "done"
    /\ SummaryTellsTheRun

BatchInv ==
    /\ BatchTypeOK
    /\ StartedBelowIndex
    /\ OwnersDiffer
    /\ CarriesOutcome
    /\ RecordsTellEnds
    /\ StopsForFailure
    /\ FilesTellEnds
    /\ SummaryIsLast

-----------------------------------------------------------------------------
\* The pool is never larger than the manifest, and has a worker if it has work.
LEMMA WorkerCountBounds ==
    /\ WorkerCount \in Nat
    /\ WorkerCount <= Total
    /\ Worker \subseteq Operation
    /\ Operation # {} => Worker # {}
  BY BatchAssumption DEF WorkerCount, Worker, Operation

\* The pool as created satisfies the invariant.
LEMMA BatchInvInit == BatchInit => BatchInv
  <1> SUFFICES ASSUME BatchInit PROVE BatchInv
    OBVIOUS
  <1> USE BatchAssumption, WorkerCountBounds
  <1>1. BatchTypeOK
    <2>1. index \in [Worker -> Operation \cup {0}]
      BY DEF BatchInit
    <2>2. \A w \in Worker : index[w] # 0 /\ stage[w] = "run"
      BY DEF BatchInit, Worker
    <2>3. started \in [Operation -> Nat] /\ nextIndex \in Nat \ {0}
      BY DEF BatchInit
    <2> QED BY <2>1, <2>2, <2>3 DEF BatchInit, BatchTypeOK
  <1>2. StartedBelowIndex /\ OwnersDiffer
    BY DEF BatchInit, StartedBelowIndex, OwnersDiffer, Worker, Operation
  <1>3. CarriesOutcome
    BY DEF BatchInit, CarriesOutcome
  <1>4. RecordsTellEnds
    BY DEF BatchInit, RecordsTellEnds, Worker, Operation
  <1>5. StopsForFailure /\ SummaryIsLast
    BY DEF BatchInit, StopsForFailure, SummaryIsLast, SummaryTellsTheRun, Record
  <1>6. FilesTellEnds
    BY DEF BatchInit, FilesTellEnds, Writing, Outcome
  <1> QED BY <1>1, <1>2, <1>3, <1>4, <1>5, <1>6 DEF BatchInv

\* What a step that leaves the pool's shared state alone has to show.
LEMMA PoolKept ==
  ASSUME BatchInv, UNCHANGED <<failFast, pool, index, started>>, BatchTypeOK', FilesTellEnds',
         NEW w \in Worker, stage[w] # "done", stage'[w] # "done",
         \A v \in Worker \ {w} : stage'[v] = stage[v] /\ outcome'[v] = outcome[v],
         \A o \in Operation : o # index[w] => ended'[o] = ended[o],
         outcome'[w] # NotYet, ended'[index[w]] = outcome'[w]
  PROVE  BatchInv'
  <1> USE DEF BatchInv, pool
  <1>0. index[w] \in Operation /\ records[index[w]] = NotYet /\ envelope = NotYet
    BY DEF BatchTypeOK, CarriesOutcome, SummaryIsLast
  <1>1. StartedBelowIndex' /\ OwnersDiffer'
    BY DEF StartedBelowIndex, OwnersDiffer
  <1>2. CarriesOutcome'
    <2>1. \A v \in Worker \ {w} : stage[v] # "done" => index[v] # index[w] /\ index[v] \in Operation
      BY <1>0 DEF OwnersDiffer, BatchTypeOK, Operation
    <2> QED BY <2>1 DEF CarriesOutcome
  <1>3. RecordsTellEnds'
    BY <1>0 DEF RecordsTellEnds
  <1>4. StopsForFailure'
    BY DEF StopsForFailure
  <1>5. SummaryIsLast'
    BY <1>0 DEF SummaryIsLast, SummaryTellsTheRun
  <1> QED BY <1>1, <1>2, <1>3, <1>4, <1>5

\* A worker at work has an operation to itself.
LEMMA OwnOperation ==
  ASSUME BatchInv, NEW w \in Worker, stage[w] # "done"
  PROVE  /\ index[w] \in Operation
         /\ \A v \in Worker \ {w} : index[v] # index[w]
  BY DEF BatchInv, BatchTypeOK, OwnersDiffer, Operation

\* The end of a handler.
LEMMA HandlerEndsIInv ==
  ASSUME BatchInv, NEW w \in Worker, HandlerEnds(w)
  PROVE  BatchInv'
  <1> USE DEF HandlerEnds, MoveTo
  <1>1. BatchTypeOK'
    BY OwnOperation, BatchAssumption DEF BatchInv, BatchTypeOK, options, pool, SilentError, Outcome
  <1>2. /\ stage'[w] # "done" /\ outcome'[w] # NotYet /\ ended'[index[w]] = outcome'[w]
        /\ \A v \in Worker \ {w} : stage'[v] = stage[v] /\ outcome'[v] = outcome[v]
        /\ \A o \in Operation : o # index[w] => ended'[o] = ended[o]
    BY OwnOperation, BatchAssumption DEF BatchInv, BatchTypeOK
  <1>3. FilesTellEnds'
    BY OwnOperation, BatchAssumption
       DEF BatchInv, BatchTypeOK, FilesTellEnds, Writing, Writes, SilentError, StartedBelowIndex,
           options, pool, Outcome, Operation
  <1> QED BY <1>1, <1>2, <1>3, PoolKept DEF options

\* The steps of writeCapturedOutput.
LEMMA WriteOutputIInv ==
  ASSUME BatchInv, NEW w \in Worker, WriteTemp(w) \/ Rename(w) \/ Cleanup(w)
  PROVE  BatchInv'
  <1> USE DEF WriteTemp, Rename, Cleanup, MoveTo
  <1>0. /\ index[w] \in declares /\ outcome[w] = "ok" /\ ended[index[w]] = "ok"
        /\ stage[w] \in Writing /\ stage[w] # "done"
    BY DEF BatchInv, FilesTellEnds, Writing, CarriesOutcome
  <1>1. BatchTypeOK'
    BY <1>0 DEF BatchInv, BatchTypeOK, options, pool
  <1>2. FilesTellEnds'
    <2> DEFINE own == index[w]
    <2>1. /\ own \in Operation /\ own < nextIndex
          /\ \A v \in Worker \ {w} : index[v] # own /\ stage'[v] = stage[v]
          /\ target[own] = "old" /\ own \notin writeErrors
      BY <1>0, OwnOperation DEF BatchInv, BatchTypeOK, FilesTellEnds, StartedBelowIndex
    <2>2. /\ \A o \in Operation \ {own} : target'[o] = target[o] /\ (o \in writeErrors' <=> o \in writeErrors)
          /\ UNCHANGED <<index, outcome, declares, ended, nextIndex>>
      BY <2>1 DEF BatchInv, BatchTypeOK, options, pool
    <2>3. \/ stage'[w] \in Writing /\ target'[own] = "old" /\ own \notin writeErrors'
          \/ stage'[w] = "settle" /\ (target'[own] = "output" <=> own \notin writeErrors')
      BY <1>0, <2>1 DEF BatchInv, BatchTypeOK, Writing
    <2>4. \A v \in Worker : stage[v] # "done" => index[v] \in Operation
      BY OwnOperation
    <2>5. FilesTellEnds /\ index \in [Worker -> Operation \cup {0}] /\ declares \subseteq Operation
          /\ nextIndex \in Nat
      BY DEF BatchInv, BatchTypeOK
    <2> HIDE DEF WriteTemp, Rename, Cleanup, MoveTo
    <2>6. \A v \in Worker : stage'[v] \in {"run"} \cup Writing =>
            target'[index[v]] = "old" /\ index[v] \notin writeErrors'
      BY <2>1, <2>2, <2>3, <2>4, <2>5 DEF FilesTellEnds, Writing
    <2>7. \A v \in Worker : stage'[v] \in Writing => outcome[v] = "ok" /\ index[v] \in declares
      BY <1>0, <2>1, <2>5 DEF FilesTellEnds
    <2>8. \A o \in Operation : o >= nextIndex => target'[o] = "old" /\ o \notin writeErrors'
      BY <2>1, <2>2, <2>5 DEF FilesTellEnds, Operation
    <2>9. \A o \in Operation : target'[o] = "output" => o \in declares /\ ended[o] = "ok"
      BY <1>0, <2>2, <2>5 DEF FilesTellEnds
    <2>10. \A o \in declares : ended[o] \in {"ok", "silent"} =>
             \/ target'[o] = "output" <=> o \notin writeErrors'
             \/ \E v \in Worker : index[v] = o /\ stage'[v] \in Writing
      <3>1. TAKE o \in declares
      <3>2. CASE o = own
        BY <2>3, <3>2
      <3>3. CASE o # own
        BY <2>1, <2>2, <2>5, <3>3 DEF FilesTellEnds
      <3> QED BY <3>2, <3>3
    <2> QED BY <2>2, <2>6, <2>7, <2>8, <2>9, <2>10 DEF FilesTellEnds
  <1>3. stage'[w] # "done" /\ \A v \in Worker \ {w} : stage'[v] = stage[v]
    BY DEF BatchInv, BatchTypeOK
  <1> QED BY <1>0, <1>1, <1>2, <1>3, PoolKept, BatchAssumption DEF options, Outcome

\* What Settle does to the pool: the worker ends, or it has the next operation.
LEMMA SettleCases ==
  ASSUME BatchInv, NEW w \in Worker, Settle(w)
  PROVE  /\ nextIndex \in Nat \ {0}
         /\ \/ /\ stage' = [stage EXCEPT ![w] = "done"]
               /\ index' = [index EXCEPT ![w] = 0]
               /\ started' = started
               /\ nextIndex' \in {nextIndex, nextIndex + 1}
               /\ stopScheduling' \/ nextIndex > Total
               /\ nextIndex' # nextIndex => nextIndex > Total
            \/ /\ nextIndex \in Operation
               /\ stage' = [stage EXCEPT ![w] = "run"]
               /\ index' = [index EXCEPT ![w] = nextIndex]
               /\ started' = [started EXCEPT ![nextIndex] = @ + 1]
               /\ nextIndex' = nextIndex + 1
               /\ ~stopScheduling'
  BY BatchAssumption DEF BatchInv, BatchTypeOK, Settle, Claim, Advance, MoveTo, Operation

\* The record of an operation, and the claim of the next one.
LEMMA SettleIInv ==
  ASSUME BatchInv, NEW w \in Worker, Settle(w)
  PROVE  BatchInv'
  <1> DEFINE own == index[w]
             kept == IF outcome[w] = "failed" THEN "failed" ELSE "ok"
  <1>1. /\ own \in Operation /\ own < nextIndex
        /\ \A v \in Worker \ {w} : index[v] # own
        /\ records[own] = NotYet /\ envelope = NotYet
        /\ stage[w] = "settle" /\ outcome[w] # NotYet /\ ended[own] = outcome[w]
    BY OwnOperation DEF BatchInv, Settle, StartedBelowIndex, CarriesOutcome, SummaryIsLast
  <1>2. /\ records' = [records EXCEPT ![own] = kept]
        /\ outcome' = [outcome EXCEPT ![w] = NotYet]
        /\ UNCHANGED <<failFast, declares, envelope, writeErrors, target, temps, ended>>
        /\ stopScheduling' = (stopScheduling \/ Stops(outcome[w]))
        /\ failFastTriggered' = (failFastTriggered \/ Stops(outcome[w]))
    BY DEF Settle, options, files
  <1>3. /\ BatchTypeOK
        /\ \A o \in Operation : o \in Int /\ 1 <= o /\ o <= Total
        /\ Total \in Int /\ NotYet \notin Record
    BY BatchAssumption DEF BatchInv, Operation
  <1>4. BatchTypeOK'
    <2>1. /\ stage' \in [Worker -> {"run", "temp", "rename", "cleanup", "settle", "done"}]
          /\ index' \in [Worker -> Operation \cup {0}]
          /\ nextIndex' \in Nat \ {0}
          /\ started' \in [Operation -> Nat]
      BY <1>3, SettleCases DEF BatchTypeOK
    <2>2. \A v \in Worker : index'[v] = 0 <=> stage'[v] = "done"
      BY <1>3, SettleCases DEF BatchTypeOK
    <2>3. /\ records' \in [Operation -> Record \cup {NotYet}]
          /\ outcome' \in [Worker -> Outcome \cup {NotYet}]
          /\ stopScheduling' \in BOOLEAN /\ failFastTriggered' \in BOOLEAN
      BY <1>1, <1>2, <1>3 DEF BatchTypeOK, Record, Stops
    <2> QED BY <1>2, <1>3, <2>1, <2>2, <2>3 DEF BatchTypeOK
  <1>5. StartedBelowIndex'
    BY <1>3, SettleCases DEF BatchInv, StartedBelowIndex, BatchTypeOK
  <1>6. OwnersDiffer'
    BY <1>3, SettleCases DEF BatchInv, StartedBelowIndex, OwnersDiffer, BatchTypeOK
  <1>7. CarriesOutcome'
    <2>1. \A o \in Operation : o >= nextIndex => records[o] = NotYet /\ o # own
      BY <1>1, <1>3 DEF BatchInv, RecordsTellEnds, BatchTypeOK
    <2>2. \A v \in Worker \ {w} :
            /\ stage'[v] = stage[v] /\ index'[v] = index[v] /\ outcome'[v] = outcome[v]
            /\ stage[v] # "done" => index[v] \in Operation
      BY <1>2, <1>3, SettleCases DEF BatchTypeOK
    <2>3. \/ stage'[w] = "done"
          \/ stage'[w] = "run" /\ index'[w] \in Operation /\ index'[w] >= nextIndex
      BY <1>3, SettleCases DEF BatchTypeOK
    <2>4. \A o \in Operation : o # own => records'[o] = records[o]
      BY <1>2, <1>3 DEF BatchTypeOK
    <2>5. \A v \in Worker : stage'[v] # "done" => records'[index'[v]] = NotYet
      <3> SUFFICES ASSUME NEW v \in Worker, stage'[v] # "done" PROVE records'[index'[v]] = NotYet
        OBVIOUS
      <3>1. CASE v = w
        BY <2>1, <2>3, <2>4, <3>1
      <3>2. CASE v # w
        <4>1. index[v] \in Operation /\ index[v] # own /\ index'[v] = index[v] /\ stage[v] # "done"
          BY <1>1, <2>2, <3>2
        <4>2. records[index[v]] = NotYet
          BY <4>1 DEF BatchInv, CarriesOutcome
        <4> QED BY <2>4, <4>1, <4>2
      <3> QED BY <3>1, <3>2
    <2>6. \A v \in Worker : stage'[v] \notin {"run", "done"} =>
            outcome'[v] # NotYet /\ ended[index'[v]] = outcome'[v]
      BY <2>2, <2>3 DEF BatchInv, CarriesOutcome
    <2> QED BY <1>2, <2>5, <2>6 DEF CarriesOutcome
  <1>8. RecordsTellEnds'
    <2>1. ASSUME NEW o \in Operation, records'[o] # NotYet
          PROVE  /\ o < nextIndex' /\ ended[o] # NotYet
                 /\ records'[o] = IF ended[o] = "failed" THEN "failed" ELSE "ok"
      <3>1. CASE o = own
        <4>1. own < nextIndex'
          BY <1>1, <1>3, SettleCases DEF BatchTypeOK
        <4> QED BY <1>1, <1>2, <1>3, <3>1, <4>1 DEF BatchTypeOK
      <3>2. CASE o # own
        <4>1. records[o] # NotYet /\ records'[o] = records[o]
          BY <1>2, <1>3, <2>1, <3>2 DEF BatchTypeOK
        <4>2. o < nextIndex /\ ended[o] # NotYet /\ records[o] = IF ended[o] = "failed" THEN "failed" ELSE "ok"
          BY <1>1, <4>1 DEF BatchInv, RecordsTellEnds
        <4>3. o < nextIndex'
          BY <1>3, <4>2, SettleCases DEF BatchTypeOK
        <4> QED BY <1>2, <4>1, <4>2, <4>3
      <3> QED BY <3>1, <3>2
    <2>2. ASSUME NEW o \in Operation, o < nextIndex', records'[o] = NotYet
          PROVE  \E v \in Worker : index'[v] = o
      <3>1. o # own /\ records[o] = NotYet
        BY <1>2, <1>3, <2>2 DEF BatchTypeOK, Record
      <3>2. CASE o < nextIndex
        <4>1. PICK v \in Worker : index[v] = o
          BY <1>1, <3>1, <3>2 DEF BatchInv, RecordsTellEnds
        <4>2. index'[v] = o
          BY <1>3, <3>1, <4>1, SettleCases DEF BatchTypeOK
        <4> QED BY <4>2
      <3>3. CASE ~(o < nextIndex)
        BY <1>3, <2>2, <3>3, SettleCases DEF BatchTypeOK
      <3> QED BY <3>2, <3>3
    <2> QED BY <1>2, <2>1, <2>2 DEF RecordsTellEnds
  <1>9. StopsForFailure'
    <2>1. (\E o \in Operation : records'[o] = "failed")
            <=> (outcome[w] = "failed" \/ \E o \in Operation : records[o] = "failed")
      BY <1>1, <1>2, <1>3 DEF BatchTypeOK, Record
    <2>2. \A v \in Worker : stage'[v] = "done" => stopScheduling' \/ nextIndex' > Total
      BY <1>2, <1>3, SettleCases DEF BatchInv, StopsForFailure, BatchTypeOK
    <2> QED BY <1>2, <2>1, <2>2 DEF BatchInv, StopsForFailure, Stops
  <1>10. FilesTellEnds'
    <2>1. /\ nextIndex' >= nextIndex
          /\ \A v \in Worker \ {w} : stage'[v] = stage[v] /\ index'[v] = index[v] /\ outcome'[v] = outcome[v]
          /\ \/ stage'[w] = "done"
             \/ stage'[w] = "run" /\ index'[w] \in Operation /\ index'[w] >= nextIndex
      BY <1>2, <1>3, SettleCases DEF BatchTypeOK
    <2>2. \A v \in Worker : stage'[v] \in {"run"} \cup Writing =>
            target[index'[v]] = "old" /\ index'[v] \notin writeErrors
      BY <2>1 DEF BatchInv, FilesTellEnds, Writing
    <2>3. \A v \in Worker : stage'[v] \in Writing => outcome'[v] = "ok" /\ index'[v] \in declares
      BY <2>1 DEF BatchInv, FilesTellEnds, Writing
    <2>4. \A o \in Operation : o >= nextIndex' => o >= nextIndex
      BY <1>3, <2>1, SettleCases
    <2>5. \A o \in Operation : (\E v \in Worker : index[v] = o /\ stage[v] \in Writing)
            => \E v \in Worker : index'[v] = o /\ stage'[v] \in Writing
      BY <1>1, <2>1 DEF Writing
    <2>6. declares \subseteq Operation
      BY <1>3 DEF BatchTypeOK
    <2> QED BY <1>2, <2>2, <2>3, <2>4, <2>5, <2>6 DEF BatchInv, FilesTellEnds
  <1>11. SummaryIsLast'
    BY <1>1, <1>2 DEF SummaryIsLast, SummaryTellsTheRun
  <1> QED BY <1>4, <1>5, <1>6, <1>7, <1>8, <1>9, <1>10, <1>11 DEF BatchInv

\* The backfill: what has no record is what was never called.
LEMMA SummariseIInv ==
  ASSUME BatchInv, Summarise
  PROVE  BatchInv'
  <1>1. /\ envelope = NotYet
        /\ \A v \in Worker : stage[v] = "done" /\ index[v] = 0
        /\ UNCHANGED <<failFast, declares, nextIndex, stopScheduling, failFastTriggered, stage, index,
                      outcome, writeErrors, target, temps, started, ended>>
    BY DEF BatchInv, BatchTypeOK, Summarise, options, files
  <1>2. /\ \A o \in Operation : o \in Int /\ 1 <= o /\ o <= Total
        /\ Total \in Int /\ nextIndex \in Int
        /\ NotYet \notin Record \cup Envelope
    BY BatchAssumption DEF BatchInv, BatchTypeOK, Operation
  <1>3. /\ records' = [o \in Operation |-> IF records[o] = NotYet THEN "notRun" ELSE records[o]]
        /\ envelope' = [results |-> records', failFast |-> failFastTriggered]
    BY DEF Summarise, Backfilled
  <1>4. /\ records' \in [Operation -> Record]
        /\ envelope' \in Envelope /\ envelope' # NotYet
    BY <1>2, <1>3 DEF BatchInv, BatchTypeOK, Record, Envelope
  <1>5. BatchTypeOK'
    BY <1>1, <1>4 DEF BatchInv, BatchTypeOK
  <1>6. StartedBelowIndex' /\ OwnersDiffer' /\ CarriesOutcome' /\ FilesTellEnds'
    BY <1>1 DEF BatchInv, StartedBelowIndex, OwnersDiffer, CarriesOutcome, FilesTellEnds
  <1>7. RecordsTellEnds'
    BY <1>4 DEF RecordsTellEnds
  <1>8. StopsForFailure'
    BY <1>1, <1>3, <1>2 DEF BatchInv, StopsForFailure, Record
  <1>9. \A o \in Operation : records[o] = NotYet <=> started[o] = 0
    BY <1>1, <1>2 DEF BatchInv, RecordsTellEnds, StartedBelowIndex
  <1>10. ASSUME NEW o \in Operation, started[o] = 0
         PROVE  /\ failFastTriggered
                /\ \E p \in Operation : p < o /\ ended[p] = "failed"
                /\ \A p \in Operation : p > o => started[p] = 0
    <2>1. o >= nextIndex
      BY <1>2, <1>10 DEF BatchInv, StartedBelowIndex
    <2>2. stopScheduling
      BY <1>1, <1>2, <2>1, WorkerCountBounds DEF BatchInv, StopsForFailure
    <2>3. PICK p \in Operation : records[p] = "failed"
      BY <2>2 DEF BatchInv, StopsForFailure
    <2>4. p < nextIndex /\ ended[p] = "failed"
      BY <1>1, <1>2, <2>3 DEF BatchInv, RecordsTellEnds, Record
    <2>5. p < o
      BY <1>2, <2>1, <2>4
    <2>6. \A q \in Operation : q > o => started[q] = 0
      BY <1>2, <2>1 DEF BatchInv, StartedBelowIndex
    <2> QED BY <2>2, <2>4, <2>5, <2>6 DEF BatchInv, StopsForFailure
  <1>11. \A o \in Operation : envelope'.results[o] =
           IF started[o] = 0 THEN "notRun" ELSE IF ended[o] = "failed" THEN "failed" ELSE "ok"
    BY <1>1, <1>3, <1>9 DEF BatchInv, RecordsTellEnds
  <1>12. SummaryIsLast'
    <2>1. envelope'.failFast = failFastTriggered
      BY <1>3
    <2> QED BY <1>1, <1>10, <1>11, <2>1 DEF SummaryIsLast, SummaryTellsTheRun
  <1> QED BY <1>5, <1>6, <1>7, <1>8, <1>12 DEF BatchInv

-----------------------------------------------------------------------------
\* Every step preserves the invariant.
LEMMA BatchInvKept == BatchInv /\ [BatchNext]_batchVars => BatchInv'
  <1> SUFFICES ASSUME BatchInv, [BatchNext]_batchVars PROVE BatchInv'
    OBVIOUS
  <1>1. ASSUME NEW w \in Worker, Step(w) PROVE BatchInv'
    BY <1>1, HandlerEndsIInv, WriteOutputIInv, SettleIInv DEF Step
  <1>2. CASE Summarise
    BY <1>2, SummariseIInv
  <1>3. CASE UNCHANGED batchVars
    BY <1>3 DEF batchVars, options, pool, files, BatchInv, BatchTypeOK, StartedBelowIndex, OwnersDiffer, CarriesOutcome,
       RecordsTellEnds, StopsForFailure, FilesTellEnds, SummaryIsLast, SummaryTellsTheRun
  <1> QED BY <1>1, <1>2, <1>3 DEF BatchNext

\* The invariant holds in every reachable state.
LEMMA BatchInvariance == BatchSpec => []BatchInv
  BY BatchInvInit, BatchInvKept, PTL DEF BatchSpec

\* Every reachable state of a batch of any size is well-formed.
THEOREM BatchTypeCorrect == BatchSpec => []BatchTypeOK
  <1>1. BatchInv => BatchTypeOK
    BY DEF BatchInv
  <1> QED BY <1>1, BatchInvariance, PTL

\* However the workers interleave, two never have the same operation and no
\* handler is called twice.
THEOREM EachOperationOnceHolds == BatchSpec => []EachOperationOnce
  <1>1. BatchInv => EachOperationOnce
    <2> SUFFICES ASSUME BatchInv PROVE EachOperationOnce
      OBVIOUS
    <2>1. \A o \in Operation : started[o] <= 1
      BY DEF BatchInv, StartedBelowIndex
    <2> QED BY <2>1 DEF BatchInv, OwnersDiffer, EachOperationOnce
  <1> QED BY <1>1, BatchInvariance, PTL

\* The summary tells how each operation ended, and leaves out only a tail, after
\* a failure under --fail-fast.
THEOREM SummaryTellsTheRunHolds == BatchSpec => []SummaryTellsTheRun
  <1>1. BatchInv => SummaryTellsTheRun
    BY DEF BatchInv, SummaryIsLast
  <1> QED BY <1>1, BatchInvariance, PTL

\* An output file changes for a success with output only, and a success whose
\* file was not written has its error in the summary.
THEOREM OutputOrErrorHolds == BatchSpec => []OutputOrError
  <1>1. BatchInv => OutputOrError
    <2> SUFFICES ASSUME BatchInv PROVE OutputOrError
      OBVIOUS
    <2>1. \A o \in Operation : target[o] = "output" => o \in declares /\ ended[o] = "ok"
      BY DEF BatchInv, FilesTellEnds
    <2>2. ASSUME envelope # NotYet, NEW o \in declares, ended[o] \in {"ok", "silent"}
          PROVE  target[o] = "output" <=> o \notin writeErrors
      BY <2>2 DEF BatchInv, FilesTellEnds, SummaryIsLast, Writing
    <2> QED BY <2>1, <2>2 DEF OutputOrError
  <1> QED BY <1>1, BatchInvariance, PTL

\* The summary and the files together account for every operation.
THEOREM EveryOperationAccountedHolds == BatchSpec => []EveryOperationAccounted
  <1>1. SummaryTellsTheRun /\ OutputOrError => EveryOperationAccounted
    BY DEF EveryOperationAccounted
  <1> QED BY <1>1, SummaryTellsTheRunHolds, OutputOrErrorHolds, PTL

\* Under --fail-fast no handler is called once a failure is recorded.
THEOREM FailFastDrainsHolds == BatchSpec => FailFastDrains
  <1> DEFINE Drains == failFast /\ (\E o \in Operation : records[o] = "failed") => UNCHANGED started
  <1>1. BatchInv /\ [BatchNext]_batchVars => [Drains]_batchVars
    <2> SUFFICES ASSUME BatchInv, BatchNext, failFast, \E o \in Operation : records[o] = "failed"
                 PROVE  UNCHANGED started
      BY DEF batchVars
    <2>1. stopScheduling
      BY DEF BatchInv, StopsForFailure
    <2>2. ASSUME NEW w \in Worker, Settle(w) PROVE UNCHANGED started
      BY <2>1, <2>2 DEF Settle, Claim
    <2> QED BY <2>2 DEF BatchNext, Step, HandlerEnds, WriteTemp, Rename, Cleanup, Summarise
  <1> QED BY <1>1, BatchInvariance, PTL DEF BatchSpec, FailFastDrains

-----------------------------------------------------------------------------
\* AgentRegistration.  RegistrationInv says, for commands that follow one another,
\* what each has done and has still to do, what the stamp may say of the files, and
\* of which release a block can be.

Copy(t, f) == [op |-> "copy", tool |-> t, file |-> f]
Active(p) == phase[p] # "idle"
Serial == "overlap" \notin mishaps
InStamp(t) == stamp # Missing /\ t \in stamp.tools

\* The steps a command still has fit what it is doing, and only tools that read
\* a rules file have one.
WorkFits ==
    /\ \A p \in Process :
          /\ phase[p] \notin {"refresh", "register", "unregister"} => work[p] = {}
          /\ \A s \in work[p] :
                /\ phase[p] # "unregister" =>
                      s.op \in {"remove", "mkdir", "copy", "rules", "pointer"}
                /\ phase[p] = "unregister" => s.op \in {"unrules", "remove", "strip"}
                /\ phase[p] # "unregister" => s.tool \in named[p]
                /\ s.op \in {"rules", "unrules"} => s.tool \notin Block
    /\ \A t \in Block : rules[t] = 0

\* Nothing is of a release that was never installed.
InThePast ==
    /\ \A p \in Process : ver[p] <= release
    /\ stamp # Missing => stamp.version <= release /\ stamp.text = Text(stamp.version)
    /\ \A t \in Tool : pointer[t] # 0 => pointer[t] <= PointerOf(t, release)

\* One command at a time: what is on disk is of its release, or an earlier one.
Alone == \A p, q \in Process : Active(p) /\ Active(q) => p = q
Behind ==
    \A p \in Process : Active(p) =>
       /\ stamp # Missing => stamp.version <= ver[p]
       /\ \A t \in Tool : pointer[t] # 0 => pointer[t] <= PointerOf(t, ver[p])

\* A command refreshes what an older release stamped; it asks about tools
\* without a choice; it clears the choices without a stamp.
Places(p) ==
    /\ phase[p] \in {"refresh", "restamp"} =>
          stamp # Missing /\ stamp.version < ver[p] /\ named[p] = stamp.tools
    /\ phase[p] \in {"register", "readStamp", "writeStamp", "choices"} =>
          \A t \in Tool : answers[p][t] # "unset" => choice[t] = "unset"
    /\ phase[p] = "unchoose" => stamp = Missing

\* A directory is made before it is copied to, and not removed after.
DirectoryMade(p) ==
    phase[p] \in {"refresh", "register"} =>
       \A t \in Tool :
          /\ Do("remove", t) \in work[p] => Do("mkdir", t) \in work[p]
          /\ Do("mkdir", t) \in work[p] => \A f \in File : Copy(t, f) \in work[p]
          /\ (\E f \in File : Copy(t, f) \in work[p]) =>
                Do("mkdir", t) \in work[p] \/ skill[t] # Missing

\* The tools a command deploys: a refresh those that the user has not opted out.
Deploys(p, t) ==
    /\ phase[p] \in {"refresh", "restamp", "register", "readStamp"}
    /\ t \in named[p] /\ choice[t] # "no"
    /\ phase[p] = "refresh" => ~gaveUp[p]

\* What is not still to be copied has been, from the release of the command,
\* or there has been an upgrade.
Copied(p) ==
    \A t \in Tool :
       Deploys(p, t) => \/ Do("mkdir", t) \in work[p]
                        \/ /\ skill[t] # Missing
                           /\ release = ver[p] =>
                                 \A f \in File : Copy(t, f) \in work[p] \/ skill[t][f] = release

\* So with the texts, where they are rewritten.
Rewritten(p) ==
    (phase[p] \in {"refresh", "restamp"} => stamp.text # Text(ver[p])) =>
       \A t \in Tool :
          Deploys(p, t) =>
             /\ Do("pointer", t) \in work[p] \/ pointer[t] = PointerOf(t, ver[p])
             /\ t \notin Block => Do("rules", t) \in work[p] \/ rules[t] = Text(ver[p])

\* What the stamp says of the files, except while they are removed.
Removes == \E p \in Process : phase[p] \in {"unregister", "unstamp"}
SkillIsTrue(t) == skill[t] # Missing /\ \A f \in File : skill[t][f] = release
TextIsTrue(t) ==
    pointer[t] = PointerOf(t, release) /\ (t \notin Block => rules[t] = Text(release))

SkillsAreTrue ==
    stamp # Missing /\ stamp.version = release /\ ~Removes =>
       \A t \in stamp.tools :
          \/ choice[t] = "no" \/ SkillIsTrue(t)
          \/ \E p \in Process : phase[p] = "register" /\ t \in named[p]

TextsAreTrue ==
    stamp # Missing /\ stamp.text = Text(release) /\ ~Removes =>
       \A t \in stamp.tools : choice[t] = "no" \/ TextIsTrue(t)

\* And what the stamp that a wizard is about to write will say.
UnionIsTrue ==
    \A p \in Process : phase[p] = "writeStamp" =>
       \A t \in named[p] :
          \/ choice[t] = "no"
          \/ /\ release = ver[p] => SkillIsTrue(t)
             /\ Text(release) = Text(ver[p]) => TextIsTrue(t)

\* An unregister has removed what it need not remove any more.
Cleaned(p) ==
    phase[p] \in {"unregister", "unstamp", "unchoose"} =>
       \A t \in Tool :
          /\ Do("remove", t) \in work[p] \/ skill[t] = Missing
          /\ t \notin Block => Do("unrules", t) \in work[p] \/ rules[t] = 0
          /\ Do("strip", t) \in work[p] \/ pointer[t] = 0 \/ pointer[t] # PointerOf(t, ver[p])

\* A block is known: it is as the stamp says, or as the running command will say.
Known ==
    \A t \in Block : pointer[t] # 0 /\ choice[t] # "no" =>
       /\ Quiet => InStamp(t) /\ pointer[t] = stamp.text
       /\ \A p \in Process :
             /\ phase[p] = "check" => InStamp(t) /\ pointer[t] = stamp.text
             /\ phase[p] = "refresh" =>
                   \/ InStamp(t) /\ pointer[t] = stamp.text
                   \/ ~gaveUp[p] /\ t \in named[p] /\ pointer[t] = Text(ver[p])
             /\ phase[p] \in {"restamp", "writeStamp"} => t \in named[p]
             /\ phase[p] \in {"register", "readStamp"} => InStamp(t) \/ t \in named[p]
             /\ phase[p] \in {"wizard", "choices"} => InStamp(t) /\ stamp.text = Text(ver[p])
             /\ phase[p] \notin {"idle", "check", "refresh"} => pointer[t] = Text(ver[p])

\* A refresh without a fault gives up only where all have opted out.
GaveUpFor(p) ==
    phase[p] = "refresh" /\ gaveUp[p] => \A t \in named[p] : choice[t] = "no"

SerialInv ==
    Serial =>
       /\ Alone /\ Behind
       /\ \A p \in Process : Places(p) /\ DirectoryMade(p) /\ Copied(p) /\ Rewritten(p) /\ Cleaned(p)
       /\ {"carried", "halfway"} \cap mishaps = {} => SkillsAreTrue /\ TextsAreTrue /\ UnionIsTrue
       /\ "left" \notin mishaps /\ faults = 0 => Known /\ \A p \in Process : GaveUpFor(p)

RegistrationInv == RegistrationTypeOK /\ WorkFits /\ InThePast /\ SerialInv
-----------------------------------------------------------------------------
\* Induction over the naturals, and what it says of rule texts.

Less == {pair \in Nat \X Nat : pair[1] < pair[2]}

\* The order of the naturals has no infinite descent.
LEMMA LessWellFounded == IsWellFoundedOn(Less, Nat)
  BY NatLessThanWellFounded DEF OpToRel, Less

\* Induction, over a set: a set with 0 and the successors of its members.
LEMMA Induction ==
  ASSUME NEW S, 0 \in S, \A n \in Nat : n \in S => n + 1 \in S
  PROVE  \A n \in Nat : n \in S
  <1> SUFFICES ASSUME NEW k \in Nat, k \notin S PROVE FALSE
    OBVIOUS
  <1> DEFINE U == {n \in Nat : n \notin S}
  <1>1. U \subseteq Nat /\ U # {}
    OBVIOUS
  <1>2. PICK n \in U : \A m \in U : <<m, n>> \notin Less
    <2> HIDE DEF U
    <2> QED BY <1>1, LessWellFounded, WFMin
  <1>3. n \in Nat /\ n # 0
    OBVIOUS
  <1>4. n - 1 \in Nat /\ <<n - 1, n>> \in Less
    BY <1>3 DEF Less
  <1>5. n - 1 \in S
    BY <1>2, <1>4
  <1> QED
    BY <1>3, <1>4, <1>5

\* Every release has a rule text: the one that the last release up to it brought.
LEMMA TextFacts ==
  ASSUME NEW r \in Release
  PROVE  /\ Text(r) \in TextChanges /\ Text(r) \in Release /\ Text(r) <= r
         /\ \A c \in TextChanges : c <= r => c <= Text(r)
  <1> DEFINE Last(c, n) == c <= n /\ \A d \in TextChanges : d <= n => d <= c
             S == {n \in Nat : n \in Release => \E c \in TextChanges : Last(c, n)}
  <1>1. 0 \in S
    BY RegistrationAssumption DEF Release
  <1>2. \A n \in Nat : n \in S => n + 1 \in S
    <2> SUFFICES ASSUME NEW n \in Nat, n \in S, n + 1 \in Release
                 PROVE  \E c \in TextChanges : Last(c, n + 1)
      OBVIOUS
    <2>1. CASE n + 1 \in TextChanges
      <3>1. Last(n + 1, n + 1)
        OBVIOUS
      <3> QED
        BY <2>1, <3>1
    <2>2. CASE n + 1 \notin TextChanges
      <3>1. n # 0 /\ n \in Release
        BY <2>2, RegistrationAssumption DEF Release
      <3>2. PICK c \in TextChanges : Last(c, n)
        BY <3>1
      <3>3. Last(c, n + 1)
        BY <2>2, <3>2, RegistrationAssumption
      <3> QED
        BY <3>3
    <2> QED
      BY <2>1, <2>2
  <1>3. r \in S
    <2> HIDE DEF S
    <2> QED BY <1>1, <1>2, Induction, RegistrationAssumption DEF Release
  <1>4. \E c \in TextChanges : Last(c, r)
    BY <1>3
  <1>5. Text(r) \in TextChanges /\ Last(Text(r), r)
    BY <1>4 DEF Text
  <1> QED
    BY <1>5, RegistrationAssumption DEF Release

\* A later release has the same text, or a later one.
LEMMA TextGrows ==
  ASSUME NEW r \in Release, NEW q \in Release, r <= q
  PROVE  Text(r) <= Text(q)
  BY TextFacts, RegistrationAssumption DEF Release

\* So has its pointer, and where it is the same, the text of a block is.
LEMMA PointerFacts ==
  ASSUME NEW t \in Tool, NEW r \in Release
  PROVE  /\ PointerOf(t, r) \in Release
         /\ t \in Block => PointerOf(t, r) = Text(r)
         /\ \A q \in Release : Text(q) = Text(r) => PointerOf(t, q) = PointerOf(t, r)
         /\ \A q \in Release : r <= q => PointerOf(t, r) <= PointerOf(t, q)
  BY TextFacts, TextGrows, RegistrationAssumption DEF PointerOf, Release

-----------------------------------------------------------------------------
\* The steps of one process, and the types.

FileStepOf(p, s) ==
    \/ RemoveSkill(p, s) \/ MakeDir(p, s) \/ CopyFile(p, s) \/ WriteRules(p, s)
    \/ WritePointer(p, s) \/ StripPointer(p, s)
Goes(p) ==
    \/ Check(p) \/ RefreshEnds(p) \/ Restamp(p) \/ Wizard(p) \/ Registered(p) \/ ReadStamp(p)
    \/ WriteStamp(p) \/ SaveChoices(p) \/ Removed(p) \/ RemoveStamp(p) \/ ClearChoices(p)
    \/ Crash(p) \/ \E s \in Now(p) : StepFails(p, s)
Works(p) == \E s \in Now(p) : FileStepOf(p, s)

\* Every step is one of a process, or of npm or the user.
LEMMA Steps ==
  RegistrationNext <=> Upgrade \/ OptOut \/ \E p \in Process : Start(p) \/ Goes(p) \/ Works(p)
  BY DEF RegistrationNext, Goes, Works, FileStepOf

\* The sets of steps that a command is given.
LEMMA WorkTypes ==
  ASSUME NEW t \in Tool
  PROVE  Deploy(t) \subseteq FileStep /\ Rewrite(t) \subseteq FileStep /\ Remove(t) \subseteq FileStep
  BY DEF Deploy, Rewrite, Remove, Do, FileStep, Place

\* Where Finish or Proceed lead keeps the types of the locals.
LEMMA ProceedTypes ==
  ASSUME RegistrationTypeOK, NEW p \in Process, Finish(p) \/ Proceed(p)
  PROVE  /\ phase' \in [Process -> Location]
         /\ command' \in [Process -> {"run", "init", "unregister"}]
         /\ ver' \in [Process -> Release]
         /\ work' \in [Process -> SUBSET FileStep]
         /\ named' \in [Process -> SUBSET Tool]
         /\ answers' \in [Process -> [Tool -> Answer]]
         /\ gaveUp' \in [Process -> BOOLEAN]
  <1>1. 1 \in Release /\ NoAnswers \in [Tool -> Answer]
    BY RegistrationAssumption DEF Release, NoAnswers, Answer
  <1>2. CASE Finish(p)
    BY <1>1, <1>2 DEF RegistrationTypeOK, Finish, Enter, Location
  <1>3. CASE Proceed(p) /\ command[p] = "run"
    <2>1. Finish(p)
      BY <1>3 DEF Proceed
    <2> QED
      BY <1>2, <2>1
  <1>4. CASE Proceed(p) /\ command[p] = "init"
    BY <1>4 DEF RegistrationTypeOK, Proceed, Enter, Location
  <1>5. CASE Proceed(p) /\ command[p] = "unregister"
    <2>1. UNION {Remove(t) : t \in Tool} \in SUBSET FileStep
      BY WorkTypes
    <2> DEFINE W == UNION {Remove(t) : t \in Tool}
    <2> HIDE DEF W
    <2>2. W \in SUBSET FileStep
      BY <2>1 DEF W
    <2>3. /\ Enter(p, "unregister") /\ work' = [work EXCEPT ![p] = W]
          /\ named' = [named EXCEPT ![p] = {}] /\ gaveUp' = [gaveUp EXCEPT ![p] = FALSE]
          /\ UNCHANGED <<command, ver, answers>>
      BY <1>5 DEF Proceed, W
    <2> QED
      BY <2>2, <2>3 DEF RegistrationTypeOK, Enter, Location
  <1> QED
    BY <1>2, <1>3, <1>4, <1>5 DEF RegistrationTypeOK

LocalsTyped ==
    /\ phase \in [Process -> Location]
    /\ command \in [Process -> {"run", "init", "unregister"}]
    /\ ver \in [Process -> Release]
    /\ work \in [Process -> SUBSET FileStep]
    /\ named \in [Process -> SUBSET Tool]
    /\ answers \in [Process -> [Tool -> Answer]]
    /\ gaveUp \in [Process -> BOOLEAN]
FilesTyped ==
    /\ skill \in [Tool -> Skill \cup {Missing}]
    /\ rules \in [Tool -> 0..MaxRelease]
    /\ pointer \in [Tool -> 0..MaxRelease]
RestTyped ==
    /\ release \in Release
    /\ stamp \in Stamp \cup {Missing}
    /\ choice \in [Tool -> Answer]
    /\ runs \in 0..MaxRuns
    /\ faults \in 0..MaxFaults
    /\ mishaps \subseteq {"overlap", "carried", "halfway", "left"}

\* The types of what a process remembers are kept.
LEMMA LocalTypes ==
  ASSUME RegistrationTypeOK, NEW p \in Process, Start(p) \/ Goes(p) \/ Works(p)
  PROVE  LocalsTyped'
  <1> USE DEF LocalsTyped
  <1>1. CASE Start(p)
    BY <1>1 DEF RegistrationTypeOK, Start, Enter, Location
  <1>2. CASE Check(p)
    <2>1. CASE Due(p)
      <3> DEFINE W == UNION {Deploy(t) \cup (IF TextDrifted(p) THEN Rewrite(t) ELSE {}) : t \in Kept(p)}
      <3>1. stamp \in Stamp
        BY <2>1 DEF RegistrationTypeOK, Due
      <3>2. stamp.tools \in SUBSET Tool
        BY <3>1 DEF Stamp
      <3>3. W \in SUBSET FileStep
        BY <3>2, WorkTypes DEF Kept
      <3> HIDE DEF W
      <3>4. /\ Enter(p, "refresh") /\ work' = [work EXCEPT ![p] = W]
            /\ named' = [named EXCEPT ![p] = stamp.tools]
            /\ gaveUp' = [gaveUp EXCEPT ![p] = (Kept(p) = {})]
            /\ UNCHANGED <<command, ver, answers>>
        BY <1>2, <2>1 DEF Check, W
      <3> QED
        BY <3>2, <3>3, <3>4 DEF RegistrationTypeOK, Enter, Location
    <2>2. CASE ~Due(p)
      BY <1>2, <2>2, ProceedTypes DEF Check
    <2> QED
      BY <2>1, <2>2
  <1>3. CASE RefreshEnds(p)
    <2>1. CASE Stamps(p)
      BY <1>3, <2>1 DEF RegistrationTypeOK, RefreshEnds, Enter, Location, local
    <2>2. CASE ~Stamps(p)
      BY <1>3, <2>2, ProceedTypes DEF RefreshEnds
    <2> QED
      BY <2>1, <2>2
  <1>4. CASE Restamp(p) \/ SaveChoices(p) \/ ClearChoices(p) \/ Crash(p)
    BY <1>4, ProceedTypes DEF Restamp, SaveChoices, ClearChoices, Crash
  <1>5. CASE Wizard(p)
    <2>1. CASE Finish(p)
      BY <2>1, ProceedTypes
    <2>2. CASE ~Finish(p)
      <3>1. PICK asked \in (SUBSET {t \in Tool : choice[t] = "unset"}) \ {{}}, yes \in SUBSET Tool :
               /\ yes \subseteq asked
               /\ answers' = [answers EXCEPT ![p] =
                     [t \in Tool |-> IF t \in yes THEN "yes"
                                     ELSE IF t \in asked THEN "no" ELSE "unset"]]
               /\ named' = [named EXCEPT ![p] = yes]
               /\ work' = [work EXCEPT ![p] = UNION {Rewrite(t) \cup Deploy(t) : t \in yes}]
               /\ Enter(p, IF yes = {} THEN "choices" ELSE "register")
               /\ UNCHANGED <<command, ver, gaveUp>>
        BY <1>5, <2>2 DEF Wizard
      <3> DEFINE W == UNION {Rewrite(t) \cup Deploy(t) : t \in yes}
                 A == [t \in Tool |-> IF t \in yes THEN "yes"
                                      ELSE IF t \in asked THEN "no" ELSE "unset"]
      <3>2. W \in SUBSET FileStep
        BY WorkTypes
      <3>3. A \in [Tool -> Answer]
        BY DEF Answer
      <3>4. work' = [work EXCEPT ![p] = W] /\ answers' = [answers EXCEPT ![p] = A]
        BY <3>1
      <3> HIDE DEF W, A
      <3> QED
        BY <3>1, <3>2, <3>3, <3>4 DEF RegistrationTypeOK, Enter, Location
    <2> QED
      BY <2>1, <2>2
  <1>6. CASE Registered(p) \/ Removed(p)
    BY <1>6 DEF RegistrationTypeOK, Registered, Removed, Enter, Location, local
  <1>7. CASE ReadStamp(p)
    <2>1. Union(p) \in SUBSET Tool
      BY DEF Union, RegistrationTypeOK, Stamp
    <2> QED
      BY <1>7, <2>1 DEF RegistrationTypeOK, ReadStamp, Enter, Location
  <1>8. CASE WriteStamp(p)
    <2>1. CASE Finish(p)
      BY <2>1, ProceedTypes
    <2>2. CASE ~Finish(p)
      BY <1>8, <2>2 DEF RegistrationTypeOK, WriteStamp, Enter, Location, local
    <2> QED
      BY <2>1, <2>2
  <1>9. CASE RemoveStamp(p)
    <2>1. CASE Finish(p)
      BY <2>1, ProceedTypes
    <2>2. CASE ~Finish(p)
      BY <1>9, <2>2 DEF RegistrationTypeOK, RemoveStamp, Enter, Location, local
    <2> QED
      BY <2>1, <2>2
  <1>10. ASSUME NEW s \in Now(p), StepFails(p, s)
         PROVE  LocalsTyped'
    <2>1. CASE phase[p] = "refresh"
      <3> DEFINE W == {r \in work[p] : r.tool # s.tool}
      <3>1. W \in SUBSET FileStep
        BY DEF RegistrationTypeOK
      <3>2. /\ work' = [work EXCEPT ![p] = W] /\ gaveUp' = [gaveUp EXCEPT ![p] = TRUE]
            /\ UNCHANGED <<phase, command, ver, named, answers>>
        BY <1>10, <2>1 DEF StepFails, GivesUp
      <3> HIDE DEF W
      <3> QED
        BY <3>1, <3>2 DEF RegistrationTypeOK
    <2>2. CASE phase[p] # "refresh"
      BY <1>10, <2>2, ProceedTypes DEF StepFails, GivesUp
    <2> QED
      BY <2>1, <2>2
  <1>11. ASSUME NEW s \in Now(p), FileStepOf(p, s)
         PROVE  LocalsTyped'
    <2>1. Done(p, s)
      BY <1>11 DEF FileStepOf, RemoveSkill, MakeDir, CopyFile, WriteRules, WritePointer, StripPointer
    <2> QED
      BY <2>1 DEF RegistrationTypeOK, Done
  <1> QED
    BY <1>1, <1>2, <1>3, <1>4, <1>5, <1>6, <1>7, <1>8, <1>9, <1>10, <1>11 DEF Goes, Works

\* The next step of a command is one of those it still has.
LEMMA NowFacts ==
  ASSUME RegistrationTypeOK, NEW p \in Process, NEW s \in Now(p)
  PROVE  /\ s \in work[p] /\ s \in FileStep /\ s.tool \in Tool
         /\ s.op = "copy" => s.file \in File
         /\ s.op = "copy" => s = Copy(s.tool, s.file)
         /\ s.op # "copy" => s = Do(s.op, s.tool)
  <1>1. s \in work[p] /\ s \in FileStep
    BY DEF Now, RegistrationTypeOK
  <1> QED
    BY <1>1 DEF FileStep, Copy, Do

\* A copy makes a directory of files.
LEMMA CopyTypes ==
  ASSUME NEW d \in Skill, NEW f \in File, NEW r \in 0..MaxRelease
  PROVE  [d EXCEPT ![f] = r] \in Skill
  BY DEF Skill

\* The files keep their types.
LEMMA FileTypes ==
  ASSUME RegistrationTypeOK, NEW p \in Process, Works(p)
  PROVE  FilesTyped'
  <1>1. PICK s \in Now(p) : FileStepOf(p, s)
    BY DEF Works
  <1>2. s.tool \in Tool /\ (s.op = "copy" => s.file \in File)
    BY NowFacts
  <1>3. /\ release \in 0..MaxRelease /\ Text(ver[p]) \in 0..MaxRelease /\ 0 \in 0..MaxRelease
        /\ PointerOf(s.tool, ver[p]) \in 0..MaxRelease
    <2>1. release \in Release /\ ver[p] \in Release
      BY DEF RegistrationTypeOK
    <2>2. Text(ver[p]) \in Release /\ PointerOf(s.tool, ver[p]) \in Release
      BY <1>2, <2>1, TextFacts, PointerFacts
    <2>3. \A r \in Release : r \in 0..MaxRelease
      BY RegistrationAssumption DEF Release
    <2> QED
      BY <2>1, <2>2, <2>3, RegistrationAssumption
  <1>4. CASE RemoveSkill(p, s)
    BY <1>2, <1>4 DEF RegistrationTypeOK, FilesTyped, RemoveSkill
  <1>5. CASE MakeDir(p, s)
    <2>1. [f \in File |-> 0] \in Skill
      BY <1>3 DEF Skill
    <2> QED
      BY <1>2, <1>5, <2>1 DEF RegistrationTypeOK, FilesTyped, MakeDir
  <1>6. CASE CopyFile(p, s)
    <2>1. skill[s.tool] \in Skill /\ s.file \in File
      BY <1>2, <1>6 DEF RegistrationTypeOK, CopyFile
    <2>2. [skill[s.tool] EXCEPT ![s.file] = release] \in Skill
      BY <1>3, <2>1, CopyTypes
    <2>3. skill' = [skill EXCEPT ![s.tool] = [skill[s.tool] EXCEPT ![s.file] = release]]
      BY <1>6 DEF CopyFile
    <2> DEFINE d == [skill[s.tool] EXCEPT ![s.file] = release]
    <2> HIDE DEF d
    <2>4. d \in Skill /\ skill' = [skill EXCEPT ![s.tool] = d]
      BY <2>2, <2>3 DEF d
    <2> QED
      BY <1>2, <1>6, <2>4 DEF RegistrationTypeOK, FilesTyped, CopyFile
  <1>7. CASE WriteRules(p, s)
    BY <1>2, <1>3, <1>7 DEF RegistrationTypeOK, FilesTyped, WriteRules
  <1>8. CASE WritePointer(p, s)
    BY <1>2, <1>3, <1>8 DEF RegistrationTypeOK, FilesTyped, WritePointer
  <1>9. CASE StripPointer(p, s)
    <2>1. Stripped(s.tool, pointer[s.tool], ver[p]) \in 0..MaxRelease
      BY <1>2, <1>3 DEF RegistrationTypeOK, Stripped
    <2>2. pointer' = [pointer EXCEPT ![s.tool] = Stripped(s.tool, pointer[s.tool], ver[p])]
      BY <1>9 DEF StripPointer
    <2> QED
      BY <1>2, <1>9, <2>1, <2>2 DEF RegistrationTypeOK, FilesTyped, StripPointer
  <1> QED
    BY <1>1, <1>4, <1>5, <1>6, <1>7, <1>8, <1>9 DEF FileStepOf

\* Beside a step on the files, only what a process remembers changes; beside
\* any other step of a process, no file.
LEMMA Apart ==
  ASSUME NEW p \in Process
  PROVE  /\ Start(p) \/ Goes(p) => UNCHANGED <<release, skill, rules, pointer>>
         /\ Works(p) => UNCHANGED <<release, stamp, choice, phase, command, ver, named, answers,
                                    gaveUp, runs, faults, mishaps>>
  BY DEF Start, Goes, Works, FileStepOf, Check, RefreshEnds, Restamp, Wizard, Registered, ReadStamp,
         WriteStamp, SaveChoices, Removed, RemoveStamp, ClearChoices, Crash, StepFails, RemoveSkill,
         MakeDir, CopyFile, WriteRules, WritePointer, StripPointer, Done, toolFiles

\* The stamp, the choices and the ghosts keep their types.
LEMMA RestTypes ==
  ASSUME RegistrationTypeOK, NEW p \in Process, Start(p) \/ Goes(p)
  PROVE  RestTyped'
  <1> USE DEF RestTyped, RegistrationTypeOK
  <1>1. [version |-> ver[p], tools |-> named[p], text |-> Text(ver[p])] \in Stamp
    BY TextFacts DEF Stamp
  <1>2. release' \in Release
    BY Apart
  <1>3. Halfway(p) \subseteq {"halfway"}
    BY DEF Halfway
  <1>4. Fault => faults' \in 0..MaxFaults
    BY RegistrationAssumption DEF Fault
  <1>5. CASE Start(p)
    <2>1. runs' \in 0..MaxRuns
      BY <1>5, RegistrationAssumption DEF Start
    <2>2. mishaps' \subseteq {"overlap", "carried", "halfway", "left"}
      BY <1>5 DEF Start
    <2> QED
      BY <1>2, <1>5, <2>1, <2>2 DEF Start
  <1>6. CASE Check(p) \/ RefreshEnds(p) \/ Wizard(p) \/ Registered(p) \/ Removed(p)
    BY <1>2, <1>6 DEF Check, RefreshEnds, Wizard, Registered, Removed
  <1>7. CASE Restamp(p) \/ WriteStamp(p)
    BY <1>1, <1>2, <1>4, <1>7 DEF Restamp, WriteStamp
  <1>8. CASE ReadStamp(p)
    BY <1>2, <1>8 DEF ReadStamp
  <1>9. CASE SaveChoices(p)
    BY <1>2, <1>4, <1>9 DEF SaveChoices, Answer
  <1>10. CASE RemoveStamp(p)
    BY <1>2, <1>3, <1>4, <1>10 DEF RemoveStamp
  <1>11. CASE ClearChoices(p)
    BY <1>2, <1>4, <1>11 DEF ClearChoices, NoAnswers, Answer
  <1>12. CASE Crash(p)
    BY <1>2, <1>3, <1>4, <1>12 DEF Crash
  <1>13. ASSUME NEW s \in Now(p), StepFails(p, s)
         PROVE  RestTyped'
    BY <1>2, <1>3, <1>4, <1>13 DEF StepFails
  <1> QED
    BY <1>5, <1>6, <1>7, <1>8, <1>9, <1>10, <1>11, <1>12, <1>13 DEF Goes

\* Every step keeps the types.
LEMMA RegistrationTypes ==
  ASSUME RegistrationTypeOK, RegistrationNext
  PROVE  RegistrationTypeOK'
  <1>1. CASE Upgrade
    BY <1>1, RegistrationAssumption DEF RegistrationTypeOK, Upgrade, Release, toolFiles, local
  <1>2. CASE OptOut
    BY <1>2, RegistrationAssumption DEF RegistrationTypeOK, OptOut, Answer, toolFiles, local
  <1>3. ASSUME NEW p \in Process, Start(p) \/ Goes(p)
        PROVE  RegistrationTypeOK'
    <2>1. LocalsTyped' /\ RestTyped' /\ UNCHANGED <<skill, rules, pointer>>
      BY <1>3, LocalTypes, RestTypes, Apart
    <2> QED
      BY <2>1 DEF RegistrationTypeOK, LocalsTyped, RestTyped
  <1>4. ASSUME NEW p \in Process, Works(p)
        PROVE  RegistrationTypeOK'
    <2>1. /\ LocalsTyped' /\ FilesTyped'
          /\ UNCHANGED <<release, stamp, choice, runs, faults, mishaps>>
      BY <1>4, LocalTypes, FileTypes, Apart
    <2> QED
      BY <2>1 DEF RegistrationTypeOK, LocalsTyped, FilesTyped
  <1> QED
    BY <1>1, <1>2, <1>3, <1>4, Steps

-----------------------------------------------------------------------------
\* What a step makes of what its process remembers, and leaves of the others.

\* A step of one process leaves what the others remember.
LEMMA OthersRest ==
  ASSUME RegistrationTypeOK, NEW p \in Process, Start(p) \/ Goes(p) \/ Works(p),
         NEW q \in Process, q # p
  PROVE  /\ phase'[q] = phase[q] /\ work'[q] = work[q] /\ ver'[q] = ver[q]
         /\ named'[q] = named[q] /\ answers'[q] = answers[q] /\ gaveUp'[q] = gaveUp[q]
  <1> USE DEF RegistrationTypeOK
  <1> DEFINE Rests == /\ phase'[q] = phase[q] /\ work'[q] = work[q] /\ ver'[q] = ver[q]
                      /\ named'[q] = named[q] /\ answers'[q] = answers[q] /\ gaveUp'[q] = gaveUp[q]
  <1>1. Finish(p) => Rests
    BY DEF Finish, Enter
  <1>2. Proceed(p) => Rests
    BY <1>1 DEF Proceed, Enter
  <1>3. CASE Start(p) \/ Registered(p) \/ Removed(p) \/ ReadStamp(p)
    BY <1>3 DEF Start, Registered, Removed, ReadStamp, Enter, local
  <1>4. CASE Check(p)
    BY <1>2, <1>4 DEF Check, Enter
  <1>5. CASE RefreshEnds(p)
    BY <1>2, <1>5 DEF RefreshEnds, Enter, local
  <1>6. CASE Restamp(p) \/ SaveChoices(p) \/ ClearChoices(p) \/ Crash(p)
    BY <1>1, <1>2, <1>6 DEF Restamp, SaveChoices, ClearChoices, Crash
  <1>7. CASE Wizard(p)
    BY <1>1, <1>7 DEF Wizard, Enter
  <1>8. CASE WriteStamp(p) \/ RemoveStamp(p)
    BY <1>1, <1>8 DEF WriteStamp, RemoveStamp, Enter, local
  <1>9. ASSUME NEW s \in Now(p), StepFails(p, s)
        PROVE  Rests
    BY <1>1, <1>9 DEF StepFails, GivesUp
  <1>10. ASSUME NEW s \in Now(p), FileStepOf(p, s)
         PROVE  Rests
    BY <1>10 DEF FileStepOf, RemoveSkill, MakeDir, CopyFile, WriteRules, WritePointer, StripPointer, Done
  <1> QED
    BY <1>3, <1>4, <1>5, <1>6, <1>7, <1>8, <1>9, <1>10 DEF Goes, Works

\* Where a command that ends, or that has made its check, is then.
Idles(p) == phase'[p] = "idle" /\ work'[p] = {}
MovesOn(p) ==
    /\ ver'[p] = ver[p]
    /\ \/ phase'[p] = "wizard" /\ work'[p] = {}
       \/ phase'[p] = "unregister" /\ work'[p] = UNION {Remove(t) : t \in Tool}

\* A command that ends is idle; one that has made its check may move on.
LEMMA Leaving ==
  ASSUME RegistrationTypeOK, NEW p \in Process
  PROVE  (Finish(p) => Idles(p)) /\ (Proceed(p) => Idles(p) \/ MovesOn(p))
  <1> USE DEF RegistrationTypeOK
  <1>1. Finish(p) => Idles(p)
    BY DEF Finish, Enter, Idles
  <1>2. Proceed(p) => Idles(p) \/ MovesOn(p)
    BY <1>1 DEF Proceed, Enter, MovesOn
  <1> QED
    BY <1>1, <1>2

\* Where a step leads from each place, and with which steps still to do.
Leads(p) ==
    \/ Idles(p)
    \/ phase[p] \in {"check", "refresh", "restamp"} /\ MovesOn(p)
    \/ /\ phase[p] = "check" /\ phase'[p] = "refresh" /\ ver'[p] = ver[p]
       /\ Due(p) /\ named'[p] = stamp.tools /\ gaveUp'[p] = (Kept(p) = {})
       /\ work'[p] = UNION {Deploy(t) \cup (IF TextDrifted(p) THEN Rewrite(t) ELSE {}) : t \in Kept(p)}
    \/ /\ phase[p] = "wizard" /\ phase'[p] \in {"choices", "register"} /\ ver'[p] = ver[p]
       /\ work'[p] = UNION {Rewrite(t) \cup Deploy(t) : t \in named'[p]}
       /\ phase'[p] = "choices" => named'[p] = {}
       /\ \A t \in Tool : answers'[p][t] # "unset" => choice[t] = "unset"
       /\ \A t \in named'[p] : choice[t] = "unset"
    \/ /\ <<phase[p], phase'[p]>> \in {<<"refresh", "restamp">>, <<"register", "readStamp">>,
                                       <<"unregister", "unstamp">>}
       /\ work[p] = {} /\ UNCHANGED local
       /\ phase[p] = "refresh" => ~gaveUp[p]
    \/ /\ <<phase[p], phase'[p]>> \in {<<"writeStamp", "choices">>, <<"unstamp", "unchoose">>}
       /\ UNCHANGED local
    \/ /\ phase[p] = "readStamp" /\ phase'[p] = "writeStamp"
       /\ named'[p] = Union(p) /\ UNCHANGED <<ver, work, answers, gaveUp>>
    \/ /\ phase[p] = "refresh" /\ phase'[p] = "refresh"
       /\ \E s \in Now(p) : work'[p] = {r \in work[p] : r.tool # s.tool} /\ StepFails(p, s)
       /\ gaveUp'[p] = TRUE /\ UNCHANGED <<ver, named, answers>>

\* Every step that is not on the files leads from one place to the next.
LEMMA GoesLead ==
  ASSUME RegistrationTypeOK, NEW p \in Process, Goes(p)
  PROVE  Leads(p)
  <1> USE DEF RegistrationTypeOK
  <1>1. CASE Check(p)
    <2>1. CASE Due(p)
      <3> DEFINE W == UNION {Deploy(t) \cup (IF TextDrifted(p) THEN Rewrite(t) ELSE {}) : t \in Kept(p)}
      <3>1. /\ phase[p] = "check" /\ Enter(p, "refresh") /\ work' = [work EXCEPT ![p] = W]
            /\ named' = [named EXCEPT ![p] = stamp.tools]
            /\ gaveUp' = [gaveUp EXCEPT ![p] = (Kept(p) = {})]
            /\ UNCHANGED <<command, ver, answers>>
        BY <1>1, <2>1 DEF Check
      <3> HIDE DEF W
      <3>2. work'[p] = W
        BY <3>1
      <3> QED
        BY <2>1, <3>1, <3>2 DEF Leads, Enter, W
    <2>2. CASE ~Due(p)
      BY <1>1, <2>2, Leaving DEF Check, Leads
    <2> QED
      BY <2>1, <2>2
  <1>2. CASE RefreshEnds(p)
    <2>1. CASE Stamps(p)
      BY <1>2, <2>1 DEF RefreshEnds, Leads, Enter, Stamps, local
    <2>2. CASE ~Stamps(p)
      BY <1>2, <2>2, Leaving DEF RefreshEnds, Leads
    <2> QED
      BY <2>1, <2>2
  <1>3. CASE Restamp(p)
    BY <1>3, Leaving DEF Restamp, Leads
  <1>4. CASE SaveChoices(p) \/ ClearChoices(p) \/ Crash(p)
    BY <1>4, Leaving DEF SaveChoices, ClearChoices, Crash, Leads
  <1>5. CASE Wizard(p)
    <2>1. CASE Finish(p)
      BY <2>1, Leaving DEF Leads
    <2>2. CASE ~Finish(p)
      <3>1. PICK asked \in (SUBSET {t \in Tool : choice[t] = "unset"}) \ {{}}, yes \in SUBSET Tool :
               /\ yes \subseteq asked
               /\ answers' = [answers EXCEPT ![p] =
                     [t \in Tool |-> IF t \in yes THEN "yes"
                                     ELSE IF t \in asked THEN "no" ELSE "unset"]]
               /\ named' = [named EXCEPT ![p] = yes]
               /\ work' = [work EXCEPT ![p] = UNION {Rewrite(t) \cup Deploy(t) : t \in yes}]
               /\ Enter(p, IF yes = {} THEN "choices" ELSE "register")
               /\ UNCHANGED <<command, ver, gaveUp>>
        BY <1>5, <2>2 DEF Wizard
      <3> DEFINE W == UNION {Rewrite(t) \cup Deploy(t) : t \in yes}
                 A == [t \in Tool |-> IF t \in yes THEN "yes"
                                      ELSE IF t \in asked THEN "no" ELSE "unset"]
      <3>2. work' = [work EXCEPT ![p] = W] /\ answers' = [answers EXCEPT ![p] = A]
        BY <3>1
      <3>3. named'[p] = yes
        BY <3>1
      <3>4. W = UNION {Rewrite(t) \cup Deploy(t) : t \in named'[p]}
        BY <3>3
      <3>5. \A t \in Tool : A[t] # "unset" => choice[t] = "unset"
        BY <3>1
      <3> HIDE DEF W, A
      <3>6. work'[p] = W /\ answers'[p] = A
        BY <3>2
      <3>7. phase[p] = "wizard" /\ phase'[p] = IF yes = {} THEN "choices" ELSE "register"
        BY <1>5, <3>1 DEF Wizard, Enter
      <3>8. ver'[p] = ver[p] /\ \A t \in named'[p] : choice[t] = "unset"
        BY <3>1, <3>3
      <3> QED
        BY <3>3, <3>4, <3>5, <3>6, <3>7, <3>8 DEF Leads
    <2> QED
      BY <2>1, <2>2
  <1>6. CASE Registered(p) \/ Removed(p)
    BY <1>6 DEF Registered, Removed, Leads, Enter, local
  <1>7. CASE ReadStamp(p)
    BY <1>7 DEF ReadStamp, Leads, Enter
  <1>8. CASE WriteStamp(p)
    BY <1>8, Leaving DEF WriteStamp, Leads, Enter, local
  <1>9. CASE RemoveStamp(p)
    BY <1>9, Leaving DEF RemoveStamp, Leads, Enter, local
  <1>10. ASSUME NEW s \in Now(p), StepFails(p, s)
         PROVE  Leads(p)
    <2>1. CASE phase[p] = "refresh"
      <3> DEFINE W == {r \in work[p] : r.tool # s.tool}
      <3>1. /\ work' = [work EXCEPT ![p] = W] /\ gaveUp' = [gaveUp EXCEPT ![p] = TRUE]
            /\ UNCHANGED <<phase, command, ver, named, answers>>
        BY <1>10, <2>1 DEF StepFails, GivesUp
      <3> HIDE DEF W
      <3>2. work'[p] = W
        BY <3>1
      <3>3. work'[p] = {r \in work[p] : r.tool # s.tool}
        BY <3>2 DEF W
      <3>4. gaveUp'[p] = TRUE
        BY <3>1
      <3> QED
        BY <1>10, <2>1, <3>1, <3>3, <3>4 DEF Leads
    <2>2. CASE phase[p] # "refresh"
      BY <1>10, <2>2, Leaving DEF StepFails, GivesUp, Leads
    <2> QED
      BY <2>1, <2>2
  <1> QED
    BY <1>1, <1>2, <1>3, <1>4, <1>5, <1>6, <1>7, <1>8, <1>9, <1>10 DEF Goes

-----------------------------------------------------------------------------
\* What holds of every command, also beside others.

\* The steps for a tool.
LEMMA StepsFor ==
  ASSUME NEW t \in Tool
  PROVE  /\ \A s \in Deploy(t) \cup Rewrite(t) :
               /\ s.tool = t /\ s.op \in {"remove", "mkdir", "copy", "rules", "pointer"}
               /\ s.op = "rules" => t \notin Block
         /\ \A s \in Remove(t) :
               /\ s.tool = t /\ s.op \in {"unrules", "remove", "strip"}
               /\ s.op = "unrules" => t \notin Block
  BY DEF Deploy, Rewrite, Remove, Do

WorkFitsOf(p) ==
    /\ phase[p] \notin {"refresh", "register", "unregister"} => work[p] = {}
    /\ \A s \in work[p] :
          /\ phase[p] # "unregister" => s.op \in {"remove", "mkdir", "copy", "rules", "pointer"}
          /\ phase[p] = "unregister" => s.op \in {"unrules", "remove", "strip"}
          /\ phase[p] # "unregister" => s.tool \in named[p]
          /\ s.op \in {"rules", "unrules"} => s.tool \notin Block

\* Commands have the steps that fit.
LEMMA WorkFitsNext ==
  ASSUME RegistrationTypeOK, WorkFits, RegistrationNext
  PROVE  WorkFits'
  <1>0. \A q \in Process : WorkFitsOf(q)
    BY DEF WorkFits, WorkFitsOf
  <1>1. ASSUME NEW p \in Process, Start(p) \/ Goes(p) \/ Works(p), WorkFitsOf(p)'
        PROVE  \A q \in Process : WorkFitsOf(q)'
    BY <1>0, <1>1, OthersRest DEF WorkFitsOf
  <1>2. CASE Upgrade \/ OptOut
    BY <1>2 DEF WorkFits, Upgrade, OptOut, toolFiles, local
  <1>3. ASSUME NEW p \in Process, Start(p) \/ Goes(p)
        PROVE  WorkFits'
    <2>1. WorkFitsOf(p)'
      <3>1. CASE Start(p)
        BY <1>0, <1>3, <3>1 DEF Start, Enter, WorkFitsOf, RegistrationTypeOK
      <3>2. CASE Goes(p)
        <4>1. Leads(p)
          BY <3>2, GoesLead
        <4>2. CASE Idles(p)
          BY <4>2 DEF Idles, WorkFitsOf
        <4>3. CASE MovesOn(p)
          BY <4>3, StepsFor DEF MovesOn, WorkFitsOf
        <4>4. CASE /\ phase'[p] = "refresh" /\ Due(p) /\ named'[p] = stamp.tools
                   /\ work'[p] = UNION {Deploy(t) \cup (IF TextDrifted(p) THEN Rewrite(t) ELSE {}) :
                                     t \in Kept(p)}
          <5>1. Kept(p) \subseteq Tool /\ Kept(p) \subseteq named'[p]
            BY <4>4 DEF Kept, Due, RegistrationTypeOK, Stamp
          <5>2. ASSUME NEW s \in work'[p]
                PROVE  \E t \in Kept(p) : s \in Deploy(t) \cup Rewrite(t)
            BY <4>4, <5>2
          <5>3. \A s \in work'[p] : \E t \in Tool \cap named'[p] : s \in Deploy(t) \cup Rewrite(t)
            BY <5>1, <5>2
          <5> QED
            BY <4>4, <5>3, StepsFor DEF WorkFitsOf
        <4>5. CASE /\ phase'[p] \in {"choices", "register"}
                   /\ work'[p] = UNION {Rewrite(t) \cup Deploy(t) : t \in named'[p]}
                   /\ phase'[p] = "choices" => named'[p] = {}
          <5>1. named'[p] \subseteq Tool
            BY <3>2, LocalTypes DEF LocalsTyped
          <5>2. phase'[p] = "choices" => work'[p] = {}
            BY <4>5
          <5>3. \A s \in work'[p] : \E t \in named'[p] : s \in Deploy(t) \cup Rewrite(t)
            BY <4>5
          <5> QED
            BY <4>5, <5>1, <5>2, <5>3, StepsFor DEF WorkFitsOf
        <4>6. CASE /\ phase'[p] \notin {"refresh", "register", "unregister"}
                   /\ phase[p] \in {"readStamp", "writeStamp", "unstamp"} \/ work[p] = {}
                   /\ work'[p] = work[p]
          BY <1>0, <4>6 DEF WorkFitsOf
        <4>7. CASE /\ phase[p] = "refresh" /\ phase'[p] = "refresh"
                   /\ work'[p] \subseteq work[p] /\ named'[p] = named[p]
          BY <1>0, <4>7 DEF WorkFitsOf
        <4> QED
          BY <4>1, <4>2, <4>3, <4>4, <4>5, <4>6, <4>7 DEF Leads, local
      <3> QED
        BY <1>3, <3>1, <3>2
    <2>2. UNCHANGED rules
      BY <1>3, Apart
    <2> QED
      BY <1>1, <1>3, <2>1, <2>2 DEF WorkFits, WorkFitsOf
  <1>4. ASSUME NEW p \in Process, Works(p)
        PROVE  WorkFits'
    <2>1. PICK s \in Now(p) : FileStepOf(p, s)
      BY <1>4 DEF Works
    <2>2. s \in work[p] /\ s.tool \in Tool
      BY NowFacts
    <2>3. work'[p] = work[p] \ {s} /\ UNCHANGED <<phase, named>>
      BY <2>1 DEF FileStepOf, RemoveSkill, MakeDir, CopyFile, WriteRules, WritePointer, StripPointer,
                  Done, RegistrationTypeOK
    <2>4. WorkFitsOf(p)'
      BY <1>0, <2>3 DEF WorkFitsOf
    <2>5. ASSUME NEW t \in Block PROVE rules'[t] = 0
      <3>1. t # s.tool \/ UNCHANGED rules
        BY <1>0, <2>1, <2>2 DEF FileStepOf, RemoveSkill, MakeDir, CopyFile, WriteRules, WritePointer,
                                StripPointer, WorkFitsOf
      <3> QED
        BY <2>1, <2>2, <3>1, RegistrationAssumption
        DEF FileStepOf, RemoveSkill, MakeDir, CopyFile, WriteRules, WritePointer, StripPointer,
            WorkFits, RegistrationTypeOK
    <2> QED
      BY <1>1, <1>4, <2>4, <2>5 DEF WorkFits, WorkFitsOf
  <1> QED
    BY <1>2, <1>3, <1>4, Steps

\* Nothing comes from a release that was never installed.
LEMMA InThePastNext ==
  ASSUME RegistrationTypeOK, InThePast, RegistrationNext
  PROVE  InThePast'
  <1>0. release \in Release /\ ver \in [Process -> Release] /\ (stamp # Missing => stamp \in Stamp)
    BY DEF RegistrationTypeOK
  <1>1. CASE Upgrade
    <2>1. release' = release + 1 /\ release' \in Release /\ UNCHANGED <<pointer, stamp, ver>>
      BY <1>0, <1>1, RegistrationAssumption DEF Upgrade, Release, toolFiles, local
    <2>2. \A t \in Tool : PointerOf(t, release) <= PointerOf(t, release')
      BY <1>0, <2>1, PointerFacts DEF Release
    <2>3. \A t \in Tool :
             PointerOf(t, release) \in Nat /\ PointerOf(t, release') \in Nat /\ pointer[t] \in Nat
      BY <1>0, <2>1, PointerFacts, RegistrationAssumption DEF Release, RegistrationTypeOK
    <2>4. \A t \in Tool : pointer'[t] # 0 => pointer'[t] <= PointerOf(t, release')
      BY <2>1, <2>2, <2>3 DEF InThePast
    <2>5. \A p \in Process : ver'[p] <= release'
      BY <1>0, <2>1, RegistrationAssumption DEF InThePast, Release
    <2>6. stamp # Missing => stamp.version <= release'
      BY <1>0, <2>1, RegistrationAssumption DEF InThePast, Release, Stamp
    <2> QED
      BY <2>1, <2>4, <2>5, <2>6 DEF InThePast
  <1>2. CASE OptOut
    BY <1>2 DEF InThePast, OptOut, toolFiles, local
  <1>3. ASSUME NEW p \in Process, Start(p) \/ Goes(p)
        PROVE  InThePast'
    <2>1. UNCHANGED <<release, pointer>>
      BY <1>3, Apart
    <2>2. ver'[p] <= release
      <3>1. Finish(p) => ver'[p] = 1
        BY <1>0 DEF Finish
      <3>2. Proceed(p) => ver'[p] \in {1, ver[p]}
        BY <3>1 DEF Proceed, RegistrationTypeOK
      <3>3. ver'[p] \in {1, release, ver[p]}
        <4>1. CASE Start(p)
          BY <1>0, <4>1 DEF Start
        <4>2. CASE Check(p) \/ RefreshEnds(p) \/ Restamp(p)
          BY <3>2, <4>2 DEF Check, RefreshEnds, Restamp, local
        <4>3. CASE Wizard(p) \/ Registered(p) \/ ReadStamp(p) \/ WriteStamp(p) \/ SaveChoices(p)
          BY <3>1, <4>3 DEF Wizard, Registered, ReadStamp, WriteStamp, SaveChoices, local
        <4>4. CASE Removed(p) \/ RemoveStamp(p) \/ ClearChoices(p) \/ Crash(p)
          BY <3>1, <4>4 DEF Removed, RemoveStamp, ClearChoices, Crash, local
        <4>5. CASE \E s \in Now(p) : StepFails(p, s)
          BY <3>1, <4>5 DEF StepFails, GivesUp
        <4> QED
          BY <1>3, <4>1, <4>2, <4>3, <4>4, <4>5 DEF Goes
      <3> QED
        BY <1>0, <3>3, RegistrationAssumption DEF InThePast, Release
    <2>3. \A q \in Process : ver'[q] <= release
      BY <1>3, <2>2, OthersRest DEF InThePast
    <2>4. stamp' # Missing => stamp'.version <= release /\ stamp'.text = Text(stamp'.version)
      <3>1. \/ stamp' = stamp \/ stamp' = Missing
            \/ stamp' = [version |-> ver[p], tools |-> named[p], text |-> Text(ver[p])]
        BY <1>3 DEF Start, Goes, Check, RefreshEnds, Restamp, Wizard, Registered, ReadStamp, WriteStamp,
                    SaveChoices, Removed, RemoveStamp, ClearChoices, Crash, StepFails
      <3> QED
        BY <3>1 DEF InThePast
    <2> QED
      BY <2>1, <2>3, <2>4 DEF InThePast
  <1>4. ASSUME NEW p \in Process, Works(p)
        PROVE  InThePast'
    <2>1. UNCHANGED <<release, ver, stamp>>
      BY <1>4, Apart
    <2>2. PICK s \in Now(p) : FileStepOf(p, s)
      BY <1>4 DEF Works
    <2>3. s.tool \in Tool
      BY NowFacts
    <2>4. \A t \in Tool : pointer'[t] \in {0, pointer[t], PointerOf(t, ver[p])}
      BY <2>2, <2>3 DEF FileStepOf, RemoveSkill, MakeDir, CopyFile, WriteRules, WritePointer,
                        StripPointer, Stripped, RegistrationTypeOK
    <2>5. \A t \in Tool : PointerOf(t, ver[p]) <= PointerOf(t, release)
      BY <1>0, PointerFacts DEF InThePast
    <2> QED
      BY <2>1, <2>4, <2>5 DEF InThePast
  <1> QED
    BY <1>1, <1>2, <1>3, <1>4, Steps

-----------------------------------------------------------------------------
\* What a step makes of the stamp, the choices and the ghosts.

NewStamp(p) == [version |-> ver[p], tools |-> named[p], text |-> Text(ver[p])]

\* Who changes the stamp, and how.
LEMMA StampChanges ==
  ASSUME RegistrationTypeOK, WorkFits, NEW p \in Process, Start(p) \/ Goes(p)
  PROVE  /\ \/ UNCHANGED stamp
            \/ phase[p] = "restamp" /\ phase'[p] # "refresh" /\ stamp' = NewStamp(p)
            \/ phase[p] = "writeStamp" /\ phase'[p] = "choices" /\ stamp' = NewStamp(p)
            \/ phase[p] = "unstamp" /\ phase'[p] = "unchoose" /\ stamp' = Missing
         /\ phase[p] = "restamp" /\ faults' = faults => stamp' = NewStamp(p)
         /\ phase[p] = "writeStamp" /\ phase'[p] # "idle" => stamp' = NewStamp(p)
         /\ phase'[p] = "unchoose" => stamp' = Missing
  <1> USE DEF RegistrationTypeOK, NewStamp
  <1>1. CASE Start(p) \/ Registered(p) \/ Removed(p) \/ ReadStamp(p)
    BY <1>1 DEF Start, Registered, Removed, ReadStamp, Enter
  <1>2. (Finish(p) => Idles(p)) /\ (Proceed(p) => Idles(p) \/ MovesOn(p))
    BY Leaving
  <1>3. faults \in Nat /\ (Fault => faults' # faults)
    BY RegistrationAssumption DEF Fault
  <1>4. CASE Check(p) \/ RefreshEnds(p)
    BY <1>2, <1>4 DEF Check, RefreshEnds, Enter, Idles, MovesOn
  <1>5. CASE Restamp(p)
    BY <1>2, <1>3, <1>5 DEF Restamp, Idles, MovesOn
  <1>6. CASE Wizard(p) \/ SaveChoices(p) \/ ClearChoices(p)
    BY <1>2, <1>6 DEF Wizard, SaveChoices, ClearChoices, Idles, Enter
  <1>7. CASE WriteStamp(p)
    BY <1>2, <1>7 DEF WriteStamp, Idles, Enter
  <1>8. CASE RemoveStamp(p)
    BY <1>2, <1>8 DEF RemoveStamp, Idles, Enter
  <1>9. CASE Crash(p)
    BY <1>2, <1>3, <1>9 DEF Crash, Idles
  <1>10. ASSUME NEW s \in Now(p), StepFails(p, s)
         PROVE  UNCHANGED stamp /\ phase[p] \notin {"restamp", "writeStamp"} /\ phase'[p] # "unchoose"
    <2>1. phase[p] \in {"refresh", "register", "unregister"}
      BY <1>10, NowFacts DEF WorkFits
    <2> QED
      BY <1>2, <1>10, <2>1 DEF StepFails, GivesUp, Idles
  <1> QED
    BY <1>1, <1>4, <1>5, <1>6, <1>7, <1>8, <1>9, <1>10 DEF Goes

\* Who changes the choices, and how: at the end of a command.
LEMMA ChoiceChanges ==
  ASSUME RegistrationTypeOK, NEW p \in Process, Start(p) \/ Goes(p)
  PROVE  \/ UNCHANGED choice
         \/ /\ phase[p] = "choices" /\ phase'[p] = "idle"
            /\ choice' = [t \in Tool |-> IF answers[p][t] = "unset" THEN choice[t] ELSE answers[p][t]]
         \/ phase[p] = "unchoose" /\ phase'[p] = "idle" /\ choice' = NoAnswers
  <1>1. CASE SaveChoices(p) \/ ClearChoices(p)
    BY <1>1, Leaving DEF SaveChoices, ClearChoices, Idles
  <1>2. CASE ~(SaveChoices(p) \/ ClearChoices(p))
    BY <1>2 DEF Start, Goes, Check, RefreshEnds, Restamp, Wizard, Registered, ReadStamp, WriteStamp,
                Removed, RemoveStamp, Crash, StepFails
  <1> QED
    BY <1>1, <1>2

\* What the ghosts remember.
LEMMA GhostsTell ==
  ASSUME RegistrationTypeOK, WorkFits, NEW p \in Process, Start(p) \/ Goes(p)
  PROVE  /\ mishaps \subseteq mishaps' /\ faults' \in {faults, faults + 1}
         /\ phase[p] \in {"register", "unregister", "unstamp"} /\ phase'[p] = "idle" =>
               "halfway" \in mishaps' \/ stamp' = Missing
         /\ phase[p] = "readStamp" /\ phase'[p] = "writeStamp" /\ Due(p) => "carried" \in mishaps'
         /\ phase[p] = "unchoose" /\ faults' = faults /\ "left" \notin mishaps' =>
               \A t \in Tool : pointer[t] = 0
  <1> USE DEF RegistrationTypeOK
  <1>3. faults \in Nat /\ (Fault => faults' = faults + 1)
    BY RegistrationAssumption DEF Fault
  <1>4. CASE Start(p)
    BY <1>4 DEF Start
  <1>5. CASE Check(p) \/ RefreshEnds(p) \/ Wizard(p)
    BY <1>5 DEF Check, RefreshEnds, Wizard
  <1>6. CASE Restamp(p) \/ WriteStamp(p) \/ SaveChoices(p)
    BY <1>3, <1>6 DEF Restamp, WriteStamp, SaveChoices
  <1>7. CASE Registered(p) \/ Removed(p)
    BY <1>7 DEF Registered, Removed, Enter
  <1>8. CASE ReadStamp(p)
    BY <1>8 DEF ReadStamp
  <1>9. CASE RemoveStamp(p)
    <2>1. "halfway" \in mishaps' \/ stamp' = Missing
      BY <1>9 DEF RemoveStamp, Halfway
    <2> QED
      BY <1>3, <1>9, <2>1 DEF RemoveStamp
  <1>10. CASE ClearChoices(p)
    <2>1. mishaps' = mishaps \cup {m \in {"left"} : \E t \in Tool : pointer[t] # 0}
      BY <1>10 DEF ClearChoices
    <2>2. "left" \notin mishaps' => \A t \in Tool : pointer[t] = 0
      BY <2>1
    <2>3. mishaps \subseteq mishaps'
      BY <2>1
    <2>4. phase[p] = "unchoose" /\ faults' \in {faults, faults + 1}
      BY <1>3, <1>10 DEF ClearChoices
    <2> QED
      BY <2>2, <2>3, <2>4
  <1>11. CASE Crash(p)
    <2>1. Idles(p) /\ faults' = faults + 1 /\ faults' # faults
      BY <1>3, <1>11, Leaving DEF Crash
    <2> QED
      BY <1>11, <2>1 DEF Crash, Halfway, Idles
  <1>12. ASSUME NEW s \in Now(p), StepFails(p, s)
         PROVE  /\ mishaps \subseteq mishaps' /\ faults' \in {faults, faults + 1}
                /\ phase[p] \in {"register", "unregister", "unstamp"} => "halfway" \in mishaps'
                /\ phase[p] \notin {"readStamp", "unchoose"}
    <2>1. phase[p] \in {"refresh", "register", "unregister"}
      BY <1>12, NowFacts DEF WorkFits
    <2> QED
      BY <1>3, <1>12, <2>1 DEF StepFails, Halfway
  <1> QED
    BY <1>4, <1>5, <1>6, <1>7, <1>8, <1>9, <1>10, <1>11, <1>12 DEF Goes

-----------------------------------------------------------------------------
\* Commands that follow one another.

\* Without an overlap, only one process has a command under way.
LEMMA OneActs ==
  ASSUME RegistrationTypeOK, WorkFits, Serial', Serial => Alone,
         NEW p \in Process, Start(p) \/ Goes(p) \/ Works(p)
  PROVE  /\ Serial /\ Alone' /\ \A q \in Process \ {p} : phase[q] = "idle" /\ phase'[q] = "idle"
         /\ ~Start(p) => Active(p)
  <1>1. Serial
    BY GhostsTell, Apart DEF Serial
  <1>2. CASE Start(p)
    <2>1. \A q \in Process \ {p} : phase[q] = "idle"
      BY <1>2 DEF Start, Serial
    <2> QED
      BY <1>1, <1>2, <2>1, OthersRest DEF Alone, Active
  <1>3. CASE ~Start(p)
    <2>1. Active(p)
      <3>1. CASE Goes(p)
        <4>1. \A s \in Now(p) : phase[p] \in {"refresh", "register", "unregister"}
          BY NowFacts DEF WorkFits
        <4> QED
          BY <3>1, <4>1 DEF Goes, Active, Check, RefreshEnds, Restamp, Wizard, Registered, ReadStamp,
                WriteStamp, SaveChoices, Removed, RemoveStamp, ClearChoices, Crash
      <3>2. CASE Works(p)
        BY <3>2, NowFacts DEF Works, WorkFits, Active
      <3> QED
        BY <1>3, <3>1, <3>2
    <2>2. \A q \in Process \ {p} : phase[q] = "idle"
      BY <1>1, <2>1 DEF Alone, Active
    <2> QED
      BY <1>1, <2>1, <2>2, OthersRest DEF Alone, Active
  <1> QED
    BY <1>2, <1>3

\* A command is not older than what it finds.
LEMMA BehindNext ==
  ASSUME RegistrationTypeOK, WorkFits, InThePast, Serial', Serial => Alone /\ Behind,
         RegistrationNext
  PROVE  Alone' /\ Behind'
  <1>1. CASE Upgrade \/ OptOut
    <2>1. Serial /\ UNCHANGED <<phase, ver, stamp, pointer>>
      BY <1>1 DEF Upgrade, OptOut, Serial, toolFiles, local
    <2> QED
      BY <2>1 DEF Alone, Behind, Active
  <1>2. ASSUME NEW p \in Process, Start(p) \/ Goes(p) \/ Works(p)
        PROVE  Alone' /\ Behind'
    <2>1. /\ Serial /\ Alone' /\ \A q \in Process \ {p} : phase'[q] = "idle"
          /\ ~Start(p) => Active(p)
      BY <1>2, OneActs
    <2> SUFFICES ASSUME Active(p)'
                 PROVE  /\ stamp' # Missing => stamp'.version <= ver'[p]
                        /\ \A t \in Tool : pointer'[t] # 0 => pointer'[t] <= PointerOf(t, ver'[p])
      BY <2>1 DEF Behind, Active
    <2>2. CASE Start(p)
      <3>1. ver'[p] = release /\ UNCHANGED <<stamp, pointer>>
        BY <2>2 DEF Start, RegistrationTypeOK, toolFiles
      <3> QED
        BY <3>1 DEF InThePast
    <2>3. CASE Goes(p) /\ ~Start(p)
      <3>1. ver'[p] = ver[p]
        BY <2>3, GoesLead DEF Leads, Idles, MovesOn, Active, local
      <3>2. stamp' = stamp \/ stamp' = Missing \/ stamp' = NewStamp(p)
        BY <2>3, StampChanges
      <3>3. stamp' # Missing => stamp'.version <= ver[p]
        BY <2>1, <2>3, <3>2 DEF Behind, NewStamp, RegistrationTypeOK, Release
      <3>4. UNCHANGED pointer
        BY <2>3, Apart
      <3> QED
        BY <2>1, <2>3, <3>1, <3>3, <3>4 DEF Behind
    <2>4. CASE Works(p) /\ ~Start(p)
      <3>1. UNCHANGED <<stamp, ver>>
        BY <2>4, Apart
      <3>2. PICK s \in Now(p) : FileStepOf(p, s)
        BY <2>4 DEF Works
      <3>3. s.tool \in Tool
        BY NowFacts
      <3>4. \A t \in Tool : pointer'[t] \in {0, pointer[t], PointerOf(t, ver[p])}
        BY <3>2, <3>3 DEF FileStepOf, RemoveSkill, MakeDir, CopyFile, WriteRules, WritePointer,
                          StripPointer, Stripped, RegistrationTypeOK
      <3>5. \A t \in Tool : PointerOf(t, ver[p]) <= PointerOf(t, ver[p])
        BY PointerFacts, RegistrationAssumption DEF RegistrationTypeOK, Release
      <3> QED
        BY <2>1, <2>4, <3>1, <3>4, <3>5 DEF Behind
    <2> QED
      BY <1>2, <2>2, <2>3, <2>4
  <1> QED
    BY <1>1, <1>2, Steps

\* What a command that is due has found: an older stamp.
LEMMA DueIsOlder ==
  ASSUME RegistrationTypeOK, InThePast, Behind, NEW p \in Process, Active(p), Due(p)
  PROVE  stamp \in Stamp /\ stamp.version < ver[p]
  <1>1. stamp \in Stamp /\ stamp.version \in Release /\ ver[p] \in Release
    BY DEF Due, RegistrationTypeOK, Stamp
  <1>2. stamp.version <= ver[p] /\ stamp.version # ver[p]
    BY <1>1, MissingAssumption DEF Due, TextDrifted, Behind, InThePast
  <1> QED
    BY <1>1, <1>2 DEF Release

\* Where a command is tells of the stamp and of the choices.
LEMMA PlacesNext ==
  ASSUME RegistrationTypeOK, WorkFits, InThePast, Serial',
         Serial => Alone /\ Behind /\ \A p \in Process : Places(p),
         RegistrationNext
  PROVE  \A p \in Process : Places(p)'
  <1>1. CASE Upgrade
    BY <1>1 DEF Upgrade, Serial, Places, toolFiles, local
  <1>2. CASE OptOut
    <2>1. Serial /\ UNCHANGED <<phase, named, stamp, ver, answers>>
      BY <1>2 DEF OptOut, Serial, toolFiles, local
    <2>2. \A t \in Tool : choice[t] = "unset" => choice'[t] = "unset"
      BY <1>2 DEF OptOut, RegistrationTypeOK
    <2> QED
      BY <2>1, <2>2 DEF Places
  <1>3. ASSUME NEW p \in Process, Start(p) \/ Goes(p) \/ Works(p)
        PROVE  \A q \in Process : Places(q)'
    <2>1. /\ Serial /\ \A q \in Process \ {p} : phase'[q] = "idle"
          /\ ~Start(p) => Active(p)
      BY <1>3, OneActs
    <2>2. Places(p)'
      <3>1. CASE Start(p)
        BY <3>1 DEF Start, Enter, Places, RegistrationTypeOK
      <3>2. CASE Works(p)
        BY <2>1, <3>2, Apart DEF Places
      <3>3. CASE Goes(p) /\ ~Start(p)
        <4>1. /\ phase'[p] \in {"refresh", "restamp"} =>
                    /\ UNCHANGED stamp /\ ver'[p] = ver[p]
                    /\ phase[p] = "check" => Due(p) /\ named'[p] = stamp.tools
                    /\ phase[p] # "check" => phase[p] = "refresh" /\ named'[p] = named[p]
          <5>1. phase'[p] \in {"refresh", "restamp"} => UNCHANGED stamp
            BY <3>3, StampChanges, GoesLead DEF Leads, Idles, MovesOn
          <5> QED
            BY <3>3, <5>1, GoesLead DEF Leads, Idles, MovesOn, local
        <4>2. phase'[p] \in {"refresh", "restamp"} =>
                 stamp' # Missing /\ stamp'.version < ver'[p] /\ named'[p] = stamp'.tools
          BY <2>1, <3>3, <4>1, DueIsOlder, MissingAssumption DEF Places, Due
        <4>3. phase'[p] \in {"register", "readStamp", "writeStamp", "choices"} =>
                 \A t \in Tool : answers'[p][t] # "unset" => choice[t] = "unset"
          <5>1. phase'[p] \in {"register", "readStamp", "writeStamp", "choices"} =>
                   \/ \A t \in Tool : answers'[p][t] # "unset" => choice[t] = "unset"
                   \/ phase[p] \in {"register", "readStamp", "writeStamp"} /\ UNCHANGED answers
            BY <3>3, GoesLead DEF Leads, Idles, MovesOn, local
          <5> QED
            BY <2>1, <5>1 DEF Places
        <4>4. phase'[p] = "idle" \/ UNCHANGED choice
          BY <3>3, ChoiceChanges
        <4>5. phase'[p] = "unchoose" => stamp' = Missing
          BY <3>3, StampChanges
        <4> QED
          BY <4>2, <4>3, <4>4, <4>5 DEF Places
      <3> QED
        BY <1>3, <3>1, <3>2, <3>3
    <2> QED
      BY <2>1, <2>2 DEF Places
  <1> QED
    BY <1>1, <1>2, <1>3, Steps

-----------------------------------------------------------------------------
\* What a command that deploys has still to do, and has done.

\* The steps that deploy a tool, or write what it reads, are those of its sets.
LEMMA StepsOf ==
  ASSUME NEW t \in Tool, NEW u \in Tool
  PROVE  /\ \A f \in File : Copy(t, f) \in Deploy(t)
         /\ Do("remove", t) \in Deploy(t) /\ Do("mkdir", t) \in Deploy(t)
         /\ Do("pointer", t) \in Rewrite(t) /\ (t \notin Block => Do("rules", t) \in Rewrite(t))
         /\ Do("remove", t) \in Remove(t) /\ Do("strip", t) \in Remove(t)
         /\ t \notin Block => Do("unrules", t) \in Remove(t)
         /\ t # u => /\ \A f \in File : Copy(t, f) \notin Deploy(u) \cup Rewrite(u)
                     /\ Do("remove", t) \notin Deploy(u) \cup Rewrite(u)
                     /\ Do("mkdir", t) \notin Deploy(u) \cup Rewrite(u)
  BY DEF Deploy, Rewrite, Remove, Do, Copy

\* The order of a tool's steps: its directory is removed, made, and copied to.
LEMMA InOrder ==
  ASSUME RegistrationTypeOK, NEW p \in Process, phase[p] \in {"refresh", "register"},
         NEW s \in Now(p), NEW t \in Tool, s.tool = t
  PROVE  /\ s.op = "mkdir" => Do("remove", t) \notin work[p]
         /\ s.op = "copy" => Do("mkdir", t) \notin work[p]
  <1>1. \A r \in work[p] \ {s} : Before(phase[p], s, r)
    BY DEF Now
  <1>2. s.tool \in Nat /\ t \in Nat
    BY RegistrationAssumption
  <1>3. ASSUME s.op = "mkdir", Do("remove", t) \in work[p]
        PROVE  FALSE
    <2>1. Do("remove", t) # s
      BY <1>3 DEF Do
    <2>2. Before(phase[p], s, Do("remove", t))
      BY <1>1, <1>3, <2>1
    <2> QED
      BY <1>2, <1>3, <2>2 DEF Before, Second, Place, Do
  <1>4. ASSUME s.op = "copy", Do("mkdir", t) \in work[p]
        PROVE  FALSE
    <2>1. Do("mkdir", t) # s
      BY <1>4 DEF Do
    <2>2. Before(phase[p], s, Do("mkdir", t))
      BY <1>1, <1>4, <2>1
    <2> QED
      BY <1>2, <1>4, <2>2 DEF Before, Second, Place, Do
  <1> QED
    BY <1>3, <1>4

\* A step on the files and its effect on the work.
LEMMA WorkDwindles ==
  ASSUME RegistrationTypeOK, NEW p \in Process, NEW s \in Now(p), FileStepOf(p, s)
  PROVE  /\ s \in work[p] /\ s.tool \in Tool /\ work'[p] = work[p] \ {s}
         /\ \A t \in Tool : t # s.tool =>
               skill'[t] = skill[t] /\ rules'[t] = rules[t] /\ pointer'[t] = pointer[t]
  <1>1. s \in work[p] /\ s.tool \in Tool
    BY NowFacts
  <1> QED
    BY <1>1 DEF FileStepOf, RemoveSkill, MakeDir, CopyFile, WriteRules, WritePointer, StripPointer,
                Done, RegistrationTypeOK

DirectoryMadeFor(p, t) ==
    /\ Do("remove", t) \in work[p] => Do("mkdir", t) \in work[p]
    /\ Do("mkdir", t) \in work[p] => \A f \in File : Copy(t, f) \in work[p]
    /\ (\E f \in File : Copy(t, f) \in work[p]) => Do("mkdir", t) \in work[p] \/ skill[t] # Missing

\* A step on the files keeps the order of what is left.
LEMMA DirectoryMadeWorks ==
  ASSUME RegistrationTypeOK, WorkFits, NEW p \in Process, NEW s \in Now(p), FileStepOf(p, s),
         phase[p] \in {"refresh", "register"}, NEW t \in Tool, DirectoryMadeFor(p, t)
  PROVE  DirectoryMadeFor(p, t)'
  <1>1. /\ s \in work[p] /\ s.tool \in Tool /\ work'[p] = work[p] \ {s}
        /\ s.op = "copy" => s.file \in File
        /\ s.op = "copy" => s = Copy(s.tool, s.file)
        /\ s.op # "copy" => s = Do(s.op, s.tool)
    BY WorkDwindles, NowFacts
  <1>2. CASE s.tool # t
    <2>1. Do("remove", t) # s /\ Do("mkdir", t) # s /\ \A f \in File : Copy(t, f) # s
      BY <1>2 DEF Do, Copy
    <2>2. skill'[t] = skill[t]
      BY <1>2, WorkDwindles
    <2> QED
      BY <1>1, <2>1, <2>2 DEF DirectoryMadeFor
  <1>3. CASE s.tool = t /\ s.op = "remove"
    <2>1. s = Do("remove", t) /\ Do("mkdir", t) # s /\ \A f \in File : Copy(t, f) # s
      BY <1>1, <1>3 DEF Do, Copy
    <2> QED
      BY <1>1, <2>1 DEF DirectoryMadeFor
  <1>4. CASE s.tool = t /\ s.op = "mkdir"
    <2>1. s = Do("mkdir", t) /\ \A f \in File : Copy(t, f) # s
      BY <1>1, <1>4 DEF Do, Copy
    <2>2. Do("remove", t) \notin work[p]
      BY <1>4, InOrder
    <2>3. [f \in File |-> 0] # Missing
      BY MissingAssumption, RegistrationAssumption DEF Skill, Release
    <2>4. skill'[t] # Missing
      BY <1>1, <1>4, <2>3 DEF FileStepOf, RemoveSkill, MakeDir, CopyFile, WriteRules, WritePointer,
                              StripPointer, RegistrationTypeOK
    <2> QED
      BY <1>1, <2>1, <2>2, <2>4 DEF DirectoryMadeFor
  <1>5. CASE s.tool = t /\ s.op = "copy"
    <2>1. Do("mkdir", t) # s /\ Do("remove", t) # s
      BY <1>1, <1>5 DEF Do, Copy
    <2>2. Do("mkdir", t) \notin work[p]
      BY <1>5, InOrder
    <2>3. skill[t] \in Skill /\ s.file \in File
      BY <1>1, <1>5 DEF FileStepOf, RemoveSkill, MakeDir, CopyFile, WriteRules, WritePointer,
                        StripPointer, RegistrationTypeOK
    <2>4. skill'[t] = [skill[t] EXCEPT ![s.file] = release]
      BY <1>1, <1>5 DEF FileStepOf, RemoveSkill, MakeDir, CopyFile, WriteRules, WritePointer,
                        StripPointer, RegistrationTypeOK
    <2>5. release \in 0..MaxRelease
      BY RegistrationAssumption DEF RegistrationTypeOK, Release
    <2>6. skill'[t] # Missing
      BY <2>3, <2>4, <2>5, CopyTypes, MissingAssumption
    <2> QED
      BY <1>1, <2>1, <2>2, <2>6 DEF DirectoryMadeFor
  <1>6. CASE s.tool = t /\ s.op \notin {"remove", "mkdir", "copy"}
    <2>1. Do("remove", t) # s /\ Do("mkdir", t) # s /\ \A f \in File : Copy(t, f) # s
      BY <1>1, <1>6 DEF Do, Copy
    <2>2. UNCHANGED skill
      BY <1>6 DEF FileStepOf, RemoveSkill, MakeDir, CopyFile, WriteRules, WritePointer, StripPointer
    <2> QED
      BY <1>1, <2>1, <2>2 DEF DirectoryMadeFor
  <1> QED
    BY <1>2, <1>3, <1>4, <1>5, <1>6

\* The steps of several tools together are, for each of them, its own.
LEMMA FreshWork ==
  ASSUME NEW p \in Process, NEW Some \in SUBSET Tool, NEW Texts \in SUBSET Tool,
         work'[p] = UNION {Deploy(t) \cup (IF t \in Texts THEN Rewrite(t) ELSE {}) : t \in Some}
  PROVE  /\ \A t \in Tool : DirectoryMadeFor(p, t)'
         /\ \A t \in Some : /\ Do("mkdir", t) \in work'[p]
                            /\ t \in Texts => /\ Do("pointer", t) \in work'[p]
                                              /\ t \notin Block => Do("rules", t) \in work'[p]
  <1>1. \A t \in Some : Deploy(t) \subseteq work'[p] /\ (t \in Texts => Rewrite(t) \subseteq work'[p])
    OBVIOUS
  <1>2. \A s \in work'[p] : \E t \in Some : s \in Deploy(t) \cup Rewrite(t)
    OBVIOUS
  <1>3. ASSUME NEW t \in Tool \ Some
        PROVE  DirectoryMadeFor(p, t)'
    BY <1>2, StepsOf DEF DirectoryMadeFor
  <1>4. ASSUME NEW t \in Some
        PROVE  DirectoryMadeFor(p, t)'
    BY <1>1, StepsOf DEF DirectoryMadeFor
  <1> QED
    BY <1>1, <1>3, <1>4, StepsOf

\* How a command comes to its steps, and what it is told to do then.
LEMMA Begins ==
  ASSUME RegistrationTypeOK, WorkFits, NEW p \in Process, Goes(p), phase'[p] # phase[p],
         phase'[p] \in {"refresh", "register"}
  PROVE  /\ UNCHANGED <<stamp, choice, release, skill, rules, pointer>> /\ ver'[p] = ver[p]
         /\ \A t \in Tool : DirectoryMadeFor(p, t)'
         /\ \A t \in named'[p] : choice[t] # "no" =>
               /\ Do("mkdir", t) \in work'[p]
               /\ (phase'[p] = "refresh" => stamp.text # Text(ver[p])) =>
                     /\ Do("pointer", t) \in work'[p]
                     /\ t \notin Block => Do("rules", t) \in work'[p]
  <1>1. UNCHANGED <<stamp, choice, release, skill, rules, pointer>>
    <2>1. phase[p] \in {"check", "wizard"}
      BY GoesLead DEF Leads, Idles, MovesOn
    <2> QED
      BY <2>1, StampChanges, ChoiceChanges, Apart
  <1>2. CASE phase'[p] = "refresh"
    <2>1. /\ Due(p) /\ named'[p] = stamp.tools /\ ver'[p] = ver[p]
          /\ work'[p] = UNION {Deploy(t) \cup (IF TextDrifted(p) THEN Rewrite(t) ELSE {}) : t \in Kept(p)}
      BY <1>2, GoesLead DEF Leads, Idles, MovesOn
    <2>2. stamp.tools \in SUBSET Tool /\ Kept(p) \in SUBSET Tool
      BY <2>1 DEF Due, RegistrationTypeOK, Stamp, Kept
    <2> DEFINE Texts == IF TextDrifted(p) THEN Tool ELSE {}
    <2>3. Texts \in SUBSET Tool
      OBVIOUS
    <2>4. work'[p] = UNION {Deploy(t) \cup (IF t \in Texts THEN Rewrite(t) ELSE {}) : t \in Kept(p)}
      <3>1. \A t \in Kept(p) : t \in Texts <=> TextDrifted(p)
        BY <2>2
      <3>2. \A t \in Kept(p) : Deploy(t) \cup (IF t \in Texts THEN Rewrite(t) ELSE {})
                               = Deploy(t) \cup (IF TextDrifted(p) THEN Rewrite(t) ELSE {})
        BY <3>1
      <3> HIDE DEF Texts
      <3> QED
        BY <2>1, <3>2
    <2>5. \A t \in named'[p] : stamp.text # Text(ver[p]) => t \in Texts
      BY <2>1, <2>2 DEF TextDrifted
    <2>6. \A t \in named'[p] : choice[t] # "no" => t \in Kept(p)
      BY <2>1 DEF Kept
    <2> HIDE DEF Texts
    <2>7. /\ \A t \in Tool : DirectoryMadeFor(p, t)'
          /\ \A t \in Kept(p) : /\ Do("mkdir", t) \in work'[p]
                                /\ t \in Texts => /\ Do("pointer", t) \in work'[p]
                                                  /\ t \notin Block => Do("rules", t) \in work'[p]
      BY <2>2, <2>3, <2>4, FreshWork
    <2> QED
      BY <1>1, <1>2, <2>1, <2>5, <2>6, <2>7
  <1>3. CASE phase'[p] = "register"
    <2>1. /\ ver'[p] = ver[p] /\ work'[p] = UNION {Rewrite(t) \cup Deploy(t) : t \in named'[p]}
      BY <1>3, GoesLead DEF Leads, Idles, MovesOn
    <2>2. named'[p] \in SUBSET Tool
      BY LocalTypes DEF LocalsTyped
    <2>3. work'[p] = UNION {Deploy(t) \cup (IF t \in Tool THEN Rewrite(t) ELSE {}) : t \in named'[p]}
      BY <2>1, <2>2
    <2>4. /\ \A t \in Tool : DirectoryMadeFor(p, t)'
          /\ \A t \in named'[p] : /\ Do("mkdir", t) \in work'[p]
                                  /\ t \in Tool => /\ Do("pointer", t) \in work'[p]
                                                   /\ t \notin Block => Do("rules", t) \in work'[p]
      BY <2>2, <2>3, FreshWork
    <2> QED
      BY <1>1, <2>1, <2>2, <2>4
  <1> QED
    BY <1>2, <1>3

\* Every step keeps the order of what is left.
LEMMA DirectoryMadeNext ==
  ASSUME RegistrationTypeOK, WorkFits, Serial',
         Serial => Alone /\ \A p \in Process : DirectoryMade(p),
         RegistrationNext
  PROVE  \A p \in Process : DirectoryMade(p)'
  <1>1. CASE Upgrade \/ OptOut
    BY <1>1 DEF Upgrade, OptOut, Serial, DirectoryMade, toolFiles, local
  <1>2. ASSUME NEW p \in Process, Start(p) \/ Goes(p) \/ Works(p)
        PROVE  \A q \in Process : DirectoryMade(q)'
    <2>1. Serial /\ \A q \in Process \ {p} : phase'[q] = "idle"
      BY <1>2, OneActs
    <2> SUFFICES ASSUME phase'[p] \in {"refresh", "register"}, NEW t \in Tool
                 PROVE  DirectoryMadeFor(p, t)'
      BY <2>1 DEF DirectoryMade, DirectoryMadeFor
    <2>2. phase[p] \in {"refresh", "register"} => DirectoryMadeFor(p, t)
      BY <2>1 DEF DirectoryMade, DirectoryMadeFor
    <2>3. CASE Start(p)
      BY <2>3 DEF Start, Enter, RegistrationTypeOK
    <2>4. CASE Works(p)
      BY <2>2, <2>4, DirectoryMadeWorks, Apart DEF Works
    <2>5. CASE Goes(p) /\ phase'[p] # phase[p]
      BY <2>5, Begins
    <2>6. CASE Goes(p) /\ phase'[p] = phase[p]
      <3>1. PICK s \in Now(p) : work'[p] = {r \in work[p] : r.tool # s.tool}
        BY <2>6, GoesLead DEF Leads, Idles, MovesOn
      <3>2. UNCHANGED skill
        BY <2>6, Apart
      <3>3. /\ Do("remove", t).tool = t /\ Do("mkdir", t).tool = t
            /\ \A f \in File : Copy(t, f).tool = t
        BY DEF Do, Copy
      <3> QED
        BY <2>2, <2>6, <3>1, <3>2, <3>3 DEF DirectoryMadeFor
    <2> QED
      BY <1>2, <2>3, <2>4, <2>5, <2>6
  <1> QED
    BY <1>1, <1>2, Steps

CopiedFor(p, t) ==
    \/ Do("mkdir", t) \in work[p]
    \/ /\ skill[t] # Missing
       /\ release = ver[p] => \A f \in File : Copy(t, f) \in work[p] \/ skill[t][f] = release
RewrittenFor(p, t) ==
    /\ Do("pointer", t) \in work[p] \/ pointer[t] = PointerOf(t, ver[p])
    /\ t \notin Block => Do("rules", t) \in work[p] \/ rules[t] = Text(ver[p])

\* A step on the files takes the skill and the texts where they are to be.
LEMMA CopiedWorks ==
  ASSUME RegistrationTypeOK, WorkFits, NEW p \in Process, NEW s \in Now(p), FileStepOf(p, s),
         phase[p] \in {"refresh", "register"}, NEW t \in Tool, DirectoryMadeFor(p, t), CopiedFor(p, t)
  PROVE  CopiedFor(p, t)'
  <1>1. /\ s \in work[p] /\ s.tool \in Tool /\ work'[p] = work[p] \ {s}
        /\ s.op = "copy" => s.file \in File
        /\ s.op = "copy" => s = Copy(s.tool, s.file)
        /\ s.op # "copy" => s = Do(s.op, s.tool)
        /\ s.op \notin {"unrules", "strip"}
    BY WorkDwindles, NowFacts DEF WorkFits
  <1>2. DirectoryMadeFor(p, t)' /\ UNCHANGED <<release, ver>>
    BY DirectoryMadeWorks, Apart DEF Works
  <1>3. CASE s.tool # t
    <2>1. Do("mkdir", t) # s /\ \A f \in File : Copy(t, f) # s
      BY <1>3 DEF Do, Copy
    <2>2. skill'[t] = skill[t]
      BY <1>3, WorkDwindles
    <2> QED
      BY <1>1, <1>2, <2>1, <2>2 DEF CopiedFor
  <1>4. CASE s.tool = t /\ s.op = "remove"
    <2>1. s = Do("remove", t) /\ Do("mkdir", t) # s
      BY <1>1, <1>4 DEF Do
    <2> QED
      BY <1>1, <2>1 DEF CopiedFor, DirectoryMadeFor
  <1>5. CASE s.tool = t /\ s.op = "mkdir"
    <2>1. s = Do("mkdir", t) /\ \A f \in File : Copy(t, f) # s
      BY <1>1, <1>5 DEF Do, Copy
    <2>2. \A f \in File : Copy(t, f) \in work'[p]
      BY <1>1, <2>1 DEF DirectoryMadeFor
    <2>3. [f \in File |-> 0] # Missing
      BY MissingAssumption, RegistrationAssumption DEF Skill, Release
    <2>4. skill'[t] # Missing
      BY <1>1, <1>5, <2>3 DEF FileStepOf, RemoveSkill, MakeDir, CopyFile, WriteRules, WritePointer,
                              StripPointer, RegistrationTypeOK
    <2> QED
      BY <2>2, <2>4 DEF CopiedFor
  <1>6. CASE s.tool = t /\ s.op = "copy"
    <2>1. s = Copy(t, s.file) /\ s.file \in File
      BY <1>1, <1>6
    <2>2. Do("mkdir", t) \notin work[p]
      BY <1>6, InOrder
    <2>3. skill[t] \in Skill
      BY <1>1, <1>6 DEF FileStepOf, RemoveSkill, MakeDir, CopyFile, WriteRules, WritePointer,
                        StripPointer, RegistrationTypeOK
    <2>4. skill'[t] = [skill[t] EXCEPT ![s.file] = release]
      BY <1>1, <1>6 DEF FileStepOf, RemoveSkill, MakeDir, CopyFile, WriteRules, WritePointer,
                        StripPointer, RegistrationTypeOK
    <2>5. release \in 0..MaxRelease
      BY RegistrationAssumption DEF RegistrationTypeOK, Release
    <2>6. skill'[t] # Missing
      BY <2>1, <2>3, <2>4, <2>5, CopyTypes, MissingAssumption
    <2>7. skill'[t][s.file] = release /\ \A f \in File : f # s.file => skill'[t][f] = skill[t][f]
      BY <2>1, <2>3, <2>4 DEF Skill
    <2>8. \A f \in File : f # s.file => Copy(t, f) # s
      BY <2>1 DEF Copy
    <2> QED
      BY <1>1, <1>2, <2>2, <2>6, <2>7, <2>8 DEF CopiedFor
  <1>7. CASE s.tool = t /\ s.op \notin {"remove", "mkdir", "copy"}
    <2>1. Do("mkdir", t) # s /\ \A f \in File : Copy(t, f) # s
      BY <1>1, <1>7 DEF Do, Copy
    <2>2. UNCHANGED skill
      BY <1>7 DEF FileStepOf, RemoveSkill, MakeDir, CopyFile, WriteRules, WritePointer, StripPointer
    <2> QED
      BY <1>1, <1>2, <2>1, <2>2 DEF CopiedFor
  <1> QED
    BY <1>3, <1>4, <1>5, <1>6, <1>7

\* A step on the files keeps the texts that are written, or still to be.
LEMMA RewrittenWorks ==
  ASSUME RegistrationTypeOK, WorkFits, NEW p \in Process, NEW s \in Now(p), FileStepOf(p, s),
         phase[p] \in {"refresh", "register"}, NEW t \in Tool, RewrittenFor(p, t)
  PROVE  RewrittenFor(p, t)'
  <1>1. /\ s \in work[p] /\ s.tool \in Tool /\ work'[p] = work[p] \ {s}
        /\ s.op # "copy" => s = Do(s.op, s.tool)
        /\ s.op \notin {"unrules", "strip"}
    BY WorkDwindles, NowFacts DEF WorkFits
  <1>2. UNCHANGED ver
    BY Apart DEF Works
  <1>3. CASE s = Do("pointer", t)
    <2>1. Do("rules", t) # s /\ s.op = "pointer" /\ s.tool = t
      BY <1>3 DEF Do
    <2>2. pointer'[t] = PointerOf(t, ver[p]) /\ UNCHANGED rules
      BY <2>1 DEF FileStepOf, RemoveSkill, MakeDir, CopyFile, WriteRules, WritePointer, StripPointer,
                  RegistrationTypeOK
    <2> QED
      BY <1>1, <1>2, <2>1, <2>2 DEF RewrittenFor
  <1>4. CASE s = Do("rules", t)
    <2>1. Do("pointer", t) # s /\ s.op = "rules" /\ s.tool = t
      BY <1>4 DEF Do
    <2>2. rules'[t] = Text(ver[p]) /\ UNCHANGED pointer
      BY <2>1 DEF FileStepOf, RemoveSkill, MakeDir, CopyFile, WriteRules, WritePointer, StripPointer,
                  RegistrationTypeOK
    <2> QED
      BY <1>1, <1>2, <2>1, <2>2 DEF RewrittenFor
  <1>5. CASE s \notin {Do("pointer", t), Do("rules", t)}
    <2>1. s.tool # t \/ s.op \notin {"pointer", "rules"}
      BY <1>1, <1>5 DEF Do
    <2>2. pointer'[t] = pointer[t] /\ rules'[t] = rules[t]
      BY <1>1, <2>1, WorkDwindles
      DEF FileStepOf, RemoveSkill, MakeDir, CopyFile, WriteRules, WritePointer, StripPointer
    <2> QED
      BY <1>1, <1>2, <1>5, <2>2 DEF RewrittenFor
  <1> QED
    BY <1>3, <1>4, <1>5

\* Every step of a deploying command, and every step beside it, leads there.
LEMMA DeployedNext ==
  ASSUME RegistrationTypeOK, WorkFits, InThePast, Serial',
         Serial => /\ Alone
                   /\ \A p \in Process : DirectoryMade(p) /\ Copied(p) /\ Rewritten(p),
         RegistrationNext
  PROVE  \A p \in Process : Copied(p)' /\ Rewritten(p)'
  <1>1. CASE Upgrade
    <2>1. /\ Serial /\ release' = release + 1
          /\ UNCHANGED <<phase, named, choice, gaveUp, work, skill, rules, pointer, ver, stamp>>
      BY <1>1 DEF Upgrade, Serial, toolFiles, local
    <2>2. \A p \in Process : release' # ver[p]
      BY <2>1, RegistrationAssumption DEF InThePast, RegistrationTypeOK, Release
    <2> QED
      BY <2>1, <2>2 DEF Copied, Rewritten, Deploys
  <1>2. CASE OptOut
    <2>1. /\ Serial
          /\ UNCHANGED <<release, phase, named, gaveUp, work, skill, rules, pointer, ver, stamp>>
          /\ \A t \in Tool : choice'[t] # "no" => choice[t] # "no"
      BY <1>2 DEF OptOut, Serial, toolFiles, local, RegistrationTypeOK
    <2> QED
      BY <2>1 DEF Copied, Rewritten, Deploys
  <1>3. ASSUME NEW p \in Process, Start(p) \/ Goes(p) \/ Works(p)
        PROVE  \A q \in Process : Copied(q)' /\ Rewritten(q)'
    <2>1. Serial /\ \A q \in Process \ {p} : phase'[q] = "idle"
      BY <1>3, OneActs
    <2> DEFINE Texts == phase[p] \in {"refresh", "restamp"} => stamp.text # Text(ver[p])
    <2> SUFFICES ASSUME NEW t \in Tool, Deploys(p, t)'
                 PROVE  CopiedFor(p, t)' /\ (Texts' => RewrittenFor(p, t)')
      BY <2>1 DEF Copied, Rewritten, Deploys, CopiedFor, RewrittenFor
    <2>2. Deploys(p, t) => CopiedFor(p, t) /\ (Texts => RewrittenFor(p, t))
      BY <2>1 DEF Copied, Rewritten, CopiedFor, RewrittenFor
    <2>3. CASE Start(p)
      BY <2>3 DEF Start, Enter, Deploys, RegistrationTypeOK
    <2>4. CASE Works(p)
      <3>1. UNCHANGED <<release, stamp, choice, phase, ver, named, gaveUp>>
        BY <2>4, Apart
      <3>2. PICK s \in Now(p) : FileStepOf(p, s)
        BY <2>4 DEF Works
      <3>3. phase[p] \in {"refresh", "register"}
        BY <3>1, NowFacts DEF Deploys, WorkFits
      <3>4. DirectoryMadeFor(p, t)
        BY <2>1, <3>3 DEF DirectoryMade, DirectoryMadeFor
      <3>5. Deploys(p, t) /\ (Texts' => Texts)
        BY <3>1 DEF Deploys
      <3> HIDE DEF Texts
      <3> QED
        BY <2>2, <3>2, <3>3, <3>4, <3>5, CopiedWorks, RewrittenWorks
    <2>5. CASE Goes(p) /\ phase'[p] # phase[p] /\ phase'[p] \in {"refresh", "register"}
      <3>1. /\ UNCHANGED <<stamp, choice>> /\ ver'[p] = ver[p]
            /\ t \in named'[p] /\ choice[t] # "no"
        BY <2>5, Begins DEF Deploys
      <3>2. /\ Do("mkdir", t) \in work'[p]
            /\ (phase'[p] = "refresh" => stamp.text # Text(ver[p])) =>
                  /\ Do("pointer", t) \in work'[p]
                  /\ t \notin Block => Do("rules", t) \in work'[p]
        BY <2>5, <3>1, Begins
      <3> QED
        BY <3>1, <3>2 DEF CopiedFor, RewrittenFor
    <2>6. CASE Goes(p) /\ ~(phase'[p] # phase[p] /\ phase'[p] \in {"refresh", "register"})
      <3>1. /\ <<phase[p], phase'[p]>> \in {<<"refresh", "restamp">>, <<"register", "readStamp">>}
            /\ UNCHANGED local /\ (phase[p] = "refresh" => ~gaveUp[p])
        <4>1. phase'[p] = "refresh" => ~gaveUp'[p]
          BY DEF Deploys
        <4> QED
          BY <2>6, <4>1, GoesLead DEF Leads, Idles, MovesOn, Deploys
      <3>2. UNCHANGED <<stamp, choice, release, skill, rules, pointer>>
        BY <2>6, <3>1, StampChanges, ChoiceChanges, Apart
      <3>3. Deploys(p, t) /\ (Texts' => Texts)
        BY <3>1, <3>2 DEF Deploys, local
      <3> HIDE DEF Texts
      <3> QED
        BY <2>2, <3>1, <3>2, <3>3 DEF CopiedFor, RewrittenFor, local
    <2> QED
      BY <1>3, <2>3, <2>4, <2>5, <2>6
  <1> QED
    BY <1>1, <1>2, <1>3, Steps

-----------------------------------------------------------------------------
\* What an unregister has removed.

CleanedFor(p, t) ==
    /\ Do("remove", t) \in work[p] \/ skill[t] = Missing
    /\ t \notin Block => Do("unrules", t) \in work[p] \/ rules[t] = 0
    /\ Do("strip", t) \in work[p] \/ pointer[t] = 0 \/ pointer[t] # PointerOf(t, ver[p])

\* A step of an unregister keeps what is removed, or still to be.
LEMMA CleanedWorks ==
  ASSUME RegistrationTypeOK, WorkFits, NEW p \in Process, NEW s \in Now(p), FileStepOf(p, s),
         phase[p] = "unregister", NEW t \in Tool, CleanedFor(p, t)
  PROVE  CleanedFor(p, t)'
  <1>1. /\ s \in work[p] /\ s.tool \in Tool /\ work'[p] = work[p] \ {s}
        /\ s.op # "copy" => s = Do(s.op, s.tool)
        /\ s.op \in {"unrules", "remove", "strip"}
    BY WorkDwindles, NowFacts DEF WorkFits
  <1>2. UNCHANGED ver
    BY Apart DEF Works
  <1>3. CASE s = Do("remove", t)
    <2>1. Do("unrules", t) # s /\ Do("strip", t) # s /\ s.op = "remove" /\ s.tool = t
      BY <1>3 DEF Do
    <2>2. skill'[t] = Missing /\ UNCHANGED <<rules, pointer>>
      BY <2>1 DEF FileStepOf, RemoveSkill, MakeDir, CopyFile, WriteRules, WritePointer, StripPointer,
                  RegistrationTypeOK
    <2> QED
      BY <1>1, <1>2, <2>1, <2>2 DEF CleanedFor
  <1>4. CASE s = Do("unrules", t)
    <2>1. Do("remove", t) # s /\ Do("strip", t) # s /\ s.op = "unrules" /\ s.tool = t
      BY <1>4 DEF Do
    <2>2. rules'[t] = 0 /\ UNCHANGED <<skill, pointer>>
      BY <2>1 DEF FileStepOf, RemoveSkill, MakeDir, CopyFile, WriteRules, WritePointer, StripPointer,
                  RegistrationTypeOK
    <2> QED
      BY <1>1, <1>2, <2>1, <2>2 DEF CleanedFor
  <1>5. CASE s = Do("strip", t)
    <2>1. Do("remove", t) # s /\ Do("unrules", t) # s /\ s.op = "strip" /\ s.tool = t
      BY <1>5 DEF Do
    <2>2. /\ pointer'[t] = 0 \/ (pointer'[t] = pointer[t] /\ pointer[t] # PointerOf(t, ver[p]))
          /\ UNCHANGED <<skill, rules>>
      <3>1. StripPointer(p, s)
        BY <2>1 DEF FileStepOf, RemoveSkill, MakeDir, CopyFile, WriteRules, WritePointer
      <3>2. /\ pointer' = [pointer EXCEPT ![t] = Stripped(t, @, ver[p])]
            /\ UNCHANGED <<skill, rules>>
        BY <2>1, <3>1 DEF StripPointer
      <3>3. pointer \in [Tool -> 0..MaxRelease]
        BY DEF RegistrationTypeOK
      <3> DEFINE w == PointerOf(t, ver[p])
      <3>4. pointer' = [pointer EXCEPT ![t] = IF @ = w THEN 0 ELSE @]
        BY <3>2 DEF Stripped
      <3> HIDE DEF w
      <3>5. pointer'[t] = 0 \/ (pointer'[t] = pointer[t] /\ pointer[t] # w)
        BY <3>3, <3>4
      <3> QED
        BY <3>2, <3>5 DEF w
    <2> QED
      BY <1>1, <1>2, <2>1, <2>2 DEF CleanedFor
  <1>6. CASE s \notin {Do("remove", t), Do("unrules", t), Do("strip", t)}
    <2>1. s.tool # t
      BY <1>1, <1>6
    <2> QED
      BY <1>1, <1>2, <1>6, <2>1, WorkDwindles DEF CleanedFor
  <1> QED
    BY <1>3, <1>4, <1>5, <1>6

\* Every step of an unregister takes it further, and nothing beside it takes it back.
LEMMA CleanedNext ==
  ASSUME RegistrationTypeOK, WorkFits, Serial',
         Serial => Alone /\ \A p \in Process : Cleaned(p),
         RegistrationNext
  PROVE  \A p \in Process : Cleaned(p)'
  <1>1. CASE Upgrade \/ OptOut
    BY <1>1 DEF Upgrade, OptOut, Serial, Cleaned, toolFiles, local
  <1>2. ASSUME NEW p \in Process, Start(p) \/ Goes(p) \/ Works(p)
        PROVE  \A q \in Process : Cleaned(q)'
    <2>1. Serial /\ \A q \in Process \ {p} : phase'[q] = "idle"
      BY <1>2, OneActs
    <2> SUFFICES ASSUME phase'[p] \in {"unregister", "unstamp", "unchoose"}, NEW t \in Tool
                 PROVE  CleanedFor(p, t)'
      BY <2>1 DEF Cleaned, CleanedFor
    <2>2. phase[p] \in {"unregister", "unstamp", "unchoose"} => CleanedFor(p, t)
      BY <2>1 DEF Cleaned, CleanedFor
    <2>3. CASE Start(p)
      BY <2>3 DEF Start, Enter, RegistrationTypeOK
    <2>4. CASE Works(p)
      <3>1. UNCHANGED phase
        BY <2>4, Apart
      <3>2. PICK s \in Now(p) : FileStepOf(p, s)
        BY <2>4 DEF Works
      <3>3. phase[p] = "unregister"
        BY <3>1, NowFacts DEF WorkFits
      <3> QED
        BY <2>2, <3>2, <3>3, CleanedWorks
    <2>5. CASE Goes(p) /\ MovesOn(p)
      <3>1. work'[p] = UNION {Remove(u) : u \in Tool}
        BY <2>5 DEF MovesOn
      <3>2. Remove(t) \subseteq work'[p]
        BY <3>1
      <3> QED
        BY <3>2, StepsOf DEF CleanedFor
    <2>6. CASE Goes(p) /\ ~MovesOn(p)
      <3>1. phase[p] \in {"unregister", "unstamp"} /\ UNCHANGED local
        BY <2>6, GoesLead DEF Leads, Idles
      <3>2. UNCHANGED <<skill, rules, pointer>>
        BY <2>6, Apart
      <3> QED
        BY <2>2, <3>1, <3>2 DEF CleanedFor, local
    <2> QED
      BY <1>2, <2>3, <2>4, <2>5, <2>6
  <1> QED
    BY <1>1, <1>2, Steps

-----------------------------------------------------------------------------
\* What the stamp says of the files.

Honest == {"carried", "halfway"} \cap mishaps = {}
Truth == SkillsAreTrue /\ TextsAreTrue /\ UnionIsTrue

\* Between two releases of one text, every release has it.
LEMMA TextBetween ==
  ASSUME NEW r \in Release, NEW q \in Release, NEW n \in Release, r <= q, q <= n,
         Text(r) = Text(n)
  PROVE  Text(q) = Text(n)
  BY TextGrows, TextFacts, RegistrationAssumption DEF Release

\* An upgrade makes no stamp fresh, and keeps the texts of one that has the same.
LEMMA TruthUpgrade ==
  ASSUME RegistrationTypeOK, InThePast, Truth, Upgrade
  PROVE  Truth'
  <1>1. /\ release \in Release /\ release' = release + 1 /\ release' \in Release
        /\ UNCHANGED <<phase, named, choice, skill, rules, pointer, ver, stamp>>
    BY RegistrationAssumption DEF Upgrade, RegistrationTypeOK, Release, toolFiles, local
  <1>2. ASSUME stamp # Missing
        PROVE  /\ stamp.version \in Release /\ stamp.version <= release /\ stamp.version # release'
               /\ stamp.text = Text(stamp.version)
               /\ stamp.text = Text(release') => stamp.text = Text(release)
    <2>1. /\ stamp.version \in Release /\ stamp.version <= release /\ stamp.text = Text(stamp.version)
      BY <1>2 DEF InThePast, RegistrationTypeOK, Stamp
    <2>2. release <= release'
      BY <1>1 DEF Release
    <2>3. stamp.text = Text(release') => stamp.text = Text(release)
      <3>1. SUFFICES ASSUME Text(stamp.version) = Text(release') PROVE Text(release) = Text(release')
        BY <2>1
      <3> QED
        BY <1>1, <2>1, <2>2, <3>1, TextBetween
    <2> QED
      BY <1>1, <2>1, <2>3 DEF Release
  <1>3. ASSUME NEW p \in Process
        PROVE  release' # ver[p] /\ (Text(release') = Text(ver[p]) => Text(release) = Text(ver[p]))
    <2>1. ver[p] \in Release /\ ver[p] <= release /\ release <= release'
      BY <1>1 DEF InThePast, RegistrationTypeOK, Release
    <2>2. Text(release') = Text(ver[p]) => Text(release) = Text(ver[p])
      BY <1>1, <2>1, TextBetween
    <2> QED
      BY <1>1, <2>1, <2>2 DEF Release
  <1>4. \A t \in Tool : Text(release') = Text(release) /\ TextIsTrue(t) => TextIsTrue(t)'
    BY <1>1, PointerFacts DEF TextIsTrue
  <1>5. SkillsAreTrue'
    BY <1>1, <1>2 DEF SkillsAreTrue
  <1>6. TextsAreTrue'
    <2>1. stamp # Missing => stamp.tools \subseteq Tool
      BY DEF RegistrationTypeOK, Stamp
    <2> QED
      BY <1>1, <1>2, <1>4, <2>1 DEF TextsAreTrue, Truth, Removes
  <1>7. UnionIsTrue'
    <2>1. \A p \in Process : named[p] \subseteq Tool
      BY DEF RegistrationTypeOK
    <2>2. SUFFICES ASSUME NEW p \in Process, phase[p] = "writeStamp", NEW t \in named[p],
                          choice[t] # "no", Text(release') = Text(ver[p])
                   PROVE  TextIsTrue(t)'
      BY <1>1, <1>3 DEF UnionIsTrue
    <2>3. Text(release) = Text(ver[p]) /\ Text(release') = Text(release)
      BY <1>3, <2>2
    <2> QED
      BY <1>4, <2>1, <2>2, <2>3 DEF Truth, UnionIsTrue
  <1> QED
    BY <1>5, <1>6, <1>7 DEF Truth

\* What a command has deployed, with nothing more to do, is true of its release.
LEMMA DoneIsTrue ==
  ASSUME RegistrationTypeOK, NEW p \in Process, work[p] = {}, Copied(p), Rewritten(p),
         NEW t \in Tool, Deploys(p, t)
  PROVE  /\ release = ver[p] => SkillIsTrue(t)
         /\ (phase[p] \in {"refresh", "restamp"} => stamp.text # Text(ver[p])) =>
               pointer[t] = PointerOf(t, ver[p]) /\ (t \notin Block => rules[t] = Text(ver[p]))
         /\ (phase[p] \in {"refresh", "restamp"} => stamp.text # Text(ver[p]))
            /\ Text(release) = Text(ver[p]) => TextIsTrue(t)
  <1>1. release = ver[p] => SkillIsTrue(t)
    BY DEF Copied, SkillIsTrue
  <1>2. (phase[p] \in {"refresh", "restamp"} => stamp.text # Text(ver[p])) =>
               pointer[t] = PointerOf(t, ver[p]) /\ (t \notin Block => rules[t] = Text(ver[p]))
    BY DEF Rewritten
  <1>3. Text(release) = Text(ver[p]) => PointerOf(t, ver[p]) = PointerOf(t, release)
    BY PointerFacts DEF RegistrationTypeOK
  <1> QED
    BY <1>1, <1>2, <1>3 DEF TextIsTrue

\* A step on the files: the stamp is due, or the step leaves what is true, or the
\* tool is one that is being registered.
LEMMA TruthWorks ==
  ASSUME RegistrationTypeOK, WorkFits, InThePast, Alone, Behind, Truth,
         NEW p \in Process, Works(p), Places(p), \A q \in Process \ {p} : phase[q] = "idle"
  PROVE  Truth'
  <1>1. UNCHANGED <<release, stamp, choice, phase, ver, named>>
    BY Apart
  <1>2. PICK s \in Now(p) : FileStepOf(p, s)
    BY DEF Works
  <1>3. /\ s \in work[p] /\ s.tool \in Tool /\ phase[p] \in {"refresh", "register", "unregister"}
        /\ \A t \in Tool : t # s.tool =>
              skill'[t] = skill[t] /\ rules'[t] = rules[t] /\ pointer'[t] = pointer[t]
    BY <1>2, WorkDwindles DEF WorkFits
  <1>4. UnionIsTrue'
    BY <1>1, <1>3 DEF UnionIsTrue
  <1>5. CASE phase[p] = "unregister"
    BY <1>1, <1>4, <1>5 DEF Truth, SkillsAreTrue, TextsAreTrue, Removes
  <1>6. CASE phase[p] # "unregister"
    <2>1. SkillsAreTrue'
      <3>1. CASE phase[p] = "refresh"
        <4>1. stamp # Missing => stamp.version \in Release /\ stamp.version < ver[p] /\ ver[p] <= release
          BY <3>1 DEF Places, InThePast, RegistrationTypeOK, Stamp
        <4>2. stamp # Missing => stamp.version # release
          BY <4>1 DEF RegistrationTypeOK, Release
        <4> QED
          BY <1>1, <4>2 DEF SkillsAreTrue
      <3>2. CASE phase[p] = "register"
        <4>1. s.tool \in named[p]
          BY <1>3, <3>2 DEF WorkFits
        <4>2. \A t \in Tool : t # s.tool /\ SkillIsTrue(t) => SkillIsTrue(t)'
          BY <1>1, <1>3 DEF SkillIsTrue
        <4>3. stamp # Missing => stamp.tools \subseteq Tool
          BY DEF RegistrationTypeOK, Stamp
        <4> QED
          BY <1>1, <3>2, <4>1, <4>2, <4>3 DEF Truth, SkillsAreTrue, Removes
      <3> QED
        BY <1>3, <1>6, <3>1, <3>2
    <2>2. TextsAreTrue'
      <3> SUFFICES ASSUME stamp # Missing, stamp.text = Text(release), ~Removes,
                          NEW t \in stamp.tools, choice[t] # "no"
                   PROVE  TextIsTrue(t)'
        BY <1>1 DEF TextsAreTrue, Removes
      <3>1. TextIsTrue(t) /\ t \in Tool
        BY DEF Truth, TextsAreTrue, RegistrationTypeOK, Stamp
      <3>2. Text(ver[p]) = Text(release)
        <4>1. /\ stamp.version \in Release /\ ver[p] \in Release /\ release \in Release
              /\ stamp.version <= ver[p] /\ ver[p] <= release /\ stamp.text = Text(stamp.version)
          BY <1>3 DEF Behind, Active, InThePast, RegistrationTypeOK, Stamp
        <4> QED
          BY <4>1, TextBetween
      <3>3. PointerOf(t, ver[p]) = PointerOf(t, release)
        BY <3>1, <3>2, PointerFacts DEF RegistrationTypeOK
      <3>4. s.op \in {"remove", "mkdir", "copy", "rules", "pointer"}
        BY <1>3, <1>6 DEF WorkFits
      <3>5. /\ pointer'[t] \in {pointer[t], PointerOf(t, ver[p])}
            /\ rules'[t] \in {rules[t], Text(ver[p])}
        BY <1>2, <1>3, <3>1, <3>4 DEF FileStepOf, RemoveSkill, MakeDir, CopyFile, WriteRules,
                                      WritePointer, StripPointer, RegistrationTypeOK
      <3> QED
        BY <1>1, <3>1, <3>2, <3>3, <3>5 DEF TextIsTrue
    <2> QED
      BY <1>4, <2>1, <2>2 DEF Truth
  <1> QED
    BY <1>5, <1>6

\* Any other step of a process: it changes no file, and writes no stamp that the
\* files do not bear out.
LEMMA TruthGoes ==
  ASSUME RegistrationTypeOK, WorkFits, InThePast, Alone, Behind, Truth, Honest',
         NEW p \in Process, Goes(p), Active(p), \A q \in Process \ {p} : phase[q] = "idle",
         Places(p), Copied(p), Rewritten(p)
  PROVE  Truth'
  <1>1. UNCHANGED <<release, skill, rules, pointer>>
    BY Apart
  <1>2. \A q \in Process \ {p} : phase'[q] = "idle"
    BY OthersRest
  <1>3. /\ ver[p] \in Release /\ release \in Release /\ ver[p] <= release
        /\ stamp # Missing => /\ stamp.version \in Release /\ stamp.tools \subseteq Tool
                              /\ stamp.version <= ver[p] /\ stamp.text = Text(stamp.version)
    BY DEF Behind, InThePast, RegistrationTypeOK, Stamp
  <1>4. stamp # Missing /\ stamp.version = release => ver[p] = release
    BY <1>3 DEF Release
  <1>5. stamp # Missing /\ stamp.text = Text(release) => Text(ver[p]) = Text(release)
    BY <1>3, TextBetween
  <1>6. \A t \in Tool : /\ SkillIsTrue(t) => SkillIsTrue(t)'
                        /\ TextIsTrue(t) => TextIsTrue(t)'
    BY <1>1 DEF SkillIsTrue, TextIsTrue
  <1>7. \A t \in Tool : stamp # Missing /\ choice[t] = "no" => choice'[t] = "no"
    <2>1. phase[p] = "choices" => \A t \in Tool : answers[p][t] # "unset" => choice[t] = "unset"
      BY DEF Places
    <2>2. phase[p] = "unchoose" => stamp = Missing
      BY DEF Places
    <2> QED
      BY <2>1, <2>2, ChoiceChanges
  \* the stamp that is written after a refresh
  <1>8. CASE phase[p] = "restamp" /\ stamp' = NewStamp(p)
    <2>1. /\ work[p] = {} /\ named[p] = stamp.tools /\ stamp # Missing /\ UNCHANGED choice
          /\ phase'[p] # "writeStamp"
      BY <1>8, ChoiceChanges, GoesLead DEF WorkFits, Places, Leads, Idles, MovesOn
    <2>2. ~Removes /\ named[p] \subseteq Tool
      BY <1>8 DEF Removes, RegistrationTypeOK
    <2>3. ASSUME NEW t \in named[p], choice[t] # "no"
          PROVE  /\ release = ver[p] => SkillIsTrue(t)
                 /\ Text(release) = Text(ver[p]) => TextIsTrue(t)
      <3>1. Deploys(p, t) /\ t \in Tool
        BY <1>8, <2>2, <2>3 DEF Deploys
      <3>2. stamp.text = Text(ver[p]) /\ Text(release) = Text(ver[p]) => TextIsTrue(t)
        BY <2>1, <2>2, <2>3 DEF Truth, TextsAreTrue
      <3> QED
        BY <1>8, <2>1, <3>1, <3>2, DoneIsTrue
    <2>4. SkillsAreTrue' /\ TextsAreTrue'
      BY <1>1, <1>6, <1>8, <2>1, <2>2, <2>3 DEF SkillsAreTrue, TextsAreTrue, NewStamp
    <2>5. UnionIsTrue'
      BY <1>2, <2>1 DEF UnionIsTrue
    <2> QED
      BY <2>4, <2>5 DEF Truth
  \* the stamp that a wizard writes
  <1>9. CASE phase[p] = "writeStamp" /\ phase'[p] = "choices" /\ stamp' = NewStamp(p)
    <2>1. UNCHANGED choice /\ named[p] \subseteq Tool
      BY <1>9, ChoiceChanges DEF RegistrationTypeOK
    <2>2. SkillsAreTrue' /\ TextsAreTrue'
      BY <1>1, <1>6, <1>9, <2>1 DEF Truth, UnionIsTrue, SkillsAreTrue, TextsAreTrue, NewStamp
    <2>3. UnionIsTrue'
      BY <1>2, <1>9 DEF UnionIsTrue
    <2> QED
      BY <2>2, <2>3 DEF Truth
  <1>10. CASE stamp' = Missing /\ phase'[p] # "writeStamp"
    BY <1>2, <1>10 DEF Truth, SkillsAreTrue, TextsAreTrue, UnionIsTrue
  <1>11. CASE UNCHANGED stamp /\ (stamp' # Missing \/ phase'[p] = "writeStamp")
    <2>1. stamp # Missing /\ Removes => Removes'
      <3>1. SUFFICES ASSUME phase[p] \in {"unregister", "unstamp"}, stamp # Missing
                     PROVE  phase'[p] \in {"unregister", "unstamp"}
        BY DEF Removes
      <3>2. phase'[p] # "idle"
        BY <1>11, <3>1, GhostsTell DEF Honest
      <3>3. phase'[p] # "unchoose"
        BY <1>11, <3>1, StampChanges
      <3> QED
        BY <3>1, <3>2, <3>3, GoesLead DEF Leads, Idles, MovesOn
    <2>2. SkillsAreTrue'
      <3>1. SUFFICES ASSUME stamp # Missing, stamp.version = release, ~Removes, NEW t \in stamp.tools,
                            choice[t] # "no", ~SkillIsTrue(t)
                     PROVE  phase'[p] = "register" /\ t \in named'[p]
        BY <1>1, <1>3, <1>6, <1>7, <1>11, <2>1 DEF SkillsAreTrue
      <3>2. phase[p] = "register" /\ t \in named[p]
        BY <3>1 DEF Truth, SkillsAreTrue
      <3>3. phase'[p] # "idle"
        BY <1>11, <3>1, <3>2, GhostsTell DEF Honest
      <3>4. work[p] # {}
        BY <1>3, <1>4, <3>1, <3>2, DoneIsTrue DEF Deploys
      <3> QED
        BY <3>2, <3>3, <3>4, GoesLead DEF Leads, Idles, MovesOn
    <2>3. TextsAreTrue'
      BY <1>1, <1>3, <1>6, <1>7, <1>11, <2>1 DEF Truth, TextsAreTrue
    <2>4. UnionIsTrue'
      <3>1. SUFFICES ASSUME phase'[p] = "writeStamp", NEW t \in named'[p], choice[t] # "no"
                     PROVE  /\ release = ver'[p] => SkillIsTrue(t)'
                            /\ Text(release) = Text(ver'[p]) => TextIsTrue(t)'
        <4>1. phase'[p] # "idle" => UNCHANGED choice
          BY ChoiceChanges
        <4> QED
          BY <1>1, <1>2, <4>1 DEF UnionIsTrue
      <3>2. /\ phase[p] = "readStamp" /\ ver'[p] = ver[p] /\ named'[p] = Union(p) /\ t \in Tool
            /\ work[p] = {}
        <4>1. phase[p] = "readStamp" /\ ver'[p] = ver[p] /\ named'[p] = Union(p)
          BY <3>1, GoesLead DEF Leads, Idles, MovesOn
        <4> QED
          BY <3>1, <4>1, LocalTypes DEF LocalsTyped, WorkFits
      <3>3. CASE t \in named[p]
        BY <1>6, <3>1, <3>2, <3>3, DoneIsTrue DEF Deploys
      <3>4. CASE t \notin named[p]
        <4>1. stamp # Missing /\ t \in stamp.tools
          BY <3>1, <3>2, <3>4 DEF Union
        <4>2. stamp.version = ver[p] /\ stamp.text = Text(ver[p])
          BY <3>1, <3>2, <4>1, GhostsTell DEF Honest, Due, TextDrifted
        <4>3. ~Removes /\ ~\E q \in Process : phase[q] = "register"
          BY <3>2 DEF Removes
        <4> QED
          BY <1>6, <3>1, <3>2, <4>1, <4>2, <4>3 DEF Truth, SkillsAreTrue, TextsAreTrue
      <3> QED
        BY <3>3, <3>4
    <2> QED
      BY <2>2, <2>3, <2>4 DEF Truth
  <1> QED
    BY <1>8, <1>9, <1>10, <1>11, StampChanges

\* The start of a command leaves what is true.
LEMMA TruthStart ==
  ASSUME RegistrationTypeOK, Truth, NEW p \in Process, Start(p)
  PROVE  Truth'
  <1>1. /\ UNCHANGED <<release, skill, rules, pointer, stamp, choice, named>>
        /\ phase[p] = "idle" /\ phase' = [phase EXCEPT ![p] = "check"]
        /\ ver' = [ver EXCEPT ![p] = release]
    BY DEF Start, Enter, toolFiles
  <1>2. /\ \A q \in Process : phase'[q] = phase[q] \/ (phase[q] = "idle" /\ phase'[q] = "check")
        /\ \A q \in Process : phase'[q] = "writeStamp" => ver'[q] = ver[q]
    BY <1>1 DEF RegistrationTypeOK
  <1>3. SkillsAreTrue' /\ TextsAreTrue'
    BY <1>1, <1>2 DEF Truth, SkillsAreTrue, TextsAreTrue, SkillIsTrue, TextIsTrue, Removes
  <1>4. UnionIsTrue'
    BY <1>1, <1>2 DEF Truth, UnionIsTrue, SkillIsTrue, TextIsTrue
  <1> QED
    BY <1>3, <1>4 DEF Truth

\* So does the user's opting out.
LEMMA TruthOptOut ==
  ASSUME RegistrationTypeOK, Truth, OptOut
  PROVE  Truth'
  <1>1. /\ UNCHANGED <<release, skill, rules, pointer, stamp, phase, named, ver>>
        /\ \A t \in Tool : choice[t] = "no" => choice'[t] = "no"
        /\ stamp # Missing => stamp.tools \subseteq Tool
        /\ \A p \in Process : named[p] \subseteq Tool
    BY DEF OptOut, toolFiles, local, RegistrationTypeOK, Stamp
  <1>2. SkillsAreTrue' /\ TextsAreTrue'
    BY <1>1 DEF Truth, SkillsAreTrue, TextsAreTrue, SkillIsTrue, TextIsTrue, Removes
  <1>3. UnionIsTrue'
    BY <1>1 DEF Truth, UnionIsTrue, SkillIsTrue, TextIsTrue
  <1> QED
    BY <1>2, <1>3 DEF Truth

-----------------------------------------------------------------------------
\* What is known of a block, when no file operation has failed.

\* The directory a file is copied to is there: a step fails only by a fault.
LEMMA StepsSucceed ==
  ASSUME RegistrationTypeOK, WorkFits, NEW p \in Process, DirectoryMade(p),
         NEW s \in Now(p), StepFails(p, s)
  PROVE  faults' # faults
  <1>1. faults \in Nat /\ (Fault => faults' = faults + 1)
    BY RegistrationAssumption DEF Fault, RegistrationTypeOK
  <1>2. SUFFICES ASSUME s.op = "copy", skill[s.tool] = Missing PROVE FALSE
    BY <1>1 DEF StepFails
  <1>3. s \in work[p] /\ s.tool \in Tool /\ s.file \in File /\ s = Copy(s.tool, s.file)
    BY <1>2, NowFacts
  <1>4. phase[p] \in {"refresh", "register"}
    BY <1>2, <1>3 DEF WorkFits
  <1>5. Do("mkdir", s.tool) \notin work[p]
    BY <1>2, <1>3, <1>4, InOrder
  <1> QED
    BY <1>2, <1>3, <1>4, <1>5 DEF DirectoryMade

\* Where a command without a fault ends, and where it goes on to the command proper.
LEMMA Faultless ==
  ASSUME RegistrationTypeOK, WorkFits, NEW p \in Process, DirectoryMade(p), Goes(p), faults' = faults
  PROVE  /\ phase[p] = "refresh" => phase'[p] = "restamp" \/ (gaveUp[p] /\ phase'[p] # "refresh")
         /\ phase'[p] = "idle" =>
               phase[p] \notin {"register", "readStamp", "writeStamp", "unregister", "unstamp"}
         /\ phase[p] = "check" => phase'[p] = "refresh" \/ ~Due(p)
  <1> USE DEF RegistrationTypeOK
  <1>1. Fault => faults' # faults
    BY RegistrationAssumption DEF Fault
  <1>2. (Finish(p) => Idles(p)) /\ (Proceed(p) => Idles(p) \/ MovesOn(p))
    BY Leaving
  <1>3. ~\E s \in Now(p) : StepFails(p, s)
    BY StepsSucceed
  <1>4. ~Crash(p)
    BY <1>1 DEF Crash
  <1>5. CASE Check(p)
    BY <1>5 DEF Check, Enter
  <1>6. CASE RefreshEnds(p)
    BY <1>2, <1>6 DEF RefreshEnds, Enter, Stamps, Idles, MovesOn
  <1>7. CASE Restamp(p) \/ Wizard(p) \/ SaveChoices(p) \/ ClearChoices(p)
    BY <1>7 DEF Restamp, Wizard, SaveChoices, ClearChoices
  <1>8. CASE Registered(p) \/ Removed(p) \/ ReadStamp(p)
    BY <1>8 DEF Registered, Removed, ReadStamp, Enter
  <1>9. CASE WriteStamp(p) \/ RemoveStamp(p)
    BY <1>1, <1>9 DEF WriteStamp, RemoveStamp, Enter
  <1> QED
    BY <1>3, <1>4, <1>5, <1>6, <1>7, <1>8, <1>9 DEF Goes

Standing(t) == pointer[t] # 0 /\ choice[t] # "no"
AsStamped(t) == InStamp(t) /\ pointer[t] = stamp.text
KnownTo(p, t) ==
    /\ phase[p] = "check" => AsStamped(t)
    /\ phase[p] = "refresh" =>
          AsStamped(t) \/ (~gaveUp[p] /\ t \in named[p] /\ pointer[t] = Text(ver[p]))
    /\ phase[p] \in {"restamp", "writeStamp"} => t \in named[p]
    /\ phase[p] \in {"register", "readStamp"} => InStamp(t) \/ t \in named[p]
    /\ phase[p] \in {"wizard", "choices"} => InStamp(t) /\ stamp.text = Text(ver[p])
    /\ phase[p] \notin {"idle", "check", "refresh"} => pointer[t] = Text(ver[p])

\* What is known, tool by tool and process by process.
LEMMA KnownIs ==
  Known <=> \A t \in Block : Standing(t) =>
               (Quiet => AsStamped(t)) /\ \A p \in Process : KnownTo(p, t)
  BY DEF Known, Standing, AsStamped, KnownTo

\* A step on the files writes no block but the command's.
LEMMA KnownWorks ==
  ASSUME RegistrationTypeOK, WorkFits, NEW p \in Process, Works(p), GaveUpFor(p),
         NEW t \in Block, Standing(t) => KnownTo(p, t), Standing(t)'
  PROVE  KnownTo(p, t)'
  <1>1. UNCHANGED <<stamp, choice, phase, ver, named, gaveUp>>
    BY Apart
  <1>2. PICK s \in Now(p) : FileStepOf(p, s)
    BY DEF Works
  <1>3. /\ s \in work[p] /\ s.tool \in Tool /\ phase[p] \in {"refresh", "register", "unregister"}
        /\ phase[p] # "unregister" => s.tool \in named[p] /\ s.op # "strip"
        /\ phase[p] = "unregister" => s.op # "pointer"
    BY <1>2, WorkDwindles DEF WorkFits
  <1>4. /\ t \in Tool /\ PointerOf(t, ver[p]) = Text(ver[p])
    BY RegistrationAssumption DEF PointerOf
  <1>5. \/ pointer'[t] = pointer[t] \/ pointer'[t] = 0
        \/ s.op = "pointer" /\ s.tool = t /\ pointer'[t] = Text(ver[p])
    BY <1>2, <1>3, <1>4 DEF FileStepOf, RemoveSkill, MakeDir, CopyFile, WriteRules, WritePointer,
                            StripPointer, Stripped, RegistrationTypeOK
  <1>6. CASE pointer'[t] = pointer[t]
    BY <1>1, <1>6 DEF Standing, KnownTo, AsStamped, InStamp
  <1>7. CASE s.op = "pointer" /\ s.tool = t /\ pointer'[t] = Text(ver[p])
    <2>1. t \in named[p] /\ phase[p] \in {"refresh", "register"}
      BY <1>3, <1>7
    <2>2. phase[p] = "refresh" => ~gaveUp[p]
      BY <1>1, <2>1 DEF Standing, GaveUpFor
    <2> QED
      BY <1>1, <1>7, <2>1, <2>2 DEF KnownTo
  <1> QED
    BY <1>5, <1>6, <1>7 DEF Standing

\* Any other step, without a fault: a command writes a stamp that names the blocks
\* it has left, or leaves the one that names them.
LEMMA KnownGoes ==
  ASSUME RegistrationTypeOK, WorkFits, NEW p \in Process, Goes(p), Active(p), faults' = faults,
         "left" \notin mishaps', \A q \in Process \ {p} : phase[q] = "idle" /\ phase'[q] = "idle",
         Places(p), DirectoryMade(p), Rewritten(p), GaveUpFor(p),
         NEW t \in Block, Standing(t) => KnownTo(p, t), Standing(t)'
  PROVE  (Quiet' => AsStamped(t)') /\ \A q \in Process : KnownTo(q, t)'
  <1>1. UNCHANGED <<release, pointer>> /\ t \in Tool
    BY Apart, RegistrationAssumption
  <1>2. Standing(t) /\ KnownTo(p, t)
    <2>1. phase[p] = "choices" => \A u \in Tool : answers[p][u] # "unset" => choice[u] = "unset"
      BY DEF Places
    <2>2. phase[p] # "unchoose"
      BY <1>1, GhostsTell DEF Standing
    <2>3. choice'[t] # "no" => choice[t] # "no"
      BY <1>1, <2>1, <2>2, ChoiceChanges
    <2> QED
      BY <1>1, <2>3 DEF Standing
  <1>3. /\ phase[p] = "refresh" => phase'[p] = "restamp" \/ (gaveUp[p] /\ phase'[p] # "refresh")
        /\ phase'[p] = "idle" =>
              phase[p] \notin {"register", "readStamp", "writeStamp",
                               "unregister", "unstamp", "unchoose"}
        /\ phase[p] = "check" => phase'[p] = "refresh" \/ ~Due(p)
    BY <1>1, <1>2, Faultless, GhostsTell DEF Standing
  <1>4. Leads(p)
    BY GoesLead
  <1>5. \/ UNCHANGED stamp /\ phase[p] \notin {"restamp", "writeStamp", "unstamp"}
        \/ phase[p] \in {"restamp", "writeStamp"} /\ stamp' = NewStamp(p)
        \/ phase[p] = "unstamp" /\ phase'[p] = "unchoose"
    <2>1. phase[p] \notin {"restamp", "writeStamp", "unstamp"} => UNCHANGED stamp
      BY StampChanges
    <2>2. phase[p] \in {"restamp", "writeStamp"} => stamp' = NewStamp(p)
      BY <1>3, StampChanges
    <2>3. phase[p] = "unstamp" => phase'[p] = "unchoose"
      BY <1>3, <1>4 DEF Leads, Idles, MovesOn
    <2> QED
      BY <2>1, <2>2, <2>3
  <1>6. t \in named[p] /\ stamp' = NewStamp(p) /\ stamp' # Missing =>
           InStamp(t)' /\ stamp'.text = Text(ver[p])
    BY DEF InStamp, NewStamp
  <1>7. NewStamp(p) # Missing
    BY TextFacts, MissingAssumption DEF NewStamp, Stamp, RegistrationTypeOK
  <1>8. AsStamped(t) /\ ~Due(p) => stamp.text = Text(ver[p])
    BY DEF AsStamped, InStamp, Due, TextDrifted
  <1>9. phase[p] = "refresh" /\ gaveUp[p] => FALSE
    <2>1. SUFFICES ASSUME phase[p] = "refresh", gaveUp[p] PROVE FALSE
      OBVIOUS
    <2>2. AsStamped(t) /\ named[p] = stamp.tools
      BY <1>2, <2>1 DEF KnownTo, Places
    <2> QED
      BY <1>2, <2>1, <2>2 DEF AsStamped, InStamp, GaveUpFor, Standing
  \* the refresh has rewritten the block, or found it as its own
  <1>10. phase[p] = "refresh" /\ phase'[p] = "restamp" => t \in named[p] /\ pointer[t] = Text(ver[p])
    <2>1. SUFFICES ASSUME phase[p] = "refresh", phase'[p] = "restamp", AsStamped(t), ~gaveUp[p]
                   PROVE  t \in named[p] /\ pointer[t] = Text(ver[p])
      BY <1>2, <1>9 DEF KnownTo
    <2>2. t \in named[p] /\ work[p] = {}
      BY <1>4, <2>1 DEF AsStamped, InStamp, Places, Leads, Idles, MovesOn
    <2>3. CASE stamp.text = Text(ver[p])
      BY <2>1, <2>2, <2>3 DEF AsStamped
    <2>4. CASE stamp.text # Text(ver[p])
      <3>1. Deploys(p, t)
        BY <1>2, <2>1, <2>2 DEF Deploys, Standing
      <3>2. pointer[t] = PointerOf(t, ver[p])
        BY <1>1, <2>2, <2>4, <3>1 DEF Rewritten
      <3> QED
        BY <2>2, <3>2 DEF PointerOf
    <2> QED
      BY <2>3, <2>4
  <1>11. CASE Idles(p)
    <2>1. AsStamped(t)'
      <3>1. CASE phase[p] = "restamp"
        BY <1>1, <1>2, <1>5, <1>6, <1>7, <3>1 DEF KnownTo, AsStamped
      <3>2. CASE phase[p] = "check"
        BY <1>1, <1>2, <1>5, <3>2 DEF KnownTo, AsStamped, InStamp
      <3>3. CASE phase[p] \in {"wizard", "choices"}
        BY <1>1, <1>2, <1>5, <3>3 DEF KnownTo, AsStamped, InStamp
      <3>4. phase[p] \in Location /\ phase[p] # "idle" /\ phase[p] # "refresh"
        BY <1>3, <1>9, <1>11 DEF Active, Idles, RegistrationTypeOK
      <3> QED
        BY <1>3, <1>11, <3>1, <3>2, <3>3, <3>4 DEF Idles, Location
    <2> QED
      BY <1>11, <2>1 DEF Idles, KnownTo
  <1>12. CASE ~Idles(p)
    <2>1. phase'[p] # "idle" /\ ver'[p] = ver[p]
      BY <1>4, <1>12 DEF Leads, MovesOn, local
    <2>2. ~Quiet'
      BY <2>1 DEF Quiet
    <2>3. \A q \in Process \ {p} : KnownTo(q, t)'
      BY DEF KnownTo
    <2>4. CASE MovesOn(p)
      <3>1. phase[p] \in {"check", "restamp"}
        BY <1>3, <1>4, <1>9, <1>12, <2>4 DEF Leads, MovesOn
      <3>2. InStamp(t)' /\ stamp'.text = Text(ver[p]) /\ pointer[t] = Text(ver[p])
        <4>1. CASE phase[p] = "check"
          <5>1. AsStamped(t) /\ ~Due(p)
            BY <1>2, <1>3, <2>4, <4>1 DEF KnownTo, MovesOn
          <5> QED
            BY <1>5, <1>8, <4>1, <5>1 DEF AsStamped, InStamp
        <4>2. CASE phase[p] = "restamp"
          BY <1>2, <1>5, <1>6, <1>7, <4>2 DEF KnownTo
        <4> QED
          BY <3>1, <4>1, <4>2
      <3>3. KnownTo(p, t)'
        BY <1>1, <2>1, <2>4, <3>2 DEF MovesOn, KnownTo
      <3> QED
        BY <2>2, <2>3, <3>3
    <2>5. CASE phase[p] = "check" /\ phase'[p] = "refresh"
      <3>1. KnownTo(p, t)'
        BY <1>1, <1>2, <1>5, <2>5 DEF KnownTo, AsStamped, InStamp
      <3> QED
        BY <2>2, <2>3, <3>1
    <2>6. CASE phase[p] = "wizard" /\ phase'[p] \in {"choices", "register"}
      <3>1. KnownTo(p, t)'
        BY <1>1, <1>2, <1>5, <2>1, <2>6 DEF KnownTo, InStamp
      <3> QED
        BY <2>2, <2>3, <3>1
    <2>7. CASE phase[p] = "refresh" /\ phase'[p] = "restamp" /\ UNCHANGED local
      <3>1. KnownTo(p, t)'
        BY <1>1, <1>10, <2>1, <2>7 DEF KnownTo, local
      <3> QED
        BY <2>2, <2>3, <3>1
    <2>8. CASE /\ <<phase[p], phase'[p]>> \in {<<"register", "readStamp">>, <<"unregister", "unstamp">>,
                                               <<"unstamp", "unchoose">>}
               /\ UNCHANGED local
      <3>1. KnownTo(p, t)'
        BY <1>1, <1>2, <1>5, <2>1, <2>8 DEF KnownTo, InStamp, local
      <3> QED
        BY <2>2, <2>3, <3>1
    <2>9. CASE phase[p] = "readStamp" /\ phase'[p] = "writeStamp" /\ named'[p] = Union(p)
      <3>1. t \in named'[p]
        BY <1>2, <2>9 DEF KnownTo, Union, InStamp
      <3>2. KnownTo(p, t)'
        BY <1>1, <1>2, <2>1, <2>9, <3>1 DEF KnownTo
      <3> QED
        BY <2>2, <2>3, <3>2
    <2>10. CASE phase[p] = "writeStamp" /\ phase'[p] = "choices"
      <3>1. KnownTo(p, t)'
        BY <1>1, <1>2, <1>5, <1>6, <1>7, <2>1, <2>10 DEF KnownTo
      <3> QED
        BY <2>2, <2>3, <3>1
    <2> QED
      BY <1>3, <1>4, <1>9, <1>12, <2>4, <2>5, <2>6, <2>7, <2>8, <2>9, <2>10 DEF Leads
  <1> QED
    BY <1>11, <1>12

\* What is known of the blocks stays known.
LEMMA KnownNext ==
  ASSUME RegistrationTypeOK, WorkFits, Serial', "left" \notin mishaps', faults' = 0,
         Serial => Alone /\ \A p \in Process : Places(p) /\ DirectoryMade(p) /\ Rewritten(p),
         Serial /\ "left" \notin mishaps /\ faults = 0 => Known /\ \A p \in Process : GaveUpFor(p),
         RegistrationNext
  PROVE  Known' /\ \A p \in Process : GaveUpFor(p)'
  <1>1. CASE Upgrade
    <2>1. UNCHANGED <<pointer, stamp, choice, phase, local, faults, mishaps>>
      BY <1>1 DEF Upgrade, toolFiles
    <2>2. Known /\ \A p \in Process : GaveUpFor(p)
      BY <2>1 DEF Serial
    <2>3. \A p \in Process : GaveUpFor(p)'
      BY <2>1, <2>2 DEF GaveUpFor, local
    <2>4. Known'
      BY <2>1, <2>2 DEF Known, Quiet, InStamp, local
    <2> QED
      BY <2>3, <2>4
  <1>2. CASE OptOut
    <2>1. /\ UNCHANGED <<pointer, stamp, phase, local, faults, mishaps>>
          /\ \A t \in Tool : choice[t] = "no" => choice'[t] = "no"
      BY <1>2 DEF OptOut, toolFiles, RegistrationTypeOK
    <2>2. Known /\ (\A p \in Process : GaveUpFor(p)) /\ Block \subseteq Tool
      BY <2>1, RegistrationAssumption DEF Serial
    <2>3. \A p \in Process : GaveUpFor(p)'
      BY <2>1, <2>2 DEF GaveUpFor, local, RegistrationTypeOK
    <2>4. Known'
      BY <2>1, <2>2 DEF Known, Quiet, InStamp, local
    <2> QED
      BY <2>3, <2>4
  <1>3. ASSUME NEW p \in Process, Start(p) \/ Goes(p) \/ Works(p)
        PROVE  Known' /\ \A q \in Process : GaveUpFor(q)'
    <2>1. /\ Serial /\ \A q \in Process \ {p} : phase[q] = "idle" /\ phase'[q] = "idle"
          /\ ~Start(p) => Active(p)
      BY <1>3, OneActs
    <2>2. faults = 0 /\ "left" \notin mishaps
      <3>1. faults \in Nat
        BY RegistrationAssumption DEF RegistrationTypeOK
      <3> QED
        BY <1>3, <3>1, GhostsTell, Apart
    <2>3. /\ \A q \in Process : GaveUpFor(q)
          /\ \A t \in Block : Standing(t) => (Quiet => AsStamped(t)) /\ \A q \in Process : KnownTo(q, t)
      BY <2>1, <2>2, KnownIs
    <2>4. \A q \in Process \ {p} : GaveUpFor(q)' /\ \A t \in Block : KnownTo(q, t)'
      BY <2>1 DEF GaveUpFor, KnownTo
    <2>5. CASE Start(p)
      <3>1. /\ UNCHANGED <<pointer, stamp, choice>> /\ phase[p] = "idle" /\ phase'[p] = "check"
        BY <2>5 DEF Start, Enter, toolFiles, RegistrationTypeOK
      <3>2. Quiet /\ ~Quiet' /\ GaveUpFor(p)'
        BY <2>1, <3>1 DEF Quiet, GaveUpFor
      <3>3. \A t \in Block : Standing(t)' => KnownTo(p, t)'
        BY <2>3, <3>1, <3>2 DEF Standing, KnownTo, AsStamped, InStamp
      <3>4. \A t \in Block : Standing(t)' => (Quiet' => AsStamped(t)') /\ \A q \in Process : KnownTo(q, t)'
        BY <2>4, <3>2, <3>3
      <3> QED
        BY <2>4, <3>2, <3>4 DEF Known, Standing, AsStamped, KnownTo
    <2>6. CASE Works(p)
      <3>1. UNCHANGED <<phase, named, choice, gaveUp>>
        BY <2>6, Apart
      <3>2. ~Quiet' /\ GaveUpFor(p)'
        <4>1. phase[p] # "idle"
          BY <2>6, NowFacts DEF Works, WorkFits
        <4> QED
          BY <2>3, <3>1, <4>1 DEF Quiet, GaveUpFor
      <3>3. \A t \in Block : Standing(t)' => KnownTo(p, t)'
        BY <2>3, <2>6, KnownWorks
      <3>4. \A t \in Block : Standing(t)' => (Quiet' => AsStamped(t)') /\ \A q \in Process : KnownTo(q, t)'
        BY <2>4, <3>2, <3>3
      <3> QED
        BY <2>4, <3>2, <3>4 DEF Known, Standing, AsStamped, KnownTo
    <2>7. CASE Goes(p) /\ ~Start(p)
      <3>1. GaveUpFor(p)'
        <4>1. SUFFICES ASSUME phase'[p] = "refresh", gaveUp'[p] PROVE \A t \in named'[p] : choice'[t] = "no"
          BY DEF GaveUpFor
        <4>2. phase[p] # "refresh"
          BY <2>1, <2>2, <2>7, <4>1, Faultless
        <4>3. Kept(p) = {} /\ named'[p] = stamp.tools /\ UNCHANGED choice
          BY <2>7, <4>1, <4>2, GoesLead, ChoiceChanges DEF Leads, Idles, MovesOn
        <4> QED
          BY <4>3 DEF Kept
      <3>2. \A t \in Block : Standing(t)' => (Quiet' => AsStamped(t)') /\ \A q \in Process : KnownTo(q, t)'
        BY <2>1, <2>2, <2>3, <2>7, KnownGoes
      <3> QED
        BY <2>4, <3>1, <3>2 DEF Known, Standing, AsStamped, KnownTo
    <2> QED
      BY <1>3, <2>5, <2>6, <2>7
  <1> QED
    BY <1>1, <1>2, <1>3, Steps

\* What the stamp says stays true.
LEMMA TruthNext ==
  ASSUME RegistrationTypeOK, WorkFits, InThePast, Serial', Honest',
         Serial => /\ Alone /\ Behind
                   /\ \A p \in Process : Places(p) /\ Copied(p) /\ Rewritten(p),
         Serial /\ Honest => Truth,
         RegistrationNext
  PROVE  Truth'
  <1>1. CASE Upgrade
    BY <1>1, TruthUpgrade DEF Upgrade, Serial, Honest
  <1>2. CASE OptOut
    BY <1>2, TruthOptOut DEF OptOut, Serial, Honest
  <1>3. ASSUME NEW p \in Process, Start(p) \/ Goes(p) \/ Works(p)
        PROVE  Truth'
    <2>1. /\ Serial /\ \A q \in Process \ {p} : phase[q] = "idle"
          /\ ~Start(p) => Active(p)
      BY <1>3, OneActs
    <2>2. Honest
      BY <1>3, GhostsTell, Apart DEF Honest
    <2> QED
      BY <1>3, <2>1, <2>2, TruthStart, TruthWorks, TruthGoes
  <1> QED
    BY <1>1, <1>2, <1>3, Steps

\* At first nothing is installed, and nothing runs.
LEMMA RegistrationInvInit == RegistrationInit => RegistrationInv
  <1> SUFFICES ASSUME RegistrationInit PROVE RegistrationInv
    OBVIOUS
  <1>1. RegistrationTypeOK
    BY RegistrationAssumption
    DEF RegistrationInit, RegistrationTypeOK, Release, Location, Answer, NoAnswers
  <1>2. WorkFits /\ InThePast
    BY RegistrationAssumption DEF RegistrationInit, WorkFits, InThePast, Release
  <1>3. Alone /\ Behind /\ Known
    BY RegistrationAssumption DEF RegistrationInit, Alone, Behind, Known, Active
  <1>4. ASSUME NEW p \in Process
        PROVE  /\ Places(p) /\ DirectoryMade(p) /\ Copied(p) /\ Rewritten(p) /\ Cleaned(p)
               /\ GaveUpFor(p)
    BY DEF RegistrationInit, Places, DirectoryMade, Copied, Rewritten, Cleaned, GaveUpFor, Deploys
  <1>5. SkillsAreTrue /\ TextsAreTrue /\ UnionIsTrue
    BY DEF RegistrationInit, SkillsAreTrue, TextsAreTrue, UnionIsTrue
  <1> QED
    BY <1>1, <1>2, <1>3, <1>4, <1>5 DEF RegistrationInv, SerialInv

\* Every step keeps the invariant.
LEMMA RegistrationInvNext == RegistrationInv /\ [RegistrationNext]_registrationVars => RegistrationInv'
  <1> SUFFICES ASSUME RegistrationInv, [RegistrationNext]_registrationVars PROVE RegistrationInv'
    OBVIOUS
  <1> USE DEF RegistrationInv
  <1>1. CASE RegistrationNext
    <2>1. RegistrationTypeOK' /\ WorkFits' /\ InThePast'
      BY <1>1, RegistrationTypes, WorkFitsNext, InThePastNext
    <2> SUFFICES ASSUME Serial'
                 PROVE  SerialInv'
      BY <2>1 DEF SerialInv
    <2>2. Alone' /\ Behind'
      BY <1>1, BehindNext DEF SerialInv
    <2>3. \A p \in Process : Places(p)'
      BY <1>1, PlacesNext DEF SerialInv
    <2>4. \A p \in Process : DirectoryMade(p)'
      BY <1>1, DirectoryMadeNext DEF SerialInv
    <2>5. \A p \in Process : Copied(p)' /\ Rewritten(p)'
      BY <1>1, DeployedNext DEF SerialInv
    <2>6. \A p \in Process : Cleaned(p)'
      BY <1>1, CleanedNext DEF SerialInv
    <2>7. Honest' => SkillsAreTrue' /\ TextsAreTrue' /\ UnionIsTrue'
      BY <1>1, TruthNext DEF SerialInv, Truth, Honest
    <2>8. "left" \notin mishaps' /\ faults' = 0 => Known' /\ \A p \in Process : GaveUpFor(p)'
      BY <1>1, KnownNext DEF SerialInv
    <2> QED
      BY <2>2, <2>3, <2>4, <2>5, <2>6, <2>7, <2>8 DEF SerialInv, Honest
  <1>2. CASE UNCHANGED registrationVars
    <2> USE <1>2 DEF registrationVars, toolFiles, local
    <2>1. RegistrationTypeOK' /\ WorkFits' /\ InThePast'
      BY DEF RegistrationTypeOK, WorkFits, InThePast
    <2>2. (Serial => Alone /\ Behind) => (Serial' => Alone' /\ Behind')
      BY DEF Serial, Alone, Behind, Active
    <2>3. ASSUME NEW p \in Process
          PROVE  /\ Places(p) => Places(p)'
                 /\ DirectoryMade(p) => DirectoryMade(p)'
                 /\ Copied(p) => Copied(p)'
                 /\ Rewritten(p) => Rewritten(p)'
                 /\ Cleaned(p) => Cleaned(p)'
                 /\ GaveUpFor(p) => GaveUpFor(p)'
      BY DEF Places, DirectoryMade, Copied, Rewritten, Cleaned, GaveUpFor, Deploys
    <2>4. Truth => SkillsAreTrue' /\ TextsAreTrue' /\ UnionIsTrue'
      BY DEF Truth, SkillsAreTrue, TextsAreTrue, UnionIsTrue, Removes, SkillIsTrue, TextIsTrue
    <2>5. Known => Known'
      BY DEF Known, Quiet, InStamp
    <2>6. Serial' = Serial /\ mishaps' = mishaps /\ faults' = faults
      BY DEF Serial
    <2> QED
      BY <2>1, <2>2, <2>3, <2>4, <2>5, <2>6 DEF SerialInv, Truth
  <1> QED
    BY <1>1, <1>2

-----------------------------------------------------------------------------
\* The invariant holds in every state: where each command is, what it has still to
\* do, has done and will stamp, and what the stamp says of the files (deploy.ts).
THEOREM RegistrationInvariant == RegistrationSpec => []RegistrationInv
  BY RegistrationInvInit, RegistrationInvNext, PTL DEF RegistrationSpec

\* The variables keep their types, for any tools, files, releases and processes.
THEOREM RegistrationTypeCorrect == RegistrationSpec => []RegistrationTypeOK
  <1>1. RegistrationInv => RegistrationTypeOK
    BY DEF RegistrationInv
  <1> QED
    BY <1>1, RegistrationInvariant, PTL

\* A stamp of the installed release and its rule text is true of every tool it names
\* that the user has not opted out: what failed or was cut short stays drifted, and
\* the next run retries it (refreshIfDrifted), but for the mishaps the property names.
THEOREM FreshStampHolds == RegistrationSpec => []FreshStampIsTrueElse
  <1>1. RegistrationInv => FreshStampIsTrueElse
    <2> SUFFICES ASSUME RegistrationInv, mishaps \subseteq {"left"}, Quiet, Fresh,
                        NEW t \in stamp.tools, choice[t] # "no"
                 PROVE  Deployed(t)
      BY DEF FreshStampIsTrueElse, FreshStampIsTrue
    <2>1. SkillsAreTrue /\ TextsAreTrue
      BY DEF RegistrationInv, SerialInv, Serial
    <2>2. ~Removes /\ ~\E p \in Process : phase[p] = "register"
      BY DEF Quiet, Removes
    <2> QED
      BY <2>1, <2>2 DEF SkillsAreTrue, TextsAreTrue, SkillIsTrue, TextIsTrue, Deployed, Fresh
  <1> QED
    BY <1>1, RegistrationInvariant, PTL

\* An unregister that gets to the end leaves no skill and no rules file, and of the
\* pointers only blocks of an earlier text, which a refresh has missed
\* (unregisterAgentTools, stripManagedRegion).
THEOREM NothingLeftHolds == RegistrationSpec => []UnregisterLeavesNothing
  <1>1. RegistrationInv => UnregisterLeavesNothing
    <2> SUFFICES ASSUME RegistrationInv, NEW p \in Process, phase[p] = "unchoose", Serial, NEW t \in Tool
                 PROVE  /\ skill[t] = Missing /\ rules[t] = 0
                        /\ pointer[t] # 0 =>
                              /\ t \in Block /\ pointer[t] < PointerOf(t, ver[p])
                              /\ choice[t] = "no" \/ faults > 0 \/ "left" \in mishaps
      BY DEF UnregisterLeavesNothing, Serial
    <2>1. RegistrationTypeOK /\ WorkFits /\ Behind /\ Cleaned(p)
      BY DEF RegistrationInv, SerialInv
    <2>2. work[p] = {}
      BY <2>1 DEF WorkFits
    <2>3. /\ skill[t] = Missing /\ rules[t] = 0
          /\ pointer[t] # 0 => pointer[t] # PointerOf(t, ver[p])
      BY <2>1, <2>2 DEF Cleaned, WorkFits
    <2>4. ASSUME pointer[t] # 0
          PROVE  pointer[t] < PointerOf(t, ver[p]) /\ t \in Block
      <3>1. pointer[t] \in Nat \ {0} /\ PointerOf(t, ver[p]) \in Nat
        BY <2>1, <2>4, PointerFacts, RegistrationAssumption DEF RegistrationTypeOK, Release
      <3>2. pointer[t] <= PointerOf(t, ver[p])
        BY <2>1, <2>4 DEF Behind, Active
      <3>3. t \notin Block => PointerOf(t, ver[p]) = 1
        BY DEF PointerOf
      <3> QED
        BY <2>3, <2>4, <3>1, <3>2, <3>3
    <2>5. ASSUME pointer[t] # 0
          PROVE  choice[t] = "no" \/ faults > 0 \/ "left" \in mishaps
      <3>1. SUFFICES ASSUME choice[t] # "no", "left" \notin mishaps, faults = 0 PROVE FALSE
        BY <2>1, RegistrationAssumption DEF RegistrationTypeOK
      <3>2. pointer[t] = Text(ver[p])
        BY <2>4, <2>5, <3>1 DEF RegistrationInv, SerialInv, Known
      <3> QED
        BY <2>3, <2>4, <2>5, <3>2 DEF PointerOf
    <2> QED
      BY <2>3, <2>4, <2>5
  <1> QED
    BY <1>1, RegistrationInvariant, PTL
=============================================================================
