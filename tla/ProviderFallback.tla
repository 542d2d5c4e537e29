-------------------------- MODULE ProviderFallback --------------------------
(***************************************************************************)
(* One command: executeWithFallback (lib/provider-fallback.ts) walks the   *)
(* candidate plan, and each attempt is one operation of lib/execution.ts:  *)
(* cache lookup, consumption event, provider call, retry with backoff.     *)
(* commands/research.ts races an attempt against its own timeout and       *)
(* aborts it; the aborted operation is not awaited any more but goes on    *)
(* running beside the next candidates until the process exits.             *)
(***************************************************************************)
EXTENDS Naturals, Sequences

CONSTANTS
    Provider,
    Registry,    \* the providers in registry order
    MaxRetries,  \* the operation's retry policy
    None

ASSUME ConstantsAssumption ==
    /\ Registry \in Seq(Provider)
    /\ \A p \in Provider : \E n \in DOMAIN Registry : Registry[n] = p
    /\ \A n, m \in DOMAIN Registry : Registry[n] = Registry[m] => n = m
    /\ MaxRetries \in Nat

VARIABLES
    effective, fallbackEnabled,  \* the preferred provider and the kill-switch
    bounded,            \* attempts are raced against a timeout
    status,             \* preflight of each provider; "broken": its create() throws
    pc, i,              \* the loop and the plan entry it is at
    op,                 \* where each provider's operation is
    attempt,            \* its retry counter
    aborted,            \* operations whose signal is aborted
    lastAttemptedId, effectiveError, lastEligibleError,
    result,             \* what the command ends with
    notices,            \* lines on stderr: their kind and provider
    failed              \* ghost: the error class each provider's attempt ended with

config == <<effective, fallbackEnabled, bounded, status>>
loop == <<pc, i, lastAttemptedId, effectiveError, lastEligibleError, result, notices, failed>>
vars == <<config, loop, op, attempt, aborted>>

\* Errors by what the code tells apart: terminal and transient ones continue
\* with the next provider, and only the transient ones are retried.
Continue == {"unsupported", "terminal", "transient", "timeout"}
ErrorClass == Continue \cup {"validation", "unknown"}
Ineligible == {"incapable", "unconfigured"}

Error == [by : Provider, class : ErrorClass \cup Ineligible \cup {"broken"}]

ASSUME NoneAssumption == None \notin Provider \cup ErrorClass \cup Error

RegistryWithout(p) ==
    LET n == CHOOSE m \in DOMAIN Registry : Registry[m] = p
    IN SubSeq(Registry, 1, n - 1) \o SubSeq(Registry, n + 1, Len(Registry))

\* The effective provider first, then the registry without it; only the
\* effective one under the kill-switch.
Plan == IF fallbackEnabled THEN <<effective>> \o RegistryWithout(effective) ELSE <<effective>>

TypeOK ==
    /\ effective \in Provider /\ fallbackEnabled \in BOOLEAN /\ bounded \in BOOLEAN
    /\ status \in [Provider -> {"eligible", "broken"} \cup Ineligible]
    /\ pc \in {"plan", "next", "attempt", "done"}
    /\ i \in 1..(Len(Plan) + 1)
    /\ op \in [Provider -> {"idle", "start", "check", "emit", "call", "backoff", "ended"}]
    /\ attempt \in [Provider -> 0..MaxRetries]
    /\ aborted \subseteq Provider
    /\ lastAttemptedId \in Provider \cup {None}
    /\ effectiveError \in Error \cup {None}
    /\ lastEligibleError \in Error \cup {None}
    /\ result \in Error \cup [by : Provider, class : {"ok"}] \cup {None}
    /\ notices \in Seq([kind : {"skip", "switch", "summary", "exhausted", "none"}, of : Provider])
    /\ failed \in [Provider -> ErrorClass \cup {None}]

Init ==
    /\ effective \in Provider /\ fallbackEnabled \in BOOLEAN /\ bounded \in BOOLEAN
    /\ status \in [Provider -> {"eligible", "broken"} \cup Ineligible]
    /\ pc = "plan" /\ i = 1
    /\ op = [p \in Provider |-> "idle"]
    /\ attempt = [p \in Provider |-> 0]
    /\ aborted = {}
    /\ lastAttemptedId = None /\ effectiveError = None /\ lastEligibleError = None
    /\ result = None
    /\ notices = <<>>
    /\ failed = [p \in Provider |-> None]

-----------------------------------------------------------------------------
\* The candidate loop.

Notice(kind, p) ==
    notices' = IF fallbackEnabled THEN Append(notices, [kind |-> kind, of |-> p]) ELSE notices

End(r) == pc' = "done" /\ result' = r /\ UNCHANGED i

NextEntry == pc' = "next" /\ i' = i + 1 /\ UNCHANGED result

\* Every candidate is preflighted before the first is tried; a create() that
\* throws is not caught, whichever candidate it is.
BuildPlan ==
    /\ pc = "plan"
    /\ LET broken == {n \in DOMAIN Plan : status[Plan[n]] = "broken"} IN
       IF broken = {}
       THEN pc' = "next" /\ UNCHANGED <<i, result>>
       ELSE \E n \in broken : /\ \A m \in broken : n <= m
                              /\ End([by |-> Plan[n], class |-> "broken"])
    /\ UNCHANGED <<config, op, attempt, aborted, lastAttemptedId, effectiveError,
                   lastEligibleError, notices, failed>>

\* An ineligible entry is skipped with a notice; under the kill-switch it is
\* the effective one, and its preflight error ends the command.
Skip ==
    /\ pc = "next" /\ i <= Len(Plan)
    /\ status[Plan[i]] \in Ineligible
    /\ IF fallbackEnabled
       THEN NextEntry
       ELSE End([by |-> Plan[i], class |-> status[Plan[i]]])
    /\ Notice("skip", Plan[i])
    /\ UNCHANGED <<config, op, attempt, aborted, lastAttemptedId, effectiveError,
                   lastEligibleError, failed>>

Attempt ==
    /\ pc = "next" /\ i <= Len(Plan)
    /\ status[Plan[i]] = "eligible"
    /\ pc' = "attempt"
    /\ lastAttemptedId' = Plan[i]
    /\ op' = [op EXCEPT ![Plan[i]] = "start"]
    /\ UNCHANGED <<config, attempt, aborted, i, effectiveError, lastEligibleError,
                   result, notices, failed>>

Succeed(p) ==
    /\ End([by |-> p, class |-> "ok"])
    /\ IF p # effective THEN Notice("summary", p) ELSE UNCHANGED notices
    /\ UNCHANGED <<lastAttemptedId, effectiveError, lastEligibleError, failed>>

\* The catch block: validation and unknown errors end the command, the others
\* are remembered and the next entry follows.
HandleError(p, class) ==
    /\ failed' = [failed EXCEPT ![p] = class]
    /\ IF class \in Continue
       THEN /\ lastEligibleError' = [by |-> p, class |-> class]
            /\ effectiveError' = IF p = effective THEN lastEligibleError' ELSE effectiveError
            /\ IF i < Len(Plan) THEN Notice("switch", p) ELSE UNCHANGED notices
            /\ NextEntry
       ELSE End([by |-> p, class |-> class]) /\ UNCHANGED <<effectiveError, lastEligibleError, notices>>
    /\ UNCHANGED lastAttemptedId

\* Mutant: the last error wins even when the effective provider ran.
ExhaustionErrorLast ==
    IF lastEligibleError # None
    THEN lastEligibleError
    ELSE [by |-> effective, class |-> status[effective]]

\* What exhaustion throws: the effective provider's own error when it ran,
\* else the last one, else the preflight error of the effective provider.
ExhaustionError ==
    IF effectiveError # None THEN effectiveError
    ELSE IF lastEligibleError # None THEN lastEligibleError
    ELSE [by |-> effective, class |-> status[effective]]

Exhaust ==
    /\ pc = "next" /\ i > Len(Plan)
    /\ End(ExhaustionError)
    /\ IF lastAttemptedId = None
       THEN Notice("none", effective)
       ELSE Notice("exhausted", lastAttemptedId)
    /\ UNCHANGED <<config, op, attempt, aborted, lastAttemptedId, effectiveError,
                   lastEligibleError, failed>>

-----------------------------------------------------------------------------
\* One provider's operation.

Goto(p, l) == op' = [op EXCEPT ![p] = l]

Awaited(p) == pc = "attempt" /\ Plan[i] = p /\ p \notin aborted

\* The operation settles; an outcome nobody awaits is dropped.
Resolve(p) == Goto(p, "ended") /\ IF Awaited(p) THEN Succeed(p) ELSE UNCHANGED loop
Reject(p, class) == Goto(p, "ended") /\ IF Awaited(p) THEN HandleError(p, class) ELSE UNCHANGED loop

\* Validation, identity and the cache: a hit needs no call.
Look(p) ==
    /\ pc # "done" /\ op[p] = "start"
    /\ \/ \E class \in {"validation", "unsupported", "terminal"} : Reject(p, class)
       \/ Resolve(p)
       \/ Goto(p, "check") /\ UNCHANGED loop
    /\ UNCHANGED <<config, attempt, aborted>>

\* The top of the retry loop: an aborted signal ends the operation.
CheckSignal(p) ==
    /\ pc # "done" /\ op[p] = "check"
    /\ IF p \in aborted THEN Reject(p, "timeout") ELSE Goto(p, "emit") /\ UNCHANGED loop
    /\ UNCHANGED <<config, attempt, aborted>>

\* The consumption event is awaited, then the call goes out whatever the
\* signal says by then.
Emit(p) ==
    /\ pc # "done" /\ op[p] = "emit"
    /\ Goto(p, "call")
    /\ UNCHANGED <<config, loop, attempt, aborted>>

\* A failed call is tried again when its error is retryable, the policy allows
\* it and the caller has not gone.
Retries(p, class) == class = "transient" /\ p \notin aborted /\ attempt[p] < MaxRetries

CallEnds(p) ==
    /\ pc # "done" /\ op[p] = "call"
    /\ \/ Resolve(p)
       \/ \E class \in ErrorClass \ {"timeout"} :
            IF Retries(p, class) THEN Goto(p, "backoff") /\ UNCHANGED loop ELSE Reject(p, class)
    /\ UNCHANGED <<config, attempt, aborted>>

\* The backoff ends, or an abort cuts it short.
Wake(p) ==
    /\ pc # "done" /\ op[p] = "backoff"
    /\ IF p \in aborted
       THEN Reject(p, "timeout") /\ UNCHANGED attempt
       ELSE /\ Goto(p, "check") /\ UNCHANGED loop
            /\ attempt' = [attempt EXCEPT ![p] = @ + 1]
    /\ UNCHANGED <<config, aborted>>

\* Mutant: the signal is not aborted.
TimeOutWithoutAbort(p) ==
    /\ bounded /\ Awaited(p)
    /\ HandleError(p, "timeout")
    /\ UNCHANGED <<config, op, attempt, aborted>>

\* Mutant: the signal is aborted and the race goes on.
TimeOutOnlyAborts(p) ==
    /\ bounded /\ Awaited(p)
    /\ aborted' = aborted \cup {p}
    /\ UNCHANGED <<config, loop, op, attempt>>

\* The command's timeout wins the race: it aborts the signal and the loop gets
\* a TimeoutError while the operation goes on.
TimeOut(p) ==
    /\ bounded /\ Awaited(p)
    /\ aborted' = aborted \cup {p}
    /\ HandleError(p, "timeout")
    /\ UNCHANGED <<config, op, attempt>>

LoopStep == BuildPlan \/ Skip \/ Attempt \/ Exhaust
OpStep(p) == Look(p) \/ CheckSignal(p) \/ Emit(p) \/ Wake(p)

Next == LoopStep \/ \E p \in Provider : OpStep(p) \/ CallEnds(p) \/ TimeOut(p)

\* The event loop runs what is ready, timers included.  Nothing says that a call
\* ends: an operation may be a poll loop that goes on as long as the job it polls
\* (firecrawl's crawl, providers/firecrawl/adapter.ts:1114-1164).
Fairness ==
    /\ WF_vars(LoopStep)
    /\ \A p \in Provider : WF_vars(OpStep(p)) /\ WF_vars(TimeOut(p))

Spec == Init /\ [][Next]_vars
FairSpec == Spec /\ Fairness

-----------------------------------------------------------------------------
\* The command fails with the error of the provider the user asked for when
\* that one ran, else with one a provider really gave, and with a preflight
\* error only when nothing ran; validation and unknown errors are their own.
FailsWithTheRightError ==
    pc = "done" /\ result.class \notin {"ok", "broken"} =>
        LET ran == {p \in Provider : failed[p] # None} IN
        /\ result.class \in {"validation", "unknown"} => failed[result.by] = result.class
        /\ result.class \in Continue =>
             /\ failed[result.by] = result.class
             /\ effective \in ran => result.by = effective
             /\ effective \notin ran => result.by = lastAttemptedId
        /\ result.class \in Ineligible => ran = {} /\ result.by = effective

\* A result comes from the first provider in plan order that could give one:
\* all before it were ineligible or failed with an error that goes on, and none
\* after it was called.
FirstWorkingProviderWins ==
    pc = "done" /\ result.class = "ok" =>
        \A n \in DOMAIN Plan :
            /\ n < i => status[Plan[n]] \in Ineligible \/ failed[Plan[n]] \in Continue
            /\ n > i => op[Plan[n]] = "idle"

\* Whatever fails, is skipped or is timed out, the command ends with the result
\* or the error its plan calls for.
EndsAsPlanned == FailsWithTheRightError /\ FirstWorkingProviderWins

\* Calls of two providers overlap only when the earlier one was timed out.
OverlapOnlyAfterTimeout ==
    \A p, q \in Provider :
        p # q /\ {op[p], op[q]} \cap {"idle", "ended"} = {} => p \in aborted \/ q \in aborted

\* A command that races its attempts against a timeout ends, also when no call
\* ever does.  One that does not (every command but research, commands/crawl.ts:218)
\* ends unless the call it awaits stays open for ever: neither the candidate loop
\* nor the retry loop adds a way to go on without end.
CommandEnds ==
    \/ <>(pc = "done")
    \/ ~bounded /\ \E p \in Provider : <>[](Awaited(p) /\ op[p] = "call")
=============================================================================
