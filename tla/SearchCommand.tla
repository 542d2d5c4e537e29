---------------------------- MODULE SearchCommand ----------------------------
(***************************************************************************)
(* One search command: its sub-queries go to one provider after another    *)
(* (commands/search.ts search under executeWithFallback) or to several at  *)
(* once (executeFanoutPlan), each through executeSearch of                 *)
(* lib/execution.ts, and the hooks of index.ts write down who served it    *)
(* and from where.                                                         *)
(*                                                                         *)
(* The hooks know that only from one ServingCapture that every operation   *)
(* writes as it passes.  The operations of one provider, or of all arms,   *)
(* run side by side, and those of a provider that was given up go on       *)
(* beside its successor's: Promise.all and the fallback do not wait for    *)
(* them.                                                                   *)
(***************************************************************************)
EXTENDS ResultFusion

CONSTANTS
    Provider,
    Query,       \* sub-queries
    Rejected,    \* the <<provider, sub-query>> that the provider's validation refuses
    Answers,     \* the possible answers: what each provider has for each sub-query
    MaxRetries,
    MaxGrid,     \* bound on the candidates or arms times the sub-queries
    None

ASSUME ConstantsAssumption ==
    /\ Rejected \subseteq Provider \X Query
    /\ \A answer \in Answers : answer \in [Provider -> [Query -> Seq(Url)]]
    /\ \A answer \in Answers, p \in Provider, q \in Query : Len(answer[p][q]) <= MaxRank
    /\ MaxRetries \in Nat /\ MaxGrid \in Nat
    /\ None \notin Provider

VARIABLES
    mode,      \* "single" or "fanout"
    plan,      \* the candidates, or the arms, in order
    asked,     \* the sub-queries in order
    answer,    \* ghost: what the providers have
    pc,
    i,         \* the candidate it is at
    at,        \* where each operation is
    attempt,   \* its retries
    served,    \* capture.servedProvider
    from,      \* capture.servedFrom
    key,       \* capture.cacheKey
    cell,      \* capture.armServing: one cell for each arm of a fan-out
    latched,   \* the arms whose cell says failed
    result,    \* the grid it ends with, or who failed it
    entry      \* what the journal got

question == <<mode, plan, asked, answer>>
capture == <<served, from, key, cell, latched>>
control == <<pc, i, result, entry>>
vars == <<question, control, at, attempt, capture>>

Key == Provider \X Query
Asked == ToSet(asked)
Planned == ToSet(plan)

\* The sequences without repetition of members of S, none empty.
Orders(S) == {s \in UNION {[1..n -> S] : n \in 1..Cardinality(S)} : IsInjective(s)}

TypeOK ==
    /\ mode \in {"single", "fanout"} /\ plan \in Orders(Provider) /\ asked \in Orders(Query)
    /\ answer \in Answers
    /\ pc \in {"dispatch", "await", "hooks", "done"}
    /\ i \in 1..Len(plan)
    /\ at \in [Key -> {"idle", "look", "invoke", "store", "hit", "live", "failed"}]
    /\ attempt \in [Key -> 0..MaxRetries]
    /\ served \in Provider \cup {None}
    /\ from \in {"unset", "live", "cache"}
    /\ key \in Key \cup {<<>>}
    /\ cell \in [Provider -> {"unset", "live", "cache"}]
    /\ latched \subseteq Provider
    /\ result.status \in {"none", "ok", "failed"}
    /\ entry \in [kind : {"none", "full", "marker"}, served : Provider \cup {None},
                  from : {"unset", "live", "cache"}]

\* resolveFanoutPlan and the fallback plan give any of these.
Init ==
    /\ mode \in {"single", "fanout"} /\ plan \in Orders(Provider) /\ asked \in Orders(Query)
    /\ Len(plan) * Len(asked) <= MaxGrid
    /\ answer \in Answers
    /\ pc = "dispatch" /\ i = 1
    /\ at = [k \in Key |-> "idle"]
    /\ attempt = [k \in Key |-> 0]
    /\ served = None /\ from = "unset" /\ key = <<>>
    /\ cell = [p \in Provider |-> "unset"]
    /\ latched = {}
    /\ result = [status |-> "none", grid |-> <<>>, by |-> None]
    /\ entry = [kind |-> "none", served |-> None, from |-> "unset"]

-----------------------------------------------------------------------------
\* Dispatch: the synchronous start of every operation of the given providers.

\* Its calls in the order they are made, provider by provider.
Calls(ps) == (DOMAIN ps) \X (DOMAIN asked)
Accepted(ps) == {c \in Calls(ps) : <<ps[c[1]], asked[c[2]]>> \notin Rejected}
LastAccepted(ps) ==
    LET c == CHOOSE c \in Accepted(ps) : \A d \in Accepted(ps) :
                d[1] < c[1] \/ (d[1] = c[1] /\ d[2] <= c[2])
    IN  <<ps[c[1]], asked[c[2]]>>

\* The validated operations look, the others have failed.
Validate(ps) ==
    at' = [k \in Key |-> IF k[1] \notin ToSet(ps) \/ k[2] \notin Asked THEN at[k]
                         ELSE IF k \in Rejected THEN "failed" ELSE "look"]

\* In a fan-out an arm's cell takes the stamp only if nothing is in it.
StampCells(ps) ==
    cell' = [p \in Provider |->
               IF /\ mode = "fanout" /\ cell[p] = "unset" /\ p \notin latched
                  /\ \E c \in Accepted(ps) : ps[c[1]] = p
               THEN "cache" ELSE cell[p]]

\* Mutant: the wrapper of cacheIdentity leaves the provider to invoke's.
IdentifyOnlyOrigin(ps) ==
    /\ Validate(ps)
    /\ IF Accepted(ps) = {} THEN UNCHANGED capture
       ELSE /\ from' = "cache" /\ key' = LastAccepted(ps)
            /\ StampCells(ps) /\ UNCHANGED <<served, latched>>

\* Each is validated and identified in order, before anything is awaited; the
\* wrapped cacheIdentity stamps the capture with "cache" on speculation.
Identify(ps) ==
    /\ Validate(ps)
    /\ IF Accepted(ps) = {} THEN UNCHANGED capture
       ELSE /\ served' = LastAccepted(ps)[1] /\ from' = "cache" /\ key' = LastAccepted(ps)
            /\ StampCells(ps) /\ UNCHANGED latched

\* All arms at once, or the candidate whose turn it is.
Dispatch ==
    /\ pc = "dispatch" /\ pc' = "await"
    /\ Identify(IF mode = "fanout" THEN plan ELSE <<plan[i]>>)
    /\ UNCHANGED <<question, i, result, entry, attempt>>

-----------------------------------------------------------------------------
\* One operation.  It may go on after the command has stopped waiting for it.

Goto(k, l) == at' = [at EXCEPT ![k] = l]

\* The response cache has what earlier commands, expiry and prune left in it.
Look(k) ==
    /\ pc # "done" /\ at[k] = "look"
    /\ Goto(k, "hit") \/ Goto(k, "invoke")
    /\ UNCHANGED <<question, control, attempt, capture>>

\* The provider answers: the wrapper stamps "live".
Resolve(k) ==
    /\ pc # "done" /\ at[k] = "invoke"
    /\ Goto(k, "store")
    /\ served' = k[1] /\ from' = "live"
    /\ cell' = IF mode = "fanout" THEN [cell EXCEPT ![k[1]] = "live"] ELSE cell
    /\ UNCHANGED <<question, control, attempt, key, latched>>

\* The answer is put in the cache before it is returned.
Store(k) ==
    /\ pc # "done" /\ at[k] = "store"
    /\ Goto(k, "live")
    /\ UNCHANGED <<question, control, attempt, capture>>

\* Mutant: a failed call leaves the speculative stamp in the arm's cell.
FailKeepsStamp(k) ==
    /\ pc # "done" /\ at[k] = "invoke"
    /\ \/ Goto(k, "failed") /\ UNCHANGED attempt
       \/ attempt[k] < MaxRetries /\ attempt' = [attempt EXCEPT ![k] = @ + 1] /\ UNCHANGED at
    /\ UNCHANGED <<question, control, capture>>

\* The call fails, for good or to be retried; the arm's cell is cleared and
\* latched either way.
Fail(k) ==
    /\ pc # "done" /\ at[k] = "invoke"
    /\ \/ Goto(k, "failed") /\ UNCHANGED attempt
       \/ attempt[k] < MaxRetries /\ attempt' = [attempt EXCEPT ![k] = @ + 1] /\ UNCHANGED at
    /\ IF mode = "fanout"
       THEN cell' = [cell EXCEPT ![k[1]] = "unset"] /\ latched' = latched \cup {k[1]}
       ELSE UNCHANGED <<cell, latched>>
    /\ UNCHANGED <<question, control, served, from, key>>

-----------------------------------------------------------------------------
\* The command.

Broken(p) == \E q \in Asked : at[<<p, q>>] = "failed"
Served(p) == \A q \in Asked : at[<<p, q>>] \in {"hit", "live"}

ArmOf(p) == [provider |-> p, lists |-> [q \in DOMAIN asked |-> answer[p][asked[q]]]]

Ends(status, grid, by) ==
    /\ result' = [status |-> status, grid |-> grid, by |-> by]
    /\ pc' = IF status = "ok" THEN "hooks" ELSE "done"
    /\ UNCHANGED i

\* Promise.allSettled: an arm with a failed sub-query is dropped with all its
\* others; with no arm left the last one's error is the command's.
JoinArms ==
    /\ pc = "await" /\ mode = "fanout"
    /\ \A p \in Planned : Broken(p) \/ Served(p)
    /\ LET left == Among(plan, {p \in Planned : Served(p)}) IN
       IF left # <<>>
       THEN Ends("ok", [a \in DOMAIN left |-> ArmOf(left[a])], None)
       ELSE Ends("failed", <<>>, Last(plan))
    /\ UNCHANGED <<question, entry, at, attempt, capture>>

CandidateServes ==
    /\ pc = "await" /\ mode = "single"
    /\ Served(plan[i])
    /\ Ends("ok", <<ArmOf(plan[i])>>, plan[i])
    /\ UNCHANGED <<question, entry, at, attempt, capture>>

\* The first failed sub-query fails the candidate: validation and unknown
\* errors end the command, the others go on to the next one.
CandidateFails ==
    /\ pc = "await" /\ mode = "single"
    /\ \E q \in Asked :
         /\ at[<<plan[i], q>>] = "failed"
         /\ \/ Ends("failed", <<>>, plan[i])
            \/ /\ <<plan[i], q>> \notin Rejected /\ i < Len(plan)
               /\ i' = i + 1 /\ pc' = "dispatch" /\ UNCHANGED result
    /\ UNCHANGED <<question, entry, at, attempt, capture>>

\* What the journal hook makes of the capture: an all-cache answer is a repeat
\* marker if earlier commands left a full entry under the key, anything else a
\* full entry.  A run that identified nothing has no key and is not journaled.
AllFromCache ==
    IF mode = "fanout" THEN \A p \in Planned : cell[p] = "cache" ELSE from = "cache"

JournalHook ==
    /\ pc = "hooks" /\ pc' = "done"
    /\ \E kind \in IF AllFromCache THEN {"marker", "full"} ELSE {"full"} :
         entry' = [kind |-> kind, served |-> served, from |-> from]
    /\ UNCHANGED <<question, i, result, at, attempt, capture>>

Operation(k) == Look(k) \/ Resolve(k) \/ Store(k) \/ Fail(k)
Command == Dispatch \/ JoinArms \/ CandidateServes \/ CandidateFails \/ JournalHook
Next == Command \/ \E k \in Key : Operation(k)

Spec == Init /\ [][Next]_vars

-----------------------------------------------------------------------------
\* A repeat marker has no skeleton.  So a run that a provider served live, in
\* whole or in part, is never journaled as one, or what it found would be lost;
\* and neither is a fan-out that lost an arm, "a repeat marker for an INCOMPLETE
\* combined result" (index.ts:5406), unless what the arm lost was a sub-query
\* its validation refused while another one was accepted.
RepeatsAreRepeats ==
    entry.kind = "marker" =>
        /\ \A a \in DOMAIN result.grid, q \in Asked : at[<<result.grid[a].provider, q>>] = "hit"
        /\ mode = "fanout" =>
             \A p \in Planned : Served(p) \/ \E q \in Asked : <<p, q>> \in Rejected

\* The entry names the provider that served the command, and says "cache" only
\* if all of it came from there, however many candidates failed before; except
\* where sub-queries of a candidate that failed may still be under way.
TheServerIsNamed ==
    entry.kind # "none" /\ mode = "single" /\ (Len(asked) = 1 \/ i = 1) =>
        /\ entry.served = result.by
        /\ entry.from = IF \A q \in Asked : at[<<result.by, q>>] = "hit" THEN "cache" ELSE "live"

\* The fused list, mergeResults' result, accounts for every hit of the providers
\* that served.
ListAccountsForTheGrid ==
    pc = "hooks" => Accounts(mergeResults(result.grid), result.grid)
=============================================================================
