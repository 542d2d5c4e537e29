--------------------------- MODULE ScienceCommand ---------------------------
(***************************************************************************)
(* Science commands of one user, one after another, that ask the same      *)
(* thing: handleScience (commands/science.ts).  A search fans out over the *)
(* suppliers; one that has a single arm walks on to the next supplier when *)
(* it fails, and so does a get.  Ctrl-C may come at any await.  Between    *)
(* the commands the response cache keeps the suppliers' answers and the    *)
(* journal keeps what was shown, until the history is cleared.             *)
(***************************************************************************)
EXTENDS FiniteSets, SequencesExt, Lists

CONSTANTS
    Supplier,
    ArmOrder,    \* D5_ARM_ORDER: the suppliers in order
    ScienceRetries,
    MaxArms      \* bound on the arms of all commands together

ASSUME SupplierAssumption ==
    /\ ArmOrder \in Seq(Supplier) /\ ToSet(ArmOrder) = Supplier /\ IsInjective(ArmOrder)
    /\ ScienceRetries \in Nat /\ MaxArms \in Nat

VARIABLES
    ask,          \* what the command is to do
    arms,         \* the arms of the commands so far
    phase,
    place,        \* a walk's place in its plan
    step, tries,  \* where each supplier's attempt is, and its retries
    why,          \* an attempt that failed: of its own or by the cancel
    aborted,      \* controller.signal.aborted
    named,        \* suppliers that stderr names as failed
    shown,        \* what it ended with; late: the caller had cancelled by then
    cached,       \* suppliers whose answer is in the response cache
    log,          \* full entries of the journal
    unjournaled   \* ghost: cached answers of commands that were not to journal, or
                  \* died, or whose entries a clear has dropped since

kept == <<ask, arms>>
stores == <<cached, log, unjournaled>>
scienceVars == <<kept, phase, place, step, tries, why, aborted, named, shown, stores>>

Ordered(S) == Among(ArmOrder, S)
InPlan == ToSet(ask.way.plan)

ScienceTypeOK ==
    /\ ask.verb \in {"search", "get"} /\ arms \in 0..MaxArms
    /\ ask.way.mode \in {"fanout", "walk", "get"} /\ InPlan \subseteq Supplier
    /\ phase \in {"run", "hooks", "done"}
    /\ place \in 1..Cardinality(Supplier)
    /\ step \in [Supplier -> {"idle", "look", "call", "backoff", "store", "hit", "live", "failed"}]
    /\ tries \in [Supplier -> 0..ScienceRetries]
    /\ why \in [Supplier -> {"none", "own", "cancel"}]
    /\ aborted \in BOOLEAN
    /\ named \subseteq Supplier
    /\ shown \in [status : {"none", "ok", "failed", "aborted", "dead"}, arms : SUBSET Supplier,
                   late : BOOLEAN]
    /\ cached \subseteq Supplier /\ unjournaled \subseteq Supplier
    /\ log \subseteq [key : Supplier, arms : SUBSET Supplier]

NoResult == [status |-> "none", arms |-> {}, late |-> FALSE]
NoAsk(verb) == [verb |-> verb, way |-> [mode |-> "get", plan |-> <<>>, strict |-> FALSE],
                noCache |-> FALSE, journal |-> TRUE]

ScienceInit ==
    /\ \E verb \in {"search", "get"} : ask = NoAsk(verb)
    /\ arms = 0
    /\ phase = "done" /\ place = 1
    /\ step = [s \in Supplier |-> "idle"]
    /\ tries = [s \in Supplier |-> 0]
    /\ why = [s \in Supplier |-> "none"]
    /\ aborted = FALSE /\ named = {} /\ shown = NoResult
    /\ cached = {} /\ log = {} /\ unjournaled = {}

-----------------------------------------------------------------------------
\* A pinned supplier, and the others that a walk may go on to.
PinFirst(s, S) == <<s>> \o Ordered(S \ {s})

\* The command and its arms: resolveScienceArms narrows the suppliers to those
\* that accept the request, or to a pin.  A search with one arm and the fallback
\* on is a walk that may go on to whoever else accepts; a get walks its suppliers
\* in order, and no further than the first without the fallback.
Plans(verb) ==
    LET narrowed == {Ordered(S) : S \in (SUBSET Supplier) \ {{}}} IN
    IF verb = "get"
    THEN {[mode |-> "get", plan |-> p, strict |-> b] : p \in narrowed, b \in BOOLEAN}
    ELSE {[mode |-> "fanout", plan |-> p, strict |-> FALSE] : p \in narrowed} \cup
         {[mode |-> "walk", plan |-> PinFirst(s, S), strict |-> FALSE] :
            s \in Supplier, S \in SUBSET Supplier}

\* By the next command some answers have expired or were pruned.
Start ==
    /\ phase = "done" /\ arms < MaxArms
    /\ \E way \in Plans(ask.verb), noCache, journal \in BOOLEAN :
         /\ arms' = arms + Len(way.plan) /\ arms' <= MaxArms
         /\ ask' = [verb |-> ask.verb, way |-> way, noCache |-> noCache, journal |-> journal]
         /\ step' = [s \in Supplier |->
                     IF s \in (IF way.mode = "fanout" THEN ToSet(way.plan) ELSE {Head(way.plan)})
                     THEN "look" ELSE "idle"]
    /\ phase' = "run" /\ place' = 1
    /\ tries' = [s \in Supplier |-> 0]
    /\ why' = [s \in Supplier |-> "none"]
    /\ aborted' = FALSE /\ named' = {} /\ shown' = NoResult
    /\ \E S \in SUBSET cached : cached' = S /\ unjournaled' = unjournaled \cap S
    /\ UNCHANGED log

\* Ctrl-C, at any await.
Cancel ==
    /\ phase # "done" /\ ~aborted /\ aborted' = TRUE
    /\ UNCHANGED <<kept, phase, place, step, tries, why, named, shown, stores>>

End(status, who) ==
    /\ shown' = [status |-> status, arms |-> who, late |-> aborted]
    /\ phase' = IF status = "ok" /\ ask.journal THEN "hooks" ELSE "done"

-----------------------------------------------------------------------------
\* One supplier's attempt.

StepTo(s, l) == step' = [step EXCEPT ![s] = l]
Fails(s, how) == StepTo(s, "failed") /\ why' = [why EXCEPT ![s] = how]
Stays == UNCHANGED <<phase, place, named, shown>>

\* A walk ends with the attempt that serves.  Who was pinned and failed is named.
Serve(s) ==
    /\ End("ok", {s})
    /\ named' = IF ask.way.mode = "walk" /\ place > 1 THEN named \cup {ask.way.plan[1]} ELSE named
    /\ UNCHANGED place

\* The cache is consulted; a cancelled caller gets no warm result.
Hit(s) ==
    /\ phase = "run" /\ step[s] = "look" /\ ~ask.noCache /\ s \in cached
    /\ IF aborted
       THEN Fails(s, "cancel") /\ Stays
       ELSE StepTo(s, "hit") /\ UNCHANGED why /\ IF ask.way.mode = "fanout" THEN Stays ELSE Serve(s)
    /\ UNCHANGED <<kept, tries, aborted, stores>>

\* The executor calls unless the signal is aborted.
Miss(s) ==
    /\ phase = "run" /\ step[s] = "look" /\ (ask.noCache \/ s \notin cached)
    /\ IF aborted THEN Fails(s, "cancel") ELSE StepTo(s, "call") /\ UNCHANGED why
    /\ Stays /\ UNCHANGED <<kept, tries, aborted, stores>>

\* The supplier answers, also to a caller that has gone.
Answer(s) ==
    /\ phase = "run" /\ step[s] = "call"
    /\ StepTo(s, "store")
    /\ Stays /\ UNCHANGED <<kept, tries, why, aborted, stores>>

\* The call fails of its own, or because of the signal, or is tried again.
CallFails(s) ==
    /\ phase = "run" /\ step[s] = "call"
    /\ \/ Fails(s, "own")
       \/ aborted /\ Fails(s, "cancel")
       \/ ~aborted /\ tries[s] < ScienceRetries /\ StepTo(s, "backoff") /\ UNCHANGED why
    /\ Stays /\ UNCHANGED <<kept, tries, aborted, stores>>

\* An abort cuts the backoff short; one that comes as it ends rethrows the
\* call's own error.
Wake(s) ==
    /\ phase = "run" /\ step[s] = "backoff"
    /\ IF aborted
       THEN (Fails(s, "cancel") \/ Fails(s, "own")) /\ UNCHANGED tries
       ELSE /\ StepTo(s, "call") /\ UNCHANGED why
            /\ tries' = [tries EXCEPT ![s] = @ + 1]
    /\ Stays /\ UNCHANGED <<kept, aborted, stores>>

\* The answer is put into the cache and returned.
StoreAnswer(s) ==
    /\ phase = "run" /\ step[s] = "store"
    /\ StepTo(s, "live")
    /\ IF ask.noCache THEN UNCHANGED <<cached, unjournaled>>
       ELSE /\ cached' = cached \cup {s}
            /\ unjournaled' = IF ask.journal THEN unjournaled \ {s} ELSE unjournaled \cup {s}
    /\ IF ask.way.mode = "fanout" THEN Stays ELSE Serve(s)
    /\ UNCHANGED <<kept, tries, why, aborted, log>>

-----------------------------------------------------------------------------
\* The fan-out joins its arms when all have settled.

Surviving == {s \in Supplier : step[s] \in {"hit", "live"}}
Settled == \A s \in InPlan : step[s] \in {"hit", "live", "failed"}

\* Mutant: no second look at the signal once the arms have settled.
JoinOnce ==
    /\ phase = "run" /\ ask.way.mode = "fanout" /\ Settled
    /\ IF Surviving = {} THEN End(IF aborted THEN "aborted" ELSE "failed", {}) /\ UNCHANGED named
       ELSE End("ok", Surviving) /\ named' = {s \in InPlan : why[s] = "own"}
    /\ UNCHANGED <<kept, place, step, tries, why, aborted, stores>>

\* What nobody fetched live is not given to a caller that has cancelled.  One
\* arm is enough to succeed, and the others are named unless the cancel ended
\* them.
Join ==
    /\ phase = "run" /\ ask.way.mode = "fanout" /\ Settled
    /\ IF aborted /\ \A s \in Surviving : step[s] = "hit" THEN End("aborted", {}) /\ UNCHANGED named
       ELSE IF Surviving = {} THEN End("failed", {}) /\ UNCHANGED named
       ELSE End("ok", Surviving) /\ named' = {s \in InPlan : why[s] = "own"}
    /\ UNCHANGED <<kept, place, step, tries, why, aborted, stores>>

\* A walk goes on to the next supplier unless the caller has cancelled; a get
\* only with the fallback.  A search names those after its pin as they are
\* dropped, a get each that it goes on from.
WalkOn ==
    /\ phase = "run" /\ ask.way.mode # "fanout" /\ step[ask.way.plan[place]] = "failed"
    /\ LET last == place = Len(ask.way.plan) \/ ask.way.strict IN
       IF aborted THEN End("aborted", {}) /\ UNCHANGED <<place, step, named>>
       ELSE /\ named' = IF IF ask.way.mode = "get" THEN ~last ELSE place > 1
                        THEN named \cup {ask.way.plan[place]} ELSE named
            /\ IF last
               THEN End("failed", {}) /\ UNCHANGED <<place, step>>
               ELSE place' = place + 1 /\ StepTo(ask.way.plan[place + 1], "look") /\ UNCHANGED <<phase, shown>>
    /\ UNCHANGED <<kept, tries, why, aborted, stores>>

-----------------------------------------------------------------------------
\* The journal hook.

\* Mutant: one arm from the cache makes a warm run.
FromCacheInPart == \E s \in InPlan : step[s] = "hit"

\* A fan-out is warm when each of its arms came from the cache, anything else
\* when what served it did.
FromCache ==
    IF ask.way.mode = "fanout" THEN \A s \in InPlan : step[s] = "hit"
    ELSE \A s \in shown.arms : step[s] = "hit"

\* The key is that of the first surviving arm.  A warm run whose key a full
\* entry has is a repeat marker; everything else is a full entry.
JournalKey == ask.way.plan[CHOOSE n \in DOMAIN ask.way.plan :
                          /\ ask.way.plan[n] \in shown.arms
                          /\ \A m \in 1..(n - 1) : ask.way.plan[m] \notin shown.arms]

ScienceHook ==
    /\ phase = "hooks" /\ phase' = "done"
    /\ IF FromCache /\ \E e \in log : e.key = JournalKey THEN UNCHANGED <<log, unjournaled>>
       ELSE /\ log' = log \cup {[key |-> JournalKey, arms |-> shown.arms]}
            /\ unjournaled' = IF ask.noCache THEN unjournaled ELSE unjournaled \ shown.arms
    /\ UNCHANGED <<kept, place, step, tries, why, aborted, named, shown, cached>>

\* At any time history clear removes the journal's entries, or an append finds
\* the log unreadable and starts from an empty one; the response cache stays.
ClearHistory ==
    /\ log # {} /\ log' = {}
    /\ unjournaled' = unjournaled \cup cached \cup (IF phase = "done" THEN shown.arms ELSE {})
    /\ UNCHANGED <<kept, phase, place, step, tries, why, aborted, named, shown, cached>>

\* The process dies, or the append to the journal fails.
Die ==
    /\ phase # "done" /\ phase' = "done"
    /\ shown' = [shown EXCEPT !.status = "dead"]
    /\ unjournaled' = unjournaled \cup {s \in cached : step[s] = "live"}
    /\ UNCHANGED <<kept, place, step, tries, why, aborted, named, cached, log>>

Attempt(s) == Hit(s) \/ Miss(s) \/ Answer(s) \/ CallFails(s) \/ Wake(s) \/ StoreAnswer(s)
ScienceNext == \/ Start \/ Cancel \/ Join \/ WalkOn \/ ScienceHook \/ ClearHistory \/ Die
               \/ \E s \in Supplier : Attempt(s)

ScienceSpec == ScienceInit /\ [][ScienceNext]_scienceVars

-----------------------------------------------------------------------------
\* "A cancelled caller never receives results no live work produced"
\* (science.ts:1320), in whatever order the cancel, the cache and the arms come.
ACancelIsHonoured ==
    phase = "done" /\ shown.late =>
        \/ shown.status \in {"aborted", "dead"}
        \/ \E s \in shown.arms : step[s] = "live"

\* A command that succeeds has named on stderr the suppliers that failed it, and
\* not those that only the cancel stopped.
FailuresAreDisclosed ==
    phase = "done" /\ shown.status = "ok" => named = {s \in InPlan : why[s] = "own"}

\* The command tells its caller how it went.
EndsHonestly == ACancelIsHonoured /\ FailuresAreDisclosed

\* What a command showed is in a full entry of the journal, of this run or of an
\* earlier one, also when this run is a repeat marker; except for cached answers
\* of a run that was not to journal or died, and for those from before the
\* history was cleared that no full entry has taken up since.
WhatWasShownIsJournaled ==
    phase = "done" /\ shown.status = "ok" /\ ask.journal =>
        shown.arms \subseteq (UNION {e.arms : e \in log}) \cup unjournaled
=============================================================================
