------------------------------ MODULE BatchRunner ------------------------------
(***************************************************************************)
(* runBatch of lib/batch-runner.ts: the operations of a manifest, run by a *)
(* pool of workers in one event loop.  What lies between two awaits of the *)
(* code is one step.  An operation's handler ends with exit code 0, with   *)
(* output or silently, or fails (a throw is turned into a failure); the    *)
(* output of a success goes to the file the operation declares, through a  *)
(* temporary file of its own.                                              *)
(***************************************************************************)
EXTENDS Integers

CONSTANTS
    Total,       \* the number of operations in the manifest
    Concurrency, \* the size of the pool
    NotYet

Operation == 1..Total

Outcome == {"ok", "silent", "failed"}
Record == {"ok", "failed", "notRun"}
Envelope == [results : [Operation -> Record], failFast : BOOLEAN]

ASSUME BatchAssumption ==
    /\ Total \in Nat
    /\ Concurrency \in Nat \ {0}
    /\ NotYet \notin Outcome \cup Record \cup Envelope

WorkerCount == IF Concurrency <= Total THEN Concurrency ELSE Total
Worker == 1..WorkerCount

VARIABLES
    failFast,       \* --fail-fast; fixed
    declares,       \* the operations that declare an output file; fixed
    nextIndex, stopScheduling, failFastTriggered,
    stage, index,   \* where each worker is, and its operation
    outcome,        \* how the worker's operation ended
    records,        \* the record of each operation
    writeErrors,    \* operations whose record has an outputWriteError
    target,         \* what each declared output file holds
    temps,          \* operations whose temporary file exists
    envelope,       \* the summary, once it is written
    started,        \* ghost: how often each operation's handler was called
    ended           \* ghost: how its handler ended

options == <<failFast, declares>>
pool == <<nextIndex, stopScheduling, failFastTriggered, records, envelope>>
files == <<writeErrors, target, temps>>
batchVars == <<options, pool, stage, index, outcome, files, started, ended>>

BatchTypeOK ==
    /\ failFast \in BOOLEAN
    /\ declares \subseteq Operation
    /\ nextIndex \in Nat \ {0}
    /\ stopScheduling \in BOOLEAN
    /\ failFastTriggered \in BOOLEAN
    /\ stage \in [Worker -> {"run", "temp", "rename", "cleanup", "settle", "done"}]
    /\ index \in [Worker -> Operation \cup {0}]
    /\ \A w \in Worker : index[w] = 0 <=> stage[w] = "done"
    /\ outcome \in [Worker -> Outcome \cup {NotYet}]
    /\ records \in [Operation -> Record \cup {NotYet}]
    /\ writeErrors \subseteq declares
    /\ target \in [Operation -> {"old", "output"}]
    /\ temps \subseteq declares
    /\ envelope \in Envelope \cup {NotYet}
    /\ started \in [Operation -> Nat]
    /\ ended \in [Operation -> Outcome \cup {NotYet}]

\* The pool has been created: every worker has claimed its first operation and
\* called its handler before anything is awaited.
BatchInit ==
    /\ failFast \in BOOLEAN
    /\ declares \in SUBSET Operation
    /\ nextIndex = WorkerCount + 1
    /\ stopScheduling = FALSE
    /\ failFastTriggered = FALSE
    /\ stage = [w \in Worker |-> "run"]
    /\ index = [w \in Worker |-> w]
    /\ outcome = [w \in Worker |-> NotYet]
    /\ records = [o \in Operation |-> NotYet]
    /\ writeErrors = {}
    /\ target = [o \in Operation |-> "old"]
    /\ temps = {}
    /\ envelope = NotYet
    /\ started = [o \in Operation |-> IF o \in Worker THEN 1 ELSE 0]
    /\ ended = [o \in Operation |-> NotYet]

-----------------------------------------------------------------------------
MoveTo(w, l) == stage' = [stage EXCEPT ![w] = l]

Advance(n) == n + 1

\* The head of the worker's loop: a free worker claims the next operation and
\* calls its handler; with scheduling stopped or nothing left it ends.
Claim(w, stopped) ==
    /\ nextIndex' = IF stopped THEN nextIndex ELSE Advance(nextIndex)
    /\ IF stopped \/ nextIndex > Total
       THEN /\ MoveTo(w, "done")
            /\ index' = [index EXCEPT ![w] = 0]
            /\ UNCHANGED started
       ELSE /\ MoveTo(w, "run")
            /\ index' = [index EXCEPT ![w] = nextIndex]
            /\ started' = [started EXCEPT ![nextIndex] = @ + 1]

\* A success that declares a file and has output is written to it.
Writes(o, result) == o \in declares /\ result = "ok"

\* A silent success is an error of the file it declares.
SilentError(o, result) == IF result = "silent" /\ o \in declares THEN {o} ELSE {}

\* The handler ends.
HandlerEnds(w) ==
    /\ stage[w] = "run"
    /\ \E result \in Outcome :
         /\ outcome' = [outcome EXCEPT ![w] = result]
         /\ ended' = [ended EXCEPT ![index[w]] = result]
         /\ MoveTo(w, IF Writes(index[w], result) THEN "temp" ELSE "settle")
         /\ writeErrors' = writeErrors \cup SilentError(index[w], result)
    /\ UNCHANGED <<options, pool, index, target, temps, started>>

\* writeCapturedOutput: the temporary file is written (perhaps in part),
WriteTemp(w) ==
    /\ stage[w] = "temp"
    /\ \/ MoveTo(w, "rename") /\ temps' = temps \cup {index[w]}
       \/ MoveTo(w, "cleanup") /\ temps' \in {temps, temps \cup {index[w]}}
    /\ UNCHANGED <<options, pool, index, outcome, writeErrors, target, started, ended>>

\* Mutant: a failed rename is tried again for ever.
RenameRetries(w) ==
    /\ stage[w] = "rename"
    /\ \/ /\ MoveTo(w, "settle")
          /\ temps' = temps \ {index[w]}
          /\ target' = [target EXCEPT ![index[w]] = "output"]
       \/ MoveTo(w, "temp") /\ UNCHANGED <<temps, target>>
    /\ UNCHANGED <<options, pool, index, outcome, writeErrors, started, ended>>

\* and renamed over the target;
Rename(w) ==
    /\ stage[w] = "rename"
    /\ \/ /\ MoveTo(w, "settle")
          /\ temps' = temps \ {index[w]}
          /\ target' = [target EXCEPT ![index[w]] = "output"]
       \/ MoveTo(w, "cleanup") /\ UNCHANGED <<temps, target>>
    /\ UNCHANGED <<options, pool, index, outcome, writeErrors, started, ended>>

\* Mutant: the error is swallowed with the cleanup.
CleanupForgetsError(w) ==
    /\ stage[w] = "cleanup"
    /\ temps' \in {temps, temps \ {index[w]}}
    /\ MoveTo(w, "settle")
    /\ UNCHANGED <<options, pool, index, outcome, writeErrors, target, started, ended>>

\* when either fails the temporary file is removed, as far as that works, and
\* the error is recorded.
Cleanup(w) ==
    /\ stage[w] = "cleanup"
    /\ temps' \in {temps, temps \ {index[w]}}
    /\ writeErrors' = writeErrors \cup {index[w]}
    /\ MoveTo(w, "settle")
    /\ UNCHANGED <<options, pool, index, outcome, target, started, ended>>

\* Mutant: scheduling goes on after a failure.
StopsNever(result) == FALSE

Stops(result) == failFast /\ result = "failed"

\* The record is stored, a failure stops the scheduling under --fail-fast, and
\* the worker goes on to its next operation, all in one turn.
Settle(w) ==
    /\ stage[w] = "settle"
    /\ records' = [records EXCEPT ![index[w]] = IF outcome[w] = "failed" THEN "failed" ELSE "ok"]
    /\ stopScheduling' = (stopScheduling \/ Stops(outcome[w]))
    /\ failFastTriggered' = (failFastTriggered \/ Stops(outcome[w]))
    /\ Claim(w, stopScheduling')
    /\ outcome' = [outcome EXCEPT ![w] = NotYet]
    /\ UNCHANGED <<options, envelope, files, ended>>

Backfilled(o) == IF records[o] = NotYet THEN "notRun" ELSE records[o]

\* Every worker has ended: what never ran is filled in, and the summary is
\* written.
Summarise ==
    /\ envelope = NotYet
    /\ \A w \in Worker : stage[w] = "done"
    /\ records' = [o \in Operation |-> Backfilled(o)]
    /\ envelope' = [results |-> records', failFast |-> failFastTriggered]
    /\ UNCHANGED <<options, nextIndex, stopScheduling, failFastTriggered, stage, index, outcome,
                   files, started, ended>>

Step(w) ==
    HandlerEnds(w) \/ WriteTemp(w) \/ Rename(w) \/ Cleanup(w) \/ Settle(w)

BatchNext == Summarise \/ \E w \in Worker : Step(w)

\* The event loop runs what is ready, and every handler ends.
BatchFairness == WF_batchVars(Summarise) /\ \A w \in Worker : WF_batchVars(Step(w))

BatchSpec == BatchInit /\ [][BatchNext]_batchVars
BatchFairSpec == BatchSpec /\ BatchFairness

-----------------------------------------------------------------------------
\* No two workers have the same operation, and no handler is called twice.
EachOperationOnce ==
    /\ \A o \in Operation : started[o] <= 1
    /\ \A v, w \in Worker : v # w /\ index[v] = index[w] => index[v] = 0

\* The summary tells how each handler ended, and says "not run" of exactly the
\* operations whose handler was never called: only under --fail-fast, after a
\* failure, and then a tail of the manifest.
SummaryTellsTheRun ==
    envelope # NotYet => \A o \in Operation :
        /\ envelope.results[o] = IF started[o] = 0 THEN "notRun"
                                 ELSE IF ended[o] = "failed" THEN "failed" ELSE "ok"
        /\ started[o] = 0 =>
             /\ envelope.failFast
             /\ \E p \in Operation : p < o /\ ended[p] = "failed"
             /\ \A p \in Operation : p > o => started[p] = 0

\* Once a failure is recorded under --fail-fast no handler is called any more.
FailFastDrains ==
    [][failFast /\ (\E o \in Operation : records[o] = "failed") => UNCHANGED started]_batchVars

\* An output file changes for a success with output only, and the summary has
\* an error for each success whose file was not written.
OutputOrError ==
    /\ \A o \in Operation : target[o] = "output" => o \in declares /\ ended[o] = "ok"
    /\ envelope # NotYet => \A o \in declares :
         ended[o] \in {"ok", "silent"} => (target[o] = "output" <=> o \notin writeErrors)

\* Whatever fails, the summary and the files together account for every
\* operation of the manifest.
EveryOperationAccounted == SummaryTellsTheRun /\ OutputOrError

\* The batch ends with its summary, whatever fails.
BatchEnds == <>(envelope # NotYet)
=============================================================================
