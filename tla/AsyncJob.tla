------------------------------ MODULE AsyncJob ------------------------------
(***************************************************************************)
(* The paid server-side jobs of the research and crawl adapters: create a  *)
(* task with one POST, persist its id in a state file, poll it, and resume *)
(* it after a crash instead of paying for a second one.  All clients here  *)
(* ask for the same thing with the same key, so they share one identity    *)
(* hash: one state file, one create-lock.                                  *)
(*                                                                         *)
(* The five adapters (tavily, linkup, parallel, exa research; firecrawl    *)
(* crawl) share this shape and differ in what they lock and guard, which   *)
(* the operators under "What the adapters differ in" name.  The lock is    *)
(* the one AsyncFileLock specifies, for holders that are not displaced.    *)
(***************************************************************************)
EXTENDS Naturals

CONSTANTS
    Client,    \* CLI processes; one that ends may start the same request again
    Task,      \* task ids the server can give out: bounds the POSTs of a run
    None,
    ReadErrors, \* whether reading the state file can fail with an I/O error
    Providers  \* the adapters to check, among those below

Orphan == "orphan"

ASSUME ConstantsAssumption ==
    /\ None \notin Client \cup Task \cup [task : Task, whole : BOOLEAN]
    /\ Orphan \notin Client
    /\ ReadErrors \in BOOLEAN
    /\ Providers \subseteq {"tavily", "linkup", "parallel", "exa", "firecrawl"}

VARIABLES
    provider,    \* which adapter the clients run; fixed
    pc,          \* where each client is in invoke()
    job,         \* the task id each client works with
    recreated,   \* clients that have used their recreation after a 404
    dropping,    \* clients that read an unparsable state file and will unlink it
    stateFile,   \* None, or whose id it holds and whether its content is written
    lock,        \* None, the holder, or "orphan" after the holder died
    server,      \* what the server knows of each task
    unrecorded,  \* ghost: tasks whose id never reached the state file, was unlinked
                 \* there as garbage, or could not be read there under the lock
    posts        \* ghost: POSTs of each client's current invocation

vars == <<provider, pc, job, recreated, dropping, stateFile, lock, server, unrecorded, posts>>

Location == {"idle", "read", "lock", "reread", "list", "create", "persist", "write",
             "readExist", "poll", "collect", "remove", "cleanup", "guard", "removeGone"}

TypeOK ==
    /\ provider \in Providers
    /\ pc \in [Client -> Location]
    /\ job \in [Client -> Task \cup {None}]
    /\ recreated \subseteq Client
    /\ dropping \subseteq {c \in Client : pc[c] \in {"read", "reread", "readExist"}}
    /\ stateFile \in [task : Task, whole : BOOLEAN] \cup {None}
    /\ lock \in Client \cup {None, Orphan}
    /\ server \in [Task -> {"unused", "active", "aged", "completed", "failed", "gone"}]
    /\ unrecorded \subseteq Task
    /\ posts \in [Client -> Nat]

Init ==
    /\ provider \in Providers
    /\ pc = [c \in Client |-> "idle"]
    /\ job = [c \in Client |-> None]
    /\ recreated = {}
    /\ dropping = {}
    /\ stateFile = None
    /\ lock = None
    /\ server = [t \in Task |-> "unused"]
    /\ unrecorded = {}
    /\ posts = [c \in Client |-> 0]

-----------------------------------------------------------------------------
\* What the adapters differ in.

\* Where a client that found no state file goes.
AfterMiss == IF provider = "exa" THEN "create" ELSE "lock"

\* Mutant: the state file is not read again under the lock.
UnderLockNoReread == IF provider = "firecrawl" THEN "list" ELSE "create"

\* What it does first under the lock.
UnderLock == IF provider = "firecrawl" THEN "list" ELSE "reread"

\* Where the first 404 of an invocation leads.
AfterGone == IF provider \in {"tavily", "linkup"} THEN "lock" ELSE "removeGone"

\* Mutant: a crawl is recreated without a look at the active list.
AfterRemoveGoneNoReclaim == "create"

\* Where it goes once the state file is removed.
AfterRemoveGone == IF provider = "firecrawl" THEN "lock" ELSE "create"

\* Mutant: another adapter forgets to count its recreations.
RecreatesAlwaysUncounted == provider \in {"exa", "parallel"}

\* Who recreates after every 404, not only after the first.
RecreatesAlways == provider = "exa"

\* A second 404 ends the invocation, in firecrawl without touching the state.
AfterSecondGone == IF provider = "tavily" THEN "cleanup"
                   ELSE IF provider = "firecrawl" THEN "idle" ELSE "remove"

\* How a terminal status is cleaned up.
AfterTerminal == IF provider = "tavily" THEN "cleanup" ELSE "remove"
AfterCompleted == IF provider = "firecrawl" THEN "collect" ELSE AfterTerminal

\* Who keeps polling a task whose id could not be written.
KeepsUnwrittenTask == provider \in {"parallel", "linkup"}

-----------------------------------------------------------------------------
Running(t) == server[t] \in {"active", "aged"}

Whole == stateFile # None /\ stateFile.whole
Torn == stateFile # None /\ ~stateFile.whole

Goto(c, l) == pc' = [pc EXCEPT ![c] = l]

\* Leaving the locked section: the lock is released on the way to l.
Unlock(c) == lock' = IF lock = c THEN None ELSE lock

\* The invocation is over: it returned, threw, or its process exited.
Done(c) ==
    /\ Goto(c, "idle")
    /\ job' = [job EXCEPT ![c] = None]
    /\ recreated' = recreated \ {c}
    /\ dropping' = dropping \ {c}
    /\ posts' = [posts EXCEPT ![c] = 0]

Invoke(c) ==
    /\ pc[c] = "idle"
    /\ Goto(c, "read")
    /\ UNCHANGED <<provider, job, recreated, dropping, stateFile, lock, server, unrecorded, posts>>

\* The state file's read(): the id it holds is adopted (but not the one just
\* found gone, which is removed for a fresh task); without one the client goes
\* on alone.
Adopt(c) ==
    /\ Whole /\ stateFile.task # job[c]
    /\ job' = [job EXCEPT ![c] = stateFile.task]
    /\ Goto(c, "poll")
    /\ Unlock(c)
    /\ UNCHANGED <<dropping, stateFile, unrecorded>>

OwnRecord(c) ==
    /\ Whole /\ stateFile.task = job[c]
    /\ IF pc[c] = "reread"
       THEN Goto(c, "create") /\ stateFile' = None /\ UNCHANGED lock
       ELSE Goto(c, "poll") /\ Unlock(c) /\ UNCHANGED stateFile
    /\ UNCHANGED <<job, dropping, unrecorded>>

NoRecord(c) ==
    /\ \/ pc[c] = "read" /\ Goto(c, AfterMiss) /\ UNCHANGED lock
       \/ pc[c] = "reread" /\ Goto(c, "create") /\ UNCHANGED lock
       \/ pc[c] = "readExist" /\ Goto(c, "poll") /\ Unlock(c)
    /\ UNCHANGED job

\* Content that does not parse: the file is unlinked by a later call.
Unparsable(c) ==
    /\ Torn
    /\ dropping' = dropping \cup {c}
    /\ UNCHANGED <<pc, job, stateFile, lock, unrecorded>>

ReadState(c) ==
    /\ pc[c] \in {"read", "reread", "readExist"}
    /\ c \notin dropping
    /\ \/ Adopt(c)
       \/ OwnRecord(c)
       \/ stateFile = None /\ NoRecord(c) /\ UNCHANGED <<dropping, stateFile, unrecorded>>
       \/ Unparsable(c)
    /\ UNCHANGED <<provider, recreated, server, posts>>

\* The unlink removes what is there by now, written or not.
DropState(c) ==
    /\ c \in dropping
    /\ dropping' = dropping \ {c}
    /\ stateFile' = None
    /\ unrecorded' = IF stateFile = None THEN unrecorded ELSE unrecorded \cup {stateFile.task}
    /\ NoRecord(c)
    /\ UNCHANGED <<provider, recreated, server, posts>>

\* An I/O error of the read is taken for an absent file; under the lock, after
\* a 404, the unread record is removed all the same.
ReadFails(c) ==
    /\ ReadErrors
    /\ pc[c] \in {"read", "reread", "readExist"}
    /\ c \notin dropping
    /\ stateFile # None
    /\ NoRecord(c)
    /\ unrecorded' = IF pc[c] = "reread" THEN unrecorded \cup {stateFile.task} ELSE unrecorded
    /\ stateFile' = IF pc[c] = "reread" /\ job[c] # None THEN None ELSE stateFile
    /\ UNCHANGED <<provider, recreated, dropping, server, posts>>

\* The create-lock, for creation or for tavily's guarded cleanup.
AcquireLock(c) ==
    /\ lock = None
    /\ lock' = c
    /\ \/ pc[c] = "lock" /\ Goto(c, UnderLock)
       \/ pc[c] = "cleanup" /\ Goto(c, "guard")
    /\ UNCHANGED <<provider, job, recreated, dropping, stateFile, server, unrecorded, posts>>

\* LockTimeoutError: the invocation fails; a cleanup gives up silently.
LockTimeout(c) ==
    /\ pc[c] \in {"lock", "cleanup"}
    /\ Done(c)
    /\ UNCHANGED <<provider, stateFile, lock, server, unrecorded>>

\* A lock left by a dead holder is broken once it is stale.
BreakStaleLock ==
    /\ lock = Orphan
    /\ lock' = None
    /\ UNCHANGED <<provider, pc, job, recreated, dropping, stateFile, server, unrecorded, posts>>

\* Firecrawl: a matching job on the server's list of active ones, not older
\* than a day, is adopted in place of a POST.
ListActive(c) ==
    /\ pc[c] = "list"
    /\ \/ \E t \in Task : /\ server[t] = "active"
                          /\ job' = [job EXCEPT ![c] = t]
                          /\ Goto(c, "persist")
       \/ /\ \A t \in Task : server[t] # "active"
          /\ Goto(c, "create") /\ UNCHANGED job
    /\ UNCHANGED <<provider, recreated, dropping, stateFile, lock, server, unrecorded, posts>>

\* The POST.  The server charges for the task whether or not its answer
\* arrives; a rejected or unanswered POST is not retried.
Create(c) ==
    /\ pc[c] = "create"
    /\ \E t \in Task :
         /\ server[t] = "unused"
         /\ server' = [server EXCEPT ![t] = "active"]
         /\ \/ /\ Goto(c, "persist")
               /\ job' = [job EXCEPT ![c] = t]
               /\ posts' = [posts EXCEPT ![c] = @ + 1]
               /\ UNCHANGED <<recreated, dropping, lock, unrecorded>>
            \/ /\ Done(c) /\ Unlock(c)
               /\ unrecorded' = unrecorded \cup {t}
    /\ UNCHANGED <<provider, stateFile>>

CreateRejected(c) ==
    /\ pc[c] = "create"
    /\ Done(c) /\ Unlock(c)
    /\ UNCHANGED <<provider, stateFile, server, unrecorded>>

\* write() with the wx flag creates an empty file first; EEXIST makes the
\* client look whose it is.
PersistOpen(c) ==
    /\ pc[c] = "persist"
    /\ \/ /\ stateFile = None
          /\ stateFile' = [task |-> job[c], whole |-> FALSE]
          /\ Goto(c, "write")
          /\ UNCHANGED unrecorded
       \/ /\ stateFile # None
          /\ Goto(c, "readExist")
          /\ unrecorded' = unrecorded \cup ({job[c]} \ {stateFile.task})
          /\ UNCHANGED stateFile
    /\ UNCHANGED <<provider, job, recreated, dropping, lock, server, posts>>

\* Then its content, through the open handle: if the name was unlinked in
\* between, the content goes nowhere.
PersistContent(c) ==
    /\ pc[c] = "write"
    /\ IF stateFile # None /\ stateFile.task = job[c]
       THEN stateFile' = [stateFile EXCEPT !.whole = TRUE] /\ UNCHANGED unrecorded
       ELSE unrecorded' = unrecorded \cup {job[c]} /\ UNCHANGED stateFile
    /\ Goto(c, "poll")
    /\ Unlock(c)
    /\ UNCHANGED <<provider, job, recreated, dropping, server, posts>>

\* A write error other than EEXIST: thrown, or swallowed by the adapters that
\* go on polling the task they could not record.
PersistFails(c) ==
    /\ pc[c] \in {"persist", "write"}
    /\ unrecorded' = unrecorded \cup {job[c]}
    /\ Unlock(c)
    /\ IF KeepsUnwrittenTask
       THEN Goto(c, "poll") /\ UNCHANGED <<job, recreated, dropping, posts>>
       ELSE Done(c)
    /\ UNCHANGED <<provider, stateFile, server>>

\* One GET, and what the loop does with each status; a pending one is polled
\* again later.
Poll(c) ==
    /\ pc[c] = "poll"
    /\ \/ server[job[c]] = "completed" /\ Goto(c, AfterCompleted) /\ UNCHANGED recreated
       \/ server[job[c]] = "failed" /\ Goto(c, AfterTerminal) /\ UNCHANGED recreated
       \/ /\ server[job[c]] = "gone"
          /\ c \notin recreated \/ RecreatesAlways
          /\ recreated' = recreated \cup {c}
          /\ Goto(c, AfterGone)
       \/ /\ server[job[c]] = "gone"
          /\ c \in recreated /\ ~RecreatesAlways
          /\ AfterSecondGone # "idle"
          /\ Goto(c, AfterSecondGone) /\ UNCHANGED recreated
    /\ UNCHANGED <<provider, job, dropping, stateFile, lock, server, unrecorded, posts>>

\* The loop ends without a terminal status: an abort, a poll error (after the
\* bounded retries of linkup and exa), firecrawl's second 404 or a failing
\* page collection.  The state file stays for the next run.
PollGivesUp(c) ==
    /\ pc[c] \in {"poll", "collect"}
    /\ Done(c)
    /\ UNCHANGED <<provider, stateFile, lock, server, unrecorded>>

\* Firecrawl collects all pages before it removes the state.
Collect(c) ==
    /\ pc[c] = "collect"
    /\ Goto(c, "remove")
    /\ UNCHANGED <<provider, job, recreated, dropping, stateFile, lock, server, unrecorded, posts>>

\* remove(): unlinks the state file of the identity, whatever task it holds.
\* A failure leaves it; the invocation ends either way.
RemoveState(c) ==
    /\ pc[c] = "remove"
    /\ stateFile' \in {None, stateFile}
    /\ Done(c)
    /\ UNCHANGED <<provider, lock, server, unrecorded>>

\* Mutant: the cleanup removes whatever record is there.
GuardedRemoveAnyTask(c) ==
    /\ pc[c] = "guard"
    /\ stateFile' = None
    /\ Done(c) /\ Unlock(c)
    /\ UNCHANGED <<provider, server, unrecorded>>

\* Tavily's safeRemoveState: under the lock, and only its own task's record.
\* Its read drops a file it cannot parse; its errors are swallowed.
GuardedRemove(c) ==
    /\ pc[c] = "guard"
    /\ \/ stateFile' = IF Torn \/ (Whole /\ stateFile.task = job[c]) THEN None ELSE stateFile
       \/ UNCHANGED stateFile
    /\ Done(c) /\ Unlock(c)
    /\ UNCHANGED <<provider, server, unrecorded>>

\* The removal before a recreation, outside the lock.
RemoveGone(c) ==
    /\ pc[c] = "removeGone"
    /\ stateFile' = None
    /\ Goto(c, AfterRemoveGone)
    /\ UNCHANGED <<provider, job, recreated, dropping, lock, server, unrecorded, posts>>

\* The unlink fails: parallel creates all the same, the others throw.
RemoveGoneFails(c) ==
    /\ \/ pc[c] = "removeGone"
       \/ pc[c] = "reread" /\ c \notin dropping /\ Whole /\ stateFile.task = job[c]
    /\ IF provider = "parallel"
       THEN Goto(c, "create") /\ UNCHANGED <<job, recreated, dropping, lock, posts>>
       ELSE Done(c) /\ Unlock(c)
    /\ UNCHANGED <<provider, stateFile, server, unrecorded>>

\* The process dies: a lock it holds stays until it is stale, and a task it
\* has not recorded yet is never heard of again.
Crash(c) ==
    /\ pc[c] # "idle"
    /\ Done(c)
    /\ lock' = IF lock = c THEN Orphan ELSE lock
    /\ unrecorded' = IF pc[c] \in {"persist", "write"} THEN unrecorded \cup {job[c]} ELSE unrecorded
    /\ UNCHANGED <<provider, stateFile, server>>

\* The server: a task ends, takes more than a day, or is forgotten.
Serve(t) ==
    /\ \/ Running(t) /\ \E s \in {"completed", "failed"} : server' = [server EXCEPT ![t] = s]
       \/ server[t] = "active" /\ server' = [server EXCEPT ![t] = "aged"]
       \/ server[t] \notin {"unused", "gone"} /\ server' = [server EXCEPT ![t] = "gone"]
    /\ UNCHANGED <<provider, pc, job, recreated, dropping, stateFile, lock, unrecorded, posts>>

\* The steps an invocation takes of itself, once it can.
Step(c) ==
    \/ ReadState(c) \/ DropState(c) \/ ReadFails(c) \/ AcquireLock(c) \/ LockTimeout(c) \/ ListActive(c)
    \/ Create(c) \/ CreateRejected(c) \/ PersistOpen(c) \/ PersistContent(c) \/ PersistFails(c)
    \/ Poll(c) \/ Collect(c) \/ RemoveState(c) \/ GuardedRemove(c) \/ RemoveGone(c)
    \/ RemoveGoneFails(c)

Next ==
    \/ BreakStaleLock
    \/ \E t \in Task : Serve(t)
    \/ \E c \in Client : Invoke(c) \/ Step(c) \/ PollGivesUp(c) \/ Crash(c)

Spec == Init /\ [][Next]_vars

-----------------------------------------------------------------------------
\* Two tasks for the same request run, and are paid for, at the same time only
\* when the id of one of them could not be kept (a crash or an error between
\* the POST and the write, or a reader that unlinked it as garbage or failed).
SecondTaskHasACause ==
    \A s, t \in Task : Running(s) /\ Running(t) /\ s # t => {s, t} \cap unrecorded # {}

\* Tavily: resuming, waiting for the lock, a 404 and the late cleanup of a slow
\* client never make a second paid task.
OnePaidTask == provider = "tavily" => SecondTaskHasACause

\* Firecrawl: reclaiming from the active list keeps one young job whatever
\* fails: a lost answer, a crash before the write, an unlinked record.
OneActiveCrawl ==
    provider = "firecrawl" =>
        \A s, t \in Task : server[s] = "active" /\ server[t] = "active" => s = t

\* An invocation pays for at most two tasks, its own and one recreation after
\* a 404, whatever the server answers (exa alone recreates without bound).
AtMostOneRecreation == provider # "exa" => \A c \in Client : posts[c] <= 2

\* Tavily: the record of a task that still runs is taken away only by a reader
\* that had seen it unfinished or could not read it; no client that is done
\* with its own task removes another's.
RunningTaskKeepsItsRecord ==
    [][provider = "tavily" /\ Whole /\ Running(stateFile.task) /\ stateFile' # stateFile
         => stateFile.task \in unrecorded']_vars

-----------------------------------------------------------------------------
\* What tavily and firecrawl make of it: a PaidJob.  The crawls firecrawl can
\* find again are the young ones, and none of these is ever lost.
Counts(t) == IF provider = "firecrawl" THEN server[t] = "active" ELSE Running(t)

Job == INSTANCE PaidJob WITH
    running <- {t \in Task : Counts(t)},
    ended <- {t \in Task : server[t] # "unused" /\ ~Counts(t)},
    lost <- IF provider = "firecrawl" THEN {} ELSE unrecorded
=============================================================================
