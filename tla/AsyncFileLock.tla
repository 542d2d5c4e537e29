---------------------------- MODULE AsyncFileLock ----------------------------
(***************************************************************************)
(* withAsyncFileLock of lib/async-file-lock.ts: one lock file, created     *)
(* with the wx flag, shared by processes that know nothing of each other.  *)
(* A process is one invocation of the function; its steps are the awaited  *)
(* file-system calls, and anything may happen between two of them.         *)
(*                                                                         *)
(* Time is a clock in units of the refresh cadence; a process that is not  *)
(* suspended runs its refresh timer before the clock passes it, and one    *)
(* that is suspended (SIGSTOP, a blocked event loop, a sleeping laptop)    *)
(* takes no step at all while time goes on.                                *)
(***************************************************************************)
EXTENDS Naturals

CONSTANTS
    Proc,         \* callers of withAsyncFileLock on one lock path
    Suspendable,  \* those that may be suspended while they run
    Ino,          \* inode numbers: a new file may get any of them again
    Nothing,
    StaleMs,      \* options.staleMs
    TimeoutMs,    \* options.timeoutMs
    RefreshMs,    \* the refresh cadence, half of staleMs
    MaxTime       \* bound: the clock stops there

\* The file at lockPath; its owner is Nothing once its creator is gone.
LockRecord == [ino : Ino, mtimeMs : Nat, owner : Proc \cup {Nothing}]

ASSUME LockAssumption ==
    /\ Nothing \notin Proc \cup LockRecord
    /\ Suspendable \subseteq Proc
    /\ StaleMs \in Nat /\ TimeoutMs \in Nat /\ RefreshMs \in Nat /\ MaxTime \in Nat
    /\ 0 < RefreshMs /\ RefreshMs < StaleMs
    /\ Ino # {}

VARIABLES
    place,      \* where each caller is
    lockFile,   \* Nothing, or the file at lockPath: inode, mtime, and its live creator
    statted,    \* the ino and mtime each caller found stale
    due,        \* the time each caller watches: its acquire deadline while it
                \* waits, the next refresh of the mtime while it holds
    now,        \* Date.now()
    stopped,    \* callers that are suspended
    missed,     \* ghost: refreshes in a row that failed, of each caller
    lost,       \* ghost: holders whose lock file somebody else unlinked
    outdated    \* ghost: callers about to unlink a file that was created or
                \* touched after their last look at it

lockVars == <<place, lockFile, statted, due, now, stopped, missed, lost, outdated>>

Holding(p) == place[p] \in {"body", "release"}

LockLocation == {"idle", "open", "stat", "restat", "unlink", "sleep", "backoff",
             "body", "release"}

LockTypeOK ==
    /\ place \in [Proc -> LockLocation]
    /\ lockFile \in LockRecord \cup {Nothing}
    /\ statted \in [Proc -> [ino : Ino, mtimeMs : Nat] \cup {Nothing}]
    /\ due \in [Proc -> Nat]
    /\ now \in Nat
    /\ stopped \subseteq Suspendable
    /\ missed \in [Proc -> Nat]
    /\ lost \subseteq {p \in Proc : Holding(p)}
    /\ outdated \subseteq {p \in Proc : place[p] = "unlink"}

LockInit ==
    /\ place = [p \in Proc |-> "idle"]
    /\ lockFile = Nothing
    /\ statted = [p \in Proc |-> Nothing]
    /\ due = [p \in Proc |-> 0]
    /\ now = 0
    /\ stopped = {}
    /\ missed = [p \in Proc |-> 0]
    /\ lost = {}
    /\ outdated = {}

-----------------------------------------------------------------------------
\* p is running and at location l.
At(p, l) == p \notin stopped /\ place[p] = l

MoveTo(p, l) == place' = [place EXCEPT ![p] = l] /\ UNCHANGED due

\* p starts to watch time t at l; a call that ends watches nothing.
MoveToWatching(p, l, t) == place' = [place EXCEPT ![p] = l] /\ due' = [due EXCEPT ![p] = t]

Return(p) == MoveToWatching(p, "idle", 0)

Forget(p) == statted' = [statted EXCEPT ![p] = Nothing]

\* The file no longer has a live creator when p is gone.
Disowned(p) ==
    IF lockFile # Nothing /\ lockFile.owner = p
    THEN [lockFile EXCEPT !.owner = Nothing]
    ELSE lockFile

\* fs.unlink(lockPath): by name, so it removes whatever file is there.  A
\* failure of the call is swallowed, and leaves the file.
UnlinkByName(p) ==
    \/ /\ lockFile' = Nothing
       /\ lost' = (IF lockFile = Nothing THEN lost ELSE lost \cup ({lockFile.owner} \cap Proc)) \ {p}
    \/ /\ lockFile' = Disowned(p)
       /\ lost' = lost \ {p}

\* The call: the deadline is fixed before the first attempt.
Call(p) ==
    /\ At(p, "idle")
    /\ now + TimeoutMs < MaxTime
    /\ MoveToWatching(p, "open", now + TimeoutMs)
    /\ UNCHANGED <<lockFile, statted, now, stopped, missed, lost, outdated>>

\* fs.open(lockPath, "wx") succeeds: the caller is the holder, and arms the
\* refresh timer before it runs fn.
OpenLock(p) ==
    /\ At(p, "open")
    /\ lockFile = Nothing
    /\ \E i \in Ino : lockFile' = [ino |-> i, mtimeMs |-> now, owner |-> p]
    /\ outdated' = outdated \cup {q \in Proc : place[q] = "unlink"}
    /\ MoveToWatching(p, "body", now + RefreshMs)
    /\ missed' = [missed EXCEPT ![p] = 0]
    /\ UNCHANGED <<statted, now, stopped, lost>>

\* Mutant: nothing checks the acquire deadline.
UnlessLateNoDeadline(p, l) == MoveTo(p, l)

\* Past the deadline a wait ends in a LockTimeoutError, else it goes on at l.
UnlessLate(p, l) == IF now > due[p] THEN Return(p) ELSE MoveTo(p, l)

\* EEXIST: give up past the deadline, else look at the file.
OpenExists(p) ==
    /\ At(p, "open")
    /\ lockFile # Nothing
    /\ UnlessLate(p, "stat")
    /\ UNCHANGED <<lockFile, statted, now, stopped, missed, lost, outdated>>

\* Mutant: ENOENT is taken for an acquired lock instead of retrying the open.
StatLockEnoentAcquires(p) ==
    /\ At(p, "stat")
    /\ \/ lockFile = Nothing /\ MoveToWatching(p, "body", now + RefreshMs)
       \/ lockFile # Nothing /\ MoveTo(p, "backoff")
    /\ UNCHANGED <<lockFile, statted, now, stopped, missed, lost, outdated>>

\* fs.stat: ENOENT retries the open at once; a stale file is broken; any
\* other is waited for.
StatLock(p) ==
    /\ At(p, "stat")
    /\ \/ lockFile = Nothing /\ MoveTo(p, "open") /\ UNCHANGED statted
       \/ /\ lockFile # Nothing /\ now > lockFile.mtimeMs + StaleMs
          /\ statted' = [statted EXCEPT ![p] = [ino |-> lockFile.ino, mtimeMs |-> lockFile.mtimeMs]]
          /\ MoveTo(p, "restat")
       \/ /\ lockFile # Nothing /\ now <= lockFile.mtimeMs + StaleMs
          /\ MoveTo(p, "backoff") /\ UNCHANGED statted
    /\ UNCHANGED <<lockFile, now, stopped, missed, lost, outdated>>

\* Mutant: only the inode is compared, not the mtime.
SameFileInodeOnly(p) ==
    /\ lockFile # Nothing
    /\ lockFile.ino = statted[p].ino

\* The second look of breakStaleLock: is this still the file found stale?
SameFile(p) ==
    /\ lockFile # Nothing
    /\ lockFile.ino = statted[p].ino
    /\ lockFile.mtimeMs <= statted[p].mtimeMs

RestatLock(p) ==
    /\ At(p, "restat")
    /\ MoveTo(p, IF SameFile(p) THEN "unlink" ELSE "sleep")
    /\ Forget(p)
    /\ UNCHANGED <<lockFile, now, stopped, missed, lost, outdated>>

\* The unlink of breakStaleLock, a separate call after the second look.
UnlinkStale(p) ==
    /\ At(p, "unlink")
    /\ UnlinkByName(p)
    /\ outdated' = outdated \ {p}
    /\ MoveTo(p, "sleep")
    /\ UNCHANGED <<statted, now, stopped, missed>>

\* The sleeps end: the one after a break retries at once, the backoff one
\* checks the deadline again first.
Wake(p) ==
    /\ \/ At(p, "sleep") /\ MoveTo(p, "open")
       \/ At(p, "backoff") /\ UnlessLate(p, "open")
    /\ UNCHANGED <<lockFile, statted, now, stopped, missed, lost, outdated>>

\* options.signal aborts: noticed at the top of the loop and in the sleeps.
Abort(p) ==
    /\ \E l \in {"open", "sleep", "backoff"} : At(p, l)
    /\ Return(p)
    /\ UNCHANGED <<lockFile, statted, now, stopped, missed, lost, outdated>>

\* An I/O error other than EEXIST of open or ENOENT of stat is thrown.
IoFailure(p) ==
    /\ \E l \in {"open", "stat", "restat"} : At(p, l)
    /\ Return(p)
    /\ Forget(p)
    /\ UNCHANGED <<lockFile, now, stopped, missed, lost, outdated>>

\* Mutant: the timer fires and is armed again, but the mtime is not touched.
RefreshWithoutUtimes(p) ==
    /\ At(p, "body")
    /\ now >= due[p]
    /\ MoveToWatching(p, "body", now + RefreshMs)
    /\ UNCHANGED <<lockFile, statted, now, stopped, missed, lost, outdated>>

\* The refresh timer: fs.utimes(lockPath) touches whatever file is there, or
\* fails, which is swallowed; the timer is armed again all the same.
Refresh(p) ==
    /\ At(p, "body")
    /\ now >= due[p]
    /\ MoveToWatching(p, "body", now + RefreshMs)
    /\ \/ /\ lockFile # Nothing
          /\ lockFile' = [lockFile EXCEPT !.mtimeMs = now]
          /\ outdated' = outdated \cup {q \in Proc : place[q] = "unlink"}
          /\ missed' = [missed EXCEPT ![p] = 0]
       \/ /\ missed' = [missed EXCEPT ![p] = @ + 1]
          /\ UNCHANGED <<lockFile, outdated>>
    /\ UNCHANGED <<statted, now, stopped, lost>>

\* fn returns or throws; the refresh timer is cleared.
BodyEnds(p) ==
    /\ At(p, "body")
    /\ MoveTo(p, "release")
    /\ UNCHANGED <<lockFile, statted, now, stopped, missed, lost, outdated>>

\* The finally block: close the handle and unlink by name.
Release(p) ==
    /\ At(p, "release")
    /\ UnlinkByName(p)
    /\ Return(p)
    /\ UNCHANGED <<statted, now, stopped, missed, outdated>>

\* The process dies at any point: its lock file stays, with nobody behind it.
Die(p) ==
    /\ place[p] # "idle"
    /\ Return(p)
    /\ Forget(p)
    /\ lockFile' = Disowned(p)
    /\ lost' = lost \ {p}
    /\ outdated' = outdated \ {p}
    /\ stopped' = stopped \ {p}
    /\ UNCHANGED <<now, missed>>

Suspend(p) ==
    /\ p \in Suspendable \ stopped
    /\ place[p] # "idle"
    /\ stopped' = stopped \cup {p}
    /\ UNCHANGED <<place, lockFile, statted, due, now, missed, lost, outdated>>

Resume(p) ==
    /\ p \in stopped
    /\ stopped' = stopped \ {p}
    /\ UNCHANGED <<place, lockFile, statted, due, now, missed, lost, outdated>>

\* The clock.  A holder that runs is never late: its timer (or its release,
\* once fn has returned) goes before the clock passes the time it is due.
Tick ==
    /\ now < MaxTime
    /\ \A p \in Proc : Holding(p) /\ p \notin stopped => now < due[p]
    /\ now' = now + 1
    /\ UNCHANGED <<place, lockFile, statted, due, stopped, missed, lost, outdated>>

\* The steps a running process takes of itself.
Step(p) ==
    \/ OpenLock(p) \/ OpenExists(p) \/ StatLock(p) \/ RestatLock(p)
    \/ UnlinkStale(p) \/ Wake(p) \/ Refresh(p) \/ Release(p)

LockNext ==
    \/ Tick
    \/ \E p \in Proc :
         \/ Call(p) \/ Step(p) \/ BodyEnds(p)
         \/ Abort(p) \/ IoFailure(p) \/ Die(p) \/ Suspend(p) \/ Resume(p)

\* A running process takes its next step, and time passes; nothing makes a
\* caller call, fn end, or a suspended process resume.
LockFairness ==
    /\ SF_lockVars(Tick)
    /\ \A p \in Proc : WF_lockVars(Step(p))

LockSpec == LockInit /\ [][LockNext]_lockVars

LockFairSpec == LockSpec /\ LockFairness

-----------------------------------------------------------------------------
\* Two callers run their critical sections together only when one of them had
\* its lock file unlinked under it (the ownership checks of breakStaleLock,
\* the wx create and the release together).
Exclusion ==
    \A p, q \in Proc :
        place[p] = "body" /\ place[q] = "body" /\ p # q => p \in lost \/ q \in lost

\* The refresh cadence keeps the mtime of a holder that is never suspended
\* inside the stale window, however long fn takes, until so many refreshes in a
\* row have failed that the next one is due after the window: a failed utimes is
\* swallowed (async-file-lock.ts:265), and nothing but the next one makes up for it.
RunningHolderNeverStale ==
    \A p \in Proc \ Suspendable :
        Holding(p) /\ p \notin lost /\ (missed[p] + 1) * RefreshMs <= StaleMs =>
            /\ lockFile # Nothing
            /\ now <= lockFile.mtimeMs + StaleMs

\* A holder loses its file only in three ways: it was itself stale (it was
\* suspended, or its refreshes failed); the
\* unlink of a stale-lock break came after the file was created or touched,
\* though the second look came before; or a holder that had itself lost its
\* file released, unlinking by name.
DisplacedOnlyThroughAWindow ==
    [][\A v \in lost' \ lost :
         \/ now > lockFile.mtimeMs + StaleMs
         \/ \E p \in outdated : place[p] = "unlink" /\ place'[p] = "sleep"
         \/ \E p \in lost : place[p] = "release" /\ place'[p] = "idle"]_lockVars

\* No caller waits for ever: it acquires, gives up at the deadline, or is
\* suspended, whatever the others do (crash, hold, break, race).
WaiterEnds ==
    \A p \in Proc :
        (place[p] = "open") ~> (place[p] \in {"idle", "body"} \/ p \in stopped)

\* The abstract lock the callers can rely on.
Lease == INSTANCE LeasedMutex WITH
            inside <- {p \in Proc : Holding(p)},
            leased <- {p \in Proc : Holding(p)} \ lost

LeaseSpec == Lease!LMSpec

=============================================================================
