-------------------------- MODULE LockAndConfigProofs --------------------------
(***************************************************************************)
(* What the lock file guarantees its callers (AsyncFileLock), for any      *)
(* callers, inode numbers and time constants, and what ConfigStore, whose  *)
(* set and unset run under such a lock, guarantees of every replacement of *)
(* config.json, for any number of processes, providers and keys.           *)
(***************************************************************************)
EXTENDS AsyncFileLock, ConfigStore, TLAPS

\* AsyncFileLock.  LockInv adds to the type invariant that time never passes a
\* running holder's refresh, and what its file looks like until it loses it.

\* A holder that was not displaced is the creator of the file on disk.
HolderOwnsFile ==
    \A p \in Proc : Holding(p) /\ p \notin lost =>
        lockFile # Nothing /\ lockFile.owner = p

\* The file on disk, if its creator is alive, is that of a holder.
OwnerHolds ==
    \A p \in Proc : lockFile # Nothing /\ lockFile.owner = p => Holding(p)

\* The file was last touched by a clock that has not gone back since.
MtimeInThePast == lockFile # Nothing => lockFile.mtimeMs <= now

\* How old the mtime of a holder may be when its next refresh is due.
Allowance(p) == (missed[p] + 1) * RefreshMs

\* A holder that cannot be suspended fires its refresh timer before it is due,
\* which is one cadence after the mtime and one more for each refresh that failed.
RefreshedInTime ==
    \A p \in Proc \ Suspendable : Holding(p) /\ p \notin lost =>
        now <= due[p] /\ due[p] <= lockFile.mtimeMs + Allowance(p)

Seen == [ino : Ino, mtimeMs : Nat]

\* What a breaker knows between its looks and its unlink.
BreakerSawStale ==
    /\ \A p \in Proc : place[p] = "restat" =>
         statted[p] \in Seen /\ now > statted[p].mtimeMs + StaleMs
    /\ \A p \in Proc : place[p] = "unlink" /\ p \notin outdated /\ lockFile # Nothing =>
         now > lockFile.mtimeMs + StaleMs

LockInv ==
    /\ LockTypeOK
    /\ HolderOwnsFile
    /\ OwnerHolds
    /\ MtimeInThePast
    /\ RefreshedInTime
    /\ BreakerSawStale

-----------------------------------------------------------------------------
\* The invariant holds before anybody calls.
LEMMA LockInvInit == LockInit => LockInv
  BY LockAssumption DEF LockInit, LockInv, LockTypeOK, Holding, HolderOwnsFile, OwnerHolds,
     MtimeInThePast, RefreshedInTime, Allowance, BreakerSawStale, Seen, LockLocation

\* One more failed refresh allows one more cadence.
LEMMA AllowanceGrows ==
  ASSUME NEW n \in Nat
  PROVE  /\ (n + 1) * RefreshMs \in Nat
         /\ (n + 1 + 1) * RefreshMs = (n + 1) * RefreshMs + RefreshMs
         /\ n = 0 => (n + 1) * RefreshMs = RefreshMs
  BY LockAssumption

\* A caller that leaves changes nothing about the file but who claims it.
LEMMA DisownedFacts ==
  ASSUME NEW p \in Proc, LockTypeOK
  PROVE  /\ Disowned(p) \in LockRecord \cup {Nothing}
         /\ (Disowned(p) = Nothing) <=> (lockFile = Nothing)
         /\ lockFile # Nothing => /\ Disowned(p).mtimeMs = lockFile.mtimeMs
                                  /\ \A q \in Proc \ {p} :
                                       lockFile.owner = q => Disowned(p).owner = q
                                  /\ \A q \in Proc :
                                       Disowned(p).owner = q => q # p /\ lockFile.owner = q
  <1>1. CASE lockFile = Nothing
    BY <1>1 DEF Disowned
  <1>2. CASE lockFile # Nothing /\ lockFile.owner # p
    BY <1>2 DEF Disowned, LockTypeOK
  <1>3. CASE lockFile # Nothing /\ lockFile.owner = p
    BY <1>3, LockAssumption DEF Disowned, LockTypeOK, LockRecord
  <1> QED BY <1>1, <1>2, <1>3
\* An unlink by name leaves the file that was there or none, and whoever it
\* takes the file from is recorded as lost.
LEMMA UnlinkFacts ==
  ASSUME NEW p \in Proc, LockTypeOK, UnlinkByName(p)
  PROVE  /\ lockFile' \in LockRecord \cup {Nothing}
         /\ lockFile' # Nothing => lockFile # Nothing /\ lockFile'.mtimeMs = lockFile.mtimeMs
         /\ lockFile' # Nothing => \A q \in Proc : lockFile'.owner = q => q # p /\ lockFile.owner = q
         /\ lost' \subseteq Proc \ {p}
         /\ lost \ {p} \subseteq lost'
         /\ \A q \in Proc \ {p} : lockFile # Nothing /\ lockFile.owner = q =>
              q \in lost' \/ (lockFile' # Nothing /\ lockFile'.owner = q)
         /\ \A q \in lost' \ lost : lockFile # Nothing /\ lockFile.owner = q /\ lockFile' = Nothing
  <1>1. CASE /\ lockFile' = Nothing
             /\ lost' = (IF lockFile = Nothing THEN lost ELSE lost \cup ({lockFile.owner} \cap Proc)) \ {p}
    BY <1>1 DEF LockTypeOK
  <1>2. CASE lockFile' = Disowned(p) /\ lost' = lost \ {p}
    BY <1>2, DisownedFacts DEF LockTypeOK
  <1> QED BY <1>1, <1>2 DEF UnlinkByName

\* A step that leaves the file alone, and moves no holder, keeps what is said
\* of holders; each action lemma below states what it changes.
LEMMA LockInvKept == LockInv /\ [LockNext]_lockVars => LockInv'
  <1> SUFFICES ASSUME LockInv, [LockNext]_lockVars PROVE LockInv'
    OBVIOUS
  <1> USE LockAssumption
  <1> LockTypeOK /\ HolderOwnsFile /\ OwnerHolds /\ MtimeInThePast /\ RefreshedInTime /\ BreakerSawStale
    BY DEF LockInv
  <1>1. CASE Tick
    <2> USE <1>1 DEF Tick
    <2>1. LockTypeOK' /\ HolderOwnsFile' /\ OwnerHolds'
      BY DEF LockTypeOK, HolderOwnsFile, OwnerHolds, Holding
    <2>2. MtimeInThePast' /\ BreakerSawStale'
      BY DEF LockTypeOK, MtimeInThePast, BreakerSawStale, Seen, LockRecord
    <2>3. RefreshedInTime'
      BY DEF LockTypeOK, RefreshedInTime, Allowance, Holding
    <2> QED BY <2>1, <2>2, <2>3 DEF LockInv
  <1>2. ASSUME NEW p \in Proc, Call(p) PROVE LockInv'
    BY <1>2 DEF Call, At, MoveToWatching, LockInv, LockTypeOK, HolderOwnsFile, OwnerHolds, MtimeInThePast, RefreshedInTime, Allowance,
       BreakerSawStale, Holding, LockLocation
  <1>3. ASSUME NEW p \in Proc, OpenLock(p) PROVE LockInv'
    <2> USE <1>3 DEF OpenLock, At, MoveToWatching
    <2>1. PICK i \in Ino : lockFile' = [ino |-> i, mtimeMs |-> now, owner |-> p]
      OBVIOUS
    <2>2. lockFile' \in LockRecord /\ lockFile' # Nothing /\ lockFile'.owner = p /\ lockFile'.mtimeMs = now
      BY <2>1 DEF LockRecord, LockTypeOK
    <2>3. LockTypeOK'
      BY <2>2 DEF LockTypeOK, Holding, LockLocation
    <2>4. \A q \in Proc : Holding(q) => q \in lost
      BY DEF HolderOwnsFile
    <2>5. HolderOwnsFile' /\ OwnerHolds' /\ MtimeInThePast' /\ RefreshedInTime'
      BY <2>2, <2>4 DEF HolderOwnsFile, OwnerHolds, MtimeInThePast, RefreshedInTime, Allowance, Holding, LockTypeOK
    <2>6. BreakerSawStale'
      BY DEF BreakerSawStale, LockTypeOK
    <2> QED BY <2>3, <2>5, <2>6 DEF LockInv
  <1>4. ASSUME NEW p \in Proc, OpenExists(p) PROVE LockInv'
    BY <1>4 DEF OpenExists, UnlessLate, Return, MoveTo, At, MoveToWatching, LockInv, LockTypeOK,
       HolderOwnsFile, OwnerHolds, MtimeInThePast, RefreshedInTime, Allowance, BreakerSawStale, Holding, LockLocation
  <1>5. ASSUME NEW p \in Proc, StatLock(p) PROVE LockInv'
    <2> USE <1>5 DEF StatLock, MoveTo, At
    <2>1. \/ UNCHANGED statted /\ place' = [place EXCEPT ![p] = "open"]
          \/ UNCHANGED statted /\ place' = [place EXCEPT ![p] = "backoff"]
          \/ /\ lockFile # Nothing /\ now > lockFile.mtimeMs + StaleMs
             /\ statted' = [statted EXCEPT ![p] = [ino |-> lockFile.ino, mtimeMs |-> lockFile.mtimeMs]]
             /\ place' = [place EXCEPT ![p] = "restat"]
      OBVIOUS
    <2>2. lockFile # Nothing =>
            [ino |-> lockFile.ino, mtimeMs |-> lockFile.mtimeMs] \in [ino : Ino, mtimeMs : Nat]
      BY DEF LockTypeOK, LockRecord
    <2>3. LockTypeOK'
      BY <2>1, <2>2 DEF LockTypeOK, Holding, LockLocation
    <2>4. HolderOwnsFile' /\ OwnerHolds' /\ MtimeInThePast' /\ RefreshedInTime'
      BY <2>1 DEF HolderOwnsFile, OwnerHolds, MtimeInThePast, RefreshedInTime, Allowance, Holding, LockTypeOK
    <2>5. BreakerSawStale'
      <3>1. CASE UNCHANGED statted /\ place'[p] # "restat" /\ \A q \in Proc \ {p} : place'[q] = place[q]
        BY <2>1, <3>1 DEF BreakerSawStale, LockTypeOK
      <3>2. CASE /\ lockFile # Nothing /\ now > lockFile.mtimeMs + StaleMs
                 /\ statted' = [statted EXCEPT ![p] = [ino |-> lockFile.ino, mtimeMs |-> lockFile.mtimeMs]]
                 /\ place' = [place EXCEPT ![p] = "restat"]
        <4>1. statted'[p] \in Seen /\ now' > statted'[p].mtimeMs + StaleMs
          BY <3>2, <2>2 DEF LockTypeOK, Seen
        <4> QED BY <3>2, <4>1 DEF BreakerSawStale, LockTypeOK
      <3> QED BY <2>1, <3>1, <3>2 DEF LockTypeOK
    <2> QED BY <2>3, <2>4, <2>5 DEF LockInv
  <1>6. ASSUME NEW p \in Proc, RestatLock(p) PROVE LockInv'
    <2> USE <1>6 DEF RestatLock, MoveTo, Forget, At
    <2>1. LockTypeOK' /\ HolderOwnsFile' /\ OwnerHolds' /\ MtimeInThePast' /\ RefreshedInTime'
      BY DEF LockTypeOK, HolderOwnsFile, OwnerHolds, MtimeInThePast, RefreshedInTime, Allowance, Holding, LockLocation
    <2>2. SameFile(p) => now > lockFile.mtimeMs + StaleMs
      BY DEF SameFile, BreakerSawStale, Seen, LockTypeOK, LockRecord
    <2>3. BreakerSawStale'
      BY <2>2 DEF BreakerSawStale, LockTypeOK
    <2> QED BY <2>1, <2>3 DEF LockInv
  <1>7. ASSUME NEW p \in Proc, UnlinkStale(p) PROVE LockInv'
    <2> USE <1>7, UnlinkFacts DEF UnlinkStale, MoveTo, At
    <2>1. LockTypeOK'
      BY DEF LockTypeOK, Holding, LockLocation, OwnerHolds
    <2>2. HolderOwnsFile' /\ OwnerHolds'
      BY DEF HolderOwnsFile, OwnerHolds, Holding, LockTypeOK
    <2>3. MtimeInThePast' /\ RefreshedInTime'
      <3>1. \A q \in Proc : Holding(q)' /\ q \notin lost' =>
               Holding(q) /\ q \notin lost /\ lockFile' # Nothing
        BY <2>2 DEF HolderOwnsFile, Holding, LockTypeOK
      <3> QED BY <3>1 DEF MtimeInThePast, RefreshedInTime, Allowance, LockTypeOK
    <2>4. BreakerSawStale'
      BY DEF BreakerSawStale, LockTypeOK
    <2> QED BY <2>1, <2>2, <2>3, <2>4 DEF LockInv
  <1>8. ASSUME NEW p \in Proc, Wake(p) PROVE LockInv'
    BY <1>8 DEF Wake, UnlessLate, Return, MoveTo, At, MoveToWatching, LockInv, LockTypeOK,
       HolderOwnsFile, OwnerHolds, MtimeInThePast, RefreshedInTime, Allowance, BreakerSawStale, Holding, LockLocation
  <1>9. ASSUME NEW p \in Proc, Abort(p) PROVE LockInv'
    BY <1>9 DEF Abort, Return, At, MoveToWatching, LockInv, LockTypeOK,
       HolderOwnsFile, OwnerHolds, MtimeInThePast, RefreshedInTime, Allowance, BreakerSawStale, Holding, LockLocation
  <1>10. ASSUME NEW p \in Proc, IoFailure(p) PROVE LockInv'
    BY <1>10 DEF IoFailure, Return, Forget, At, MoveToWatching, LockInv, LockTypeOK,
       HolderOwnsFile, OwnerHolds, MtimeInThePast, RefreshedInTime, Allowance, BreakerSawStale, Holding, LockLocation
  <1>11. ASSUME NEW p \in Proc, Refresh(p) PROVE LockInv'
    <2> USE <1>11 DEF Refresh, At, MoveToWatching
    <2>1. /\ lockFile' \in LockRecord \cup {Nothing}
          /\ lockFile' = Nothing <=> lockFile = Nothing
          /\ lockFile # Nothing => /\ lockFile'.owner = lockFile.owner
                                   /\ lockFile'.mtimeMs \in {lockFile.mtimeMs, now}
      BY DEF LockTypeOK, LockRecord
    <2>2. LockTypeOK'
      BY <2>1 DEF LockTypeOK, Holding, LockLocation
    <2>3. HolderOwnsFile' /\ OwnerHolds' /\ MtimeInThePast'
      BY <2>1 DEF HolderOwnsFile, OwnerHolds, MtimeInThePast, Holding, LockTypeOK, LockRecord
    <2>4. RefreshedInTime'
      <3> SUFFICES ASSUME NEW q \in Proc \ Suspendable, Holding(q)', q \notin lost'
                   PROVE  now' <= due'[q] /\ due'[q] <= lockFile'.mtimeMs + Allowance(q)'
        BY DEF RefreshedInTime
      <3>1. /\ Holding(q) /\ q \notin lost
            /\ lockFile # Nothing /\ lockFile.mtimeMs \in Nat /\ lockFile.mtimeMs <= now /\ now \in Nat
            /\ lockFile'.mtimeMs \in {lockFile.mtimeMs, now}
            /\ now <= due[q] /\ due[q] <= lockFile.mtimeMs + Allowance(q) /\ due[q] \in Nat
            /\ missed[q] \in Nat
        BY <2>1 DEF Holding, HolderOwnsFile, MtimeInThePast, RefreshedInTime, LockTypeOK, LockRecord
      <3>2. CASE q # p
        <4>1. missed'[q] = missed[q] /\ due'[q] = due[q] /\ now' = now
          BY <3>2 DEF LockTypeOK
        <4>2. Allowance(q)' = Allowance(q) /\ Allowance(q) \in Nat
          BY <3>1, <4>1, AllowanceGrows DEF Allowance
        <4> QED BY <3>1, <4>1, <4>2
      <3>3. CASE q = p /\ lockFile' = [lockFile EXCEPT !.mtimeMs = now] /\ missed' = [missed EXCEPT ![p] = 0]
        <4>1. /\ missed'[q] = 0 /\ due'[q] = now + RefreshMs /\ now' = now
              /\ lockFile'.mtimeMs = now
          BY <3>1, <3>3 DEF LockTypeOK, LockRecord
        <4>2. Allowance(q)' = RefreshMs
          BY <4>1, LockAssumption DEF Allowance
        <4> QED BY <3>1, <4>1, <4>2, LockAssumption
      <3>4. CASE q = p /\ lockFile' = lockFile /\ missed' = [missed EXCEPT ![p] = @ + 1]
        <4>1. missed'[q] = missed[q] + 1 /\ due'[q] = now + RefreshMs /\ now' = now
          BY <3>4 DEF LockTypeOK
        <4>2. now >= due[q]
          BY <3>4
        <4>3. now = due[q]
          BY <3>1, <4>2
        <4>4. Allowance(q)' = Allowance(q) + RefreshMs /\ Allowance(q) \in Nat
          BY <3>1, <4>1, AllowanceGrows DEF Allowance
        <4> QED BY <3>1, <3>4, <4>1, <4>3, <4>4, LockAssumption
      <3> QED BY <3>2, <3>3, <3>4
    <2>5. BreakerSawStale'
      BY <2>1 DEF BreakerSawStale, LockTypeOK, LockRecord
    <2> QED BY <2>2, <2>3, <2>4, <2>5 DEF LockInv
  <1>12. ASSUME NEW p \in Proc, BodyEnds(p) PROVE LockInv'
    BY <1>12 DEF BodyEnds, MoveTo, At, LockInv, LockTypeOK,
       HolderOwnsFile, OwnerHolds, MtimeInThePast, RefreshedInTime, Allowance, BreakerSawStale, Holding, LockLocation
  <1>13. ASSUME NEW p \in Proc, Release(p) PROVE LockInv'
    <2> USE <1>13, UnlinkFacts DEF Release, Return, At, MoveToWatching
    <2>1. LockTypeOK'
      BY DEF LockTypeOK, Holding, LockLocation, OwnerHolds
    <2>2. HolderOwnsFile' /\ OwnerHolds'
      BY DEF HolderOwnsFile, OwnerHolds, Holding, LockTypeOK
    <2>3. MtimeInThePast' /\ RefreshedInTime'
      <3>1. \A q \in Proc : Holding(q)' /\ q \notin lost' =>
               q # p /\ Holding(q) /\ q \notin lost /\ lockFile' # Nothing
        BY <2>2 DEF HolderOwnsFile, Holding, LockTypeOK
      <3> QED BY <3>1 DEF MtimeInThePast, RefreshedInTime, Allowance, LockTypeOK
    <2>4. BreakerSawStale'
      BY DEF BreakerSawStale, LockTypeOK
    <2> QED BY <2>1, <2>2, <2>3, <2>4 DEF LockInv
  <1>14. ASSUME NEW p \in Proc, Die(p) PROVE LockInv'
    BY <1>14, DisownedFacts DEF Die, Return, Forget, MoveToWatching, LockInv, LockTypeOK,
       HolderOwnsFile, OwnerHolds, MtimeInThePast, RefreshedInTime, Allowance, BreakerSawStale, Holding, LockLocation, LockRecord
  <1>15. ASSUME NEW p \in Proc, Suspend(p) \/ Resume(p) PROVE LockInv'
    BY <1>15 DEF Suspend, Resume, LockInv, LockTypeOK,
       HolderOwnsFile, OwnerHolds, MtimeInThePast, RefreshedInTime, Allowance, BreakerSawStale, Holding
  <1>16. CASE UNCHANGED lockVars
    BY <1>16 DEF lockVars, LockInv, LockTypeOK, HolderOwnsFile, OwnerHolds, MtimeInThePast, RefreshedInTime, Allowance, BreakerSawStale, Holding
  <1> QED
    BY <1>1, <1>2, <1>3, <1>4, <1>5, <1>6, <1>7, <1>8, <1>9, <1>10, <1>11, <1>12,
       <1>13, <1>14, <1>15, <1>16 DEF LockNext, Step

\* Everything below follows from the inductive invariant.
LEMMA LockInvariance == LockSpec => []LockInv
  BY LockInvInit, LockInvKept, PTL DEF LockSpec

-----------------------------------------------------------------------------
\* Type correctness of the lock (async-file-lock.ts:158).
THEOREM LockTypeCorrect == LockSpec => []LockTypeOK
  BY LockInvariance, PTL DEF LockInv

\* Two callers are inside fn together only if one had its lock file unlinked
\* under it (async-file-lock.ts:215, :133 and :275).
THEOREM ExclusionHolds == LockSpec => []Exclusion
  <1>1. LockInv => Exclusion
    BY DEF LockInv, HolderOwnsFile, Exclusion, Holding
  <1> QED BY <1>1, LockInvariance, PTL

\* However long fn runs, a holder that is never suspended keeps its file
\* younger than staleMs until its refreshes have failed so often in a row that
\* the next is due later than that (the timer, async-file-lock.ts:177 and :263,
\* and the swallowed utimes, :265).
THEOREM RunningHolderNeverStaleHolds == LockSpec => []RunningHolderNeverStale
  <1>1. LockInv => RunningHolderNeverStale
    <2> SUFFICES ASSUME LockInv, NEW p \in Proc \ Suspendable,
                        Holding(p), p \notin lost, Allowance(p) <= StaleMs
                 PROVE  lockFile # Nothing /\ now <= lockFile.mtimeMs + StaleMs
      BY DEF RunningHolderNeverStale, Allowance
    <2>1. /\ lockFile # Nothing /\ lockFile.mtimeMs \in Nat
          /\ now \in Nat /\ due[p] \in Nat /\ missed[p] \in Nat
          /\ now <= due[p] /\ due[p] <= lockFile.mtimeMs + Allowance(p)
      BY DEF LockInv, LockTypeOK, LockRecord, HolderOwnsFile, RefreshedInTime
    <2>2. Allowance(p) \in Nat
      BY <2>1, AllowanceGrows DEF Allowance
    <2> QED BY <2>1, <2>2, LockAssumption
  <1> QED BY <1>1, LockInvariance, PTL

\* The three ways in which a holder can lose its file, and no other: what the
\* inode and mtime checks of breakStaleLock leave open (async-file-lock.ts:120).
THEOREM DisplacedOnlyThroughAWindowHolds == LockSpec => DisplacedOnlyThroughAWindow
  <1> DEFINE Cause(v) ==
        \/ now > lockFile.mtimeMs + StaleMs
        \/ \E p \in outdated : place[p] = "unlink" /\ place'[p] = "sleep"
        \/ \E p \in lost : place[p] = "release" /\ place'[p] = "idle"
  <1>1. LockInv /\ [LockNext]_lockVars => [\A v \in lost' \ lost : Cause(v)]_lockVars
    <2> SUFFICES ASSUME LockInv, LockNext, NEW v \in lost' \ lost PROVE Cause(v)
      OBVIOUS
    <2> LockTypeOK
      BY DEF LockInv
    <2>1. ASSUME NEW p \in Proc, UnlinkStale(p) PROVE Cause(v)
      <3> USE <2>1 DEF UnlinkStale, At, MoveTo
      <3>1. lockFile # Nothing
        BY UnlinkFacts
      <3>2. CASE p \in outdated
        BY <3>2 DEF LockTypeOK
      <3>3. CASE p \notin outdated
        BY <3>1, <3>3 DEF LockInv, BreakerSawStale
      <3> QED BY <3>2, <3>3
    <2>2. ASSUME NEW p \in Proc, Release(p) PROVE Cause(v)
      <3> USE <2>2 DEF Release, At, Return, MoveToWatching
      <3>1. lockFile # Nothing /\ lockFile.owner = v /\ v # p /\ v \in Proc
        BY UnlinkFacts
      <3>2. p \in lost
        BY <3>1 DEF LockInv, HolderOwnsFile, Holding
      <3> QED BY <3>2 DEF LockTypeOK
    <2>3. lost' \subseteq lost \/ \E p \in Proc : UnlinkStale(p) \/ Release(p)
      BY DEF LockNext, Step, Tick, Call, OpenLock, OpenExists, StatLock, RestatLock, Wake, Abort,
         IoFailure, Refresh, BodyEnds, Die, Suspend, Resume
    <2> QED BY <2>1, <2>2, <2>3
  <1> QED BY <1>1, LockInvariance, PTL DEF LockSpec, DisplacedOnlyThroughAWindow

-----------------------------------------------------------------------------
Inside == {p \in Proc : Holding(p)}

\* The steps that acquire, the steps that leave, and the one that can displace:
\* every other step is a stutter of the abstract lock.
LEMMA StepImplementsLease == LockInv /\ [LockNext]_lockVars => [Lease!LMNext]_(Lease!lmVars)
  <1> SUFFICES ASSUME LockInv, [LockNext]_lockVars PROVE [Lease!LMNext]_(Lease!lmVars)
    OBVIOUS
  <1> LockTypeOK /\ HolderOwnsFile
    BY DEF LockInv
  <1> DEFINE Leased == Inside \ lost
  <1> USE DEF Lease!lmVars, Lease!LMNext
  <1>0. (Inside' = Inside /\ Leased' = Leased) => [Lease!LMNext]_(Lease!lmVars)
    BY DEF Inside
  <1>1. ASSUME NEW p \in Proc, OpenLock(p) PROVE Lease!Enter(p)
    <2>1. Leased = {} /\ p \notin Inside
      BY <1>1 DEF OpenLock, At, HolderOwnsFile, Inside, Holding
    <2>2. Inside' = Inside \cup {p} /\ Leased' = {p}
      BY <1>1, <2>1 DEF OpenLock, At, MoveToWatching, Inside, Holding, LockTypeOK
    <2> QED BY <2>1, <2>2 DEF Lease!Enter, Inside
  <1>2. ASSUME NEW p \in Proc, Release(p) PROVE Lease!Leave(p)
    <2>1. p \in Inside /\ Inside' = Inside \ {p}
      BY <1>2 DEF Release, At, Return, MoveToWatching, Inside, Holding, LockTypeOK
    <2>2. Leased' \subseteq Leased \ {p}
      BY <1>2, <2>1, UnlinkFacts DEF Release
    <2>3. \A q \in Leased : q # p => lockFile # Nothing /\ lockFile.owner = q
      BY DEF HolderOwnsFile, Inside
    <2>4. CASE p \in Leased
      <3>1. Leased = {p}
        BY <2>3, <2>4 DEF HolderOwnsFile, Inside
      <3> QED BY <2>1, <2>2, <2>4, <3>1 DEF Lease!Leave, Inside
    <2>5. CASE p \notin Leased
      <3>1. Leased' = Leased \/ Leased' = {}
        <4>1. \A q, r \in Leased : q = r
          BY <2>3, <2>5
        <4> QED BY <2>2, <4>1
      <3> QED BY <2>1, <2>5, <3>1 DEF Lease!Leave, Inside
    <2> QED BY <2>4, <2>5
  <1>3. ASSUME NEW p \in Proc, Die(p) PROVE [Lease!LMNext]_(Lease!lmVars)
    <2>1. Inside' = Inside \ {p} /\ Leased' = Leased \ {p}
      BY <1>3 DEF Die, Return, MoveToWatching, Inside, Holding, LockTypeOK
    <2>2. CASE p \in Inside
      BY <2>1, <2>2 DEF Lease!Leave, Inside
    <2>3. CASE p \notin Inside
      BY <2>1, <2>3, <1>0
    <2> QED BY <2>2, <2>3
  <1>4. ASSUME NEW p \in Proc, UnlinkStale(p) PROVE [Lease!LMNext]_(Lease!lmVars)
    <2>1. Inside' = Inside /\ p \notin lost
      BY <1>4 DEF UnlinkStale, At, MoveTo, Inside, Holding, LockTypeOK
    <2>2. Leased' \subseteq Leased
      BY <1>4, <2>1, UnlinkFacts DEF UnlinkStale
    <2>3. Leased' = Leased \/ (Leased # {} /\ Leased' = {})
      <3>1. \A q, r \in Leased : q = r
        BY DEF HolderOwnsFile, Inside
      <3> QED BY <2>2, <3>1
    <2> QED BY <2>1, <2>3, <1>0 DEF Lease!Displace, Inside
  <1>5. ASSUME NEW p \in Proc,
               \/ Call(p) \/ OpenExists(p) \/ StatLock(p) \/ RestatLock(p) \/ Wake(p)
               \/ Refresh(p) \/ BodyEnds(p) \/ Abort(p) \/ IoFailure(p)
        PROVE  Inside' = Inside /\ Leased' = Leased
    BY <1>5 DEF Call, OpenExists, StatLock, RestatLock, Wake, Refresh, BodyEnds, Abort, IoFailure,
       At, MoveTo, MoveToWatching, Return, UnlessLate, Inside, Holding, LockTypeOK
  <1>6. ASSUME Tick \/ UNCHANGED lockVars \/ \E p \in Proc : Suspend(p) \/ Resume(p)
        PROVE  Inside' = Inside /\ Leased' = Leased
    BY <1>6 DEF Tick, lockVars, Suspend, Resume, Inside, Holding
  <1> QED BY <1>0, <1>1, <1>2, <1>3, <1>4, <1>5, <1>6 DEF LockNext, Step

\* The lock file implements the leased mutex: nobody enters while a lease is
\* valid, whatever crashes, breaks and suspensions happen.
THEOREM ImplementsLease == LockSpec => LeaseSpec
  <1>1. LockInit => Lease!LMInit
    BY DEF LockInit, Lease!LMInit, Holding
  <1> QED BY <1>1, StepImplementsLease, LockInvariance, PTL
         DEF LockSpec, LeaseSpec, Lease!LMSpec

-----------------------------------------------------------------------------
\* ConfigStore.  IInv says what a command that is about to write may still rely
\* on: its copy of the config, the guard against an empty one, and the backup.

\* What a process's variables hold, where it is.
InPlace(c) ==
    /\ pc[c] = "lock" => kind[c] \in {"set", "unset"} /\ slot[c] \in Setting
    /\ pc[c] = "inspect" => kind[c] \in {"promote", "hint", "agents", "fresh"}
    /\ pc[c] = "inspect" /\ kind[c] = "promote" => slot[c] \in Provider
    /\ pc[c] = "inspect" /\ kind[c] = "hint" => slot[c] = "hint"
    /\ pc[c] \in {"load", "menu", "mirror"} => kind[c] = "menu"
    /\ pc[c] = "menu" => copy[c] \in Config
    /\ pc[c] = "mirror" => copy[c] \in Config
    /\ pc[c] \in Writing \cup {"guard"} =>
         /\ next[c] \in Config
         /\ kind[c] \in Kind
         /\ kind[c] = "menu" => copy[c] \in Config
    /\ pc[c] \in {"menu", "mirror"} => live \in Config
    /\ pc[c] = "rotate" => old[c] \in File

\* The lock has one holder.
OneHolder == \A c, d \in Process : Locked(c) /\ Locked(d) => c = d

\* Of an unraced copy of the config, the slots that may differ from the file.
Agrees(config, own) == \A s \in Slot \ own : config[s] = OrEmpty(live)[s]
MenuAgrees(config, own) ==
    \A s \in Slot \ own : \/ config[s] = OrEmpty(live)[s]
                          \/ s \notin Provider /\ OrEmpty(live)[s] = None

CopyAgrees(c) ==
    "read" \notin raced[c] =>
        /\ pc[c] \in Writing \cup {"guard"} =>
             IF kind[c] = "menu" THEN MenuAgrees(next[c], Own(c)) ELSE Agrees(next[c], Own(c))
        /\ pc[c] = "menu" => MenuAgrees(copy[c], {})

\* An empty config that passed the guard was asked for, or met no providers.
EmptyIsMeant(c) ==
    (pc[c] \in Writing /\ Seated(next[c]) = {} /\ Populated(live))
        => empties[c] \/ "guard" \in raced[c]

\* What was read for the backup, and then the backup, is the file.
BackupIsTrue(c) ==
    "backup" \notin raced[c] =>
        /\ pc[c] = "rotate" => old[c] = live
        /\ (pc[c] = "replace" /\ live # Absent /\ ~unsaved[c]) => bak = live

Good(c) == InPlace(c) /\ CopyAgrees(c) /\ EmptyIsMeant(c) /\ BackupIsTrue(c)

IInv ==
    /\ TypeOK
    /\ OneHolder
    /\ \A c \in Process : Good(c)

ByProcess(c) ==
    \/ StartSetting(c) \/ StartPromotion(c) \/ StartHint(c) \/ StartInit(c) \/ StartRepair(c)
    \/ LockAndRead(c) \/ LockTimeout(c)
    \/ InspectMarker(c) \/ SkipAgents(c) \/ InspectAgents(c) \/ InspectFresh(c)
    \/ LoadMenu(c) \/ MenuSeat(c) \/ MenuRemove(c) \/ MenuSetting(c)
    \/ MenuRerun(c) \/ MenuCancel(c) \/ Mirror(c)
    \/ Guard(c) \/ ReadBackup(c) \/ Rotate(c) \/ RotateFails(c)
    \/ Replace(c) \/ ReplaceFails(c) \/ Crash(c)

-----------------------------------------------------------------------------
\* Configs.

\* A config by what each of its slots may hold.
LEMMA ConfigIs ==
  ASSUME NEW f
  PROVE  f \in Config <=> /\ f = [s \in Slot |-> f[s]]
                          /\ \A s \in Slot : s \in Provider => f[s] \in Seat \cup {None}
                          /\ \A s \in Slot : s \notin Provider => f[s] \in {Set, None}
  BY DEF Config

\* The slots that are not a provider's.
LEMMA OtherSlots ==
  /\ \A s \in {"routing", "fallback", "agents", "hint"} : s \in Slot /\ s \notin Provider
  /\ \A s \in Slot : s \notin Provider => s \in {"routing", "fallback", "agents", "hint"}
  /\ Provider \subseteq Slot
  BY ConstantsAssumption DEF Slot, Setting

\* A slot is set to what it may hold.
LEMMA ConfigExcept ==
  ASSUME NEW f \in Config, NEW s \in Slot, NEW v,
         s \in Provider => v \in Seat \cup {None},
         s \notin Provider => v \in {Set, None}
  PROVE  /\ [f EXCEPT ![s] = v] \in Config
         /\ \A t \in Slot : [f EXCEPT ![s] = v][t] = IF t = s THEN v ELSE f[t]
  BY DEF Config

\* Without a file a command starts from the empty config.
LEMMA OrEmptyIs ==
  /\ Empty \in Config
  /\ \A f : OrEmpty(f) \in Config
  <1>1. Empty \in Config
    BY DEF Empty, Config
  <1> QED BY <1>1 DEF OrEmpty

\* What each command writes is a config, and differs in its own slots only.
LEMMA WithSettingIs ==
  ASSUME NEW f, NEW k, NEW s \in Setting
  PROVE  /\ WithSetting(f, k, s) \in Config
         /\ \A t \in Slot \ {s} : WithSetting(f, k, s)[t] = OrEmpty(f)[t]
  <1>1. s \in Slot /\ s \notin Provider
    BY OtherSlots DEF Setting
  <1> DEFINE v == IF k = "set" THEN Set ELSE None
  <1>2. v \in {Set, None}
    OBVIOUS
  <1>3. WithSetting(f, k, s) = [OrEmpty(f) EXCEPT ![s] = v]
    BY DEF WithSetting
  <1> DEFINE F == OrEmpty(f)
  <1>4. F \in Config
    BY OrEmptyIs
  <1> HIDE DEF v, F
  <1>5. /\ [F EXCEPT ![s] = v] \in Config
        /\ \A t \in Slot : [F EXCEPT ![s] = v][t] = IF t = s THEN v ELSE F[t]
    BY <1>1, <1>2, <1>4, ConfigExcept
  <1> QED BY <1>3, <1>5 DEF F

\* The promotion of a key that is there, and the hint.
LEMMA MarkersAre ==
  /\ \A f \in Config, p \in Provider : f[p] # None =>
       /\ Promoted(f, p) \in Config
       /\ \A t \in Slot \ {p} : Promoted(f, p)[t] = f[t]
  /\ \A f : /\ WithHint(f) \in Config
            /\ \A t \in Slot \ {"hint"} : WithHint(f)[t] = OrEmpty(f)[t]
  <1>1. ASSUME NEW f \in Config, NEW p \in Provider, f[p] # None
        PROVE  /\ Promoted(f, p) \in Config
               /\ \A t \in Slot \ {p} : Promoted(f, p)[t] = f[t]
    <2>1. f[p] \in Seat /\ p \in Slot
      BY <1>1, OtherSlots DEF Config
    <2> DEFINE v == [f[p] EXCEPT !.verified = TRUE]
    <2>2. v \in Seat
      BY <2>1 DEF Seat
    <2>3. Promoted(f, p) = [f EXCEPT ![p] = v]
      BY DEF Promoted
    <2> HIDE DEF v
    <2>4. /\ [f EXCEPT ![p] = v] \in Config
          /\ \A t \in Slot : [f EXCEPT ![p] = v][t] = IF t = p THEN v ELSE f[t]
      BY <2>1, <2>2, ConfigExcept
    <2> QED BY <2>3, <2>4
  <1>2. ASSUME NEW f
        PROVE  /\ WithHint(f) \in Config
               /\ \A t \in Slot \ {"hint"} : WithHint(f)[t] = OrEmpty(f)[t]
    BY OtherSlots, OrEmptyIs, ConfigExcept DEF WithHint
  <1> QED BY <1>1, <1>2

\* The agent step, and the fresh flow.
LEMMA WizardsAre ==
  /\ \A f : /\ WithAgents(f) \in Config
            /\ \A t \in Slot \ {"agents", "fallback"} : WithAgents(f)[t] = OrEmpty(f)[t]
  /\ \A f : \A config \in FreshConfigs(f) :
       config \in Config /\ config["agents"] = OrEmpty(f)["agents"]
  <1>1. ASSUME NEW f
        PROVE  /\ WithAgents(f) \in Config
               /\ \A t \in Slot \ {"agents", "fallback"} : WithAgents(f)[t] = OrEmpty(f)[t]
    <2> DEFINE g == [OrEmpty(f) EXCEPT !["agents"] = Set]
    <2>1. g \in Config /\ \A t \in Slot \ {"agents"} : g[t] = OrEmpty(f)[t]
      BY OtherSlots, OrEmptyIs, ConfigExcept
    <2>2. WithAgents(f) = [g EXCEPT !["fallback"] = Set]
      BY DEF WithAgents
    <2> HIDE DEF g
    <2>3. "fallback" \in Slot /\ "fallback" \notin Provider
      BY OtherSlots
    <2>4. /\ [g EXCEPT !["fallback"] = Set] \in Config
          /\ \A t \in Slot : [g EXCEPT !["fallback"] = Set][t] = IF t = "fallback" THEN Set ELSE g[t]
      BY <2>1, <2>3, ConfigExcept
    <2> QED BY <2>1, <2>2, <2>4
  <1>2. ASSUME NEW f, NEW config \in FreshConfigs(f)
        PROVE  config \in Config /\ config["agents"] = OrEmpty(f)["agents"]
    <2>1. PICK seats \in [Provider -> Seat \cup {None}] :
             config = [s \in Slot |-> IF s \in Provider THEN seats[s]
                                      ELSE IF s = "fallback" THEN Set
                                      ELSE IF s = "agents" THEN OrEmpty(f)["agents"]
                                      ELSE None]
      BY <1>2 DEF FreshConfigs
    <2>2. OrEmpty(f)["agents"] \in {Set, None}
      BY OrEmptyIs, OtherSlots DEF Config
    <2>3. \A s \in Slot : /\ s \in Provider => config[s] \in Seat \cup {None}
                          /\ s \notin Provider => config[s] \in {Set, None}
      BY <2>1, <2>2
    <2>4. config = [s \in Slot |-> config[s]]
      BY <2>1
    <2>5. config \in Config
      BY <2>3, <2>4, ConfigIs
    <2>6. config["agents"] = OrEmpty(f)["agents"]
      BY <2>1, OtherSlots
    <2> QED BY <2>5, <2>6
  <1> QED BY <1>1, <1>2

\* The menu's copy after a write.
LEMMA MirroredIs ==
  ASSUME NEW config \in Config, NEW f \in Config
  PROVE  /\ Mirrored(config, f) \in Config
         /\ \A s \in Slot : \/ Mirrored(config, f)[s] = f[s]
                            \/ s \notin Provider /\ f[s] = None
  <1> DEFINE g == Mirrored(config, f)
  <1>1. \A s \in Slot : g[s] = IF s \in Provider \/ f[s] # None THEN f[s] ELSE config[s]
    BY DEF Mirrored
  <1>2. g = [s \in Slot |-> g[s]]
    BY DEF Mirrored
  <1>3. \A s \in Slot : /\ s \in Provider => g[s] \in Seat \cup {None}
                        /\ s \notin Provider => g[s] \in {Set, None}
    BY <1>1 DEF Config
  <1> HIDE DEF g
  <1>4. g \in Config
    BY <1>2, <1>3, ConfigIs
  <1> QED BY <1>1, <1>4 DEF g

-----------------------------------------------------------------------------
\* What a step does to the files, and to the other processes.

Rests(d) ==
    UNCHANGED <<pc[d], kind[d], slot[d], next[d], copy[d], old[d], onboarded[d], empties[d],
                unsaved[d]>>

Shape(c) ==
    /\ \A d \in Process \ {c} : Rests(d)
    /\ \/ UNCHANGED <<live, bak>> /\ \A d \in Process \ {c} : UNCHANGED raced[d]
       \/ /\ UNCHANGED live
          /\ \A d \in Process \ {c} : raced'[d] = Rotated(c)[d]
       \/ /\ pc[c] = "replace"
          /\ live' = next[c]
          /\ UNCHANGED bak
          /\ \A d \in Process \ {c} : raced'[d] = raced[d] \cup Notes(c, d)

\* A command that ends leaves the others alone.
LEMMA EndLocalRests ==
  ASSUME TypeOK, NEW c \in Process, EndLocal(c)
  PROVE  /\ \A d \in Process \ {c} : Rests(d)
         /\ pc'[c] = "idle"
         /\ kind'[c] = None
  BY DEF EndLocal, Goto, Rests, TypeOK

\* So does one that ends without a write.
LEMMA EndShape ==
  ASSUME TypeOK, NEW c \in Process, EndLocal(c), Fresh(c), UNCHANGED files
  PROVE  Shape(c)
  <1>1. \A d \in Process \ {c} : UNCHANGED raced[d]
    BY DEF Fresh, TypeOK
  <1> QED BY <1>1, EndLocalRests DEF Shape, files

\* The same, of an end that is counted neither as a command nor as a fault.
LEMMA PlainEndShape ==
  ASSUME TypeOK, NEW c \in Process, End(c)
  PROVE  Shape(c)
  BY EndShape DEF End

\* The actions before writeConfig.
LEMMA CommandShapes ==
  ASSUME TypeOK, NEW c \in Process,
         \/ StartSetting(c) \/ StartPromotion(c) \/ StartHint(c) \/ StartInit(c) \/ StartRepair(c)
         \/ LockAndRead(c) \/ LockTimeout(c)
         \/ InspectMarker(c) \/ SkipAgents(c) \/ InspectAgents(c) \/ InspectFresh(c)
         \/ LoadMenu(c) \/ MenuSeat(c) \/ MenuRemove(c) \/ MenuSetting(c)
         \/ MenuRerun(c) \/ MenuCancel(c) \/ Mirror(c)
  PROVE  Shape(c)
  <1>1. CASE StartSetting(c) \/ StartPromotion(c) \/ StartHint(c) \/ StartInit(c) \/ StartRepair(c)
    <2>1. PICK k, s : Began(c, k, s)
      BY <1>1 DEF StartSetting, StartPromotion, StartHint, StartInit, StartRepair
    <2>2. \A d \in Process \ {c} : pc'[d] = pc[d] /\ onboarded'[d] = onboarded[d]
      BY <1>1 DEF StartSetting, StartPromotion, StartHint, StartInit, StartRepair, Goto, TypeOK
    <2>3. \A d \in Process \ {c} : Rests(d) /\ UNCHANGED raced[d]
      BY <2>1, <2>2 DEF Began, Rests, TypeOK
    <2> QED BY <2>1, <2>3 DEF Shape, Began, files
  <1>2. CASE LockTimeout(c) \/ MenuCancel(c)
    BY <1>2, PlainEndShape DEF LockTimeout, MenuCancel
  <1>3. CASE LockAndRead(c) \/ InspectMarker(c) \/ LoadMenu(c)
    <2>1. CASE End(c)
      BY <2>1, PlainEndShape
    <2>2. CASE ~End(c)
      <3>1. UNCHANGED <<files, kind, slot, old, onboarded, empties, unsaved>>
        BY <1>3, <2>2 DEF LockAndRead, InspectMarker, LoadMenu
      <3>2. \A d \in Process \ {c} : pc'[d] = pc[d] /\ next'[d] = next[d] /\ copy'[d] = copy[d]
                                     /\ raced'[d] = raced[d]
        BY <1>3, <2>2 DEF LockAndRead, InspectMarker, LoadMenu, Goto, Fresh, TypeOK
      <3> QED BY <3>1, <3>2 DEF Shape, Rests, files
    <2> QED BY <2>1, <2>2
  <1>4. CASE SkipAgents(c) \/ MenuRerun(c)
    <2>1. UNCHANGED <<files, next, old, raced, unsaved>>
      BY <1>4 DEF SkipAgents, MenuRerun
    <2>2. \A d \in Process \ {c} : /\ pc'[d] = pc[d] /\ kind'[d] = kind[d] /\ slot'[d] = slot[d]
                                   /\ copy'[d] = copy[d] /\ onboarded'[d] = onboarded[d]
                                   /\ empties'[d] = empties[d]
      BY <1>4 DEF SkipAgents, MenuRerun, Goto, TypeOK
    <2> QED BY <2>1, <2>2 DEF Shape, Rests, files
  <1>5. CASE InspectAgents(c) \/ InspectFresh(c) \/ Mirror(c)
    <2>1. UNCHANGED <<files, kind, old, onboarded, unsaved>>
      BY <1>5 DEF InspectAgents, InspectFresh, Mirror
    <2>2. \A d \in Process \ {c} : /\ pc'[d] = pc[d] /\ next'[d] = next[d] /\ slot'[d] = slot[d]
                                   /\ copy'[d] = copy[d] /\ empties'[d] = empties[d]
                                   /\ raced'[d] = raced[d]
      BY <1>5 DEF InspectAgents, InspectFresh, Mirror, Goto, Fresh, TypeOK
    <2> QED BY <2>1, <2>2 DEF Shape, Rests, files
  <1>6. CASE MenuSeat(c) \/ MenuRemove(c) \/ MenuSetting(c)
    <2>1. PICK s, v, e : MenuWrites(c, s, v, e)
      BY <1>6 DEF MenuSeat, MenuRemove, MenuSetting
    <2>2. UNCHANGED <<files, kind, copy, old, onboarded, raced, unsaved>>
      BY <2>1 DEF MenuWrites
    <2>3. \A d \in Process \ {c} : pc'[d] = pc[d] /\ slot'[d] = slot[d] /\ next'[d] = next[d]
                                   /\ empties'[d] = empties[d]
      BY <2>1 DEF MenuWrites, Goto, TypeOK
    <2> QED BY <2>2, <2>3 DEF Shape, Rests, files
  <1> QED BY <1>1, <1>2, <1>3, <1>4, <1>5, <1>6

\* The steps of writeConfig, and death.
LEMMA WriteShapes ==
  ASSUME TypeOK, NEW c \in Process,
         \/ Guard(c) \/ ReadBackup(c) \/ Rotate(c) \/ RotateFails(c)
         \/ Replace(c) \/ ReplaceFails(c) \/ Crash(c)
  PROVE  Shape(c)
  <1>1. CASE Guard(c)
    <2>1. CASE End(c)
      BY <2>1, PlainEndShape
    <2>2. CASE ~End(c)
      BY <1>1, <2>2 DEF Guard, Goto, Shape, Rests, files, local, TypeOK
    <2> QED BY <2>1, <2>2
  <1>2. CASE ReadBackup(c)
    <2>1. \A d \in Process \ {c} : pc'[d] = pc[d] /\ old'[d] = old[d] /\ raced'[d] = raced[d]
      BY <1>2 DEF ReadBackup, Goto, TypeOK
    <2> QED BY <1>2, <2>1 DEF ReadBackup, Shape, Rests, files
  <1>3. CASE Rotate(c) \/ RotateFails(c)
    <2>1. \A d \in Process \ {c} : pc'[d] = pc[d] /\ old'[d] = old[d] /\ unsaved'[d] = unsaved[d]
      BY <1>3 DEF Rotate, RotateFails, Goto, TypeOK
    <2>2. UNCHANGED <<live, kind, slot, next, copy, onboarded, empties>> /\ raced' = Rotated(c)
      BY <1>3 DEF Rotate, RotateFails
    <2> QED BY <2>1, <2>2 DEF Shape, Rests
  <1>4. ASSUME raced' = Replaced(c) PROVE \A d \in Process \ {c} : raced'[d] = raced[d] \cup Notes(c, d)
    BY <1>4 DEF Replaced
  <1>5. CASE Replace(c)
    <2>1. /\ pc[c] = "replace" /\ live' = next[c] /\ UNCHANGED bak /\ raced' = Replaced(c)
      BY <1>5 DEF Replace
    <2>2. \A d \in Process \ {c} : Rests(d)
      <3>1. CASE kind[c] \in {"menu", "agents"}
        BY <1>5, <3>1 DEF Replace, Goto, Rests, TypeOK
      <3>2. CASE kind[c] \notin {"menu", "agents"}
        BY <1>5, <3>2, EndLocalRests DEF Replace
      <3> QED BY <3>1, <3>2
    <2> QED BY <1>4, <2>1, <2>2 DEF Shape
  <1>6. CASE ReplaceFails(c)
    <2>1. \A d \in Process \ {c} : Rests(d)
      BY <1>6, EndLocalRests DEF ReplaceFails
    <2>2. CASE live' = live /\ Fresh(c)
      BY <1>6, <2>1, <2>2 DEF ReplaceFails, Fresh, Shape, TypeOK
    <2>3. CASE live' = next[c] /\ raced' = Replaced(c)
      BY <1>4, <1>6, <2>1, <2>3 DEF ReplaceFails, Shape
    <2> QED BY <1>6, <2>2, <2>3 DEF ReplaceFails
  <1>7. CASE Crash(c)
    BY <1>7, EndShape DEF Crash
  <1> QED BY <1>1, <1>2, <1>3, <1>5, <1>6, <1>7

\* Every action is one of these.
LEMMA StepShapes ==
  ASSUME TypeOK, NEW c \in Process, ByProcess(c)
  PROVE  Shape(c)
  BY CommandShapes, WriteShapes DEF ByProcess

-----------------------------------------------------------------------------
\* Types.

\* A command that ends leaves its variables well typed.
LEMMA EndLocalTypes ==
  ASSUME TypeOK, NEW c \in Process, EndLocal(c)
  PROVE  /\ pc' \in [Process -> Location]
         /\ kind' \in [Process -> Kind \cup {None}]
         /\ slot' \in [Process -> Slot \cup {None}]
         /\ next' \in [Process -> Config \cup {None}]
         /\ copy' \in [Process -> Config \cup {None}]
         /\ old' \in [Process -> File \cup {None}]
         /\ onboarded' \in [Process -> BOOLEAN]
         /\ empties' \in [Process -> BOOLEAN]
         /\ unsaved' \in [Process -> BOOLEAN]
  BY DEF EndLocal, Goto, TypeOK, Location

\* A fault and a command are counted within their bounds.
LEMMA CountTypes ==
  ASSUME TypeOK
  PROVE  /\ Fault => commands' \in 0..MaxCommands /\ faults' \in 0..MaxFaults
         /\ \A c, k, s : Began(c, k, s) => commands' \in 0..MaxCommands /\ faults' \in 0..MaxFaults
         /\ \A c, s, v, e : MenuWrites(c, s, v, e) =>
              commands' \in 0..MaxCommands /\ faults' \in 0..MaxFaults
  BY ConstantsAssumption DEF TypeOK, Fault, Began, MenuWrites

\* What a process starts afresh with is well typed.
LEMMA FreshTypes ==
  ASSUME TypeOK, NEW c, Fresh(c)
  PROVE  raced' \in [Process -> SUBSET {"read", "guard", "backup"}]
  BY DEF TypeOK, Fresh

\* So is what a replacement and a rotation note.
LEMMA RacedTypes ==
  ASSUME TypeOK, NEW c \in Process
  PROVE  /\ Replaced(c) \in [Process -> SUBSET {"read", "guard", "backup"}]
         /\ Rotated(c) \in [Process -> SUBSET {"read", "guard", "backup"}]
  <1> DEFINE R == SUBSET {"read", "guard", "backup"}
  <1>1. \A d \in Process : raced[d] \in R
    BY DEF TypeOK
  <1>2. \A d \in Process : Notes(c, d) \in R
    BY DEF Notes
  <1>3. \A d \in Process : (IF d = c THEN {} ELSE raced[d] \cup Notes(c, d)) \in R
    BY <1>1, <1>2
  <1>4. \A d \in Process :
          (IF d # c /\ pc[d] = "replace" THEN raced[d] \cup {"backup"} ELSE raced[d]) \in R
    BY <1>1
  <1> HIDE DEF R
  <1>5. Replaced(c) \in [Process -> R] /\ Rotated(c) \in [Process -> R]
    BY <1>3, <1>4 DEF Replaced, Rotated
  <1> QED BY <1>5 DEF R

\* An end keeps the types.
LEMMA EndTypes ==
  ASSUME TypeOK, NEW c \in Process, End(c)
  PROVE  TypeOK'
  <1>1. EndLocal(c) /\ Fresh(c) /\ UNCHANGED <<live, bak, commands, faults>>
    BY DEF End, files, counts
  <1> QED BY <1>1, EndLocalTypes, FreshTypes DEF TypeOK

\* The actions before writeConfig keep the types.
LEMMA CommandTypes ==
  ASSUME TypeOK, NEW c \in Process, InPlace(c),
         \/ StartSetting(c) \/ StartPromotion(c) \/ StartHint(c) \/ StartInit(c) \/ StartRepair(c)
         \/ LockAndRead(c) \/ LockTimeout(c)
         \/ InspectMarker(c) \/ SkipAgents(c) \/ InspectAgents(c) \/ InspectFresh(c)
         \/ LoadMenu(c) \/ MenuSeat(c) \/ MenuRemove(c) \/ MenuSetting(c)
         \/ MenuRerun(c) \/ MenuCancel(c) \/ Mirror(c)
  PROVE  TypeOK'
  <1> USE DEF files, counts
  <1>1. CASE StartSetting(c) \/ StartPromotion(c) \/ StartHint(c) \/ StartInit(c) \/ StartRepair(c)
    <2>1. PICK k \in Kind, s \in Slot : Began(c, k, s)
      <3>1. Setting \subseteq Slot /\ {"agents", "hint"} \subseteq Slot
        BY DEF Slot
      <3>2. \A p \in Seated(live) : p \in Slot
        BY DEF Seated, Slot
      <3> QED BY <1>1, <3>1, <3>2 DEF StartSetting, StartPromotion, StartHint, StartInit,
                                     StartRepair, Kind
    <2>2. pc' \in [Process -> Location] /\ onboarded' \in [Process -> BOOLEAN]
      BY <1>1 DEF StartSetting, StartPromotion, StartHint, StartInit, StartRepair, Goto, TypeOK,
                  Location, Populated
    <2>3. kind' \in [Process -> Kind \cup {None}] /\ slot' \in [Process -> Slot \cup {None}]
      BY <2>1 DEF Began, TypeOK
    <2>4. UNCHANGED <<live, bak, next, copy, old, empties, raced, unsaved>>
      BY <2>1 DEF Began
    <2>5. commands' \in 0..MaxCommands /\ faults' \in 0..MaxFaults
      BY <2>1, CountTypes
    <2> QED BY <2>2, <2>3, <2>4, <2>5 DEF TypeOK
  <1>2. CASE End(c)
    BY <1>2, EndTypes
  <1>3. CASE LockTimeout(c) \/ MenuCancel(c)
    BY <1>3, EndTypes DEF LockTimeout, MenuCancel
  <1>4. ASSUME UNCHANGED <<live, bak, commands, faults, kind, slot, copy, old, onboarded, unsaved>>,
               empties' \in [Process -> BOOLEAN], Fresh(c), Goto(c, "guard"),
               NEW config \in Config, next' = [next EXCEPT ![c] = config]
        PROVE  TypeOK'
    <2>1. next' \in [Process -> Config \cup {None}]
      BY <1>4 DEF TypeOK
    <2>2. pc' \in [Process -> Location]
      BY <1>4 DEF TypeOK, Goto, Location
    <2> QED BY <1>4, <2>1, <2>2, FreshTypes DEF TypeOK
  <1>5. CASE LockAndRead(c) /\ ~End(c)
    <2>1. WithSetting(live, kind[c], slot[c]) \in Config
      BY <1>5, WithSettingIs DEF LockAndRead, InPlace
    <2> QED BY <1>4, <1>5, <2>1 DEF LockAndRead, TypeOK
  <1>6. CASE InspectMarker(c) /\ ~End(c)
    <2>1. Wants(c)
      BY <1>6 DEF InspectMarker
    <2>2. (IF kind[c] = "promote" THEN Promoted(live, slot[c]) ELSE WithHint(live)) \in Config
      BY <1>6, <2>1, MarkersAre DEF InspectMarker, Wants, InPlace
    <2> QED BY <1>4, <1>6, <2>1, <2>2 DEF InspectMarker, TypeOK
  <1>7. CASE InspectAgents(c)
    BY <1>4, <1>7, WizardsAre DEF InspectAgents, TypeOK
  <1>8. CASE InspectFresh(c)
    <2>1. PICK config \in FreshConfigs(live) :
             /\ next' = [next EXCEPT ![c] = config]
             /\ empties' = [empties EXCEPT ![c] = @ /\ Seated(config) = {}]
      BY <1>8 DEF InspectFresh
    <2>2. config \in Config
      BY WizardsAre
    <2>3. empties' \in [Process -> BOOLEAN]
      BY <2>1 DEF TypeOK
    <2> QED BY <1>4, <1>8, <2>1, <2>2, <2>3 DEF InspectFresh
  <1>9. CASE SkipAgents(c)
    BY <1>9 DEF SkipAgents, AfterAgents, Goto, TypeOK, Location, Kind
  <1>10. CASE LoadMenu(c) /\ ~End(c)
    <2>1. Fresh(c) /\ copy' \in [Process -> Config \cup {None}] /\ pc' \in [Process -> Location]
      BY <1>10 DEF LoadMenu, Goto, TypeOK, Location
    <2>2. UNCHANGED <<live, bak, commands, faults, kind, slot, next, old, onboarded, empties, unsaved>>
      BY <1>10 DEF LoadMenu
    <2> QED BY <2>1, <2>2, FreshTypes DEF TypeOK
  <1>11. ASSUME NEW s \in Slot, NEW v, NEW e \in BOOLEAN, MenuWrites(c, s, v, e),
                s \in Provider => v \in Seat \cup {None},
                s \notin Provider => v \in {Set, None}
         PROVE  TypeOK'
    <2>1. copy[c] \in Config
      BY <1>11 DEF MenuWrites, InPlace
    <2>2. [copy[c] EXCEPT ![s] = v] \in Config
      BY <1>11, <2>1, ConfigExcept
    <2>3. next' \in [Process -> Config \cup {None}]
      BY <1>11, <2>2 DEF MenuWrites, TypeOK
    <2>4. /\ pc' \in [Process -> Location]
          /\ slot' \in [Process -> Slot \cup {None}]
          /\ empties' \in [Process -> BOOLEAN]
      BY <1>11 DEF MenuWrites, Goto, TypeOK, Location
    <2>5. UNCHANGED <<live, bak, kind, copy, old, onboarded, raced, unsaved>>
      BY <1>11 DEF MenuWrites
    <2>6. commands' \in 0..MaxCommands /\ faults' \in 0..MaxFaults
      BY <1>11, CountTypes
    <2> QED BY <2>3, <2>4, <2>5, <2>6 DEF TypeOK
  <1>12. CASE MenuSeat(c)
    BY <1>11, <1>12, OtherSlots DEF MenuSeat
  <1>13. CASE MenuRemove(c)
    BY <1>11, <1>13, OtherSlots DEF MenuRemove, Seated
  <1>14. CASE MenuSetting(c)
    BY <1>11, <1>14, OtherSlots DEF MenuSetting
  <1>15. CASE MenuRerun(c)
    BY <1>15, OtherSlots DEF MenuRerun, Goto, TypeOK, Location, Kind
  <1>16. CASE Mirror(c)
    <2>1. live \in Config /\ copy[c] \in Config
      BY <1>16 DEF Mirror, InPlace
    <2>2. Mirrored(copy[c], live) \in Config
      BY <2>1, MirroredIs
    <2>3. copy' \in [Process -> Config \cup {None}]
      BY <1>16, <2>1, <2>2 DEF Mirror, TypeOK
    <2>4. slot' \in [Process -> Slot \cup {None}] /\ pc' \in [Process -> Location] /\ Fresh(c)
      BY <1>16 DEF Mirror, Goto, TypeOK, Location
    <2>5. UNCHANGED <<live, bak, commands, faults, kind, next, old, onboarded, empties, unsaved>>
      BY <1>16 DEF Mirror
    <2> QED BY <2>3, <2>4, <2>5, FreshTypes DEF TypeOK
  <1> QED
    BY <1>1, <1>2, <1>3, <1>5, <1>6, <1>7, <1>8, <1>9, <1>10, <1>12, <1>13, <1>14, <1>15, <1>16

\* So do the steps of writeConfig, and death.
LEMMA WriteTypes ==
  ASSUME TypeOK, NEW c \in Process, InPlace(c),
         \/ Guard(c) \/ ReadBackup(c) \/ Rotate(c) \/ RotateFails(c)
         \/ Replace(c) \/ ReplaceFails(c) \/ Crash(c)
  PROVE  TypeOK'
  <1> USE DEF files, counts
  <1>1. CASE End(c)
    BY <1>1, EndTypes
  <1>2. CASE Guard(c) /\ ~End(c)
    <2>1. pc' \in [Process -> Location] /\ raced' \in [Process -> SUBSET {"read", "guard", "backup"}]
      BY <1>2 DEF Guard, Goto, TypeOK, Location, Writing
    <2>2. UNCHANGED <<live, bak, commands, faults, local, unsaved>>
      BY <1>2 DEF Guard
    <2> QED BY <2>1, <2>2 DEF TypeOK, local
  <1>3. CASE ReadBackup(c)
    <2>1. pc' \in [Process -> Location] /\ raced' \in [Process -> SUBSET {"read", "guard", "backup"}]
      BY <1>3 DEF ReadBackup, Goto, TypeOK, Location, Writing
    <2>2. old' \in [Process -> File \cup {None}]
      BY <1>3 DEF ReadBackup, TypeOK
    <2> QED BY <1>3, <2>1, <2>2 DEF ReadBackup, TypeOK
  <1>4. CASE Rotate(c) \/ RotateFails(c)
    <2>1. old[c] \in File
      BY <1>4 DEF Rotate, RotateFails, InPlace
    <2>2. bak' \in File /\ raced' = Rotated(c)
      BY <1>4, <2>1 DEF Rotate, RotateFails, Bytes, TypeOK
    <2>3. /\ pc' \in [Process -> Location]
          /\ old' \in [Process -> File \cup {None}]
          /\ unsaved' \in [Process -> BOOLEAN]
      BY <1>4 DEF Rotate, RotateFails, Goto, TypeOK, Location, Writing
    <2>4. UNCHANGED <<live, kind, slot, next, copy, onboarded, empties>>
      BY <1>4 DEF Rotate, RotateFails
    <2>5. commands' \in 0..MaxCommands /\ faults' \in 0..MaxFaults
      BY <1>4, CountTypes DEF Rotate, RotateFails, TypeOK
    <2> QED BY <2>2, <2>3, <2>4, <2>5, RacedTypes DEF TypeOK
  <1>5. pc[c] = "replace" => next[c] \in File
    BY DEF InPlace, Writing, File
  <1>6. CASE Replace(c)
    <2>1. live' \in File /\ raced' = Replaced(c) /\ UNCHANGED <<bak, commands, faults>>
      BY <1>5, <1>6 DEF Replace
    <2>2. CASE kind[c] \in {"menu", "agents"}
      <3>1. /\ Goto(c, AfterWrite(c))
            /\ kind' = [kind EXCEPT ![c] = IF @ = "agents" /\ ~onboarded[c] THEN "fresh" ELSE "menu"]
            /\ slot' = [slot EXCEPT ![c] = None]
            /\ next' = [next EXCEPT ![c] = None]
            /\ empties' = [empties EXCEPT ![c] = @ /\ kind[c] = "agents"]
            /\ unsaved' = [unsaved EXCEPT ![c] = FALSE]
            /\ UNCHANGED <<copy, old, onboarded>>
        BY <1>6, <2>2 DEF Replace
      <3>2. /\ pc' \in [Process -> Location]
            /\ kind' \in [Process -> Kind \cup {None}]
        BY <3>1 DEF Goto, AfterWrite, AfterAgents, TypeOK, Location, Kind
      <3>3. slot' \in [Process -> Slot \cup {None}] /\ next' \in [Process -> Config \cup {None}]
        BY <3>1 DEF TypeOK
      <3>4. empties' \in [Process -> BOOLEAN] /\ unsaved' \in [Process -> BOOLEAN]
        BY <3>1 DEF TypeOK
      <3> QED BY <2>1, <3>1, <3>2, <3>3, <3>4, RacedTypes DEF TypeOK
    <2>3. CASE kind[c] \notin {"menu", "agents"}
      BY <1>6, <2>1, <2>3, EndLocalTypes, RacedTypes DEF Replace, TypeOK
    <2> QED BY <2>2, <2>3
  <1>7. CASE ReplaceFails(c)
    <2>1. live' \in File
      BY <1>5, <1>7 DEF ReplaceFails, TypeOK
    <2>2. raced' \in [Process -> SUBSET {"read", "guard", "backup"}]
      BY <1>7, FreshTypes, RacedTypes DEF ReplaceFails
    <2>3. commands' \in 0..MaxCommands /\ faults' \in 0..MaxFaults /\ UNCHANGED bak /\ EndLocal(c)
      BY <1>7, CountTypes DEF ReplaceFails
    <2> QED BY <2>1, <2>2, <2>3, EndLocalTypes DEF TypeOK
  <1>8. CASE Crash(c)
    <2>1. commands' \in 0..MaxCommands /\ faults' \in 0..MaxFaults /\ UNCHANGED <<live, bak>>
          /\ EndLocal(c) /\ Fresh(c)
      BY <1>8, CountTypes DEF Crash
    <2> QED BY <2>1, EndLocalTypes, FreshTypes DEF TypeOK
  <1> QED BY <1>1, <1>2, <1>3, <1>4, <1>6, <1>7, <1>8

\* Every step keeps the types.
LEMMA NextTypes ==
  ASSUME IInv, [Next]_vars
  PROVE  TypeOK'
  <1>1. TypeOK /\ \A c \in Process : InPlace(c)
    BY DEF IInv, Good
  <1>2. CASE UNCHANGED vars
    BY <1>1, <1>2 DEF vars, local, TypeOK
  <1> QED BY <1>1, <1>2, CommandTypes, WriteTypes DEF Next

-----------------------------------------------------------------------------
\* What another process's step leaves a command that waits.

\* Its variables are in place.
LEMMA RestingInPlace ==
  ASSUME IInv, NEW c \in Process, Shape(c), NEW d \in Process \ {c}
  PROVE  InPlace(d)'
  <1>1. InPlace(c) /\ InPlace(d) /\ TypeOK
    BY DEF IInv, Good
  <1>2. Rests(d)
    BY DEF Shape
  <1>3. live \in Config => live' \in Config
    BY <1>1 DEF Shape, InPlace, Writing
  <1> QED BY <1>1, <1>2, <1>3 DEF InPlace, Rests

\* Its copy is the file's, or it is noted that it is not: only one command at a
\* time is between the read and the write of a locked change.
LEMMA RestingCopyAgrees ==
  ASSUME IInv, NEW c \in Process, Shape(c), NEW d \in Process \ {c}
  PROVE  CopyAgrees(d)'
  <1>1. CopyAgrees(d) /\ TypeOK /\ OneHolder
    BY DEF IInv, Good
  <1>2. Rests(d)
    BY DEF Shape
  <1>3. CASE UNCHANGED live
    <2>1. "read" \notin raced'[d] => "read" \notin raced[d]
      BY DEF Shape, Rotated
    <2>2. Own(d)' = Own(d)
      BY <1>2 DEF Rests, Own
    <2>3. OrEmpty(live)' = OrEmpty(live)
      BY <1>3 DEF OrEmpty
    <2> QED BY <1>1, <1>2, <2>1, <2>2, <2>3 DEF CopyAgrees, Rests, MenuAgrees, Agrees
  <1>4. CASE ~UNCHANGED live
    <2>1. raced'[d] = raced[d] \cup Notes(c, d)
      BY <1>4 DEF Shape
    <2>2. ~(Locked(c) /\ Locked(d))
      BY <1>1 DEF OneHolder
    <2>3. pc[d] \in Writing \cup {"menu", "guard"} => "read" \in raced'[d]
      BY <2>1, <2>2 DEF Notes
    <2> QED BY <1>2, <2>3 DEF CopyAgrees, Rests
  <1> QED BY <1>3, <1>4

\* An empty config is still meant.
LEMMA RestingEmptyIsMeant ==
  ASSUME IInv, NEW c \in Process, Shape(c), NEW d \in Process \ {c}
  PROVE  EmptyIsMeant(d)'
  <1>1. EmptyIsMeant(d)
    BY DEF IInv, Good
  <1>2. Rests(d)
    BY DEF Shape
  <1>3. Seated(next[d])' = Seated(next[d])
    BY <1>2 DEF Rests, Seated
  <1>4. CASE UNCHANGED live
    <2>1. "guard" \in raced[d] => "guard" \in raced'[d]
      BY DEF Shape, Rotated
    <2>2. Populated(live)' = Populated(live)
      BY <1>4 DEF Populated, Seated
    <2> QED BY <1>1, <1>2, <1>3, <2>1, <2>2 DEF EmptyIsMeant, Rests
  <1>5. CASE ~UNCHANGED live
    <2>1. raced'[d] = raced[d] \cup Notes(c, d) /\ live' = next[c]
      BY <1>5 DEF Shape
    <2>2. Populated(live)' => Seated(next[c]) # {}
      BY <2>1 DEF Populated, Seated
    <2>3. pc[d] \in Writing /\ Populated(live)' => "guard" \in raced'[d]
      BY <2>1, <2>2 DEF Notes
    <2> QED BY <1>2, <2>3 DEF EmptyIsMeant, Rests
  <1> QED BY <1>4, <1>5

\* The backup is still of the file.
LEMMA RestingBackupIsTrue ==
  ASSUME IInv, NEW c \in Process, Shape(c), NEW d \in Process \ {c}
  PROVE  BackupIsTrue(d)'
  <1>1. BackupIsTrue(d)
    BY DEF IInv, Good
  <1>2. Rests(d)
    BY DEF Shape
  <1>3. CASE UNCHANGED <<live, bak>> /\ UNCHANGED raced[d]
    BY <1>1, <1>2, <1>3 DEF BackupIsTrue, Rests
  <1>4. CASE UNCHANGED live /\ raced'[d] = Rotated(c)[d]
    <2>1. raced'[d] = IF pc[d] = "replace" THEN raced[d] \cup {"backup"} ELSE raced[d]
      BY <1>4 DEF Rotated
    <2> QED BY <1>1, <1>2, <1>4, <2>1 DEF BackupIsTrue, Rests
  <1>5. CASE raced'[d] = raced[d] \cup Notes(c, d)
    <2>1. pc[d] \in {"rotate", "replace"} => "backup" \in raced'[d]
      BY <1>5 DEF Notes
    <2> QED BY <1>2, <2>1 DEF BackupIsTrue, Rests
  <1> QED BY <1>3, <1>4, <1>5 DEF Shape

\* Altogether.
LEMMA RestingGood ==
  ASSUME IInv, NEW c \in Process, Shape(c), NEW d \in Process \ {c}
  PROVE  Good(d)'
  BY RestingInPlace, RestingCopyAgrees, RestingEmptyIsMeant, RestingBackupIsTrue DEF Good

-----------------------------------------------------------------------------
\* What a command's own step leaves it.

\* Where a process is neither writing nor at its menu, nothing is relied on.
LEMMA ElsewhereGood ==
  ASSUME NEW c \in Process, InPlace(c)',
         pc'[c] \notin Writing \cup {"menu", "guard"}
  PROVE  Good(c)'
  BY DEF Good, CopyAgrees, EmptyIsMeant, BackupIsTrue, Writing

\* An end.
LEMMA EndGood ==
  ASSUME TypeOK, NEW c \in Process, EndLocal(c)
  PROVE  Good(c)'
  <1>1. pc'[c] = "idle"
    BY EndLocalRests
  <1>2. InPlace(c)'
    BY <1>1 DEF InPlace, Writing
  <1> QED BY <1>1, <1>2, ElsewhereGood DEF Writing

\* A step to the guard, by what is going to be written.
LEMMA AtGuardGood ==
  ASSUME NEW c \in Process, pc'[c] = "guard", next'[c] \in Config, kind'[c] \in Kind,
         kind'[c] = "menu" => copy'[c] \in Config,
         "read" \notin raced'[c] =>
             IF kind'[c] = "menu" THEN MenuAgrees(next[c], Own(c))' ELSE Agrees(next[c], Own(c))'
  PROVE  Good(c)'
  <1>1. InPlace(c)'
    BY DEF InPlace, Writing
  <1>2. CopyAgrees(c)'
    BY DEF CopyAgrees, Writing
  <1> QED BY <1>1, <1>2 DEF Good, EmptyIsMeant, BackupIsTrue, Writing

\* The starts.
LEMMA StartGood ==
  ASSUME IInv, NEW c \in Process,
         StartSetting(c) \/ StartPromotion(c) \/ StartHint(c) \/ StartInit(c) \/ StartRepair(c)
  PROVE  Good(c)'
  <1>1. TypeOK
    BY DEF IInv
  <1>2. CASE StartSetting(c)
    <2>1. PICK k \in {"set", "unset"}, s \in Setting : Began(c, k, s)
      BY <1>2 DEF StartSetting
    <2>2. pc'[c] = "lock" /\ kind'[c] = k /\ slot'[c] = s
      BY <1>1, <1>2, <2>1 DEF StartSetting, Began, Goto, TypeOK
    <2>3. InPlace(c)'
      BY <2>2 DEF InPlace, Writing
    <2> QED BY <2>2, <2>3, ElsewhereGood DEF Writing
  <1>3. CASE StartPromotion(c)
    <2>1. PICK p \in Seated(live) : Began(c, "promote", p)
      BY <1>3 DEF StartPromotion
    <2>2. pc'[c] = "inspect" /\ kind'[c] = "promote" /\ slot'[c] = p /\ p \in Provider
      BY <1>1, <1>3, <2>1 DEF StartPromotion, Began, Goto, TypeOK, Seated
    <2>3. InPlace(c)'
      BY <2>2 DEF InPlace, Writing
    <2> QED BY <2>2, <2>3, ElsewhereGood DEF Writing
  <1>4. CASE StartHint(c) \/ StartInit(c) \/ StartRepair(c)
    <2>1. /\ pc'[c] = "inspect"
          /\ kind'[c] \in {"hint", "agents"}
          /\ kind'[c] = "hint" => slot'[c] = "hint"
      BY <1>1, <1>4 DEF StartHint, StartInit, StartRepair, Began, Goto, TypeOK
    <2>2. InPlace(c)'
      BY <2>1 DEF InPlace, Writing
    <2> QED BY <2>1, <2>2, ElsewhereGood DEF Writing
  <1> QED BY <1>2, <1>3, <1>4

\* What set and unset read, and the markers.
LEMMA ReadGood ==
  ASSUME IInv, NEW c \in Process, LockAndRead(c) \/ InspectMarker(c)
  PROVE  Good(c)'
  <1>1. TypeOK /\ InPlace(c)
    BY DEF IInv, Good
  <1>2. CASE End(c)
    BY <1>1, <1>2, EndGood DEF End
  <1>3. CASE LockAndRead(c) /\ ~End(c)
    <2>1. /\ next' = [next EXCEPT ![c] = WithSetting(live, kind[c], slot[c])]
          /\ pc' = [pc EXCEPT ![c] = "guard"]
          /\ UNCHANGED <<live, kind, slot>>
      BY <1>3 DEF LockAndRead, Goto, files
    <2>2. pc'[c] = "guard" /\ next'[c] = WithSetting(live, kind[c], slot[c]) /\ kind'[c] = kind[c]
      BY <1>1, <2>1 DEF TypeOK
    <2>3. kind[c] \in {"set", "unset"} /\ slot[c] \in Setting
      BY <1>1, <1>3 DEF InPlace, LockAndRead
    <2>4. /\ WithSetting(live, kind[c], slot[c]) \in Config
          /\ \A t \in Slot \ {slot[c]} : WithSetting(live, kind[c], slot[c])[t] = OrEmpty(live)[t]
      BY <2>3, WithSettingIs
    <2>5. Agrees(next[c], Own(c))'
      BY <2>1, <2>2, <2>3, <2>4 DEF Agrees, Own, OrEmpty
    <2>6. kind'[c] \in Kind /\ kind'[c] # "menu"
      BY <2>2, <2>3 DEF Kind
    <2> QED BY <2>2, <2>4, <2>5, <2>6, AtGuardGood
  <1>4. CASE InspectMarker(c) /\ ~End(c)
    <2> DEFINE N == IF kind[c] = "promote" THEN Promoted(live, slot[c]) ELSE WithHint(live)
    <2>1. /\ next' = [next EXCEPT ![c] = N]
          /\ pc' = [pc EXCEPT ![c] = "guard"]
          /\ UNCHANGED <<live, kind, slot>>
          /\ Wants(c)
      BY <1>4 DEF InspectMarker, Goto, files
    <2>2. pc'[c] = "guard" /\ next'[c] = N /\ kind'[c] = kind[c] /\ slot'[c] = slot[c]
      BY <1>1, <2>1 DEF TypeOK
    <2>3. kind[c] \in {"promote", "hint"} /\ (kind[c] = "promote" => slot[c] \in Provider)
      BY <1>1, <1>4 DEF InPlace, InspectMarker
    <2>4. CASE kind[c] = "promote"
      <3>1. N = Promoted(live, slot[c]) /\ live \in Config /\ live[slot[c]] # None
        BY <2>1, <2>4 DEF Wants
      <3>2. N \in Config /\ \A t \in Slot \ {slot[c]} : N[t] = live[t]
        BY <2>3, <2>4, <3>1, MarkersAre
      <3> HIDE DEF N
      <3>3. Agrees(next[c], Own(c))'
        BY <2>1, <2>2, <2>4, <3>1, <3>2 DEF Agrees, Own, OrEmpty
      <3>4. kind'[c] \in Kind /\ kind'[c] # "menu"
        BY <2>2, <2>4 DEF Kind
      <3> QED BY <2>2, <3>2, <3>3, <3>4, AtGuardGood
    <2>5. CASE kind[c] = "hint"
      <3>1. N \in Config /\ \A t \in Slot \ {"hint"} : N[t] = OrEmpty(live)[t]
        BY <2>5, MarkersAre
      <3> HIDE DEF N
      <3>2. slot[c] = "hint"
        BY <1>1, <1>4, <2>5 DEF InPlace, InspectMarker
      <3>3. Agrees(next[c], Own(c))'
        BY <2>1, <2>2, <2>5, <3>1, <3>2 DEF Agrees, Own, OrEmpty
      <3>4. kind'[c] \in Kind /\ kind'[c] # "menu"
        BY <2>2, <2>5 DEF Kind
      <3> QED BY <2>2, <3>1, <3>3, <3>4, AtGuardGood
    <2> QED BY <2>3, <2>4, <2>5
  <1> QED BY <1>2, <1>3, <1>4

\* The wizard outside its menu.
LEMMA WizardGood ==
  ASSUME IInv, NEW c \in Process,
         SkipAgents(c) \/ MenuRerun(c) \/ InspectAgents(c) \/ InspectFresh(c)
  PROVE  Good(c)'
  <1>1. TypeOK
    BY DEF IInv
  <1>2. CASE SkipAgents(c)
    <2>1. \/ pc'[c] = "load" /\ kind'[c] = "menu"
          \/ pc'[c] = "inspect" /\ kind'[c] = "fresh"
      BY <1>1, <1>2 DEF SkipAgents, AfterAgents, Goto, TypeOK
    <2>2. InPlace(c)'
      BY <2>1 DEF InPlace, Writing
    <2> QED BY <2>1, <2>2, ElsewhereGood DEF Writing
  <1>3. CASE MenuRerun(c)
    <2>1. pc'[c] = "inspect" /\ kind'[c] = "agents"
      BY <1>1, <1>3 DEF MenuRerun, Goto, TypeOK
    <2>2. InPlace(c)'
      BY <2>1 DEF InPlace, Writing
    <2> QED BY <2>1, <2>2, ElsewhereGood DEF Writing
  <1>4. CASE InspectAgents(c)
    <2>1. /\ pc'[c] = "guard"
          /\ next'[c] = WithAgents(live)
          /\ kind'[c] = "agents"
          /\ UNCHANGED live
      BY <1>1, <1>4 DEF InspectAgents, Goto, TypeOK, files
    <2>2. /\ WithAgents(live) \in Config
          /\ \A t \in Slot \ {"agents", "fallback"} : WithAgents(live)[t] = OrEmpty(live)[t]
      BY WizardsAre
    <2>3. Agrees(next[c], Own(c))'
      BY <2>1, <2>2 DEF Agrees, Own, OrEmpty
    <2> QED BY <2>1, <2>2, <2>3, AtGuardGood DEF Kind
  <1>5. CASE InspectFresh(c)
    <2>1. PICK config \in FreshConfigs(live) : next' = [next EXCEPT ![c] = config]
      BY <1>5 DEF InspectFresh
    <2>2. /\ pc'[c] = "guard"
          /\ next'[c] = config
          /\ kind'[c] = "fresh"
          /\ UNCHANGED live
      BY <1>1, <1>5, <2>1 DEF InspectFresh, Goto, TypeOK, files
    <2>3. config \in Config /\ config["agents"] = OrEmpty(live)["agents"]
      BY WizardsAre
    <2>4. Agrees(next[c], Own(c))'
      BY <2>2, <2>3 DEF Agrees, Own, OrEmpty
    <2> QED BY <2>2, <2>3, <2>4, AtGuardGood DEF Kind
  <1> QED BY <1>2, <1>3, <1>4, <1>5

\* One action of the menu.
LEMMA MenuWritesGood ==
  ASSUME IInv, NEW c \in Process, NEW s \in Slot, NEW v, NEW asked, MenuWrites(c, s, v, asked),
         s \in Provider => v \in Seat \cup {None},
         s \notin Provider => v \in {Set, None}
  PROVE  Good(c)'
  <1>1. TypeOK /\ InPlace(c) /\ CopyAgrees(c)
    BY DEF IInv, Good
  <1>2. pc[c] = "menu" /\ kind[c] = "menu" /\ copy[c] \in Config
    BY <1>1 DEF MenuWrites, InPlace
  <1> DEFINE f == copy[c]
  <1>3. /\ pc'[c] = "guard" /\ kind'[c] = "menu" /\ copy'[c] = copy[c] /\ slot'[c] = s
        /\ next'[c] = [f EXCEPT ![s] = v]
        /\ raced'[c] = raced[c]
        /\ UNCHANGED live
    BY <1>1, <1>2 DEF MenuWrites, Goto, TypeOK, files
  <1> HIDE DEF f
  <1>4. f \in Config
    BY <1>2 DEF f
  <1>5. /\ [f EXCEPT ![s] = v] \in Config
        /\ \A t \in Slot : [f EXCEPT ![s] = v][t] = IF t = s THEN v ELSE f[t]
    BY <1>4, ConfigExcept
  <1>6. "read" \notin raced'[c] => MenuAgrees(f, {})
    BY <1>1, <1>2, <1>3 DEF CopyAgrees, f
  <1>7. Own(c)' = {s}
    BY <1>3 DEF Own
  <1>8. "read" \notin raced'[c] => MenuAgrees(next[c], Own(c))'
    <2> SUFFICES ASSUME "read" \notin raced'[c], NEW t \in Slot \ {s}
                 PROVE  \/ next'[c][t] = OrEmpty(live')[t]
                        \/ t \notin Provider /\ OrEmpty(live')[t] = None
      BY <1>7 DEF MenuAgrees, OrEmpty
    <2>1. next'[c][t] = f[t] /\ OrEmpty(live') = OrEmpty(live)
      BY <1>3, <1>5
    <2> QED BY <1>6, <2>1 DEF MenuAgrees
  <1> QED BY <1>2, <1>3, <1>5, <1>8, AtGuardGood DEF Kind

\* The menu.
LEMMA MenuGood ==
  ASSUME IInv, NEW c \in Process,
         LoadMenu(c) \/ MenuSeat(c) \/ MenuRemove(c) \/ MenuSetting(c) \/ Mirror(c)
  PROVE  Good(c)'
  <1>1. TypeOK /\ InPlace(c)
    BY DEF IInv, Good
  <1>2. CASE MenuSeat(c)
    BY <1>2, OtherSlots, MenuWritesGood DEF MenuSeat
  <1>3. CASE MenuRemove(c)
    BY <1>3, OtherSlots, MenuWritesGood DEF MenuRemove, Seated
  <1>4. CASE MenuSetting(c)
    BY <1>4, OtherSlots, MenuWritesGood DEF MenuSetting
  <1>5. CASE LoadMenu(c)
    <2>1. CASE End(c)
      BY <1>1, <2>1, EndGood DEF End
    <2>2. CASE ~End(c)
      <3>1. /\ live \in Config /\ UNCHANGED live /\ pc'[c] = "menu" /\ copy'[c] = live
            /\ kind'[c] = "menu"
        BY <1>1, <1>5, <2>2 DEF LoadMenu, InPlace, Goto, TypeOK, files
      <3>2. InPlace(c)'
        BY <3>1 DEF InPlace, Writing
      <3>3. MenuAgrees(copy[c], {})'
        BY <3>1 DEF MenuAgrees, OrEmpty
      <3> QED BY <3>1, <3>2, <3>3 DEF Good, CopyAgrees, EmptyIsMeant, BackupIsTrue, Writing
    <2> QED BY <2>1, <2>2
  <1>6. CASE Mirror(c)
    <2>1. live \in Config /\ copy[c] \in Config /\ kind[c] = "menu"
      BY <1>1, <1>6 DEF Mirror, InPlace
    <2>2. /\ UNCHANGED live /\ pc'[c] = "menu" /\ copy'[c] = Mirrored(copy[c], live)
          /\ kind'[c] = "menu"
      BY <1>1, <1>6, <2>1 DEF Mirror, Goto, TypeOK, files
    <2>3. /\ Mirrored(copy[c], live) \in Config
          /\ \A s \in Slot : \/ Mirrored(copy[c], live)[s] = live[s]
                             \/ s \notin Provider /\ live[s] = None
      BY <2>1, MirroredIs
    <2>4. InPlace(c)'
      BY <2>1, <2>2, <2>3 DEF InPlace, Writing
    <2>5. MenuAgrees(copy[c], {})'
      BY <2>1, <2>2, <2>3 DEF MenuAgrees, OrEmpty
    <2> QED BY <2>2, <2>4, <2>5 DEF Good, CopyAgrees, EmptyIsMeant, BackupIsTrue, Writing
  <1> QED BY <1>2, <1>3, <1>4, <1>5, <1>6

\* Of the steps of writeConfig: its command and its config are what they were.
StillWrites(c) ==
    /\ UNCHANGED <<live, kind[c], slot[c], next[c], copy[c], empties[c]>>
    /\ "read" \in raced[c] => "read" \in raced'[c]

\* Writing goes on with the same copy.
LEMMA StillWritesAgrees ==
  ASSUME IInv, NEW c \in Process, StillWrites(c),
         pc[c] \in Writing \cup {"guard"}, pc'[c] \in Writing
  PROVE  CopyAgrees(c)'
  <1>1. CopyAgrees(c)
    BY DEF IInv, Good
  <1>2. Own(c)' = Own(c) /\ OrEmpty(live)' = OrEmpty(live)
    BY DEF StillWrites, Own, OrEmpty
  <1> QED BY <1>1, <1>2 DEF StillWrites, CopyAgrees, MenuAgrees, Agrees, Writing

\* The guard lets an empty config through where it was asked for.
LEMMA GuardGood ==
  ASSUME IInv, NEW c \in Process, Guard(c)
  PROVE  Good(c)'
  <1>1. TypeOK /\ InPlace(c) /\ pc[c] = "guard"
    BY DEF IInv, Good, Guard
  <1>2. CASE End(c)
    BY <1>1, <1>2, EndGood DEF End
  <1>3. CASE ~End(c)
    <2>1. ~Refuses(c) /\ pc'[c] = "backup" /\ StillWrites(c)
      BY <1>1, <1>3 DEF Guard, Goto, TypeOK, files, local, StillWrites
    <2>2. InPlace(c)'
      BY <1>1, <2>1 DEF StillWrites, InPlace, Writing
    <2>3. CopyAgrees(c)'
      BY <1>1, <2>1, StillWritesAgrees DEF Writing
    <2>4. EmptyIsMeant(c)'
      BY <2>1 DEF Refuses, EmptyIsMeant, StillWrites, Seated, Populated
    <2> QED BY <2>1, <2>2, <2>3, <2>4 DEF Good, BackupIsTrue
  <1> QED BY <1>2, <1>3

\* The backup is read, and then written or not.
LEMMA BackupGood ==
  ASSUME IInv, NEW c \in Process, ReadBackup(c) \/ Rotate(c) \/ RotateFails(c)
  PROVE  Good(c)'
  <1>1. TypeOK /\ InPlace(c) /\ EmptyIsMeant(c) /\ BackupIsTrue(c)
    BY DEF IInv, Good
  <1>2. pc[c] \in {"backup", "rotate"} /\ pc'[c] \in {"rotate", "replace"}
    BY <1>1 DEF ReadBackup, Rotate, RotateFails, Goto, TypeOK
  <1>3. raced'[c] = raced[c] \/ raced'[c] = raced[c] \ {"backup"}
    BY <1>1 DEF ReadBackup, Rotate, RotateFails, Rotated, TypeOK
  <1>4. StillWrites(c)
    BY <1>3 DEF ReadBackup, Rotate, RotateFails, StillWrites, files
  <1>5. CopyAgrees(c)'
    BY <1>2, <1>4, StillWritesAgrees DEF Writing
  <1>6. EmptyIsMeant(c)'
    BY <1>1, <1>2, <1>3, <1>4 DEF EmptyIsMeant, StillWrites, Writing, Seated, Populated
  <1>7. CASE ReadBackup(c)
    <2>1. \/ live = Absent /\ pc'[c] = "replace"
          \/ live \in File /\ pc'[c] = "rotate" /\ old'[c] = live
      BY <1>1, <1>7 DEF ReadBackup, Goto, TypeOK
    <2>2. InPlace(c)'
      BY <1>1, <1>2, <1>4, <2>1 DEF InPlace, StillWrites, Writing
    <2>3. BackupIsTrue(c)'
      BY <1>4, <2>1 DEF BackupIsTrue, StillWrites
    <2> QED BY <1>5, <1>6, <2>2, <2>3 DEF Good
  <1>8. CASE Rotate(c) \/ RotateFails(c)
    <2>1. pc[c] = "rotate" /\ pc'[c] = "replace" /\ raced'[c] = raced[c] /\ UNCHANGED live
      BY <1>1, <1>8 DEF Rotate, RotateFails, Goto, Rotated, TypeOK
    <2>2. InPlace(c)'
      BY <1>1, <1>4, <2>1 DEF InPlace, StillWrites, Writing
    <2>3. unsaved'[c] \/ bak' = old[c]
      BY <1>1, <1>8 DEF Rotate, RotateFails, Bytes, TypeOK
    <2>4. BackupIsTrue(c)'
      BY <1>1, <2>1, <2>3 DEF BackupIsTrue
    <2> QED BY <1>5, <1>6, <2>2, <2>4 DEF Good
  <1> QED BY <1>7, <1>8

\* The wizard goes on after its write; every other command ends.
LEMMA ReplaceGood ==
  ASSUME IInv, NEW c \in Process, Replace(c)
  PROVE  Good(c)'
  <1>1. TypeOK /\ InPlace(c) /\ pc[c] = "replace"
    BY DEF IInv, Good, Replace
  <1>2. CASE kind[c] \notin {"menu", "agents"}
    BY <1>1, <1>2, EndGood DEF Replace
  <1>3. CASE kind[c] \in {"menu", "agents"}
    <2>1. next[c] \in Config /\ (kind[c] = "menu" => copy[c] \in Config)
      BY <1>1 DEF InPlace, Writing
    <2>2. live' = next[c] /\ copy'[c] = copy[c]
      BY <1>3 DEF Replace
    <2>3. \/ pc'[c] = "mirror" /\ kind'[c] = "menu" /\ kind[c] = "menu"
          \/ pc'[c] = "load" /\ kind'[c] = "menu"
          \/ pc'[c] = "inspect" /\ kind'[c] = "fresh"
      BY <1>1, <1>3 DEF Replace, AfterWrite, AfterAgents, Goto, TypeOK
    <2>4. InPlace(c)'
      BY <2>1, <2>2, <2>3 DEF InPlace, Writing
    <2> QED BY <2>3, <2>4, ElsewhereGood DEF Writing
  <1> QED BY <1>2, <1>3

\* Whatever a process does, it leaves itself what it relies on.
LEMMA ActorGood ==
  ASSUME IInv, NEW c \in Process, ByProcess(c)
  PROVE  Good(c)'
  <1>1. TypeOK
    BY DEF IInv
  <1>2. CASE LockTimeout(c) \/ MenuCancel(c) \/ ReplaceFails(c) \/ Crash(c)
    <2>1. EndLocal(c)
      BY <1>2 DEF LockTimeout, MenuCancel, ReplaceFails, Crash, End
    <2> QED BY <1>1, <2>1, EndGood
  <1> QED BY <1>2, StartGood, ReadGood, WizardGood, MenuGood, GuardGood, BackupGood, ReplaceGood
          DEF ByProcess

-----------------------------------------------------------------------------
\* The lock.

\* A command is locked because it was, or because nobody was.
LEMMA ComesToHold ==
  ASSUME IInv, NEW c \in Process, ByProcess(c), Locked(c)'
  PROVE  Locked(c) \/ \A d \in Process : ~Locked(d)
  <1>1. TypeOK /\ InPlace(c)
    BY DEF IInv, Good
  <1>2. ASSUME EndLocal(c) PROVE FALSE
    BY <1>1, <1>2, EndLocalRests DEF Locked, Writing
  <1>3. ~End(c)
    BY <1>2 DEF End
  <1>4. CASE LockAndRead(c)
    BY <1>3, <1>4 DEF LockAndRead, LockFree
  <1>5. CASE StartSetting(c) \/ StartPromotion(c) \/ StartHint(c) \/ StartInit(c) \/ StartRepair(c)
    BY <1>1, <1>5 DEF StartSetting, StartPromotion, StartHint, StartInit, StartRepair, Goto, TypeOK,
                      Locked, Writing
  <1>6. CASE InspectMarker(c) \/ SkipAgents(c) \/ InspectAgents(c) \/ InspectFresh(c) \/ MenuRerun(c)
    BY <1>1, <1>3, <1>6 DEF InspectMarker, SkipAgents, InspectAgents, InspectFresh, MenuRerun, TypeOK,
                            Locked
  <1>7. CASE LoadMenu(c) \/ MenuSeat(c) \/ MenuRemove(c) \/ MenuSetting(c) \/ Mirror(c)
    <2>1. kind[c] = "menu"
      BY <1>1, <1>7 DEF LoadMenu, MenuSeat, MenuRemove, MenuSetting, MenuWrites, Mirror, InPlace
    <2>2. kind' = kind
      BY <1>3, <1>7 DEF LoadMenu, MenuSeat, MenuRemove, MenuSetting, MenuWrites, Mirror
    <2> QED BY <2>1, <2>2 DEF Locked
  <1>8. CASE Guard(c) \/ ReadBackup(c) \/ Rotate(c) \/ RotateFails(c)
    BY <1>3, <1>8 DEF Guard, ReadBackup, Rotate, RotateFails, local, Locked, Writing
  <1>9. CASE Replace(c)
    <2>1. kind[c] \in {"menu", "agents"}
      BY <1>2, <1>9 DEF Replace
    <2> QED BY <1>1, <1>9, <2>1 DEF Replace, Locked, TypeOK
  <1>10. CASE LockTimeout(c) \/ MenuCancel(c) \/ ReplaceFails(c) \/ Crash(c)
    BY <1>2, <1>3, <1>10 DEF LockTimeout, MenuCancel, ReplaceFails, Crash
  <1> QED BY <1>4, <1>5, <1>6, <1>7, <1>8, <1>9, <1>10 DEF ByProcess

\* The lock keeps having one holder.
LEMMA NextOneHolder ==
  ASSUME IInv, NEW c \in Process, ByProcess(c)
  PROVE  OneHolder'
  <1>1. OneHolder /\ Shape(c)
    BY StepShapes DEF IInv
  <1>2. \A d \in Process \ {c} : Locked(d)' <=> Locked(d)
    BY <1>1 DEF Shape, Rests, Locked
  <1> QED BY <1>1, <1>2, ComesToHold DEF OneHolder

-----------------------------------------------------------------------------
\* The inductive invariant, and what follows from it.

\* It holds at the start.
LEMMA InitIInv == Init => IInv
  <1> SUFFICES ASSUME Init PROVE IInv
    OBVIOUS
  <1>1. \A p \in Provider, k \in Key :
          [Empty EXCEPT ![p] = [key |-> k, verified |-> FALSE], !["routing"] = Set] \in Config
    <2> SUFFICES ASSUME NEW p \in Provider, NEW k \in Key
                 PROVE  [Empty EXCEPT ![p] = [key |-> k, verified |-> FALSE], !["routing"] = Set]
                           \in Config
      OBVIOUS
    <2> DEFINE seat == [key |-> k, verified |-> FALSE]
               f == [Empty EXCEPT ![p] = seat]
    <2>1. seat \in Seat /\ p \in Slot
      BY OtherSlots DEF Seat
    <2> HIDE DEF seat
    <2>2. f \in Config
      BY <2>1, OrEmptyIs, ConfigExcept
    <2>3. [Empty EXCEPT ![p] = seat, !["routing"] = Set] = [f EXCEPT !["routing"] = Set]
      OBVIOUS
    <2> HIDE DEF f
    <2>4. [f EXCEPT !["routing"] = Set] \in Config
      BY <2>2, OtherSlots, ConfigExcept
    <2> QED BY <2>3, <2>4 DEF seat
  <1>2. live \in File
    BY <1>1 DEF Init, File
  <1>3. TypeOK
    BY <1>2, ConstantsAssumption DEF Init, TypeOK, File, Location
  <1>4. \A c \in Process : pc[c] = "idle"
    BY DEF Init
  <1>5. \A c \in Process : Good(c)
    BY <1>4 DEF Good, InPlace, CopyAgrees, EmptyIsMeant, BackupIsTrue, Writing
  <1>6. OneHolder
    BY <1>4 DEF OneHolder, Locked, Writing
  <1> QED BY <1>3, <1>5, <1>6 DEF IInv

\* Every step keeps it.
LEMMA NextIInv == IInv /\ [Next]_vars => IInv'
  <1> SUFFICES ASSUME IInv, [Next]_vars PROVE IInv'
    OBVIOUS
  <1>1. TypeOK'
    BY NextTypes
  <1>2. CASE UNCHANGED vars
    <2>1. OneHolder'
      BY <1>2 DEF IInv, vars, local, OneHolder, Locked
    <2>2. \A c \in Process : Good(c)'
      BY <1>2 DEF IInv, vars, local, Good, InPlace, CopyAgrees, MenuAgrees, Agrees, Own, OrEmpty,
                  EmptyIsMeant, Seated, Populated, BackupIsTrue
    <2> QED BY <1>1, <2>1, <2>2 DEF IInv
  <1>3. ASSUME NEW c \in Process, ByProcess(c)
        PROVE  IInv'
    <2>1. Shape(c)
      BY <1>3, StepShapes DEF IInv
    <2>2. \A d \in Process : Good(d)'
      BY <1>3, <2>1, ActorGood, RestingGood
    <2> QED BY <1>1, <1>3, <2>2, NextOneHolder DEF IInv
  <1> QED BY <1>2, <1>3 DEF Next, ByProcess

\* The invariant, of every execution.
THEOREM Invariant == Spec => []IInv
  BY InitIInv, NextIInv, PTL DEF Spec

\* Every variable keeps its type: in particular, what is written is a config,
\* and the wizard's menu always has one.
THEOREM TypeCorrect == Spec => []TypeOK
  <1>1. IInv => TypeOK
    BY DEF IInv
  <1> QED BY <1>1, Invariant, PTL

\* config set and config unset hold the lock one at a time, from their read
\* to their write.
THEOREM OneHolderAlways == Spec => []OneHolder
  <1>1. IInv => OneHolder
    BY DEF IInv
  <1> QED BY <1>1, Invariant, PTL

\* A process that replaces the file is the one that steps, and the file becomes
\* the config it was going to write.
LEMMA ReplacingStep ==
  ASSUME IInv, [Next]_vars, NEW c \in Process, Replaces(c)
  PROVE  pc[c] = "replace" /\ live' = next[c] /\ next[c] \in Config /\ Good(c)
  <1>1. Good(c) /\ TypeOK
    BY DEF IInv
  <1>2. next[c] \in Config
    BY <1>1 DEF Replaces, Good, InPlace, Writing
  <1>3. PICK d \in Process : ByProcess(d)
    BY DEF Next, ByProcess, Replaces, vars
  <1>4. Shape(d)
    BY <1>1, <1>3, StepShapes
  <1>5. d = c
    BY <1>4 DEF Shape, Rests, Replaces
  <1> QED BY <1>1, <1>2, <1>4, <1>5 DEF Shape, Replaces

\* A replacement of config.json undoes no change of anybody else's that did not
\* come between the command's own read and its write (writeConfig, and the
\* commands that build what it writes).
THEOREM WritesOnlyItsChangeHolds == Spec => WritesOnlyItsChange
  <1>1. ASSUME IInv, [Next]_vars
        PROVE  \A c \in Process :
                 (Replaces(c) /\ "read" \notin raced[c])
                    => Changed \subseteq Own(c) \cup (IF kind[c] = "menu" THEN Resurrected ELSE {})
    <2> SUFFICES ASSUME NEW c \in Process, Replaces(c), "read" \notin raced[c],
                        NEW s \in Changed, s \notin Own(c)
                 PROVE  kind[c] = "menu" /\ s \in Resurrected
      OBVIOUS
    <2>1. pc[c] = "replace" /\ live' = next[c] /\ CopyAgrees(c)
      BY <1>1, ReplacingStep DEF Good
    <2>2. IF kind[c] = "menu" THEN MenuAgrees(next[c], Own(c)) ELSE Agrees(next[c], Own(c))
      BY <2>1 DEF CopyAgrees, Writing
    <2>3. s \in Slot \ Own(c) /\ OrEmpty(live)[s] # next[c][s]
      BY <2>1 DEF Changed
    <2> QED BY <2>2, <2>3 DEF MenuAgrees, Agrees, Resurrected
  <1> QED BY <1>1, Invariant, PTL DEF Spec, WritesOnlyItsChange

\* writeConfig replaces a config that has providers by one without only where
\* that was asked for, or the providers came after it had looked for them.
THEOREM PopulatedStaysPopulatedHolds == Spec => PopulatedStaysPopulated
  <1>1. ASSUME IInv, [Next]_vars
        PROVE  \A c \in Process :
                 (Replaces(c) /\ Populated(live) /\ ~Populated(live'))
                    => (empties[c] \/ "guard" \in raced[c])
    <2> SUFFICES ASSUME NEW c \in Process, Replaces(c), Populated(live), ~Populated(live')
                 PROVE  empties[c] \/ "guard" \in raced[c]
      OBVIOUS
    <2>1. pc[c] = "replace" /\ live' = next[c] /\ next[c] \in Config /\ EmptyIsMeant(c)
      BY <1>1, ReplacingStep DEF Good
    <2>2. Seated(next[c]) = {}
      BY <2>1 DEF Populated, File
    <2> QED BY <2>1, <2>2 DEF EmptyIsMeant, Writing
  <1> QED BY <1>1, Invariant, PTL DEF Spec, PopulatedStaysPopulated

\* Every replacement leaves the config it replaced in config.json.bak, unless the
\* backup failed or another process wrote between the two.
THEOREM BackupIsWhatWasReplacedHolds == Spec => BackupIsWhatWasReplaced
  <1>1. ASSUME IInv, [Next]_vars
        PROVE  \A c \in Process :
                 (Replaces(c) /\ live # Absent /\ ~unsaved[c] /\ "backup" \notin raced[c])
                    => bak = live
    BY <1>1, ReplacingStep DEF Good, BackupIsTrue
  <1> QED BY <1>1, Invariant, PTL DEF Spec, BackupIsWhatWasReplaced
=============================================================================
