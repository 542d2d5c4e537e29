-------------------------- MODULE WatchStoreProofs --------------------------
(***************************************************************************)
(* Proofs about WatchStore, for every set of commands, targets, names and  *)
(* contents, every ring size and number of generations.  The invariants    *)
(* say what a tick knows while it holds its locks, and whose evidence can  *)
(* still be written.                                                       *)
(***************************************************************************)
EXTENDS WatchStore, FiniteSetTheorems, TLAPS

\* One holder of each lock.
TickExclusive ==
    \A c, d \in Command : pc[c] \in HoldsTick /\ pc[d] \in HoldsTick /\ of[c] = of[d] => c = d
AppendExclusive ==
    \A c, d \in Command : pc[c] \in HoldsAppend /\ pc[d] \in HoldsAppend /\ of[c] = of[d] => c = d
RegistryExclusive ==
    \A c, d \in Command : pc[c] \in HoldsRegistry /\ pc[d] \in HoldsRegistry => c = d
Exclusive == TickExclusive /\ AppendExclusive /\ RegistryExclusive

\* What a command carries, and where.
Capturing == {"write", "meta"}
Logging == {"prune", "logLock", "logCheck", "logWrite"}
CarriesFor(c) ==
    /\ pc[c] \notin {"idle", "addWrite", "removeWrite"} => of[c] \in Id
    /\ pc[c] \in Capturing \cup {"prune"} => gen[c] \in Gen
    /\ pc[c] \notin Capturing \cup Logging => gen[c] = 0
    /\ pc[c] \in {"snapLock", "snapCheck"} \cup Capturing => fetched[c] \in Content
    /\ pc[c] \in {"addWrite", "removeWrite"} => seen[c] = registry
Carries == \A c \in Command : CarriesFor(c)

\* A target whose purge has begun is retired; whoever writes evidence of a
\* target holds off its purge.
PurgePlaces == {"purgeTick", "purgeAppend", "purging"}
Writes == {"fetch", "snapLock", "snapCheck", "write", "meta", "prune",
           "logLock", "logCheck", "logWrite", "failWrite"}
PurgedIsRetired ==
    /\ \A id \in Id : purge[id] # "no" => id \in registry.retired
    /\ \A c \in Command : pc[c] \in PurgePlaces => of[c] \in registry.retired /\ purge[of[c]] # "done"
    /\ \A c \in Command : pc[c] \in Writes => purge[of[c]] = "no"

\* The newest generation is the last one captured, and can be read.
Count(id) == Len(captured[id])
RingIsTrue ==
    \A id \in NotPurged :
        /\ ring[id] \subseteq 1..Count(id)
        /\ Count(id) > 0 => Count(id) \in ring[id] /\ bytes[id][Count(id)] = captured[id][Count(id)]

\* A purge takes the whole ring at once.
PurgesRing ==
    \A id \in Id : purge[id] = "begun" /\ ring[id] # {} => \E g \in Gen : bytes[id][g] # None

\* What a tick judges by is what is in the ring while it holds the tick lock.
Before(id, g) == IF g = 1 THEN None ELSE captured[id][g - 1]
Judges(c) ==
    /\ pc[c] \in {"fetch", "snapLock", "snapCheck"} \cup Capturing =>
         prior[c] = Before(of[c], Count(of[c]) + 1)
    /\ pc[c] \in {"snapLock", "snapCheck"} => Count(of[c]) < MaxGen
    /\ pc[c] \in Capturing => gen[c] = Count(of[c]) + 1
    /\ pc[c] = "meta" => bytes[of[c]][gen[c]] = fetched[c]
    /\ pc[c] \in Logging /\ gen[c] # 0 =>
         /\ gen[c] = Count(of[c])
         /\ fetched[c] = captured[of[c]][gen[c]]
         /\ prior[c] = Before(of[c], gen[c])
    /\ pc[c] = "prune" => gen[c] \notin left[c]
JudgesTruly == \A c \in Command : Judges(c)

IInv ==
    /\ TypeOK /\ Exclusive /\ Carries /\ PurgedIsRetired /\ RingIsTrue /\ PurgesRing /\ JudgesTruly
    /\ EntriesAreTrue /\ EveryChangeLogged /\ PurgedStaysGone

-----------------------------------------------------------------------------
\* The locals are functions on the commands.
Typed ==
    /\ pc \in [Command -> Location]
    /\ of \in [Command -> Id \cup {None}]
    /\ seen \in [Command -> Registry \cup {None}]
    /\ prior \in [Command -> Content \cup {None}]
    /\ fetched \in [Command -> Content \cup {None}]
    /\ gen \in [Command -> 0..MaxGen]
    /\ left \in [Command -> SUBSET Gen]

\* A step of c leaves what the other commands know alone.
Frame(c) ==
    \A d \in Command \ {c} :
        /\ pc'[d] = pc[d] /\ of'[d] = of[d] /\ seen'[d] = seen[d] /\ prior'[d] = prior[d]
        /\ fetched'[d] = fetched[d] /\ gen'[d] = gen[d] /\ left'[d] = left[d]

\* A command that is over knows nothing any more.
Ended(c) ==
    pc'[c] = "idle" /\ of'[c] = None /\ seen'[c] = None /\ gen'[c] = 0 /\ left'[c] = {}

\* What a type invariant says of the locals.
LEMMA TypedLocals == TypeOK => Typed
  BY DEF TypeOK, Typed

\* End(c) ends the command c and no other.
LEMMA Ending ==
  ASSUME Typed, NEW c \in Command, End(c)
  PROVE  Ended(c) /\ Frame(c)
  BY DEF Typed, End, Goto, Ended, Frame

\* A tick that fails ends, or goes on to log the error.
FailPlaces == {"failLock", "failCheck", "failWrite"}

\* What is left of a tick that throws.
LEMMA Failing ==
  ASSUME Typed, NEW c \in Command, Fail(c)
  PROVE  /\ Frame(c) /\ GivesUpOn(c)
         /\ UNCHANGED <<registry, snapshots, log, purge>>
         /\ pc[c] \in FailPlaces => Ended(c)
         /\ pc[c] \notin FailPlaces =>
              /\ pc'[c] = "failLock" /\ of'[c] = of[c] /\ seen'[c] = seen[c]
              /\ gen'[c] = 0 /\ left'[c] = {}
  <1>1. CASE pc[c] \in FailPlaces
    BY <1>1, Ending DEF Fail, FailPlaces
  <1>2. CASE pc[c] \notin FailPlaces
    BY <1>2 DEF Fail, FailPlaces, Goto, Typed, Frame
  <1> QED
    BY <1>1, <1>2

\* Whose step it is.
Act(c) ==
    \/ \E id \in Ticked : StartTick(c, id)
    \/ TakeTickLock(c) \/ TakeAppendLock(c) \/ LockTimeout(c)
    \/ Check(c) \/ Fetch(c) \/ OpenBytes(c) \/ WriteBytes(c) \/ WriteMeta(c)
    \/ Prune(c) \/ PruneFails(c) \/ LogCheck(c) \/ LogWrite(c)
    \/ ReadRegistry(c) \/ AddWrite(c) \/ RemoveWrite(c)
    \/ PurgeEntry(c) \/ PurgeEnds(c) \/ Crash(c)

\* Each action is a step of one command.
LEMMA Framed ==
  ASSUME Typed, NEW c \in Command, Act(c)
  PROVE  Frame(c)
  <1>1. ASSUME NEW id \in Ticked, StartTick(c, id) PROVE Frame(c)
    BY <1>1 DEF StartTick, Goto, Typed, Frame, local
  <1>2. CASE TakeTickLock(c)
    BY <1>2 DEF TakeTickLock, Goto, Typed, Frame, local
  <1>3. CASE TakeAppendLock(c)
    BY <1>3 DEF TakeAppendLock, Goto, Typed, Frame, local
  <1>4. CASE LockTimeout(c)
    BY <1>4, Ending, Failing DEF LockTimeout, Goto, Typed, Frame, local
  <1>5. CASE Check(c)
    BY <1>5, Failing DEF Check, Goto, Typed, Frame, local
  <1>6. CASE Fetch(c)
    BY <1>6, Failing DEF Fetch, Goto, Typed, Frame, local
  <1>7. CASE OpenBytes(c)
    BY <1>7, Failing DEF OpenBytes, Goto, Typed, Frame, local
  <1>8. CASE WriteBytes(c)
    BY <1>8, Failing DEF WriteBytes, Goto, Typed, Frame, local
  <1>9. CASE WriteMeta(c)
    BY <1>9, Failing DEF WriteMeta, Goto, Typed, Frame, local
  <1>10. CASE Prune(c)
    BY <1>10 DEF Prune, Goto, Typed, Frame, local
  <1>11. CASE PruneFails(c)
    BY <1>11, Failing DEF PruneFails, Goto, Typed, Frame, local
  <1>12. CASE LogCheck(c)
    BY <1>12, Failing DEF LogCheck, Goto, Typed, Frame, local
  <1>13. CASE LogWrite(c)
    BY <1>13, Ending, Failing DEF LogWrite, Goto, Typed, Frame, local
  <1>14. CASE ReadRegistry(c)
    BY <1>14 DEF ReadRegistry, Goto, Typed, Frame, local
  <1>15. CASE AddWrite(c)
    BY <1>15, Ending DEF AddWrite, Goto, Typed, Frame, local
  <1>16. CASE RemoveWrite(c)
    BY <1>16, Ending DEF RemoveWrite, Goto, Typed, Frame, local
  <1>17. CASE PurgeEntry(c)
    BY <1>17 DEF PurgeEntry, Goto, Typed, Frame, local
  <1>18. CASE PurgeEnds(c)
    BY <1>18, Ending DEF PurgeEnds, Goto, Typed, Frame, local
  <1>19. CASE Crash(c)
    BY <1>19, Ending DEF Crash, Goto, Typed, Frame, local
  <1> QED
    BY <1>1, <1>2, <1>3, <1>4, <1>5, <1>6, <1>7, <1>8, <1>9, <1>10, <1>11, <1>12, <1>13, <1>14,
       <1>15, <1>16, <1>17, <1>18, <1>19 DEF Act

\* The ways a command can go, and the locks that have to be free for them.
Edges == {<<"check", "fetch">>, <<"fetch", "logLock">>, <<"fetch", "snapLock">>,
          <<"snapCheck", "write">>, <<"write", "meta">>, <<"meta", "prune">>,
          <<"prune", "prune">>, <<"prune", "logLock">>, <<"logCheck", "logWrite">>,
          <<"failCheck", "failWrite">>, <<"purging", "purging">>}
TickPlaces == {"tickLock", "check", "fetch", "snapLock", "snapCheck", "write", "meta", "prune",
               "logLock", "logCheck", "logWrite"}
Path(c) ==
    \/ Ended(c)
    \/ pc[c] = "idle" /\ pc'[c] = "tickLock"
    \/ pc[c] = "idle" /\ RegistryFree /\ pc'[c] \in {"addWrite", "removeWrite"}
    \/ pc[c] = "removeWrite" /\ pc'[c] = "purgeTick"
    \/ /\ of'[c] = of[c]
       /\ \/ <<pc[c], pc'[c]>> \in Edges
          \/ pc[c] \in TickPlaces /\ pc'[c] = "failLock"
          \/ /\ pc[c] \in {"tickLock", "purgeTick"} /\ TickFree(of[c])
             /\ pc'[c] = IF pc[c] = "tickLock" THEN "check" ELSE "purgeAppend"
          \/ /\ pc[c] \in {"snapLock", "logLock", "failLock", "purgeAppend"} /\ AppendFree(of[c])
             /\ pc'[c] = AfterAppendLock[pc[c]]

\* No action goes anywhere else.
LEMMA Paths ==
  ASSUME Typed, NEW c \in Command, Act(c)
  PROVE  Path(c)
  <1>1. ASSUME NEW id \in Ticked, StartTick(c, id) PROVE Path(c)
    BY <1>1 DEF StartTick, Goto, Typed, Path, local
  <1>2. CASE TakeTickLock(c)
    BY <1>2 DEF TakeTickLock, Goto, Typed, Path, local, Edges
  <1>3. CASE TakeAppendLock(c)
    BY <1>3 DEF TakeAppendLock, Goto, Typed, Path, local, AfterAppendLock, Edges
  <1>4. CASE LockTimeout(c)
    BY <1>4, Ending, Failing DEF LockTimeout, Goto, Typed, Path, local, FailPlaces, TickPlaces,
       Edges
  <1>5. CASE Check(c)
    BY <1>5, Failing DEF Check, Goto, Typed, Path, local, FailPlaces, TickPlaces, Edges
  <1>6. CASE Fetch(c)
    BY <1>6, Failing DEF Fetch, Goto, Typed, Path, local, FailPlaces, TickPlaces, Edges
  <1>7. CASE OpenBytes(c)
    BY <1>7, Failing DEF OpenBytes, Goto, Typed, Path, local, FailPlaces, TickPlaces, Edges
  <1>8. CASE WriteBytes(c)
    BY <1>8, Failing DEF WriteBytes, Goto, Typed, Path, local, FailPlaces, TickPlaces, Edges
  <1>9. CASE WriteMeta(c)
    BY <1>9, Failing DEF WriteMeta, Goto, Typed, Path, local, FailPlaces, TickPlaces, Edges
  <1>10. CASE Prune(c)
    BY <1>10 DEF Prune, Goto, Typed, Path, local, Edges
  <1>11. CASE PruneFails(c)
    BY <1>11, Failing DEF PruneFails, Goto, Typed, Path, local, FailPlaces, TickPlaces, Edges
  <1>12. CASE LogCheck(c)
    BY <1>12, Failing DEF LogCheck, Goto, Typed, Path, local, FailPlaces, TickPlaces, Edges
  <1>13. CASE LogWrite(c)
    BY <1>13, Ending, Failing DEF LogWrite, Goto, Typed, Path, local, FailPlaces, TickPlaces, Edges
  <1>14. CASE ReadRegistry(c)
    BY <1>14 DEF ReadRegistry, Goto, Typed, Path, local
  <1>15. CASE AddWrite(c)
    BY <1>15, Ending DEF AddWrite, Goto, Typed, Path, local
  <1>16. CASE RemoveWrite(c)
    BY <1>16, Ending DEF RemoveWrite, Goto, Typed, Path, local, Edges
  <1>17. CASE PurgeEntry(c)
    BY <1>17 DEF PurgeEntry, Goto, Typed, Path, local, Edges
  <1>18. CASE PurgeEnds(c)
    BY <1>18, Ending DEF PurgeEnds, Goto, Typed, Path, local, Edges
  <1>19. CASE Crash(c)
    BY <1>19, Ending DEF Crash, Goto, Typed, Path, local, Edges
  <1> QED
    BY <1>1, <1>2, <1>3, <1>4, <1>5, <1>6, <1>7, <1>8, <1>9, <1>10, <1>11, <1>12, <1>13, <1>14,
       <1>15, <1>16, <1>17, <1>18, <1>19 DEF Act

\* One command holds each lock.
LEMMA TickExclusiveNext ==
  ASSUME Typed, TickExclusive, NEW c \in Command, Act(c)
  PROVE  TickExclusive'
  <1>1. Frame(c) /\ Path(c)
    BY Framed, Paths
  <1>2. pc'[c] \in HoldsTick => of'[c] = of[c] /\ (pc[c] \in HoldsTick \/ TickFree(of[c]))
    BY <1>1 DEF Path, Ended, HoldsTick, Edges, AfterAppendLock
  <1> QED
    BY <1>1, <1>2 DEF TickExclusive, Frame, TickFree

\* One command appends to a target's evidence.
LEMMA AppendExclusiveNext ==
  ASSUME Typed, AppendExclusive, NEW c \in Command, Act(c)
  PROVE  AppendExclusive'
  <1>1. Frame(c) /\ Path(c)
    BY Framed, Paths
  <1>2. pc'[c] \in HoldsAppend => of'[c] = of[c] /\ (pc[c] \in HoldsAppend \/ AppendFree(of[c]))
    BY <1>1 DEF Path, Ended, HoldsAppend, Edges, AfterAppendLock
  <1> QED
    BY <1>1, <1>2 DEF AppendExclusive, Frame, AppendFree

\* One command writes the registry.
LEMMA RegistryExclusiveNext ==
  ASSUME Typed, RegistryExclusive, NEW c \in Command, Act(c)
  PROVE  RegistryExclusive'
  <1>1. Frame(c) /\ Path(c)
    BY Framed, Paths
  <1>2. pc'[c] \in HoldsRegistry => pc[c] \in HoldsRegistry \/ RegistryFree
    BY <1>1 DEF Path, Ended, HoldsRegistry, Edges, AfterAppendLock
  <1> QED
    BY <1>1, <1>2 DEF RegistryExclusive, Frame, RegistryFree

-----------------------------------------------------------------------------
\* appendSnapshot numbers on from the newest listed generation: that is the last
\* one captured.
LEMMA NewestIsCount ==
  ASSUME TypeOK, RingIsTrue, NEW id \in NotPurged
  PROVE  Newest(id) = Count(id) /\ Count(id) \in Nat
  <1>1. id \in Id /\ Count(id) \in Nat
    BY DEF NotPurged, TypeOK, Count
  <1>2. ring[id] \cup {0} \subseteq 0..Count(id) /\ Count(id) \in ring[id] \cup {0}
    BY <1>1 DEF RingIsTrue
  <1>3. \A m \in ring[id] \cup {0} : (\A n \in ring[id] \cup {0} : m >= n) => m = Count(id)
    BY <1>1, <1>2
  <1>4. \A n \in ring[id] \cup {0} : Count(id) >= n
    BY <1>1, <1>2
  <1> QED
    BY <1>1, <1>2, <1>3, <1>4 DEF Newest, Max

\* What the command itself carries.
LEMMA CarriesOwn ==
  ASSUME TypeOK, Typed, Carries, PurgedIsRetired, RingIsTrue, JudgesTruly, NEW c \in Command, Act(c)
  PROVE  CarriesFor(c)'
  <1> USE DEF Typed, Capturing, Logging
  <1>1. CarriesFor(c)
    BY DEF Carries
  <1>a1. ASSUME NEW id \in Ticked, StartTick(c, id) PROVE CarriesFor(c)'
    BY <1>a1, ConstantsAssumption, <1>1 DEF StartTick, Goto, local, evidence, snapshots,
       ConstantsAssumption, CarriesFor
  <1>a2. CASE TakeTickLock(c)
    BY <1>a2, <1>1 DEF TakeTickLock, Goto, local, evidence, snapshots, CarriesFor
  <1>a3. CASE TakeAppendLock(c)
    BY <1>a3, <1>1 DEF TakeAppendLock, Goto, local, evidence, snapshots, AfterAppendLock, CarriesFor
  <1>a4. CASE LockTimeout(c)
    BY <1>a4, Ending, Failing, <1>1 DEF LockTimeout, Goto, local, evidence, snapshots, Ended,
       FailPlaces, CarriesFor
  <1>a5. CASE Check(c)
    BY <1>a5, Failing, <1>1 DEF Check, Goto, local, evidence, snapshots, Ended, FailPlaces,
       CarriesFor
  <1>a6. CASE Fetch(c)
    BY <1>a6, Failing, <1>1 DEF Fetch, Goto, local, evidence, snapshots, Ended, FailPlaces,
       CarriesFor
  <1>a7. CASE OpenBytes(c)
    <2>1. CASE Fail(c)
      BY <1>a7, <2>1, <1>1, Failing DEF OpenBytes, CarriesFor, Ended, FailPlaces
    <2>2. CASE ~Fail(c)
      <3>1. of[c] \in NotPurged /\ Count(of[c]) < MaxGen
        BY <1>a7, <1>1 DEF OpenBytes, CarriesFor, NotPurged, PurgedIsRetired, Writes,
           JudgesTruly, Judges, Judges
      <3>2. NextGen(of[c]) \in Gen
        BY <3>1, NewestIsCount, ConstantsAssumption DEF NextGen, Gen, ConstantsAssumption
      <3> QED
        BY <1>a7, <2>2, <3>2, <1>1 DEF OpenBytes, CarriesFor, Goto
    <2> QED
      BY <2>1, <2>2
  <1>a8. CASE WriteBytes(c)
    BY <1>a8, Failing, <1>1 DEF WriteBytes, Goto, local, evidence, snapshots, Ended, FailPlaces,
       CarriesFor
  <1>a9. CASE WriteMeta(c)
    BY <1>a9, Failing, <1>1 DEF WriteMeta, Goto, local, evidence, snapshots, Ended, FailPlaces,
       CarriesFor
  <1>a10. CASE Prune(c)
    BY <1>a10, <1>1 DEF Prune, Goto, local, evidence, snapshots, CarriesFor
  <1>a11. CASE PruneFails(c)
    BY <1>a11, Failing, <1>1 DEF PruneFails, Goto, local, evidence, snapshots, Ended,
       FailPlaces, CarriesFor
  <1>a12. CASE LogCheck(c)
    BY <1>a12, Failing, <1>1 DEF LogCheck, Goto, local, evidence, snapshots, Ended, FailPlaces,
       CarriesFor
  <1>a13. CASE LogWrite(c)
    BY <1>a13, Ending, Failing, <1>1 DEF LogWrite, Goto, local, evidence, snapshots, Ended,
       FailPlaces, CarriesFor
  <1>a14. CASE ReadRegistry(c)
    BY <1>a14, <1>1 DEF ReadRegistry, Goto, local, evidence, snapshots, CarriesFor
  <1>a15. CASE AddWrite(c)
    BY <1>a15, Ending, <1>1 DEF AddWrite, Goto, local, evidence, snapshots, Ended, CarriesFor
  <1>a16. CASE RemoveWrite(c)
    BY <1>a16, Ending, <1>1 DEF RemoveWrite, Goto, local, evidence, snapshots, Ended, Live,
       CarriesFor
  <1>a17. CASE PurgeEntry(c)
    BY <1>a17, <1>1 DEF PurgeEntry, Goto, local, evidence, snapshots, CarriesFor
  <1>a18. CASE PurgeEnds(c)
    BY <1>a18, Ending, <1>1 DEF PurgeEnds, Goto, local, evidence, snapshots, Ended, CarriesFor
  <1>a19. CASE Crash(c)
    BY <1>a19, Ending, <1>1 DEF Crash, Goto, local, evidence, snapshots, Ended, CarriesFor
  <1> QED
    BY <1>a1, <1>a2, <1>a3, <1>a4, <1>a5, <1>a6, <1>a7, <1>a8, <1>a9, <1>a10, <1>a11, <1>a12,
       <1>a13, <1>a14, <1>a15, <1>a16, <1>a17, <1>a18, <1>a19 DEF Act

\* What becomes of the registry and of the purges.
Registering(c) ==
    \/ registry' = registry /\ (pc'[c] = "purgeTick" => pc[c] = "purgeTick")
    \/ /\ pc[c] = "addWrite" /\ Ended(c)
       /\ \E id \in Id \ (Live(seen[c]) \cup seen[c].retired), name \in Name :
            registry' = WithTarget(seen[c], id, name)
    \/ /\ pc[c] = "removeWrite"
       /\ \E id \in Live(seen[c]) :
            /\ registry' = WithoutTarget(seen[c], id)
            /\ Ended(c) \/ (pc'[c] = "purgeTick" /\ of'[c] = id)
Purging(c) ==
    \/ purge' = purge
    \/ pc[c] = "purging" /\ pc'[c] = "purging" /\ purge' = [purge EXCEPT ![of[c]] = "begun"]
    \/ pc[c] = "purging" /\ Ended(c) /\ purge' = [purge EXCEPT ![of[c]] = "done"]
Rechecked(c) ==
    pc'[c] \in {"fetch", "failWrite"} => StillRegistered(of[c]) /\ of'[c] = of[c]
Moves(c) == Registering(c) /\ Purging(c) /\ Rechecked(c)

\* Only an add or a remove writes the registry, only a purge purges.
LEMMA Effects ==
  ASSUME Typed, NEW c \in Command, Act(c)
  PROVE  Moves(c)
  <1>a1. ASSUME NEW id \in Ticked, StartTick(c, id) PROVE Moves(c)
    BY <1>a1 DEF StartTick, Goto, local, evidence, snapshots, Moves, Registering, Purging,
       Rechecked, Typed
  <1>a2. CASE TakeTickLock(c)
    BY <1>a2 DEF TakeTickLock, Goto, local, evidence, snapshots, Moves, Registering, Purging,
       Rechecked, Typed
  <1>a3. CASE TakeAppendLock(c)
    BY <1>a3 DEF TakeAppendLock, Goto, local, evidence, snapshots, AfterAppendLock, Moves,
       Registering, Purging, Rechecked, Typed
  <1>a4. CASE LockTimeout(c)
    BY <1>a4, Ending, Failing DEF LockTimeout, Goto, local, evidence, snapshots, Ended,
       FailPlaces, Moves, Registering, Purging, Rechecked, Typed
  <1>a5. CASE Check(c)
    BY <1>a5, Failing DEF Check, Goto, local, evidence, snapshots, Ended, FailPlaces, Moves,
       Registering, Purging, Rechecked, Typed
  <1>a6. CASE Fetch(c)
    BY <1>a6, Failing DEF Fetch, Goto, local, evidence, snapshots, Ended, FailPlaces, Moves,
       Registering, Purging, Rechecked, Typed
  <1>a7. CASE OpenBytes(c)
    BY <1>a7, Failing DEF OpenBytes, Goto, local, evidence, snapshots, Ended, FailPlaces, Moves,
       Registering, Purging, Rechecked, Typed
  <1>a8. CASE WriteBytes(c)
    BY <1>a8, Failing DEF WriteBytes, Goto, local, evidence, snapshots, Ended, FailPlaces,
       Moves, Registering, Purging, Rechecked, Typed
  <1>a9. CASE WriteMeta(c)
    BY <1>a9, Failing DEF WriteMeta, Goto, local, evidence, snapshots, Ended, FailPlaces, Moves,
       Registering, Purging, Rechecked, Typed
  <1>a10. CASE Prune(c)
    BY <1>a10 DEF Prune, Goto, local, evidence, snapshots, Moves, Registering, Purging,
       Rechecked, Typed
  <1>a11. CASE PruneFails(c)
    BY <1>a11, Failing DEF PruneFails, Goto, local, evidence, snapshots, Ended, FailPlaces,
       Moves, Registering, Purging, Rechecked, Typed
  <1>a12. CASE LogCheck(c)
    BY <1>a12, Failing DEF LogCheck, Goto, local, evidence, snapshots, Ended, FailPlaces, Moves,
       Registering, Purging, Rechecked, Typed
  <1>a13. CASE LogWrite(c)
    BY <1>a13, Ending, Failing DEF LogWrite, Goto, local, evidence, snapshots, Ended,
       FailPlaces, Moves, Registering, Purging, Rechecked, Typed
  <1>a14. CASE ReadRegistry(c)
    BY <1>a14 DEF ReadRegistry, Goto, local, evidence, snapshots, Moves, Registering, Purging,
       Rechecked, Typed
  <1>a15. CASE AddWrite(c)
    BY <1>a15, Ending DEF AddWrite, Goto, local, evidence, snapshots, Ended, Moves, Registering,
       Purging, Rechecked, Typed
  <1>a16. CASE RemoveWrite(c)
    <2>1. CASE End(c)
      <3>1. Ended(c) /\ pc[c] = "removeWrite" /\ purge' = purge
        BY <1>a16, <2>1, Ending DEF RemoveWrite, evidence
      <3>2. registry' = registry \/ \E id \in Live(seen[c]) : registry' = WithoutTarget(seen[c], id)
        BY <1>a16 DEF RemoveWrite
      <3> QED
        <4>1. Purging(c) /\ Rechecked(c) /\ pc'[c] # "purgeTick"
          BY <3>1 DEF Ended, Purging, Rechecked
        <4>2. Registering(c)
          BY <3>1, <3>2, <4>1 DEF Registering
        <4> QED
          BY <4>1, <4>2 DEF Moves
    <2>2. CASE ~End(c)
      <3>1. PICK id \in Live(seen[c]) : registry' = WithoutTarget(seen[c], id) /\ Goto(c, "purgeTick")
                                        /\ of' = [of EXCEPT ![c] = id]
        BY <1>a16, <2>2 DEF RemoveWrite
      <3>2. pc[c] = "removeWrite" /\ purge' = purge /\ pc'[c] = "purgeTick" /\ of'[c] = id
        BY <1>a16, <3>1 DEF RemoveWrite, evidence, Typed, Goto
      <3> QED
        BY <3>1, <3>2 DEF Moves, Registering, Purging, Rechecked
    <2> QED
      BY <2>1, <2>2
  <1>a17. CASE PurgeEntry(c)
    BY <1>a17 DEF PurgeEntry, Goto, local, evidence, snapshots, Moves, Registering, Purging,
       Rechecked, Typed
  <1>a18. CASE PurgeEnds(c)
    BY <1>a18, Ending DEF PurgeEnds, Goto, local, evidence, snapshots, Ended, Moves,
       Registering, Purging, Rechecked, Typed
  <1>a19. CASE Crash(c)
    BY <1>a19, Ending DEF Crash, Goto, local, evidence, snapshots, Ended, Moves, Registering,
       Purging, Rechecked, Typed
  <1> QED
    BY <1>a1, <1>a2, <1>a3, <1>a4, <1>a5, <1>a6, <1>a7, <1>a8, <1>a9, <1>a10, <1>a11, <1>a12,
       <1>a13, <1>a14, <1>a15, <1>a16, <1>a17, <1>a18, <1>a19 DEF Act

\* Nobody else writes what an add or a remove has read under its lock.
LEMMA CarriesNext ==
  ASSUME TypeOK, Typed, RegistryExclusive, Carries, PurgedIsRetired, RingIsTrue, JudgesTruly,
         NEW c \in Command, Act(c)
  PROVE  Carries'
  <1>1. Frame(c) /\ CarriesFor(c)' /\ Registering(c)
    BY Framed, CarriesOwn, Effects DEF Moves
  <1>2. ASSUME NEW d \in Command \ {c} PROVE CarriesFor(d)'
    <2>1. registry' = registry \/ pc[c] \in {"addWrite", "removeWrite"}
      BY <1>1 DEF Registering
    <2>2. pc[d] \in {"addWrite", "removeWrite"} => registry' = registry
      BY <2>1 DEF RegistryExclusive, HoldsRegistry
    <2>3. CarriesFor(d)
      BY DEF Carries
    <2> QED
      BY <1>1, <2>2, <2>3 DEF CarriesFor, Frame
  <1> QED
    BY <1>1, <1>2 DEF Carries

\* Who purges, purges a target that is retired, and no evidence of it is written.
LEMMA PurgedIsRetiredNext ==
  ASSUME TypeOK, Typed, Exclusive, Carries, PurgedIsRetired, NEW c \in Command, Act(c)
  PROVE  PurgedIsRetired'
  <1>1. Frame(c) /\ Path(c) /\ Moves(c)
    BY Framed, Paths, Effects
  <1>2. registry.retired \subseteq registry'.retired
    <2>1. pc[c] \in {"addWrite", "removeWrite"} => seen[c] = registry
      BY DEF Carries, CarriesFor
    <2> QED
      BY <1>1, <2>1 DEF Moves, Registering, WithTarget, WithoutTarget
  <1>3. pc[c] = "purging" => of[c] \in Id /\ of[c] \in registry.retired
    BY DEF Carries, CarriesFor, PurgedIsRetired, PurgePlaces
  <1>4. purge \in [Id -> {"no", "begun", "done"}]
    BY DEF TypeOK
  <1>5. \A id \in Id : purge[id] = "no" \/ id \in registry.retired
    BY DEF PurgedIsRetired
  <1>6. \A id \in Id : StillRegistered(id) => purge[id] = "no"
    BY <1>5 DEF TypeOK, Live, StillRegistered
  <1>7. ASSUME NEW id \in Id, purge'[id] # "no" PROVE id \in registry'.retired
    BY <1>1, <1>2, <1>3, <1>4, <1>5, <1>7 DEF Moves, Purging
  <1>8. ASSUME NEW d \in Command, pc'[d] \in PurgePlaces
        PROVE  of'[d] \in registry'.retired /\ purge'[of'[d]] # "done"
    <2>1. CASE d = c
      <3>1. CASE pc[c] \in PurgePlaces
        BY <1>1, <1>2, <1>3, <1>4, <1>8, <2>1, <3>1 DEF PurgedIsRetired, PurgePlaces, Path,
           Ended, Edges, AfterAppendLock, Moves, Purging
      <3>2. CASE pc[c] \notin PurgePlaces
        <4>1. pc[c] = "removeWrite" /\ seen[c] = registry
          BY <1>1, <1>8, <2>1, <3>2 DEF PurgePlaces, Path, Ended, Edges, AfterAppendLock,
             TickPlaces, Carries, CarriesFor
        <4>2. PICK id \in Live(registry) : registry' = WithoutTarget(registry, id) /\ of'[c] = id
          BY <1>1, <1>8, <2>1, <4>1 DEF Moves, Registering, PurgePlaces, Ended, Path, Edges
        <4>3. purge'[id] = "no" /\ id \in registry'.retired
          BY <1>1, <1>6, <4>1, <4>2 DEF Moves, Purging, Live, StillRegistered, WithoutTarget
        <4> QED
          BY <2>1, <4>2, <4>3
      <3> QED
        BY <3>1, <3>2
    <2>2. CASE d # c
      <3>1. pc[d] \in PurgePlaces /\ of'[d] = of[d] /\ of[d] \in registry.retired /\ purge[of[d]] # "done"
        BY <1>1, <1>8, <2>2 DEF Frame, PurgedIsRetired
      <3>2. pc[c] # "purging"
        BY <2>2, <3>1 DEF Exclusive, RegistryExclusive, HoldsRegistry, PurgePlaces
      <3> QED
        BY <1>1, <1>2, <3>1, <3>2 DEF Moves, Purging
    <2> QED
      BY <2>1, <2>2
  <1>9. ASSUME NEW d \in Command, pc'[d] \in Writes PROVE purge'[of'[d]] = "no"
    <2>1. CASE d = c
      <3>1. pc[c] # "purging"
        BY <1>1, <1>9, <2>1 DEF Path, Writes, Ended, Edges, AfterAppendLock, TickPlaces
      <3>2. purge' = purge
        BY <1>1, <3>1 DEF Moves, Purging
      <3>3. of'[c] = of[c] /\ (pc[c] \in Writes \/ pc'[c] \in {"fetch", "failWrite"})
        BY <1>1, <1>9, <2>1 DEF Path, Writes, Ended, Edges, AfterAppendLock, TickPlaces
      <3>4. pc[c] \notin Writes => of[c] \in Id /\ StillRegistered(of[c])
        BY <1>1, <3>3, <1>9, <2>1 DEF Moves, Rechecked, Path, Ended, Edges, Carries, CarriesFor,
           AfterAppendLock
      <3> QED
        BY <1>6, <2>1, <3>2, <3>3, <3>4 DEF PurgedIsRetired
    <2>2. CASE d # c
      <3>1. pc[d] \in Writes /\ of'[d] = of[d] /\ purge[of[d]] = "no"
        BY <1>1, <1>9, <2>2 DEF Frame, PurgedIsRetired
      <3>2. pc[c] = "purging" => of[c] # of[d]
        BY <2>2, <3>1 DEF Exclusive, TickExclusive, AppendExclusive, HoldsTick, HoldsAppend, Writes
      <3>3. of[d] \in Id
        BY <3>1 DEF Carries, CarriesFor, Writes
      <3> QED
        BY <1>1, <1>4, <3>1, <3>2, <3>3 DEF Moves, Purging
    <2> QED
      BY <2>1, <2>2
  <1> QED
    BY <1>7, <1>8, <1>9 DEF PurgedIsRetired

-----------------------------------------------------------------------------
\* What a step does to the snapshots, and what its tick knows then.
Knowing == {"fetch", "snapLock", "snapCheck"} \cup Capturing \cup Logging
Same(c) == of'[c] = of[c] /\ prior'[c] = prior[c] /\ fetched'[c] = fetched[c]
Opens(c) ==
    /\ pc[c] = "snapCheck" /\ pc'[c] = "write" /\ Same(c) /\ gen'[c] = NextGen(of[c])
    /\ bytes' = [bytes EXCEPT ![of[c]][gen'[c]] = Torn]
    /\ UNCHANGED <<ring, captured>>
Fills(c) ==
    /\ pc[c] = "write" /\ pc'[c] = "meta" /\ Same(c) /\ gen'[c] = gen[c]
    /\ bytes' = [bytes EXCEPT ![of[c]][gen[c]] = fetched[c]]
    /\ UNCHANGED <<ring, captured>>
Lists(c) ==
    /\ pc[c] = "meta" /\ pc'[c] = "prune" /\ Same(c) /\ gen'[c] = gen[c]
    /\ ring' = [ring EXCEPT ![of[c]] = ring[of[c]] \cup {gen[c]}]
    /\ captured' = [captured EXCEPT ![of[c]] = Append(@, fetched[c])]
    /\ left'[c] = Excess(ring[of[c]] \cup {gen[c]}, {g \in Gen : bytes[of[c]][g] # None})
    /\ UNCHANGED bytes
Unlinks(c) ==
    /\ pc[c] = "prune" /\ pc'[c] = "prune" /\ Same(c) /\ gen'[c] = gen[c]
    /\ left'[c] \subseteq left[c]
    /\ \E g \in left[c] :
         \/ ring' = [ring EXCEPT ![of[c]] = @ \ {g}] /\ UNCHANGED bytes
         \/ bytes' = [bytes EXCEPT ![of[c]][g] = None] /\ UNCHANGED ring
    /\ UNCHANGED captured
Clears(c) ==
    /\ pc[c] = "purging" /\ pc'[c] = "purging"
    /\ \/ /\ ring' = [ring EXCEPT ![of[c]] = {}]
          /\ bytes' = [bytes EXCEPT ![of[c]] = [g \in Gen |-> None]]
       \/ UNCHANGED <<ring, bytes>>
    /\ purge' = [purge EXCEPT ![of[c]] = "begun"]
    /\ UNCHANGED captured
Forgets(c) ==
    /\ pc[c] = "purging" /\ Ended(c)
    /\ log[of[c]] = {} /\ \A g \in Gen : bytes[of[c]][g] = None
    /\ captured' = [captured EXCEPT ![of[c]] = <<>>]
    /\ purge' = [purge EXCEPT ![of[c]] = "done"]
    /\ UNCHANGED <<ring, bytes, log>>
Rests(c) ==
    /\ UNCHANGED snapshots
    /\ \/ pc'[c] \notin Knowing
       \/ /\ pc[c] = "check" /\ pc'[c] = "fetch" /\ of'[c] = of[c] /\ gen'[c] = gen[c]
          /\ prior'[c] = IF Newest(of[c]) = 0 THEN None ELSE bytes[of[c]][Newest(of[c])]
       \/ /\ pc[c] = "fetch" /\ pc'[c] = "logLock" /\ Same(c) /\ gen'[c] = gen[c]
       \/ /\ pc[c] = "fetch" /\ pc'[c] = "snapLock" /\ of'[c] = of[c] /\ prior'[c] = prior[c]
          /\ gen'[c] = gen[c] /\ Newest(of[c]) < MaxGen
       \/ /\ <<pc[c], pc'[c]>> \in {<<"snapLock", "snapCheck">>, <<"prune", "logLock">>,
                                    <<"logLock", "logCheck">>, <<"logCheck", "logWrite">>}
          /\ Same(c) /\ gen'[c] = gen[c]
Deed(c) ==
    \/ Rests(c) /\ (UNCHANGED purge)
    \/ Opens(c) /\ (UNCHANGED purge)
    \/ Fills(c) /\ (UNCHANGED purge)
    \/ Lists(c) /\ (UNCHANGED purge)
    \/ Unlinks(c) /\ (UNCHANGED purge)
    \/ Clears(c) \/ Forgets(c)

\* What each action does to the snapshots.
LEMMA Deeds ==
  ASSUME Typed, NEW c \in Command, Act(c)
  PROVE  Deed(c)
  <1>a1. ASSUME NEW id \in Ticked, StartTick(c, id) PROVE Deed(c)
    BY <1>a1 DEF StartTick, Goto, local, evidence, snapshots, Deed, Rests, Same, Knowing,
       Capturing, Logging, Typed
  <1>a2. CASE TakeTickLock(c)
    BY <1>a2 DEF TakeTickLock, Goto, local, evidence, snapshots, Deed, Rests, Same, Knowing,
       Capturing, Logging, Typed
  <1>a3. CASE TakeAppendLock(c)
    BY <1>a3 DEF TakeAppendLock, Goto, local, evidence, snapshots, AfterAppendLock, Deed, Rests,
       Same, Knowing, Capturing, Logging, Typed
  <1>a4. CASE LockTimeout(c)
    BY <1>a4, Ending, Failing DEF LockTimeout, Goto, local, evidence, snapshots, Ended,
       FailPlaces, Deed, Rests, Same, Knowing, Capturing, Logging, Typed
  <1>a5. CASE Check(c)
    <2>1. CASE Fail(c)
      BY <2>1, Failing DEF Deed, Rests, Ended, Knowing, Capturing, Logging
    <2>2. CASE ~Fail(c)
      BY <1>a5, <2>2 DEF Check, Deed, Rests, Same, Typed, Goto, snapshots, evidence, local
    <2> QED
      BY <2>1, <2>2
  <1>a6. CASE Fetch(c)
    <2>1. CASE Fail(c)
      BY <2>1, Failing DEF Deed, Rests, Ended, Knowing, Capturing, Logging
    <2>2. CASE ~Fail(c)
      BY <1>a6, <2>2 DEF Fetch, Deed, Rests, Same, Typed, Goto, snapshots, evidence, local
    <2> QED
      BY <2>1, <2>2
  <1>a7. CASE OpenBytes(c)
    <2>1. CASE Fail(c)
      BY <2>1, Failing DEF Deed, Rests, Ended, Knowing, Capturing, Logging
    <2>2. CASE ~Fail(c)
      BY <1>a7, <2>2 DEF OpenBytes, Deed, Opens, Same, Typed, Goto, snapshots, evidence, local
    <2> QED
      BY <2>1, <2>2
  <1>a8. CASE WriteBytes(c)
    <2>1. CASE Fail(c)
      BY <2>1, Failing DEF Deed, Rests, Ended, Knowing, Capturing, Logging
    <2>2. CASE ~Fail(c)
      BY <1>a8, <2>2 DEF WriteBytes, Deed, Fills, Same, Typed, Goto, snapshots, evidence, local
    <2> QED
      BY <2>1, <2>2
  <1>a9. CASE WriteMeta(c)
    <2>1. CASE Fail(c)
      BY <2>1, Failing DEF Deed, Rests, Ended, Knowing, Capturing, Logging
    <2>2. CASE ~Fail(c)
      BY <1>a9, <2>2 DEF WriteMeta, Deed, Lists, Same, Typed, Goto, snapshots, evidence, local
    <2> QED
      BY <2>1, <2>2
  <1>a10. CASE Prune(c)
    <2>1. CASE left[c] = {}
      BY <1>a10, <2>1 DEF Prune, Deed, Rests, Same, Typed, Goto, snapshots
    <2>2. CASE left[c] # {}
      BY <1>a10, <2>2 DEF Prune, Deed, Unlinks, Same, Typed, Goto
    <2> QED
      BY <2>1, <2>2
  <1>a11. CASE PruneFails(c)
    BY <1>a11, Failing DEF PruneFails, Goto, local, evidence, snapshots, Ended, FailPlaces,
       Deed, Rests, Same, Knowing, Capturing, Logging, Typed
  <1>a12. CASE LogCheck(c)
    <2>1. CASE Fail(c)
      BY <2>1, Failing DEF Deed, Rests, Ended, Knowing, Capturing, Logging
    <2>2. CASE ~Fail(c)
      BY <1>a12, <2>2 DEF LogCheck, Deed, Rests, Same, Knowing, Capturing, Logging, Typed, Goto,
         snapshots, evidence, local
    <2> QED
      BY <2>1, <2>2
  <1>a13. CASE LogWrite(c)
    BY <1>a13, Ending, Failing DEF LogWrite, Goto, local, evidence, snapshots, Ended,
       FailPlaces, Deed, Rests, Same, Knowing, Capturing, Logging, Typed
  <1>a14. CASE ReadRegistry(c)
    BY <1>a14 DEF ReadRegistry, Goto, local, evidence, snapshots, Deed, Rests, Same, Knowing,
       Capturing, Logging, Typed
  <1>a15. CASE AddWrite(c)
    BY <1>a15, Ending DEF AddWrite, Goto, local, evidence, snapshots, Ended, Deed, Rests, Same,
       Knowing, Capturing, Logging, Typed
  <1>a16. CASE RemoveWrite(c)
    BY <1>a16, Ending DEF RemoveWrite, Goto, local, evidence, snapshots, Ended, Deed, Rests,
       Same, Knowing, Capturing, Logging, Typed
  <1>a17. CASE PurgeEntry(c)
    BY <1>a17 DEF PurgeEntry, Goto, local, evidence, snapshots, Clears, Deed, Rests, Same,
       Knowing, Capturing, Logging, Typed
  <1>a18. CASE PurgeEnds(c)
    BY <1>a18, Ending DEF PurgeEnds, Goto, local, evidence, snapshots, Ended, Forgets, Deed,
       Rests, Same, Knowing, Capturing, Logging, Typed
  <1>a19. CASE Crash(c)
    BY <1>a19, Ending DEF Crash, Goto, local, evidence, snapshots, Ended, Deed, Rests, Same,
       Knowing, Capturing, Logging, Typed
  <1> QED
    BY <1>a1, <1>a2, <1>a3, <1>a4, <1>a5, <1>a6, <1>a7, <1>a8, <1>a9, <1>a10, <1>a11, <1>a12,
       <1>a13, <1>a14, <1>a15, <1>a16, <1>a17, <1>a18, <1>a19 DEF Act

\* What is known of the target that a command is about to write evidence of.
Acting == {"fetch", "snapLock", "snapCheck"} \cup Capturing \cup Logging \cup {"failWrite"}

\* A target whose evidence is being written has not been purged.
LEMMA Acts ==
  ASSUME TypeOK, Carries, PurgedIsRetired, RingIsTrue, JudgesTruly, NEW c \in Command, pc[c] \in Acting
  PROVE  /\ of[c] \in NotPurged /\ of[c] \in Id
         /\ Count(of[c]) \in Nat /\ Newest(of[c]) = Count(of[c])
         /\ pc[c] \in Capturing \cup {"prune"} => gen[c] \in Gen
         /\ pc[c] \in Capturing => fetched[c] \in Content
  <1>1. of[c] \in Id /\ purge[of[c]] = "no"
    BY DEF Acting, Capturing, Logging, Carries, CarriesFor, PurgedIsRetired, Writes
  <1> QED
    BY <1>1, NewestIsCount DEF NotPurged, Carries, CarriesFor

\* A listed generation is a captured one, and the last one is listed and whole.
LEMMA RingIsTrueNext ==
  ASSUME TypeOK, Typed, Carries, PurgedIsRetired, RingIsTrue, JudgesTruly, NEW c \in Command, Act(c)
  PROVE  RingIsTrue'
  <1>1. Deed(c) /\ Purging(c)
    BY Deeds, Effects DEF Moves
  <1>2. /\ ring \in [Id -> SUBSET Gen] /\ bytes \in [Id -> [Gen -> Content \cup {None, Torn}]]
        /\ captured \in [Id -> Seq(Content)] /\ purge \in [Id -> {"no", "begun", "done"}]
    BY DEF TypeOK
  <1>3. ASSUME NEW id \in NotPurged'
        PROVE  /\ ring'[id] \subseteq 1..Count(id)'
               /\ Count(id)' > 0 => /\ Count(id)' \in ring'[id]
                                    /\ bytes'[id][Count(id)'] = captured'[id][Count(id)']
    <2>1. id \in NotPurged /\ id \in Id /\ purge'[id] = "no"
      BY <1>1, <1>2, <1>3 DEF NotPurged, Purging, Carries, CarriesFor
    <2>2. /\ ring[id] \subseteq 1..Count(id) /\ Count(id) \in Nat
          /\ Count(id) > 0 => Count(id) \in ring[id] /\ bytes[id][Count(id)] = captured[id][Count(id)]
      BY <2>1, NewestIsCount DEF RingIsTrue
    <2>3. CASE UNCHANGED snapshots
      BY <2>2, <2>3 DEF snapshots, Count
    <2>4. ASSUME pc[c] = "purging", id # of[c] \/ UNCHANGED snapshots, Clears(c) \/ Forgets(c)
          PROVE  ring'[id] = ring[id] /\ bytes'[id] = bytes[id] /\ captured'[id] = captured[id]
      BY <1>2, <2>1, <2>4 DEF Clears, Forgets, snapshots
    <2>5. CASE Clears(c) \/ Forgets(c)
      <3>1. id # of[c]
        BY <1>2, <2>1, <2>5 DEF Clears, Forgets
      <3> QED
        BY <2>2, <2>4, <2>5, <3>1 DEF Clears, Forgets, Count
    <2>6. CASE Opens(c) \/ Fills(c)
      <3>1. of[c] \in Id /\ gen'[c] = Count(of[c]) + 1
        BY <2>6, Acts DEF Opens, Fills, Acting, Capturing, Logging, NextGen, JudgesTruly, Judges
      <3>2. bytes'[id][Count(id)] = bytes[id][Count(id)] /\ ring' = ring /\ captured' = captured
        <4>1. CASE id # of[c]
          BY <1>2, <2>1, <2>6, <3>1, <4>1 DEF Opens, Fills
        <4>2. CASE id = of[c]
          <5>1. PICK v : bytes' = [bytes EXCEPT ![id][Count(id) + 1] = v]
            BY <2>6, <3>1, <4>2 DEF Opens, Fills
          <5>2. bytes'[id] = [bytes[id] EXCEPT ![Count(id) + 1] = v]
            BY <1>2, <2>1, <5>1
          <5> QED
            BY <1>2, <2>1, <2>2, <2>6, <5>2 DEF Opens, Fills
        <4> QED
          BY <4>1, <4>2
      <3> QED
        BY <2>2, <3>2 DEF Count
    <2>7. CASE Lists(c)
      <3>1. of[c] \in Id /\ gen[c] = Count(of[c]) + 1 /\ bytes[of[c]][gen[c]] = fetched[c]
            /\ fetched[c] \in Content
        BY <2>7, Acts DEF Lists, Acting, Capturing, Logging, JudgesTruly, Judges
      <3>2. CASE id # of[c]
        BY <1>2, <2>1, <2>2, <2>7, <3>1, <3>2 DEF Lists, Count
      <3>3. CASE id = of[c]
        <4>1. captured'[id] = Append(captured[id], fetched[c]) /\ ring'[id] = ring[id] \cup {gen[c]}
              /\ bytes' = bytes
          BY <1>2, <2>1, <2>7, <3>3 DEF Lists
        <4>2. Count(id)' = gen[c] /\ captured'[id][gen[c]] = fetched[c]
          BY <1>2, <2>1, <3>1, <3>3, <4>1 DEF Count
        <4> QED
          BY <2>2, <3>1, <3>3, <4>1, <4>2
      <3> QED
        BY <3>2, <3>3
    <2>8. CASE Unlinks(c)
      <3>1. of[c] \in Id /\ gen[c] \in Gen /\ gen[c] = Count(of[c]) /\ gen[c] \notin left[c]
        BY <2>8, Acts DEF Unlinks, Acting, Capturing, Logging, JudgesTruly, Judges, Gen
      <3>2. captured' = captured /\ ring'[id] \subseteq ring[id]
            /\ (Count(id) \in ring[id] => Count(id) \in ring'[id])
            /\ (Count(id) \in Gen => bytes'[id][Count(id)] = bytes[id][Count(id)])
        <4>1. PICK g \in left[c] :
                 \/ ring' = [ring EXCEPT ![of[c]] = @ \ {g}] /\ UNCHANGED bytes
                 \/ bytes' = [bytes EXCEPT ![of[c]][g] = None] /\ UNCHANGED ring
          BY <2>8 DEF Unlinks
        <4>2. CASE ring' = [ring EXCEPT ![of[c]] = @ \ {g}] /\ UNCHANGED bytes
          BY <1>2, <2>1, <2>8, <3>1, <4>2 DEF Unlinks
        <4>3. CASE bytes' = [bytes EXCEPT ![of[c]][g] = None] /\ UNCHANGED ring
          BY <1>2, <2>1, <2>8, <3>1, <4>3 DEF Unlinks
        <4> QED
          BY <4>1, <4>2, <4>3
      <3>3. Count(id) > 0 => Count(id) \in Gen
        BY <1>2, <2>1, <2>2
      <3> QED
        BY <2>2, <3>2, <3>3 DEF Count
    <2> QED
      BY <1>1, <2>3, <2>5, <2>6, <2>7, <2>8 DEF Deed, Rests
  <1> QED
    BY <1>3 DEF RingIsTrue

\* Snapshots are written for one target at a time, under its tick lock.
LEMMA Elsewhere ==
  ASSUME TypeOK, Typed, NEW c \in Command, Deed(c)
  PROVE  /\ \A id \in Id \ {of[c]} :
              ring'[id] = ring[id] /\ bytes'[id] = bytes[id] /\ captured'[id] = captured[id]
         /\ UNCHANGED snapshots \/ pc[c] \in HoldsTick
  BY DEF TypeOK, Deed, Rests, Opens, Fills, Lists, Unlinks, Clears, Forgets, snapshots, HoldsTick

\* A tick that holds its lock judges by what the ring holds.
LEMMA JudgesOwn ==
  ASSUME TypeOK, Typed, Carries, PurgedIsRetired, RingIsTrue, JudgesTruly, NEW c \in Command, Act(c)
  PROVE  Judges(c)'
  <1>1. Deed(c) /\ Rechecked(c) /\ Judges(c) /\ CarriesFor(c)
    BY Deeds, Effects DEF Moves, JudgesTruly, Carries
  <1>2. /\ ring \in [Id -> SUBSET Gen] /\ bytes \in [Id -> [Gen -> Content \cup {None, Torn}]]
        /\ captured \in [Id -> Seq(Content)]
    BY DEF TypeOK
  <1>3. CASE pc'[c] \notin Knowing
    BY <1>3 DEF Judges, Knowing, Capturing, Logging
  <1>4. CASE Rests(c) /\ pc[c] = "check" /\ pc'[c] = "fetch"
    <2>1. of[c] \in NotPurged
      BY <1>1, <1>4 DEF Rechecked, StillRegistered, TypeOK, Live, PurgedIsRetired, NotPurged,
         CarriesFor
    <2>2. Newest(of[c]) = Count(of[c]) /\ Count(of[c]) \in Nat /\ of[c] \in Id
          /\ (Count(of[c]) > 0 => bytes[of[c]][Count(of[c])] = captured[of[c]][Count(of[c])])
      BY <2>1, NewestIsCount DEF RingIsTrue, NotPurged
    <2>3. of'[c] = of[c] /\ UNCHANGED snapshots
          /\ prior'[c] = IF Newest(of[c]) = 0 THEN None ELSE bytes[of[c]][Newest(of[c])]
      BY <1>4 DEF Rests, Knowing
    <2>4. prior'[c] = Before(of[c], Count(of[c]) + 1)
      BY <2>2, <2>3 DEF Before
    <2> QED
      BY <1>4, <2>3, <2>4 DEF Judges, Count, Before, Capturing, Logging, snapshots
  <1>5. CASE Rests(c) /\ pc[c] \in Knowing /\ pc'[c] \in Knowing
    <2>1. UNCHANGED snapshots /\ of'[c] = of[c] /\ prior'[c] = prior[c] /\ gen'[c] = gen[c]
      BY <1>5 DEF Rests, Same, Knowing, Capturing, Logging
    <2>2. CASE pc[c] = "fetch" /\ pc'[c] = "snapLock"
      <3>1. Count(of[c]) < MaxGen
        BY <1>5, <2>2, Acts DEF Rests, Acting
      <3> QED
        BY <1>1, <2>1, <2>2, <3>1 DEF Judges, Count, Before, Capturing, Logging, snapshots
    <2>3. CASE pc[c] = "fetch" /\ pc'[c] = "logLock"
      BY <1>1, <2>1, <2>3 DEF Judges, CarriesFor, Capturing, Logging
    <2>4. CASE <<pc[c], pc'[c]>> \in {<<"snapLock", "snapCheck">>, <<"prune", "logLock">>,
                                      <<"logLock", "logCheck">>, <<"logCheck", "logWrite">>}
      BY <1>1, <1>5, <2>1, <2>4 DEF Rests, Same, Judges, Count, Before, Capturing, Logging,
         snapshots
    <2> QED
      BY <1>5, <2>2, <2>3, <2>4 DEF Rests, Knowing, Capturing, Logging
  <1>6. CASE Opens(c)
    <2>1. gen'[c] = Count(of[c]) + 1 /\ of'[c] = of[c] /\ prior'[c] = prior[c] /\ captured' = captured
          /\ pc'[c] = "write" /\ pc[c] = "snapCheck"
      BY <1>6, Acts DEF Opens, Same, NextGen, Acting
    <2> QED
      BY <1>1, <2>1 DEF Judges, Count, Before, Capturing, Logging
  <1>7. CASE Fills(c)
    <2>1. gen'[c] = gen[c] /\ Same(c) /\ captured' = captured /\ pc'[c] = "meta" /\ pc[c] = "write"
          /\ of[c] \in Id /\ gen[c] \in Gen
      BY <1>7, Acts DEF Fills, Acting, Capturing
    <2>2. bytes'[of[c]][gen[c]] = fetched[c]
      BY <1>2, <1>7, <2>1 DEF Fills
    <2> QED
      BY <1>1, <2>1, <2>2 DEF Judges, Count, Before, Capturing, Logging, Same
  <1>8. CASE Lists(c)
    <2> DEFINE id == of[c]
    <2>1. /\ id \in Id /\ id \in NotPurged /\ gen[c] \in Gen /\ fetched[c] \in Content
          /\ Count(id) \in Nat /\ gen[c] = Count(id) + 1 /\ prior[c] = Before(id, gen[c])
          /\ pc'[c] = "prune" /\ Same(c) /\ gen'[c] = gen[c]
      BY <1>1, <1>8, Acts DEF Lists, Acting, Capturing, Judges
    <2>2. captured'[id] = Append(captured[id], fetched[c])
      BY <1>2, <1>8, <2>1 DEF Lists
    <2>3. /\ Count(id)' = gen[c] /\ captured'[id][gen[c]] = fetched[c]
          /\ \A g \in 1..Count(id) : captured'[id][g] = captured[id][g]
      BY <1>2, <2>1, <2>2 DEF Count, Same
    <2>4. Before(id, gen[c])' = Before(id, gen[c])
      <3>1. CASE gen[c] = 1
        BY <2>1, <3>1 DEF Before, Same
      <3>2. CASE gen[c] # 1
        <4>1. gen[c] - 1 \in 1..Count(id)
          BY <2>1, <3>2
        <4> QED
          BY <2>1, <2>3, <3>2, <4>1 DEF Before, Same
      <3> QED
        BY <3>1, <3>2
    <2>5. gen[c] \notin left'[c]
      <3>1. ring[id] \subseteq 1..Count(id)
        BY <2>1 DEF RingIsTrue
      <3>2. {h \in ring[id] \cup {gen[c]} : h > gen[c]} = {}
        BY <2>1, <3>1
      <3>3. ~(Cardinality({h \in ring[id] \cup {gen[c]} : h > gen[c]}) >= Keep)
        BY <3>2, FS_EmptySet, ConstantsAssumption DEF ConstantsAssumption
      <3> QED
        BY <1>8, <3>3 DEF Lists, Excess
    <2> QED
      BY <2>1, <2>3, <2>4, <2>5 DEF Judges, Count, Capturing, Logging, Same
  <1>9. CASE Unlinks(c)
    <2>1. UNCHANGED captured /\ Same(c) /\ gen'[c] = gen[c] /\ left'[c] \subseteq left[c]
          /\ pc[c] = "prune" /\ pc'[c] = "prune"
      BY <1>9 DEF Unlinks
    <2> QED
      BY <1>1, <2>1 DEF Judges, Count, Before, Capturing, Logging, Same
  <1>10. CASE Clears(c) \/ Forgets(c)
    BY <1>10 DEF Clears, Forgets, Ended, Judges, Capturing, Logging
  <1> QED
    BY <1>1, <1>3, <1>4, <1>5, <1>6, <1>7, <1>8, <1>9, <1>10
       DEF Deed, Rests, Knowing, Capturing, Logging

\* Nobody else writes the ring of a tick that holds its target's lock.
LEMMA JudgesTrulyNext ==
  ASSUME TypeOK, Typed, Exclusive, Carries, PurgedIsRetired, RingIsTrue, JudgesTruly,
         NEW c \in Command, Act(c)
  PROVE  JudgesTruly'
  <1>1. Deed(c) /\ Frame(c)
    BY Deeds, Framed
  <1>2. ASSUME NEW d \in Command \ {c} PROVE Judges(d)'
    <2>1. Judges(d) /\ pc'[d] = pc[d] /\ of'[d] = of[d] /\ prior'[d] = prior[d]
          /\ fetched'[d] = fetched[d] /\ gen'[d] = gen[d] /\ left'[d] = left[d]
      BY <1>1 DEF Frame, JudgesTruly
    <2>2. CASE pc[d] \notin Knowing
      BY <2>1, <2>2 DEF Judges, Knowing, Capturing, Logging
    <2>3. CASE pc[d] \in Knowing
      <3>1. of[d] \in Id
        BY <2>3 DEF Carries, CarriesFor, Knowing, Capturing, Logging
      <3>2. UNCHANGED snapshots \/ of[d] # of[c]
        BY <1>1, <2>3, Elsewhere DEF Exclusive, TickExclusive, HoldsTick, Knowing, Capturing,
           Logging
      <3>3. captured'[of[d]] = captured[of[d]] /\ bytes'[of[d]] = bytes[of[d]]
        BY <1>1, <3>1, <3>2, Elsewhere DEF snapshots
      <3> QED
        BY <2>1, <3>3 DEF Judges, Count, Before
    <2> QED
      BY <2>2, <2>3
  <1> QED
    BY <1>2, JudgesOwn DEF JudgesTruly

-----------------------------------------------------------------------------
\* What a step does to the change log, and to the generations it gives up on.
Writing == {"logWrite", "failWrite"}
Adds(c) ==
    /\ pc[c] \in Writing
    /\ log' = [log EXCEPT ![of[c]] = IF Unreadable \in @ THEN @ ELSE @ \cup {LogEntry(c)}]
    /\ UNCHANGED snapshots
Logs(c) ==
    \/ log' = log
    \/ Adds(c)
    \/ pc[c] \in Writing /\ log' = [log EXCEPT ![of[c]] = {Unreadable}]
    \/ /\ pc[c] = "purging" /\ log' = [log EXCEPT ![of[c]] = {}]
       /\ purge' = [purge EXCEPT ![of[c]] = "begun"]
KeepsOn(c) == pc'[c] \in Logging /\ of'[c] = of[c] /\ gen'[c] = gen[c]
Marks(c) ==
    \/ unlogged' = unlogged /\ (Unlogged(c) => KeepsOn(c) \/ Adds(c))
    \/ Unlogged(c) /\ unlogged' = [unlogged EXCEPT ![of[c]] = @ \cup {gen[c]}]
    \/ /\ pc[c] = "purging" /\ unlogged' = [unlogged EXCEPT ![of[c]] = {}]
       /\ purge' = [purge EXCEPT ![of[c]] = "done"]
Notes(c) == Logs(c) /\ Marks(c)

\* What each action does to the change log.
LEMMA NotesTaken ==
  ASSUME Typed, NEW c \in Command, Act(c)
  PROVE  Notes(c)
  <1>a1. ASSUME NEW id \in Ticked, StartTick(c, id) PROVE Notes(c)
    BY <1>a1 DEF StartTick, Goto, local, evidence, snapshots, Notes, Logs, Marks, Unlogged,
       KeepsOn, Logging, Typed
  <1>a2. CASE TakeTickLock(c)
    BY <1>a2 DEF TakeTickLock, Goto, local, evidence, snapshots, Notes, Logs, Marks, Unlogged,
       KeepsOn, Logging, Typed
  <1>a3. CASE TakeAppendLock(c)
    BY <1>a3 DEF TakeAppendLock, Goto, local, evidence, snapshots, AfterAppendLock, Notes, Logs,
       Marks, Unlogged, KeepsOn, Logging, Typed
  <1>a4. CASE LockTimeout(c)
    <2>1. CASE Fail(c)
      BY <2>1, Failing DEF GivesUpOn, Notes, Logs, Marks
    <2>2. CASE ~Fail(c)
      BY <1>a4, <2>2 DEF LockTimeout, Notes, Logs, Marks, Unlogged, KeepsOn, Logging, Typed,
         Goto, snapshots, evidence, local
    <2> QED
      BY <2>1, <2>2
  <1>a5. CASE Check(c)
    <2>1. CASE Fail(c)
      BY <2>1, Failing DEF GivesUpOn, Notes, Logs, Marks
    <2>2. CASE ~Fail(c)
      BY <1>a5, <2>2 DEF Check, Notes, Logs, Marks, Unlogged, KeepsOn, Logging, Typed, Goto,
         snapshots, evidence, local
    <2> QED
      BY <2>1, <2>2
  <1>a6. CASE Fetch(c)
    <2>1. CASE Fail(c)
      BY <2>1, Failing DEF GivesUpOn, Notes, Logs, Marks
    <2>2. CASE ~Fail(c)
      BY <1>a6, <2>2 DEF Fetch, Notes, Logs, Marks, Unlogged, KeepsOn, Logging, Typed, Goto,
         snapshots, evidence, local
    <2> QED
      BY <2>1, <2>2
  <1>a7. CASE OpenBytes(c)
    <2>1. CASE Fail(c)
      BY <2>1, Failing DEF GivesUpOn, Notes, Logs, Marks
    <2>2. CASE ~Fail(c)
      BY <1>a7, <2>2 DEF OpenBytes, Notes, Logs, Marks, Unlogged, KeepsOn, Logging, Typed, Goto,
         snapshots, evidence, local
    <2> QED
      BY <2>1, <2>2
  <1>a8. CASE WriteBytes(c)
    <2>1. CASE Fail(c)
      BY <2>1, Failing DEF GivesUpOn, Notes, Logs, Marks
    <2>2. CASE ~Fail(c)
      BY <1>a8, <2>2 DEF WriteBytes, Notes, Logs, Marks, Unlogged, KeepsOn, Logging, Typed,
         Goto, snapshots, evidence, local
    <2> QED
      BY <2>1, <2>2
  <1>a9. CASE WriteMeta(c)
    <2>1. CASE Fail(c)
      BY <2>1, Failing DEF GivesUpOn, Notes, Logs, Marks
    <2>2. CASE ~Fail(c)
      BY <1>a9, <2>2 DEF WriteMeta, Notes, Logs, Marks, Unlogged, KeepsOn, Logging, Typed, Goto,
         snapshots, evidence, local
    <2> QED
      BY <2>1, <2>2
  <1>a10. CASE Prune(c)
    BY <1>a10 DEF Prune, Goto, local, evidence, snapshots, Notes, Logs, Marks, Unlogged,
       KeepsOn, Logging, Typed
  <1>a11. CASE PruneFails(c)
    <2>1. CASE Fail(c)
      BY <2>1, Failing DEF GivesUpOn, Notes, Logs, Marks
    <2>2. CASE ~Fail(c)
      BY <1>a11, <2>2 DEF PruneFails, Notes, Logs, Marks, Unlogged, KeepsOn, Logging, Typed,
         Goto, snapshots, evidence, local
    <2> QED
      BY <2>1, <2>2
  <1>a12. CASE LogCheck(c)
    <2>1. CASE Fail(c)
      BY <2>1, Failing DEF GivesUpOn, Notes, Logs, Marks
    <2>2. CASE ~Fail(c)
      BY <1>a12, <2>2 DEF LogCheck, Notes, Logs, Marks, Unlogged, KeepsOn, Logging, Typed, Goto,
         snapshots, evidence, local
    <2> QED
      BY <2>1, <2>2
  <1>a13. CASE LogWrite(c)
    <2>1. CASE Fail(c)
      BY <2>1, Failing DEF GivesUpOn, Notes, Logs, Marks
    <2>2. CASE ~Fail(c)
      BY <1>a13, <2>2 DEF LogWrite, Notes, Logs, Marks, Unlogged, KeepsOn, Logging, Typed, Goto,
         snapshots, evidence, local, Adds, Writing
    <2> QED
      BY <2>1, <2>2
  <1>a14. CASE ReadRegistry(c)
    BY <1>a14 DEF ReadRegistry, Goto, local, evidence, snapshots, Notes, Logs, Marks, Unlogged,
       KeepsOn, Logging, Typed
  <1>a15. CASE AddWrite(c)
    BY <1>a15, Ending DEF AddWrite, Goto, local, evidence, snapshots, Ended, Notes, Logs, Marks,
       Unlogged, KeepsOn, Logging, Typed
  <1>a16. CASE RemoveWrite(c)
    BY <1>a16, Ending DEF RemoveWrite, Goto, local, evidence, snapshots, Ended, Notes, Logs,
       Marks, Unlogged, KeepsOn, Logging, Typed
  <1>a17. CASE PurgeEntry(c)
    BY <1>a17 DEF PurgeEntry, Goto, local, evidence, snapshots, Notes, Logs, Marks, Unlogged,
       KeepsOn, Logging, Typed
  <1>a18. CASE PurgeEnds(c)
    BY <1>a18, Ending DEF PurgeEnds, Goto, local, evidence, snapshots, Ended, Notes, Logs,
       Marks, Unlogged, KeepsOn, Logging, Typed
  <1>a19. CASE Crash(c)
    BY <1>a19 DEF Crash, GivesUpOn, Notes, Logs, Marks, Writing
  <1> QED
    BY <1>a1, <1>a2, <1>a3, <1>a4, <1>a5, <1>a6, <1>a7, <1>a8, <1>a9, <1>a10, <1>a11, <1>a12,
       <1>a13, <1>a14, <1>a15, <1>a16, <1>a17, <1>a18, <1>a19 DEF Act

\* A target with captured generations has bytes.
LEMMA RingHasBytes ==
  ASSUME TypeOK, RingIsTrue, NEW id \in NotPurged, ring[id] # {}
  PROVE  \E g \in Gen : bytes[id][g] # None
  <1>1. id \in Id /\ Count(id) \in Nat /\ ring[id] \subseteq 1..Count(id)
    BY NewestIsCount DEF RingIsTrue, NotPurged
  <1>2. Count(id) > 0 /\ Count(id) \in ring[id] /\ bytes[id][Count(id)] = captured[id][Count(id)]
    BY <1>1 DEF RingIsTrue
  <1>3. Count(id) \in Gen /\ captured[id][Count(id)] \in Content
    BY <1>1, <1>2 DEF TypeOK, Count
  <1> QED
    BY <1>2, <1>3, ConstantsAssumption DEF ConstantsAssumption

\* Nobody but a purge touches the evidence of a target whose purge has begun.
LEMMA PurgedUntouched ==
  ASSUME TypeOK, Typed, Carries, PurgedIsRetired, RingIsTrue, JudgesTruly,
         NEW c \in Command, Act(c), pc[c] # "purging",
         NEW id \in Id, purge[id] # "no"
  PROVE  ring'[id] = ring[id] /\ bytes'[id] = bytes[id] /\ log'[id] = log[id]
  <1>1. Deed(c) /\ Logs(c)
    BY Deeds, NotesTaken DEF Notes
  <1>2. pc[c] \in Writing \cup {"snapCheck", "write", "meta", "prune"} => of[c] # id
    BY Acts DEF Writing, Acting, Capturing, Logging, NotPurged
  <1>3. UNCHANGED snapshots \/ of[c] # id
    BY <1>1, <1>2 DEF Deed, Rests, Opens, Fills, Lists, Unlinks, Clears, Forgets
  <1>4. log' = log \/ of[c] # id
    BY <1>1, <1>2 DEF Logs, Adds
  <1>5. log'[id] = log[id]
    BY <1>1, <1>4 DEF Logs, Adds, TypeOK
  <1> QED
    BY <1>1, <1>3, <1>5, Elsewhere DEF snapshots

\* A ring that a purge has not come to yet still has bytes.
LEMMA PurgesRingNext ==
  ASSUME TypeOK, Typed, Carries, PurgedIsRetired, RingIsTrue, JudgesTruly, PurgesRing,
         NEW c \in Command, Act(c)
  PROVE  PurgesRing'
  <1>1. Deed(c) /\ Purging(c)
    BY Deeds, Effects DEF Moves
  <1>2. SUFFICES ASSUME NEW id \in Id, purge'[id] = "begun", ring'[id] # {}
                 PROVE  \E g \in Gen : bytes'[id][g] # None
    BY DEF PurgesRing
  <1>3. CASE pc[c] # "purging"
    <2>1. purge[id] = "begun"
      BY <1>1, <1>2, <1>3 DEF Purging
    <2> QED
      BY <1>2, <1>3, <2>1, PurgedUntouched DEF PurgesRing
  <1>4. CASE pc[c] = "purging"
    <2>1. of[c] \in Id /\ (Clears(c) \/ Forgets(c) \/ UNCHANGED <<snapshots, purge>>)
      BY <1>1, <1>4 DEF Deed, Rests, Opens, Fills, Lists, Unlinks, Carries, CarriesFor
    <2>2. CASE id = of[c]
      <3>1. UNCHANGED <<ring, bytes>>
        BY <1>2, <2>1, <2>2 DEF Clears, Forgets, snapshots, TypeOK
      <3>2. purge[id] # "done"
        BY <1>4, <2>2 DEF PurgedIsRetired, PurgePlaces
      <3>3. purge[id] = "no" => id \in NotPurged
        BY DEF NotPurged
      <3> QED
        BY <1>2, <3>1, <3>2, <3>3, RingHasBytes DEF PurgesRing, TypeOK
    <2>3. CASE id # of[c]
      <3>1. purge'[id] = purge[id] /\ ring'[id] = ring[id] /\ bytes'[id] = bytes[id]
        BY <1>1, <2>1, <2>3, Elsewhere DEF Purging, TypeOK
      <3> QED
        BY <1>2, <3>1 DEF PurgesRing
    <2> QED
      BY <2>2, <2>3
  <1> QED
    BY <1>3, <1>4

\* What a purge has removed stays away.
LEMMA PurgedStaysGoneNext ==
  ASSUME TypeOK, Typed, Carries, PurgedIsRetired, RingIsTrue, JudgesTruly, PurgesRing,
         PurgedStaysGone, NEW c \in Command, Act(c)
  PROVE  PurgedStaysGone'
  <1>1. Deed(c) /\ Purging(c) /\ Logs(c)
    BY Deeds, Effects, NotesTaken DEF Moves, Notes
  <1>2. SUFFICES ASSUME NEW id \in Id, purge'[id] = "done"
                 PROVE  ring'[id] = {} /\ log'[id] = {} /\ \A g \in Gen : bytes'[id][g] = None
    BY DEF PurgedStaysGone
  <1>3. CASE pc[c] # "purging"
    <2>1. purge[id] = "done"
      BY <1>1, <1>2, <1>3 DEF Purging
    <2> QED
      BY <1>2, <1>3, <2>1, PurgedUntouched DEF PurgedStaysGone
  <1>4. CASE pc[c] = "purging"
    <2>1. of[c] \in Id /\ (Clears(c) \/ Forgets(c) \/ UNCHANGED <<snapshots, purge>>)
      BY <1>1, <1>4 DEF Deed, Rests, Opens, Fills, Lists, Unlinks, Carries, CarriesFor
    <2>2. CASE id = of[c]
      <3>1. purge[id] # "done"
        BY <1>4, <2>2 DEF PurgedIsRetired, PurgePlaces
      <3>2. Forgets(c)
        BY <1>2, <2>1, <2>2, <3>1 DEF Clears, TypeOK
      <3>3. ring[id] = {}
        <4>1. purge[id] = "no" => id \in NotPurged
          BY DEF NotPurged
        <4> QED
          BY <2>2, <3>1, <3>2, <4>1, RingHasBytes DEF PurgesRing, Forgets, TypeOK
      <3> QED
        BY <2>2, <3>2, <3>3 DEF Forgets
    <2>3. CASE id # of[c]
      <3>1. purge'[id] = purge[id] /\ ring'[id] = ring[id] /\ bytes'[id] = bytes[id] /\ log'[id] = log[id]
        BY <1>1, <1>4, <2>1, <2>3, Elsewhere DEF Purging, Logs, Adds, Writing, TypeOK
      <3> QED
        BY <1>2, <3>1 DEF PurgedStaysGone
    <2> QED
      BY <2>2, <2>3
  <1> QED
    BY <1>3, <1>4

\* Captured generations stay, until a purge.
LEMMA CapturedGrows ==
  ASSUME TypeOK, Typed, Carries, PurgedIsRetired, RingIsTrue, JudgesTruly,
         NEW c \in Command, Act(c), NEW id \in NotPurged'
  PROVE  /\ id \in NotPurged /\ id \in Id /\ Count(id) \in Nat
         /\ \/ captured'[id] = captured[id]
            \/ /\ Lists(c) /\ id = of[c] /\ gen[c] = Count(id) + 1
               /\ captured'[id] = Append(captured[id], fetched[c])
               /\ DOMAIN captured'[id] = DOMAIN captured[id] \cup {gen[c]}
         /\ \A g \in DOMAIN captured[id] :
              g \in DOMAIN captured'[id] /\ TrueEntry(id, g)' = TrueEntry(id, g)
  <1>1. Deed(c) /\ Purging(c)
    BY Deeds, Effects DEF Moves
  <1>2. captured \in [Id -> Seq(Content)] /\ purge \in [Id -> {"no", "begun", "done"}]
    BY DEF TypeOK
  <1>3. id \in NotPurged /\ id \in Id /\ purge'[id] = "no"
    BY <1>1, <1>2 DEF NotPurged, Purging, Carries, CarriesFor
  <1>4. Count(id) \in Nat /\ DOMAIN captured[id] = 1..Count(id)
    BY <1>2, <1>3 DEF Count
  <1>5. captured'[id] = captured[id] \/ (Lists(c) /\ id = of[c])
    <2>1. CASE pc[c] = "purging"
      <3>1. Clears(c) \/ Forgets(c) \/ UNCHANGED snapshots
        BY <1>1, <2>1 DEF Deed, Rests, Opens, Fills, Lists, Unlinks
      <3>2. Forgets(c) => of[c] # id
        BY <1>2, <1>3 DEF Forgets
      <3> QED
        BY <1>2, <1>3, <3>1, <3>2 DEF Clears, Forgets, snapshots
    <2>2. CASE pc[c] # "purging"
      BY <1>1, <1>2, <1>3, <2>2 DEF Deed, Rests, Opens, Fills, Lists, Unlinks, Clears, Forgets,
         snapshots
    <2> QED
      BY <2>1, <2>2
  <1>6. ASSUME Lists(c), id = of[c]
        PROVE  /\ gen[c] = Count(id) + 1 /\ captured'[id] = Append(captured[id], fetched[c])
               /\ DOMAIN captured'[id] = DOMAIN captured[id] \cup {gen[c]}
               /\ \A g \in DOMAIN captured[id] : captured'[id][g] = captured[id][g]
    <2>1. gen[c] = Count(id) + 1 /\ fetched[c] \in Content
      BY <1>6, Acts DEF Lists, Acting, Capturing, JudgesTruly, Judges
    <2>2. captured'[id] = Append(captured[id], fetched[c])
      BY <1>2, <1>3, <1>6 DEF Lists
    <2>3. DOMAIN captured'[id] = 1..(Count(id) + 1)
          /\ \A g \in 1..Count(id) : captured'[id][g] = captured[id][g]
      BY <1>2, <1>3, <2>1, <2>2 DEF Count
    <2> QED
      BY <1>4, <2>1, <2>2, <2>3
  <1>7. ASSUME NEW g \in DOMAIN captured[id]
        PROVE  g \in DOMAIN captured'[id] /\ TrueEntry(id, g)' = TrueEntry(id, g)
    <2>1. g \in DOMAIN captured'[id] /\ captured'[id][g] = captured[id][g]
      BY <1>5, <1>6
    <2>2. g # 1 => captured'[id][g - 1] = captured[id][g - 1]
      <3>1. g # 1 => g - 1 \in DOMAIN captured[id]
        BY <1>4
      <3> QED
        BY <1>5, <1>6, <3>1
    <2> QED
      BY <2>1, <2>2 DEF TrueEntry
  <1> QED
    BY <1>3, <1>4, <1>5, <1>6, <1>7

\* What a tick logs of its generation is true.
LEMMA LogsTruth ==
  ASSUME TypeOK, Carries, PurgedIsRetired, RingIsTrue, JudgesTruly, NEW c \in Command, pc[c] \in Writing
  PROVE  /\ LogEntry(c).gen = gen[c]
         /\ gen[c] # 0 => gen[c] \in DOMAIN captured[of[c]] /\ LogEntry(c) = TrueEntry(of[c], gen[c])
  <1>1. LogEntry(c).gen = gen[c]
    BY DEF LogEntry
  <1>2. ASSUME gen[c] # 0
        PROVE  gen[c] \in DOMAIN captured[of[c]] /\ LogEntry(c) = TrueEntry(of[c], gen[c])
    <2>1. pc[c] = "logWrite"
      BY <1>2 DEF Writing, Carries, CarriesFor, Capturing, Logging
    <2>2. /\ gen[c] = Count(of[c]) /\ fetched[c] = captured[of[c]][gen[c]]
          /\ prior[c] = Before(of[c], gen[c])
      BY <1>2, <2>1 DEF JudgesTruly, Judges, Logging
    <2>3. gen[c] \in DOMAIN captured[of[c]]
      BY <1>2, <2>1, <2>2, Acts DEF Acting, Logging, Count, TypeOK
    <2> QED
      BY <1>2, <2>2, <2>3 DEF LogEntry, TrueEntry, Before
  <1> QED
    BY <1>1, <1>2

\* What appendChangeLog adds is true when it is added, and stays true.
LEMMA EntriesAreTrueNext ==
  ASSUME TypeOK, Typed, Carries, PurgedIsRetired, RingIsTrue, JudgesTruly, EntriesAreTrue,
         NEW c \in Command, Act(c)
  PROVE  EntriesAreTrue'
  <1>1. Logs(c)
    BY NotesTaken DEF Notes
  <1>2. SUFFICES ASSUME NEW id \in NotPurged', NEW e \in log'[id], e.gen # 0
                 PROVE  e.gen \in DOMAIN captured'[id] /\ e = TrueEntry(id, e.gen)'
    BY DEF EntriesAreTrue
  <1>3. id \in NotPurged /\ id \in Id
    BY CapturedGrows
  <1>4. e \in log[id] \/ e = Unreadable \/ (Adds(c) /\ id = of[c] /\ e = LogEntry(c))
    BY <1>1, <1>2, <1>3 DEF Logs, Adds, TypeOK
  <1>5. e.gen \in DOMAIN captured[id] /\ e = TrueEntry(id, e.gen)
    <2>1. CASE e \in log[id]
      BY <1>2, <1>3, <2>1 DEF EntriesAreTrue
    <2>2. CASE e = Unreadable
      BY <1>2, <2>2 DEF Unreadable
    <2>3. CASE Adds(c) /\ id = of[c] /\ e = LogEntry(c)
      BY <1>2, <2>3, LogsTruth DEF Adds
    <2> QED
      BY <1>4, <2>1, <2>2, <2>3
  <1> QED
    BY <1>5, CapturedGrows

\* A generation stays with its tick until it is logged, or given up on.
LEMMA EveryChangeLoggedNext ==
  ASSUME TypeOK, Typed, Carries, PurgedIsRetired, RingIsTrue, JudgesTruly, EveryChangeLogged,
         NEW c \in Command, Act(c)
  PROVE  EveryChangeLogged'
  <1> DEFINE Accounted(id, g) ==
        \/ TrueEntry(id, g) \in log[id]
        \/ g \in unlogged[id]
        \/ \E d \in Command : of[d] = id /\ gen[d] = g /\ Unlogged(d)
  <1>1. Logs(c) /\ Marks(c) /\ Frame(c) /\ Purging(c)
    BY NotesTaken, Framed, Effects DEF Notes, Moves
  <1>2. SUFFICES ASSUME NEW id \in NotPurged', Unreadable \notin log'[id],
                        NEW g \in DOMAIN captured'[id]
                 PROVE  Accounted(id, g)'
    BY DEF EveryChangeLogged
  <1>3. id \in NotPurged /\ id \in Id /\ purge[id] = "no" /\ purge'[id] = "no"
    BY CapturedGrows DEF NotPurged
  <1>4. Unreadable \notin log[id] /\ log[id] \subseteq log'[id] /\ unlogged[id] \subseteq unlogged'[id]
    BY <1>1, <1>2, <1>3 DEF Logs, Adds, Marks, TypeOK
  <1>5. CASE g \in DOMAIN captured[id]
    <2>1. TrueEntry(id, g)' = TrueEntry(id, g)
      BY <1>5, CapturedGrows
    <2>2. Accounted(id, g)
      BY <1>3, <1>4, <1>5 DEF EveryChangeLogged
    <2>3. ASSUME NEW d \in Command, of[d] = id, gen[d] = g, Unlogged(d) PROVE Accounted(id, g)'
      <3>1. CASE d # c
        BY <1>1, <2>3, <3>1 DEF Frame, Unlogged
      <3>2. CASE d = c
        <4>1. CASE KeepsOn(c)
          BY <2>3, <3>2, <4>1 DEF KeepsOn, Unlogged, Logging
        <4>2. CASE Adds(c)
          <5>1. LogEntry(c) = TrueEntry(id, g)
            BY <2>3, <3>2, <4>2, LogsTruth DEF Adds, Unlogged
          <5> QED
            BY <1>3, <1>4, <2>1, <2>3, <3>2, <4>2, <5>1 DEF Adds, TypeOK
        <4>3. CASE unlogged' = [unlogged EXCEPT ![of[c]] = @ \cup {gen[c]}]
          BY <1>3, <2>3, <3>2, <4>3 DEF TypeOK
        <4> QED
          BY <1>1, <2>3, <3>2, <4>1, <4>2, <4>3 DEF Marks, Unlogged
      <3> QED
        BY <3>1, <3>2
    <2> QED
      BY <1>4, <2>1, <2>2, <2>3
  <1>6. CASE g \notin DOMAIN captured[id]
    <2>1. Lists(c) /\ id = of[c] /\ g = gen[c] /\ gen[c] # 0
      BY <1>2, <1>6, CapturedGrows
    <2>2. of'[c] = id /\ gen'[c] = g /\ Unlogged(c)'
      BY <2>1 DEF Lists, Same, Unlogged
    <2> QED
      BY <2>2
  <1> QED
    BY <1>5, <1>6

-----------------------------------------------------------------------------
\* A command that ends leaves its locals well typed.
LEMMA EndTyped ==
  ASSUME Typed, ConstantsAssumption, NEW c \in Command, End(c)
  PROVE  Typed'
  BY DEF Typed, End, Goto, Location, ConstantsAssumption

\* A tick that fails leaves its locals well typed.
LEMMA FailTyped ==
  ASSUME Typed, ConstantsAssumption, NEW c \in Command, Fail(c)
  PROVE  Typed'
  <1>1. CASE End(c)
    BY <1>1, EndTyped
  <1>2. CASE ~End(c)
    BY <1>2 DEF Fail, Goto, Typed, Location, ConstantsAssumption
  <1> QED
    BY <1>1, <1>2

\* What appendSnapshot prunes are generations.
LEMMA LeftTyped ==
  ASSUME TypeOK, Carries, NEW c \in Command, pc[c] = "meta"
  PROVE  Excess(ring[of[c]] \cup {gen[c]}, {g \in Gen : bytes[of[c]][g] # None}) \in SUBSET Gen
  BY DEF TypeOK, Carries, CarriesFor, Capturing, Excess

\* The locals of the commands.
LEMMA TypedNext ==
  ASSUME TypeOK, Typed, Carries, PurgedIsRetired, RingIsTrue, JudgesTruly, NEW c \in Command, Act(c)
  PROVE  Typed'
  <1>1. registry \in Registry
    BY DEF TypeOK
  <1>2. pc[c] = "check" /\ StillRegistered(of[c]) /\ Newest(of[c]) # 0
          => bytes[of[c]][Newest(of[c])] \in Content
    <2>1. SUFFICES ASSUME pc[c] = "check", StillRegistered(of[c]), Newest(of[c]) # 0
                   PROVE  bytes[of[c]][Newest(of[c])] \in Content
      OBVIOUS
    <2>2. of[c] \in Id /\ of[c] \in NotPurged
      BY <2>1 DEF StillRegistered, TypeOK, Live, PurgedIsRetired, NotPurged, Carries, CarriesFor
    <2>3. Newest(of[c]) = Count(of[c]) /\ Count(of[c]) \in Nat
      BY <2>2, NewestIsCount
    <2>4. captured[of[c]] \in Seq(Content) /\ Count(of[c]) \in 1..Len(captured[of[c]])
      BY <2>1, <2>2, <2>3 DEF TypeOK, Count
    <2> QED
      BY <2>2, <2>3, <2>4 DEF RingIsTrue
  <1>3. pc[c] = "snapCheck" => NextGen(of[c]) \in 0..MaxGen
    BY Acts, ConstantsAssumption DEF Acting, NextGen, JudgesTruly, Judges, ConstantsAssumption
  <1>a1. ASSUME NEW id \in Ticked, StartTick(c, id) PROVE Typed'
    BY <1>a1, ConstantsAssumption DEF StartTick, Goto, local, evidence, snapshots,
       ConstantsAssumption, Location, HoldsRegistry, HoldsAppend, HoldsTick, Typed
  <1>a2. CASE TakeTickLock(c)
    BY <1>a2 DEF TakeTickLock, Goto, local, evidence, snapshots, Location, HoldsRegistry,
       HoldsAppend, HoldsTick, Typed
  <1>a3. CASE TakeAppendLock(c)
    BY <1>a3 DEF TakeAppendLock, Goto, local, evidence, snapshots, AfterAppendLock, Location,
       HoldsRegistry, HoldsAppend, HoldsTick, Typed
  <1>a4. CASE LockTimeout(c)
    BY <1>a4, EndTyped, FailTyped, ConstantsAssumption DEF LockTimeout
  <1>a5. CASE Check(c)
    <2>1. CASE Fail(c)
      BY <2>1, FailTyped, ConstantsAssumption
    <2>2. CASE ~Fail(c)
      BY <1>a5, <2>2, <1>2 DEF Check, Typed, Goto, local, Location, HoldsRegistry, HoldsAppend,
         HoldsTick
    <2> QED
      BY <2>1, <2>2
  <1>a6. CASE Fetch(c)
    <2>1. CASE Fail(c)
      BY <2>1, FailTyped, ConstantsAssumption
    <2>2. CASE ~Fail(c)
      BY <1>a6, <2>2 DEF Fetch, Typed, Goto, local, Location, HoldsRegistry, HoldsAppend, HoldsTick
    <2> QED
      BY <2>1, <2>2
  <1>a7. CASE OpenBytes(c)
    <2>1. CASE Fail(c)
      BY <2>1, FailTyped, ConstantsAssumption
    <2>2. CASE ~Fail(c)
      BY <1>a7, <2>2, <1>3 DEF OpenBytes, Typed, Goto, local, Location, HoldsRegistry,
         HoldsAppend, HoldsTick
    <2> QED
      BY <2>1, <2>2
  <1>a8. CASE WriteBytes(c)
    <2>1. CASE Fail(c)
      BY <2>1, FailTyped, ConstantsAssumption
    <2>2. CASE ~Fail(c)
      BY <1>a8, <2>2 DEF WriteBytes, Typed, Goto, local, Location, HoldsRegistry, HoldsAppend,
         HoldsTick
    <2> QED
      BY <2>1, <2>2
  <1>a9. CASE WriteMeta(c)
    <2>1. CASE Fail(c)
      BY <2>1, FailTyped, ConstantsAssumption
    <2>2. CASE ~Fail(c)
      <3>1. /\ left' = [left EXCEPT ![c] = Excess(ring[of[c]] \cup {gen[c]},
                                                  {g \in Gen : bytes[of[c]][g] # None})]
            /\ pc[c] = "meta" /\ pc' = [pc EXCEPT ![c] = "prune"]
            /\ UNCHANGED <<of, seen, prior, fetched, gen>>
        BY <1>a9, <2>2 DEF WriteMeta, Goto
      <3> QED
        BY <3>1, LeftTyped DEF Typed, Location, HoldsAppend
    <2> QED
      BY <2>1, <2>2
  <1>a10. CASE Prune(c)
    BY <1>a10 DEF Prune, Goto, local, evidence, snapshots, Location, HoldsRegistry, HoldsAppend,
       HoldsTick, Typed
  <1>a11. CASE PruneFails(c)
    <2>1. CASE Fail(c)
      BY <2>1, FailTyped, ConstantsAssumption
    <2>2. CASE ~Fail(c)
      BY <1>a11, <2>2 DEF PruneFails, Typed, Goto, local, Location, HoldsRegistry, HoldsAppend,
         HoldsTick
    <2> QED
      BY <2>1, <2>2
  <1>a12. CASE LogCheck(c)
    <2>1. CASE Fail(c)
      BY <2>1, FailTyped, ConstantsAssumption
    <2>2. CASE ~Fail(c)
      BY <1>a12, <2>2 DEF LogCheck, Typed, Goto, local, Location, HoldsRegistry, HoldsAppend,
         HoldsTick
    <2> QED
      BY <2>1, <2>2
  <1>a13. CASE LogWrite(c)
    BY <1>a13, EndTyped, FailTyped, ConstantsAssumption DEF LogWrite
  <1>a14. CASE ReadRegistry(c)
    BY <1>a14, <1>1 DEF ReadRegistry, Goto, local, evidence, snapshots, Location, HoldsRegistry,
       HoldsAppend, HoldsTick, Typed
  <1>a15. CASE AddWrite(c)
    BY <1>a15, EndTyped, ConstantsAssumption DEF AddWrite
  <1>a16. CASE RemoveWrite(c)
    <2>1. CASE End(c)
      BY <2>1, EndTyped, ConstantsAssumption
    <2>2. CASE ~End(c)
      BY <1>a16, <2>2 DEF RemoveWrite, Typed, Goto, local, Location, HoldsRegistry, HoldsAppend,
         HoldsTick, Live
    <2> QED
      BY <2>1, <2>2
  <1>a17. CASE PurgeEntry(c)
    BY <1>a17 DEF PurgeEntry, Goto, local, evidence, snapshots, Location, HoldsRegistry,
       HoldsAppend, HoldsTick, Typed
  <1>a18. CASE PurgeEnds(c)
    BY <1>a18, EndTyped, ConstantsAssumption DEF PurgeEnds
  <1>a19. CASE Crash(c)
    BY <1>a19, EndTyped, ConstantsAssumption DEF Crash
  <1> QED
    BY <1>a1, <1>a2, <1>a3, <1>a4, <1>a5, <1>a6, <1>a7, <1>a8, <1>a9, <1>a10, <1>a11, <1>a12,
       <1>a13, <1>a14, <1>a15, <1>a16, <1>a17, <1>a18, <1>a19 DEF Act

\* The registry: a live target is not a retired one.
LEMMA RegistryTyped ==
  ASSUME TypeOK, Typed, Carries, NEW c \in Command, Act(c)
  PROVE  registry' \in Registry /\ Live(registry') \cap registry'.retired = {}
  <1>1. Registering(c) /\ registry \in Registry /\ Live(registry) \cap registry.retired = {}
    BY Effects DEF Moves, TypeOK
  <1>2. pc[c] \in {"addWrite", "removeWrite"} => seen[c] = registry
    BY DEF Carries, CarriesFor
  <1>3. ASSUME NEW id \in Id \ (Live(registry) \cup registry.retired), NEW name \in Name,
               registry' = WithTarget(registry, id, name)
        PROVE  registry' \in Registry /\ Live(registry') \cap registry'.retired = {}
    BY <1>1, <1>3 DEF WithTarget, Registry, Live
  <1>4. ASSUME NEW id \in Live(registry), registry' = WithoutTarget(registry, id)
        PROVE  registry' \in Registry /\ Live(registry') \cap registry'.retired = {}
    BY <1>1, <1>4 DEF WithoutTarget, Registry, Live
  <1> QED
    BY <1>1, <1>2, <1>3, <1>4 DEF Registering

\* The evidence of a target keeps its types.
LEMMA TypeOKNext ==
  ASSUME TypeOK, Typed, Carries, PurgedIsRetired, RingIsTrue, JudgesTruly, NEW c \in Command, Act(c)
  PROVE  TypeOK'
  <1>1. Deed(c) /\ Logs(c) /\ Marks(c) /\ Purging(c) /\ Typed'
    BY Deeds, NotesTaken, Effects, TypedNext DEF Notes, Moves
  <1>2. /\ ring \in [Id -> SUBSET Gen] /\ bytes \in [Id -> [Gen -> Content \cup {None, Torn}]]
        /\ captured \in [Id -> Seq(Content)] /\ \A id \in Id : Len(captured[id]) <= MaxGen
        /\ log \in [Id -> (SUBSET Entry) \cup {{Unreadable}}]
    BY DEF TypeOK
  <1>3. /\ ring' \in [Id -> SUBSET Gen] /\ bytes' \in [Id -> [Gen -> Content \cup {None, Torn}]]
        /\ captured' \in [Id -> Seq(Content)] /\ \A id \in Id : Len(captured'[id]) <= MaxGen
    <2>1. CASE UNCHANGED snapshots
      BY <1>2, <2>1 DEF snapshots
    <2>2. CASE Opens(c) \/ Fills(c)
      <3>1. PICK g, v : bytes' = [bytes EXCEPT ![of[c]][g] = v] /\ v \in Content \cup {Torn}
        BY <2>2, Acts DEF Opens, Fills, Acting, Capturing
      <3>2. bytes' \in [Id -> [Gen -> Content \cup {None, Torn}]]
        BY <1>2, <3>1
      <3> QED
        BY <1>2, <2>2, <3>2 DEF Opens, Fills
    <2>3. CASE Lists(c)
      <3>1. /\ of[c] \in Id /\ gen[c] \in Gen /\ fetched[c] \in Content /\ gen[c] = Count(of[c]) + 1
        BY <2>3, Acts DEF Lists, Acting, Capturing, JudgesTruly, Judges
      <3>2. Append(captured[of[c]], fetched[c]) \in Seq(Content)
            /\ Len(Append(captured[of[c]], fetched[c])) = gen[c]
        BY <1>2, <3>1 DEF Count
      <3>3. gen[c] <= MaxGen
        BY <3>1, ConstantsAssumption DEF Gen, ConstantsAssumption
      <3>4. captured' = [captured EXCEPT ![of[c]] = Append(captured[of[c]], fetched[c])]
        BY <2>3 DEF Lists
      <3>5. captured' \in [Id -> Seq(Content)] /\ \A id \in Id : Len(captured'[id]) <= MaxGen
        BY <1>2, <3>1, <3>2, <3>3, <3>4
      <3> QED
        BY <1>2, <2>3, <3>1, <3>5 DEF Lists
    <2>4. CASE Unlinks(c)
      <3>1. PICK g \in left[c] :
               \/ ring' = [ring EXCEPT ![of[c]] = @ \ {g}] /\ UNCHANGED bytes
               \/ bytes' = [bytes EXCEPT ![of[c]][g] = None] /\ UNCHANGED ring
        BY <2>4 DEF Unlinks
      <3>2. CASE ring' = [ring EXCEPT ![of[c]] = @ \ {g}] /\ UNCHANGED bytes
        BY <1>2, <2>4, <3>2 DEF Unlinks
      <3>3. CASE bytes' = [bytes EXCEPT ![of[c]][g] = None] /\ UNCHANGED ring
        BY <1>2, <2>4, <3>3 DEF Unlinks
      <3> QED
        BY <3>1, <3>2, <3>3
    <2>5. CASE Clears(c)
      <3>1. [g \in Gen |-> None] \in [Gen -> Content \cup {None, Torn}]
        OBVIOUS
      <3> QED
        <4>1. ring' \in [Id -> SUBSET Gen]
          BY <1>2, <2>5 DEF Clears
        <4>2. CASE bytes' = [bytes EXCEPT ![of[c]] = [g \in Gen |-> None]]
          BY <1>2, <2>5, <3>1, <4>1, <4>2 DEF Clears
        <4>3. CASE bytes' = bytes
          BY <1>2, <2>5, <4>1, <4>3 DEF Clears
        <4> QED
          BY <2>5, <4>2, <4>3 DEF Clears
    <2>6. CASE Forgets(c)
      <3>1. <<>> \in Seq(Content) /\ Len(<<>>) = 0
        OBVIOUS
      <3>2. captured' = [captured EXCEPT ![of[c]] = <<>>]
        BY <2>6 DEF Forgets
      <3>3. captured' \in [Id -> Seq(Content)] /\ \A id \in Id : Len(captured'[id]) <= MaxGen
        <4>1. \A id \in Id : captured'[id] = captured[id] \/ captured'[id] = <<>>
          BY <1>2, <3>2
        <4>2. MaxGen \in Nat
          BY ConstantsAssumption DEF ConstantsAssumption
        <4>3. captured' \in [Id -> Seq(Content)]
          BY <1>2, <3>1, <3>2
        <4> QED
          BY <1>2, <3>1, <4>1, <4>2, <4>3
      <3> QED
        BY <1>2, <2>6, <3>3 DEF Forgets
    <2> QED
      BY <1>1, <2>1, <2>2, <2>3, <2>4, <2>5, <2>6 DEF Deed, Rests
  <1>4. log' \in [Id -> (SUBSET Entry) \cup {{Unreadable}}]
    <2>1. CASE Adds(c)
      <3>1. of[c] \in Id /\ LogEntry(c) \in Entry
        <4>1. of[c] \in Id /\ gen[c] \in 0..MaxGen
          BY <2>1 DEF Adds, Writing, Carries, CarriesFor, Typed
        <4>2. gen[c] # 0 => gen[c] \in Gen
          BY <4>1, ConstantsAssumption DEF Gen, ConstantsAssumption
        <4>3. Verdict(prior[c], fetched[c]) \in {"baseline", "no-change", "change", "moved"}
          BY DEF Verdict
        <4> QED
          BY <4>1, <4>2, <4>3 DEF LogEntry, Entry
      <3>2. Unreadable \notin log[of[c]] => log[of[c]] \cup {LogEntry(c)} \in SUBSET Entry
        <4>1. log[of[c]] \in SUBSET Entry \/ log[of[c]] = {Unreadable}
          BY <1>2, <3>1
        <4> QED
          BY <3>1, <4>1
      <3> QED
        BY <1>2, <2>1, <3>1, <3>2 DEF Adds
    <2>2. CASE ~Adds(c)
      BY <1>1, <1>2, <2>2 DEF Logs
    <2> QED
      BY <2>1, <2>2
  <1>5. Live(registry') = Live(registry)'
    BY DEF Live
  <1>6. unlogged' \in [Id -> SUBSET Gen]
    BY <1>1 DEF TypeOK, Marks, Unlogged, Gen
  <1>7. purge' \in [Id -> {"no", "begun", "done"}]
    BY <1>1 DEF TypeOK, Purging
  <1> QED
    BY <1>1, <1>2, <1>3, <1>4, <1>5, <1>6, <1>7, RegistryTyped DEF TypeOK, Typed

-----------------------------------------------------------------------------
\* No target has evidence at first.
LEMMA IInvInit == Init => IInv
  <1> SUFFICES ASSUME Init PROVE IInv
    OBVIOUS
  <1>1. TypeOK
    <2>1. \A id \in Id : captured[id] = <<>>
      BY DEF Init
    <2>2. captured \in [Id -> Seq(Content)] /\ \A id \in Id : Len(captured[id]) <= MaxGen
      BY <2>1, ConstantsAssumption DEF Init, ConstantsAssumption
    <2>3. registry \in Registry /\ Live(registry) \cap registry.retired = {}
      BY DEF Init, Registry, Live
    <2> QED
      BY <2>2, <2>3, ConstantsAssumption DEF Init, TypeOK, Location, ConstantsAssumption
  <1>2. Exclusive /\ Carries /\ JudgesTruly
    BY DEF Init, Exclusive, TickExclusive, AppendExclusive, RegistryExclusive, HoldsTick,
       HoldsAppend,
           HoldsRegistry, Carries, CarriesFor, JudgesTruly, Judges, Capturing, Logging
  <1>3. PurgedIsRetired /\ PurgesRing /\ PurgedStaysGone
    BY DEF Init, PurgedIsRetired, PurgePlaces, Writes, PurgesRing, PurgedStaysGone
  <1>4. RingIsTrue /\ EntriesAreTrue /\ EveryChangeLogged
    <2>1. \A id \in NotPurged : id \in Id /\ ring[id] = {} /\ log[id] = {} /\ captured[id] = <<>>
      BY DEF Init, NotPurged
    <2> QED
      BY <2>1 DEF RingIsTrue, Count, EntriesAreTrue, EveryChangeLogged
  <1> QED
    BY <1>1, <1>2, <1>3, <1>4 DEF IInv

\* The invariants hold together: each step's lemma needs the others.
LEMMA IInvNext == IInv /\ [Next]_vars => IInv'
  <1> SUFFICES ASSUME IInv, [Next]_vars PROVE IInv'
    OBVIOUS
  <1>1. ASSUME NEW c \in Command, Act(c) PROVE IInv'
    <2>1. Typed
      BY TypedLocals DEF IInv
    <2>2. TypeOK' /\ Carries' /\ PurgedIsRetired' /\ RingIsTrue' /\ PurgesRing' /\ JudgesTruly'
      BY <1>1, <2>1, TypeOKNext, CarriesNext, PurgedIsRetiredNext, RingIsTrueNext, PurgesRingNext,
         JudgesTrulyNext DEF IInv, Exclusive
    <2>3. Exclusive'
      BY <1>1, <2>1, TickExclusiveNext, AppendExclusiveNext, RegistryExclusiveNext DEF IInv,
         Exclusive
    <2>4. EntriesAreTrue' /\ EveryChangeLogged' /\ PurgedStaysGone'
      BY <1>1, <2>1, EntriesAreTrueNext, EveryChangeLoggedNext, PurgedStaysGoneNext DEF IInv
    <2> QED
      BY <2>2, <2>3, <2>4 DEF IInv
  <1>2. CASE UNCHANGED vars
    <2>1. TypeOK' /\ Exclusive' /\ Carries' /\ PurgedIsRetired'
      BY <1>2 DEF IInv, vars, evidence, snapshots, local, TypeOK, Live, Exclusive, TickExclusive,
                  AppendExclusive, RegistryExclusive, Carries, CarriesFor, PurgedIsRetired
    <2>2. RingIsTrue' /\ PurgesRing' /\ JudgesTruly' /\ PurgedStaysGone'
      BY <1>2 DEF IInv, vars, evidence, snapshots, local, RingIsTrue, Count, NotPurged, PurgesRing,
                  JudgesTruly, Judges, Before, PurgedStaysGone
    <2>3. EntriesAreTrue' /\ EveryChangeLogged'
      BY <1>2 DEF IInv, vars, evidence, snapshots, local, NotPurged, EntriesAreTrue,
                  EveryChangeLogged, TrueEntry, Unlogged
    <2> QED
      BY <2>1, <2>2, <2>3 DEF IInv
  <1> QED
    BY <1>1, <1>2 DEF Next, Act

\* The invariant holds in every reachable state.
LEMMA Inductive == Spec => []IInv
  BY IInvInit, IInvNext, PTL DEF Spec

\* The registry, the evidence and what each command knows keep their types; no
\* target is live and retired at once.
THEOREM TypeCorrect == Spec => []TypeOK
  <1>1. IInv => TypeOK
    BY DEF IInv
  <1> QED
    BY <1>1, Inductive, PTL

\* commands/watch.ts takes the tick lock around fetch, capture and log: every
\* generation gets its verdict into the change log, however ticks overlap.
THEOREM EveryChangeLoggedHolds == Spec => []EveryChangeLogged
  <1>1. IInv => EveryChangeLogged
    BY DEF IInv
  <1> QED
    BY <1>1, Inductive, PTL

\* A verdict in the change log is the difference to the generation before.
THEOREM EntriesAreTrueHolds == Spec => []EntriesAreTrue
  <1>1. IInv => EntriesAreTrue
    BY DEF IInv
  <1> QED
    BY <1>1, Inductive, PTL

\* Whatever dies or fails between the bytes, the metadata and the prune of
\* appendSnapshot, the newest listed generation is the last captured, whole.
THEOREM NewestReadsHolds == Spec => []NewestReads
  <1>1. IInv => NewestReads
    <2> SUFFICES ASSUME IInv, NEW id \in NotPurged, ring[id] # {}
                 PROVE  /\ Newest(id) = Len(captured[id])
                        /\ bytes[id][Newest(id)] = captured[id][Newest(id)]
      BY DEF NewestReads
    <2>1. Newest(id) = Count(id) /\ Count(id) \in Nat /\ ring[id] \subseteq 1..Count(id)
      BY NewestIsCount DEF IInv, RingIsTrue
    <2>2. Count(id) > 0
      BY <2>1
    <2> QED
      BY <2>1, <2>2 DEF IInv, RingIsTrue, Count
  <1> QED
    BY <1>1, Inductive, PTL

\* What watch remove --purge has removed is not recreated by a tick that was
\* under way, nor by a later target that has the id as its name.
THEOREM PurgedStaysGoneHolds == Spec => []PurgedStaysGone
  <1>1. IInv => PurgedStaysGone
    BY DEF IInv
  <1> QED
    BY <1>1, Inductive, PTL
=============================================================================
